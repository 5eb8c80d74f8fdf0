----------------------------- MODULE NotchPages -----------------------------
(***************************************************************************)
(* The pages of the notch that read the chain (app/src/notch): the rules   *)
(* and tasks pages share a cache that outlives them, the history page      *)
(* reads page after page, the wallet page reads the account it is given.   *)
(* The active account lives in the native side; the pages hear of a switch *)
(* by an event, while every read asks the native side again.               *)
(***************************************************************************)
EXTENDS Naturals, Sequences, FiniteSets

CONSTANTS Owners,        \* accounts the wallet may switch to
          Kinds,         \* the pages: "rules", "tasks", "history", "wallet"
          MaxReads,      \* reads of the cache that may be under way at once
          MaxSwitches,   \* switches of the active account
          MaxVisits      \* times a page is opened, refreshed or acted upon

Absent == "none"

VARIABLES
    native,    \* the active account, and how often it was switched
    events,    \* session events on their way to the webview
    known,     \* walletSessionStore: the account the webview believes active
    cache,     \* a page's module snapshot: whose it is, its key and value, the newest read
    read,      \* the reads of the cache
    page,      \* the page that is open
    visits

pageVars == <<native, events, known, cache, read, page, visits>>

-----------------------------------------------------------------------------
(* What a page is given to show.                                            *)

\* A scope key names an account and, once a read told it, the network.
PREVIEW_KEY      == <<"preview", "">>
scopeKey(owner)  == <<owner, "testnet">>
AskedKey(owner)  == IF owner = Absent THEN PREVIEW_KEY ELSE <<owner, "">>
NoKey            == <<"none", "">>

\* Whose data a snapshot holds; a form's limits are those of its owner's rule.
Nothing == "nothing"
NoEntry == [key |-> NoKey, value |-> Nothing]

\* The stored key, when it is of this owner.
seedKeyFor(stored, owner) ==
    IF owner = Absent THEN IF stored = PREVIEW_KEY THEN stored ELSE NoKey
    ELSE IF stored = scopeKey(owner) THEN stored ELSE NoKey

peek(c, key) == IF key # NoKey /\ c.entry.key = key THEN c.entry.value ELSE Nothing

\* rules: an account the webview does not know of may be anybody's.
ownerGuardAllows(liveOwner, snapshotOwner) == liveOwner = Absent \/ snapshotOwner = liveOwner

\* The rules page hides a rule of another account, the tasks page rows read for another.
Shown(p, owner) ==
    CASE p.kind = "rules" -> IF ownerGuardAllows(owner, p.shows) THEN p.shows ELSE Nothing
      [] p.kind = "tasks" -> IF p.shownFor = owner THEN p.shows ELSE Nothing
      [] OTHER -> p.shows

tasksViewState(p, owner) ==
    IF Shown(p, owner) \in Owners THEN "rows"
    ELSE IF p.loading THEN "skeleton" ELSE IF p.error THEN "error" ELSE "empty"

\* The wallet page: no configuration yet, no account, nothing read, or the answer.
deriveWalletPageView(p, owner) ==
    IF ~p.configured THEN "loading"
    ELSE IF owner = Absent THEN "unconfigured"
    ELSE IF p.shows = Nothing THEN IF p.error THEN "offline" ELSE "loading"
    ELSE "ready"

\* The form of an account's rule; without one, the form of a fresh editor.
rulesFormFromState(value) == IF value \in Owners THEN value ELSE Nothing

NoPage == [kind |-> Absent, first |-> FALSE, previous |-> Absent, awaits |-> 0, shows |-> Nothing,
           shownFor |-> Absent, loading |-> FALSE, refreshing |-> FALSE, error |-> FALSE,
           stale |-> FALSE, form |-> Nothing, dirty |-> FALSE, busy |-> Absent,
           configured |-> FALSE, cursor |-> FALSE, more |-> FALSE]

-----------------------------------------------------------------------------
(* The cache: one snapshot, and only the newest read, the one of the last    *)
(* generation, may write it.                                                *)

NoRead   == [step |-> "off", key |-> NoKey, cfg |-> Absent]
NoCache(kind) == [of |-> kind, entry |-> NoEntry, inFlight |-> 0]

FreeRead(reads) == CHOOSE r \in DOMAIN reads : reads[r].step = "off"
CanRead(reads)  == \E r \in DOMAIN reads : reads[r].step = "off"

\* clear(): a late result is ignored, as the read is the newest no more.
clear(c) == [c EXCEPT !.entry = NoEntry, !.inFlight = 0]

\* load(key): joins the read of the same key, unless forced.
load(c, reads, key, force) ==
    IF ~force /\ c.inFlight # 0 /\ reads[c.inFlight].key = key
    THEN [cache |-> c, read |-> reads, awaits |-> c.inFlight]
    ELSE LET r == FreeRead(reads)
         IN  [cache |-> [c EXCEPT !.inFlight = r],
              read |-> [reads EXCEPT ![r] = [step |-> "config", key |-> key, cfg |-> Absent]],
              awaits |-> r]

\* The body of the effect of useRulesEditor and useTasksData: on a switch what is
\* shown is dropped with the cache, then a read is asked for, and the page
\* attends to its answer alone.
OwnerChanged(p, owner) == ~p.first /\ p.previous # owner

rulesReset(p) ==
    [p EXCEPT !.loading = TRUE, !.shows = Nothing, !.form = Nothing, !.dirty = FALSE,
              !.error = FALSE, !.stale = FALSE, !.refreshing = FALSE]
tasksReset(p, owner) ==
    [p EXCEPT !.loading = TRUE, !.shows = Nothing, !.shownFor = owner,
              !.error = FALSE, !.stale = FALSE, !.refreshing = FALSE]

\* With a seed the read goes on behind what is shown; without one the tasks page loads.
Revalidates(p, seeded) ==
    IF seeded THEN [p EXCEPT !.refreshing = TRUE]
    ELSE IF p.kind = "tasks" THEN [p EXCEPT !.loading = TRUE] ELSE p

Effect(p, owner) ==
    LET changed == OwnerChanged(p, owner)
        c       == IF changed THEN clear(cache) ELSE cache
        seed    == seedKeyFor(c.entry.key, owner)
        reset   == IF ~changed THEN Revalidates(p, seed # NoKey)
                   ELSE IF p.kind = "rules" THEN rulesReset(p) ELSE tasksReset(p, owner)
        asks    == load(c, read, IF seed # NoKey THEN seed ELSE AskedKey(owner), ~p.first)
    IN  /\ page'  = [reset EXCEPT !.first = FALSE, !.previous = owner, !.awaits = asks.awaits]
        /\ cache' = asks.cache
        /\ read'  = asks.read

Cached(kind) == kind \in {"rules", "tasks"}

-----------------------------------------------------------------------------
(* The session.                                                             *)

\* The native side switches, locks or logs out, and says so.
SwitchesAccount ==
    /\ native.switches < MaxSwitches
    /\ \E owner \in (Owners \cup {Absent}) \ {native.owner} :
           /\ native' = [owner |-> owner, switches |-> native.switches + 1]
           /\ events' = Append(events, owner)
    /\ UNCHANGED <<known, cache, read, page, visits>>

\* walletSessionStore.refresh: the answer takes its turn among the events.
AsksSession ==
    /\ visits < MaxVisits
    /\ events' = Append(events, native.owner)
    /\ visits' = visits + 1
    /\ UNCHANGED <<native, known, cache, read, page>>

\* Every subscriber renders again with the account it is told.
Learns(owner) ==
    /\ known' = owner
    /\ IF Cached(page.kind) /\ owner # page.previous
       THEN CanRead(read) /\ Effect(page, owner)
       ELSE UNCHANGED <<cache, read, page>>

HearsSession ==
    /\ events # <<>> /\ page.kind # "wallet"
    /\ Learns(Head(events))
    /\ events' = Tail(events)
    /\ UNCHANGED <<native, visits>>

-----------------------------------------------------------------------------
(* The rules and tasks pages.                                               *)

\* A page opens on the snapshot of its owner, if there is one.
OpensCached ==
    /\ page.kind = Absent /\ visits < MaxVisits /\ cache.of # Absent /\ CanRead(read)
    /\ LET kind  == cache.of
           value == peek(cache, seedKeyFor(cache.entry.key, known))
           fresh == [NoPage EXCEPT !.kind = kind, !.first = TRUE, !.shows = value,
                                   !.shownFor = IF kind = "tasks" THEN known ELSE Absent,
                                   !.form = IF kind = "rules" THEN rulesFormFromState(value) ELSE Nothing,
                                   !.loading = value = Nothing]
       IN  Effect(fresh, known)
    /\ visits' = visits + 1
    /\ UNCHANGED <<native, events, known>>

\* Its reads go on, and nobody attends to them.
ClosesPage ==
    /\ page.kind # Absent /\ visits < MaxVisits
    /\ page' = NoPage
    /\ UNCHANGED <<native, events, known, cache, read, visits>>

RefreshesCached ==
    /\ Cached(page.kind) /\ visits < MaxVisits /\ page.busy = Absent /\ CanRead(read)
    /\ page.kind = "rules" => ~page.loading /\ ~page.refreshing
    /\ Effect(page, known)
    /\ visits' = visits + 1
    /\ UNCHANGED <<native, events, known>>

\* loadEditorSnapshot, loadTasks: first the configuration, whose account is the key.
ReadsConfig(r) ==
    /\ read[r].step = "config"
    /\ read' = [read EXCEPT ![r].step = "values", ![r].cfg = native.owner]
    /\ UNCHANGED <<native, events, known, cache, page, visits>>

\* What the read came to, as the page that attends to it applies it.
rulesApply(p, value) ==
    [p EXCEPT !.loading = FALSE, !.error = FALSE, !.shows = value,
              !.form = IF p.dirty THEN @ ELSE rulesFormFromState(value)]
Answered(p, result) ==
    LET q == [p EXCEPT !.awaits = 0, !.refreshing = FALSE,
                       !.shownFor = IF p.kind = "tasks" THEN p.previous ELSE Absent,
                       !.stale = result.stale]
    IN  IF result.value = Nothing THEN [q EXCEPT !.loading = FALSE, !.error = TRUE, !.shows = Nothing]
        ELSE IF p.kind = "rules" THEN rulesApply(q, result.value)
        ELSE [q EXCEPT !.loading = FALSE, !.error = FALSE, !.shows = result.value]

\* Faulty variant: an older read may still write the snapshot, and answers with it.
settleAnyway(c, r, key, ok, newKey, value) ==
    [entry |-> IF ok THEN [key |-> newKey, value |-> value] ELSE c.entry,
     result |-> [value |-> IF ok THEN value ELSE c.entry.value, stale |-> FALSE]]

\* settle: a superseded read writes nothing; a failed one falls back on the last
\* good snapshot of the key it was asked for.
settle(c, r, key, ok, newKey, value) ==
    [entry |-> IF ok /\ c.inFlight = r THEN [key |-> newKey, value |-> value] ELSE c.entry,
     result |-> IF ok THEN [value |-> value, stale |-> FALSE]
                ELSE LET last == IF c.inFlight = r /\ c.entry.key = key
                                 THEN c.entry.value ELSE Nothing
                     IN  [value |-> last, stale |-> last # Nothing]]

SettlesRead(r, ok, newKey, value) ==
    LET s == settle(cache, r, read[r].key, ok, newKey, value)
    IN  /\ cache' = [cache EXCEPT !.entry = s.entry, !.inFlight = IF @ = r THEN 0 ELSE @]
        /\ page'  = IF page.awaits = r THEN Answered(page, s.result) ELSE page
        /\ read'  = [read EXCEPT ![r] = NoRead]
        /\ UNCHANGED <<native, events, known, visits>>

\* Without an account the rules page has an answer, the tasks page has none; the
\* data themselves are read for the account the configuration names by then.
editorSnapshotFrom(ownerAddress) == IF ownerAddress = Absent THEN Absent ELSE native.owner

loadEditorSnapshot(r) ==
    IF read[r].cfg = Absent THEN SettlesRead(r, TRUE, PREVIEW_KEY, editorSnapshotFrom(Absent))
    ELSE /\ native.owner # Absent
         /\ SettlesRead(r, TRUE, scopeKey(read[r].cfg), editorSnapshotFrom(read[r].cfg))

\* tasksSource, rowsFromUpcoming: the schedules of the account configured by now.
loadUpcoming == native.owner

loadTasks(r) ==
    IF read[r].cfg = Absent THEN SettlesRead(r, FALSE, NoKey, Nothing)
    ELSE native.owner # Absent /\ SettlesRead(r, TRUE, scopeKey(read[r].cfg), loadUpcoming)

ReadsValues(r) ==
    /\ read[r].step = "values"
    /\ IF cache.of = "rules" THEN loadEditorSnapshot(r) ELSE loadTasks(r)

\* The configuration or the chain is out of reach.
ReadFails(r) ==
    /\ read[r].step \in {"config", "values"}
    /\ SettlesRead(r, FALSE, NoKey, Nothing)

\* patch: from then on a background read leaves the form alone.
Patches ==
    /\ page.kind = "rules" /\ page.busy = Absent /\ Shown(page, known) \in Owners /\ page.form # "typed"
    /\ page' = [page EXCEPT !.form = "typed", !.dirty = TRUE]
    /\ UNCHANGED <<native, events, known, cache, read, visits>>

\* run: saved for the account it was read for, or not at all.
Saves ==
    /\ page.kind = "rules" /\ page.busy = Absent /\ visits < MaxVisits
    /\ page.shows \in Owners /\ ownerGuardAllows(known, page.shows)
    /\ page' = [page EXCEPT !.busy = page.shows]
    /\ visits' = visits + 1
    /\ UNCHANGED <<native, events, known, cache, read>>

\* It answers, and the rule is read again in any case.
SaveEnds(done) ==
    /\ page.kind = "rules" /\ page.busy # Absent /\ CanRead(read)
    /\ Effect([page EXCEPT !.busy = Absent, !.dirty = @ /\ ~done], known)
    /\ UNCHANGED <<native, events, known, visits>>

\* cancelIntentFor: a row of the chain can be cancelled; a form can become a schedule.
ActsOnTask ==
    /\ page.kind = "tasks" /\ page.busy = Absent /\ visits < MaxVisits
    /\ tasksViewState(page, known) \in {"rows", "empty"}
    /\ page' = [page EXCEPT !.busy = page.shownFor]
    /\ visits' = visits + 1
    /\ UNCHANGED <<native, events, known, cache, read>>

\* The tasks are read again when something was submitted.
TaskEnds(done) ==
    /\ page.kind = "tasks" /\ page.busy # Absent /\ CanRead(read)
    /\ LET idle == [page EXCEPT !.busy = Absent]
       IN  IF done THEN Effect(idle, known) ELSE page' = idle /\ UNCHANGED <<cache, read>>
    /\ UNCHANGED <<native, events, known, visits>>

-----------------------------------------------------------------------------
(* The history page reads on from a cursor; nothing tells it of a switch.   *)

HistoryFrom == [NoPage EXCEPT !.kind = "history", !.loading = TRUE]

OpensHistory ==
    /\ page.kind \in {Absent, "history"} /\ visits < MaxVisits
    /\ page' = [HistoryFrom EXCEPT !.more = page.more]
    /\ visits' = visits + 1
    /\ UNCHANGED <<native, events, known, cache, read>>

\* The first rows of the configured account; without one, those of the demo.
ReadsHistory ==
    /\ page.kind = "history" /\ page.loading
    /\ \E reachable \in BOOLEAN, more \in BOOLEAN :
           page' = [page EXCEPT !.loading = FALSE, !.error = ~reachable,
                                !.shows = IF reachable THEN native.owner ELSE Nothing,
                                !.cursor = reachable /\ native.owner # Absent /\ more]
    /\ UNCHANGED <<native, events, known, cache, read, visits>>

loadMore ==
    /\ page.kind = "history" /\ page.cursor /\ ~page.more /\ visits < MaxVisits
    /\ page' = [page EXCEPT !.more = TRUE]
    /\ visits' = visits + 1
    /\ UNCHANGED <<native, events, known, cache, read>>

\* Older rows join those shown by then, of whichever reading they are.
LoadsMore ==
    /\ page.kind = "history" /\ page.more
    /\ \E reachable \in BOOLEAN, more \in BOOLEAN :
           page' = [page EXCEPT !.more = FALSE, !.cursor = IF reachable THEN more ELSE @]
    /\ UNCHANGED <<native, events, known, cache, read, visits>>

-----------------------------------------------------------------------------
(* The wallet page is told its account by the session; a read of it is not  *)
(* given up when the account changes.                                       *)

OpensWallet ==
    /\ page.kind = Absent /\ visits < MaxVisits
    /\ page' = [NoPage EXCEPT !.kind = "wallet"]
    /\ visits' = visits + 1
    /\ UNCHANGED <<native, events, known, cache, read>>

\* Reading the configuration, and a new account, start a read.
WalletLearns(owner) ==
    /\ known' = owner
    /\ page' = IF page.configured /\ owner # Absent /\ owner # known
               THEN [page EXCEPT !.refreshing = TRUE, !.awaits = @ + 1, !.previous = owner] ELSE page
    /\ UNCHANGED <<native, cache, read, visits>>

WalletHearsSession ==
    /\ page.kind = "wallet" /\ events # <<>>
    /\ WalletLearns(Head(events))
    /\ events' = Tail(events)

ReadsWalletConfig ==
    /\ page.kind = "wallet" /\ ~page.configured
    /\ page' = [page EXCEPT !.configured = TRUE, !.previous = known,
                            !.refreshing = known # Absent, !.awaits = IF known # Absent THEN 1 ELSE 0]
    /\ UNCHANGED <<native, events, known, cache, read, visits>>

RefreshesWallet ==
    /\ page.kind = "wallet" /\ page.configured /\ known # Absent /\ visits < MaxVisits
    /\ page' = [page EXCEPT !.refreshing = TRUE, !.awaits = @ + 1]
    /\ visits' = visits + 1
    /\ UNCHANGED <<native, events, known, cache, read>>

\* toAccountResult: an answer to one of the reads, the newest account's or an older one's.
ReadsWallet ==
    /\ page.kind = "wallet" /\ page.awaits > 0
    /\ \E reachable \in BOOLEAN :
           page' = [page EXCEPT !.awaits = @ - 1, !.refreshing = FALSE, !.error = ~reachable,
                                !.shows = IF reachable THEN page.previous ELSE Nothing]
    /\ UNCHANGED <<native, events, known, cache, read, visits>>

-----------------------------------------------------------------------------
PagesInit ==
    /\ native \in {[owner |-> owner, switches |-> 0] : owner \in Owners}
    /\ known = native.owner /\ events = <<>>
    /\ cache \in {NoCache(kind) : kind \in Kinds \cap {"rules", "tasks"}}
    /\ read = [r \in 1 .. MaxReads |-> NoRead]
    /\ page = NoPage /\ visits = 0

ReadGoesOn(r) == ReadsConfig(r) \/ ReadsValues(r) \/ ReadFails(r)
ActEnds == \E done \in BOOLEAN : SaveEnds(done) \/ TaskEnds(done)

PagesGoOn == (\E r \in 1 .. MaxReads : ReadGoesOn(r)) \/ ActEnds \/ ReadsHistory \/ LoadsMore \/ ReadsWalletConfig \/ ReadsWallet
SessionArrives == HearsSession \/ WalletHearsSession

PagesNext ==
    \/ SwitchesAccount \/ AsksSession \/ SessionArrives \/ PagesGoOn
    \/ OpensCached \/ ClosesPage \/ RefreshesCached \/ Patches \/ Saves \/ ActsOnTask
    \/ "history" \in Kinds /\ (OpensHistory \/ loadMore)
    \/ "wallet" \in Kinds /\ (OpensWallet \/ RefreshesWallet)

PagesSpec == PagesInit /\ [][PagesNext]_pageVars

\* Reads, answers and events arrive in the end.
PagesFairSpec ==
    PagesSpec /\ WF_pageVars(SessionArrives)
    /\ \A r \in 1 .. MaxReads : WF_pageVars(ReadGoesOn(r))
    /\ WF_pageVars(ActEnds)
    /\ WF_pageVars(ReadsHistory) /\ WF_pageVars(LoadsMore)
    /\ WF_pageVars(ReadsWalletConfig) /\ WF_pageVars(ReadsWallet)

-----------------------------------------------------------------------------
(* Properties.                                                              *)

Spins == \/ page.refreshing \/ page.more
         \/ page.kind # "wallet" /\ page.loading
         \/ page.kind = "wallet" /\ deriveWalletPageView(page, known) = "loading"

\* However switches, refreshes, closings and failed reads interleave, once they
\* stop no page is left loading, and the rules and tasks pages show nothing but
\* the active account's data, unless they say that they could not refresh
\* (useRulesEditor, useTasksData, snapshotCache).
PagesSettle ==
    <>[](/\ ~Spins
         /\ Cached(page.kind) => \/ page.stale
                                 \/ Shown(page, known) \in {Nothing, Absent, native.owner})
=============================================================================
