---------------------------- MODULE MCNotchFlows ----------------------------
(* What the user meets in the notch and the windows, and what must come to   *)
(* an end there: the wallet session with its prompts, the pages, the first   *)
(* run.  A behaviour belongs to one part and leaves the others in an initial *)
(* state: in this instance the parts do not meet.  The bounds of the pages   *)
(* and of the first run are below; the session's are in the configuration.   *)
EXTENDS WalletSession

VARIABLES
    part,
    native, events, known, cache, read, page, visits,
    flow, permissions, inbox, macos, dialog, told, window, completed, changes, failures

Pages == INSTANCE NotchPages
    WITH Owners <- {"a", "b"}, Kinds <- {"rules", "tasks", "history", "wallet"},
         MaxReads <- 2, MaxSwitches <- 2, MaxVisits <- 2
Start == INSTANCE FirstRun
    WITH MaxReads <- 2, MaxChanges <- 1, MaxFailures <- 1, page <- permissions

pageVars == <<native, events, known, cache, read, page, visits>>
startVars == <<flow, permissions, inbox, macos, dialog, told, window, completed, changes, failures>>

FlowsInit ==
    /\ part \in {"wallet", "pages", "start"}
    /\ Init /\ (part # "wallet" => auto_lock_minutes = 0)
    /\ Pages!PagesInit /\ (part # "pages" => native.owner = "a" /\ cache = Pages!NoCache("rules"))
    /\ Start!RunInit /\ (part # "start" => \A key \in DOMAIN macos : macos[key] = "denied")

WalletPart == part = "wallet" /\ Next /\ UNCHANGED <<part, pageVars, startVars>>
PagesPart == part = "pages" /\ Pages!PagesNext /\ UNCHANGED <<part, vars, startVars>>
\* Bounds of the first run: one lesson is passed and the other skipped, of changes and
\* failures there is one together, and a finished flow is not walked through again.
OneOfEach ==
    /\ flow'.passed \subseteq {"permissions", "push-to-talk"}
    /\ flow'.skipped \subseteq {"permissions", "type-prompt"}
    /\ changes' + failures' <= 1
    /\ completed' => flow'.step = "ready" \/ window' = "none"
StartPart == part = "start" /\ Start!RunNext /\ OneOfEach /\ UNCHANGED <<part, vars, pageVars>>

FlowsNext == WalletPart \/ PagesPart \/ StartPart

\* Each part's own fairness, as its module states it; ApprovalGate's for the threads.
FlowsFairness ==
    /\ WF_vars(part = "wallet" /\ TickerWakes)
    /\ WF_vars(part = "wallet" /\ TickerInvalidates)
    /\ \A t \in Tasks :
          WF_vars(/\ part = "wallet" /\ TaskStep(t)
                  /\ UNCHANGED <<loginVars, main, ticker, session, begun_in, logged_out>>)
    /\ WF_pageVars(part = "pages" /\ Pages!SessionArrives)
    /\ \A r \in 1 .. 2 : WF_pageVars(part = "pages" /\ Pages!ReadGoesOn(r))
    /\ WF_pageVars(part = "pages" /\ Pages!ActEnds)
    /\ WF_pageVars(part = "pages" /\ Pages!ReadsHistory)
    /\ WF_pageVars(part = "pages" /\ Pages!LoadsMore)
    /\ WF_pageVars(part = "pages" /\ Pages!ReadsWalletConfig)
    /\ WF_pageVars(part = "pages" /\ Pages!ReadsWallet)
    /\ WF_startVars(part = "start" /\ Start!Visible /\ Start!Reads)
    /\ WF_startVars(part = "start" /\ Start!Visible /\ Start!Arrives(1))

FlowsSpec ==
    FlowsInit /\ [][FlowsNext]_<<part, vars, pageVars, startVars>> /\ FlowsFairness

\* A page that is left alone shows the active account's data or says that it cannot:
\* useRulesEditor.ts, useTasksData.ts, useHistoryData.ts, useWalletData.ts.
PagesSettle == part = "pages" => Pages!PagesSettle

\* What the user grants is noticed by the page that asks for it: usePermissions.ts.
GrantIsNoticed == part = "start" => Start!GrantIsNoticed
=============================================================================
