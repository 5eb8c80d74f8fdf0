----------------------------- MODULE TurnHistory -----------------------------
(***************************************************************************)
(* The history page (app/src/lib/turnLog.ts, lib/history.ts,               *)
(* notch/history and notch/data/useHistoryData.ts): the local log of the   *)
(* turns, the owner's payments as Horizon pages them, offers and anchor    *)
(* steps, merged into one timeline.                                        *)
(*                                                                         *)
(* Turns are spoken, talked over, answered and executed while the page     *)
(* reads; when a new one may start is the turn session's matter (VoiceTurn) *)
(* and here it always may.  The store may lose any write, and the          *)
(* application may stop at any moment.  A payment is known by its          *)
(* transaction's hash, here the turn that made it or a number of its own;  *)
(* a text is its topic, and links, memos, fees, wording and the kind and   *)
(* amount that a turn may carry but no flow gives it are left out.         *)
(***************************************************************************)
EXTENDS Integers, Sequences, FiniteSets, Functions

CONSTANTS
    Owner,          \* the configured account
    Accounts,       \* well-formed addresses, the owner's included
    Payees,         \* whom the owner's turns pay
    AliasNames,     \* well-formed alias names, in the order they are listed
    Books,          \* configurations: aliases of the environment and committed ones
    Incoming,       \* transactions of others: sequences of Horizon records
    Topics,         \* what a transcript or an answer is about
    Lanes,          \* what the P2P contract and the anchor session may answer
    Stores,         \* what the store holds before the first turn
    TURN_LOG_LIMIT, PAGE_SIZE, MAX_ROWS,
    DAY,            \* ticks in a day
    MaxTurns, MaxRecords, LastTick, MaxVisits

VARIABLES
    log,        \* localStorage: the turn log, newest first
    turns,      \* turns so far; the newest one is current
    running,    \* turns and payments under way
    ledger,     \* the payments endpoint: its records, oldest first
    aliases,    \* stellar_config's aliases and aliases.json
    logClock,
    timeline,   \* useHistoryData
    visits      \* readings of the page so far

historyVars == <<log, turns, running, ledger, aliases, logClock, timeline, visits>>

-----------------------------------------------------------------------------
(* Sequences by their places.                                               *)

\* The elements of I in an order, a set of pairs: the p-th has p - 1 before it.
InOrder(I, order) ==
    [p \in 1 .. Cardinality(I) |->
        CHOOSE i \in I : Cardinality({j \in I : <<j, i>> \in order}) = p - 1]
Along(s, places) == [p \in DOMAIN places |-> s[places[p]]]

\* What a sequence has at some of its places.
Picked(s, I) == Along(s, InOrder(I, {ij \in I \X I : ij[1] < ij[2]}))

-----------------------------------------------------------------------------
(* The turn log.                                                            *)

First(n, s) == SubSeq(s, 1, IF Len(s) < n THEN Len(s) ELSE n)

NoHash  == <<"none", 0>>
TurnHash(id) == <<"turn", id>>

\* What is not an entry of this shape is dropped on reading, and without an outcome it
\* reads as running.
IsEntry(value) == {"id", "at", "topic"} \subseteq DOMAIN value
toEntry(value) ==
    LET Field(f, absent) == IF f \in DOMAIN value THEN value[f] ELSE absent IN
    [id |-> value.id, at |-> value.at, topic |-> value.topic, said |-> Field("said", "nothing"),
     outcome |-> Field("outcome", "in_progress"), hash |-> Field("hash", NoHash),
     auto |-> Field("auto", FALSE)]
parseTurnLog(stored) ==
    LET entries == Picked(stored, {i \in DOMAIN stored : IsEntry(stored[i])}) IN
    First(TURN_LOG_LIMIT, [i \in DOMAIN entries |-> toEntry(entries[i])])

\* What may be assumed: a transaction of others does not both take from the owner and
\* give to it; the turns of former runs are not those of this one.
NoName == "no name"
Parties == Accounts \cup {NoName}
Hashes  == {"none", "turn", "other"} \X Int
Texts   == {"nothing", "pay", "incoming", "rule", "schedule"}
Entries ==
    [id : Int, at : Int, topic : Texts, said : Texts, hash : Hashes, auto : BOOLEAN,
     outcome : {"in_progress", "superseded", "failed", "answered", "tx_submitted"}]
ListedTypes ==
    {"payment", "create_account", "path_payment_strict_send", "path_payment_strict_receive"}
OneWay(records) ==
    /\ records \in Seq([type : ListedTypes \cup {"invoke_host_function"},
                         from : Accounts, to : Accounts, amount : Int])
    /\ \A i, j \in DOMAIN records : records[i].from = Owner <=> records[j].from = Owner
LeftByAFormerRun(entries) ==
    /\ entries \in Seq(Entries)
    /\ \A i \in DOMAIN entries :
          /\ entries[i].id < 1
          /\ entries[i].hash # NoHash => entries[i].outcome = "tx_submitted"
          /\ entries[i].outcome = "in_progress" => i = 1

ASSUME TimelineAssumption ==
    /\ {TURN_LOG_LIMIT, PAGE_SIZE, MAX_ROWS, DAY} \subseteq Nat \ {0}
    /\ {MaxTurns, MaxRecords, LastTick, MaxVisits} \subseteq Nat
    /\ Topics \subseteq Texts /\ AliasNames \in Seq(Range(AliasNames))
    /\ Owner \in Accounts /\ Payees \subseteq Accounts
    /\ \A records \in Incoming : OneWay(records)
    /\ \A lane \in Lanes :
          /\ lane.offers \in Seq([id : Int, at : Int, state : STRING,
                                 seller : Parties, buyer : Parties])
          /\ lane.records \in Seq([step : STRING, at : Int])
    /\ \A stored \in Stores :
          stored \in Seq(Range(stored)) /\ LeftByAFormerRun(parseTurnLog(stored))

readTurnLog == parseTurnLog(log)

\* Best effort: the store keeps the entries or stays as it was.
writeTurnLog(entries) == log' \in {entries, log}

upsertTurn(entries, entry) ==
    LET rest == Picked(entries, {i \in DOMAIN entries : entries[i].id # entry.id})
    IN  First(TURN_LOG_LIMIT, <<entry>> \o rest)
supersedeInProgress(entries) ==
    [i \in DOMAIN entries |->
        IF entries[i].outcome = "in_progress" THEN [entries[i] EXCEPT !.outcome = "superseded"]
        ELSE entries[i]]

\* A patch is a function of the entry.  A turn that has left the log is not written.
updateTurn(id, patch) ==
    LET entries == readTurnLog IN
    IF \A i \in DOMAIN entries : entries[i].id # id THEN UNCHANGED log
    ELSE writeTurnLog([i \in DOMAIN entries |->
                          IF entries[i].id = id THEN patch[entries[i]] ELSE entries[i]])

recordTurnStart(id, topic) ==
    writeTurnLog(upsertTurn(supersedeInProgress(readTurnLog),
                            [id |-> id, at |-> logClock, topic |-> topic, said |-> "nothing",
                             outcome |-> "in_progress", hash |-> NoHash, auto |-> FALSE]))

\* An answer leaves an outcome as it is; an outcome replaces whatever is there.
recordTurnAnswer(id, said) ==
    LET Answer == [e \in Range(readTurnLog) |->
                      [e EXCEPT !.said = said,
                                !.outcome = IF @ = "in_progress" THEN "answered" ELSE @]]
    IN  updateTurn(id, Answer)
recordTurnOutcome(id, label, hash) ==
    LET Outcome == [e \in Range(readTurnLog) |->
                       [e EXCEPT !.outcome = label, !.hash = IF hash = NoHash THEN @ ELSE hash]]
    IN  updateTurn(id, Outcome)

\* The automatic route is recorded on the turn that is in progress by then, if any.
recordAutoApproval ==
    LET entries == readTurnLog
        InProgress == {i \in DOMAIN entries : entries[i].outcome = "in_progress"}
        Auto == [e \in Range(entries) |-> [e EXCEPT !.auto = TRUE]]
    IN  IF InProgress = {} THEN UNCHANGED log
        ELSE updateTurn(entries[CHOOSE i \in InProgress : \A j \in InProgress : i <= j].id, Auto)

-----------------------------------------------------------------------------
(* Turns: a newer one supersedes, and an older one's results are ignored,   *)
(* but for a payment that reached the network.                              *)

Step(id, at) == [id |-> id, at |-> at]
Others == <<ledger, aliases, logClock, timeline, visits>>

StartsTurn(topic) ==
    /\ turns < MaxTurns
    /\ turns' = turns + 1
    /\ running' = running \cup {Step(turns + 1, "agent")}
    /\ recordTurnStart(turns + 1, topic)
    /\ UNCHANGED Others

\* The agent's run is over: an error, an answer, or an answer to be executed.
AgentEnds(id, how, said) ==
    /\ Step(id, "agent") \in running
    /\ running' = (running \ {Step(id, "agent")})
                    \cup IF how = "intent" /\ id = turns THEN {Step(id, "payment")} ELSE {}
    /\ IF id # turns THEN UNCHANGED log
       ELSE IF how = "error" THEN recordTurnOutcome(id, "failed", NoHash)
       ELSE recordTurnAnswer(id, said)
    /\ UNCHANGED <<turns, Others>>

\* A direct payment is an operation Horizon lists as one; the guard's is a call.
Lands(id, auto, to) ==
    /\ Step(id, "payment") \in running /\ Len(ledger) < MaxRecords
    /\ ledger' = Append(ledger, [type |-> IF auto THEN "invoke_host_function" ELSE "payment",
                                 from |-> Owner, to |-> to, amount |-> 1,
                                 hash |-> TurnHash(id), at |-> logClock])
    /\ running' = (running \ {Step(id, "payment")})
                    \cup {Step(id, "submitted")} \cup IF auto THEN {Step(id, "marking")} ELSE {}
    /\ UNCHANGED <<log, turns, aliases, logClock, timeline, visits>>

MarksAutomatic(id) ==
    /\ Step(id, "marking") \in running
    /\ running' = running \ {Step(id, "marking")}
    /\ recordAutoApproval
    /\ UNCHANGED <<turns, Others>>

\* The transaction's hash is recorded whichever turn is shown by then.
ReportsSubmitted(id) ==
    /\ Step(id, "submitted") \in running
    /\ running' = running \ {Step(id, "submitted")}
    /\ recordTurnOutcome(id, "tx_submitted", TurnHash(id))
    /\ UNCHANGED <<turns, Others>>

\* No wallet, refused, timed out, or landed without an answer; told only of the turn shown.
ReportsFailure(id, shown) ==
    /\ \E at \in {"payment", "submitted"} :
           Step(id, at) \in running /\ running' = running \ {Step(id, at)}
    /\ IF shown THEN recordTurnOutcome(id, "failed", NoHash) ELSE UNCHANGED log
    /\ UNCHANGED <<turns, Others>>

\* External: a transaction of somebody else, of one or more operations.
Receives(records) ==
    /\ Len(ledger) + Len(records) <= MaxRecords
    /\ ledger' = ledger \o [i \in DOMAIN records |->
           [type |-> records[i].type, from |-> records[i].from, to |-> records[i].to,
            amount |-> records[i].amount, hash |-> <<"other", Len(ledger)>>, at |-> logClock]]
    /\ UNCHANGED <<log, turns, running, aliases, logClock, timeline, visits>>

TickPasses == logClock < LastTick /\ logClock' = logClock + 1
              /\ UNCHANGED <<log, turns, running, ledger, aliases, timeline, visits>>

-----------------------------------------------------------------------------
(* Horizon's records, from the owner's side.                                *)

NoCursor == 0

isSupportedType(type) == type \in ListedTypes

\* The page asks for no failed ones; a funder and the account it creates are from and to.
isPayment(id) == isSupportedType(ledger[id].type) /\ Owner \in {ledger[id].from, ledger[id].to}
normalizePayment(id) ==
    LET r == ledger[id]
    IN  [id |-> id, hash |-> r.hash, at |-> r.at, amount |-> r.amount,
         direction |-> IF r.from = Owner THEN "sent" ELSE "received",
         counterparty |-> IF r.from = Owner THEN r.to ELSE r.from]

\* fetchOwnerPayments: a page of records, newest first, before a cursor.
PageBefore(cursor) ==
    [i \in 1 .. (IF cursor - 1 < PAGE_SIZE THEN cursor - 1 ELSE PAGE_SIZE) |-> cursor - i]
nextCursor(ids) == IF Len(ids) >= PAGE_SIZE THEN ids[Len(ids)] ELSE NoCursor

\* Names and addresses of the wrong shape are left out; the environment wins.
buildAliasEntries ==
    LET Shaped(b) == {n \in DOMAIN b \cap Range(AliasNames) : b[n] \in Accounts}
    IN  [n \in Shaped(aliases.env) \cup Shaped(aliases.committed) |->
            IF n \in Shaped(aliases.env) THEN aliases.env[n] ELSE aliases.committed[n]]
aliasNameForAddress(address) ==
    LET names == buildAliasEntries
        found == {i \in DOMAIN AliasNames :
                    AliasNames[i] \in DOMAIN names /\ names[AliasNames[i]] = address}
    IN  IF found = {} THEN NoName ELSE AliasNames[CHOOSE i \in found : \A j \in found : i <= j]

\* Payments that leave the account, for the suggestions.
mapHistoryRecords ==
    {id \in {id \in DOMAIN ledger : isPayment(id)} :
        normalizePayment(id).direction = "sent" /\ normalizePayment(id).amount > 0}

-----------------------------------------------------------------------------
(* Rows.                                                                    *)

Row(origin, n, at, hash, kind, chip, direction, who) ==
    [origin |-> origin, n |-> n, at |-> at, hash |-> hash, kind |-> kind, chip |-> chip,
     direction |-> direction, who |-> who, nickname |-> NoName]

turnChip(e) ==
    CASE e.outcome = "superseded" -> "cancelled"
      [] e.outcome = "failed" -> "failed"
      [] e.outcome = "in_progress" -> "pending"
      [] OTHER -> IF e.auto THEN "auto_approved" ELSE "confirmed"

\* What the words say comes before what the turn did.
inferTurnKind(e) ==
    LET Says(topic) == topic \in {e.topic, e.said} IN
    CASE Says("schedule") -> "scheduled"
      [] Says("rule") /\ ~Says("schedule") -> "rule_change"
      [] e.hash # NoHash /\ ~Says("schedule") /\ ~Says("rule") ->
           IF Says("incoming") THEN "received" ELSE "sent"
      [] OTHER -> "other"

\* No flow records an amount, so that a turn's row carries none.
turnToHistoryRow(e) ==
    Row("turn", e.id, e.at, e.hash, inferTurnKind(e), turnChip(e), 0, NoName)

chainToHistoryRow(p) ==
    [Row("chain", p.id, p.at, p.hash, p.direction, "confirmed",
         IF p.direction = "sent" THEN -1 ELSE 1, p.counterparty)
       EXCEPT !.nickname = aliasNameForAddress(p.counterparty)]

\* mapWalletTransactions, mapped on to rows.
ChainRows(ids) ==
    LET payments == Picked(ids, {i \in DOMAIN ids : isPayment(ids[i])})
    IN  [i \in DOMAIN payments |-> chainToHistoryRow(normalizePayment(payments[i]))]

p2pChip(state) ==
    CASE state = "Settled" -> "confirmed"
      [] state \in {"Cancelled", "Expired"} -> "cancelled"
      [] OTHER -> "pending"

\* Offers the wallet is a party to; the seller's leg is outgoing.
p2pToHistoryRow(o) ==
    Row("p2p", o.id, o.at, NoHash, "p2p", p2pChip(o.state),
        IF o.seller = Owner THEN -1 ELSE 1, IF o.seller = Owner THEN o.buyer ELSE o.seller)
loadP2pRows(offers) ==
    LET mine == Picked(offers, {i \in DOMAIN offers :
                                   Owner \in {offers[i].seller, offers[i].buyer}})
    IN  [i \in DOMAIN mine |-> p2pToHistoryRow(mine[i])]

\* The steps that move value, in the order of their names.
AnchorSteps == <<"deposit", "payment", "payout", "sep24", "sep6", "trust", "withdraw">>
isAnchorActionStep(step) == step \in Range(AnchorSteps)
anchorToHistoryRow(r) ==
    Row("anchor", CHOOSE n \in DOMAIN AnchorSteps : AnchorSteps[n] = r.step, r.at, NoHash,
        IF r.step \in {"withdraw", "payout"} THEN "anchor_withdraw" ELSE "anchor_deposit",
        "confirmed", 0, NoName)
loadAnchorRows(records) ==
    LET acted == Picked(records, {i \in DOMAIN records : isAnchorActionStep(records[i].step)})
    IN  [i \in DOMAIN acted |-> anchorToHistoryRow(acted[i])]

\* The mock entries come as turns; their origin here is that of their ids.
DemoRow == Row("demo", 1, 0, NoHash, "sent", "confirmed", 0, NoName)

\* Newest first; ids are compared as text, their origin first.
Rank == [anchor |-> 1, chain |-> 2, demo |-> 3, p2p |-> 4, turn |-> 5]
Before(a, b) ==
    \/ a.at > b.at
    \/ a.at = b.at /\ Rank[a.origin] < Rank[b.origin]
    \/ a.at = b.at /\ a.origin = b.origin /\ a.n < b.n

SameRowById(a, b) == a.origin = b.origin /\ a.n = b.n /\ a.at = b.at
SameRow(a, b) ==
    \/ a.origin = b.origin /\ a.n = b.n /\ a.at = b.at
    \/ a.hash # NoHash /\ a.hash = b.hash

\* The first of two rows that tell of the same thing is kept; the sort is a stable one.
Kept(list) ==
    LET kept[n \in 0 .. Len(list)] ==
            IF n = 0 THEN {}
            ELSE LET sofar == kept[n - 1] IN
                 IF \E i \in sofar : SameRow(list[i], list[n]) THEN sofar ELSE sofar \cup {n}
    IN  kept[Len(list)]
Sorting(list, I) ==
    {ij \in I \X I : \/ Before(list[ij[1]], list[ij[2]])
                     \/ ~Before(list[ij[2]], list[ij[1]]) /\ ij[1] < ij[2]}
mergeRows(list) ==
    LET I == Kept(list) IN Along(list, InOrder(I, Sorting(list, I)))

-----------------------------------------------------------------------------
(* The page.                                                                *)

NoMore == [from |-> NoCursor, late |-> FALSE]
NoPage == [step |-> "closed", demo |-> TRUE, turnRows |-> <<>>, chain |-> <<>>, extra |-> <<>>,
           cursor |-> NoCursor, hasMore |-> FALSE, more |-> NoMore, mixed |-> FALSE, top |-> 0]

rows ==
    LET all == IF timeline.demo THEN IF timeline.step = "demo" THEN <<DemoRow>> ELSE <<>>
               ELSE mergeRows(timeline.turnRows \o timeline.chain \o timeline.extra)
    IN  First(MAX_ROWS, all)

\* Chips: a row's kind and its signed amount say each on their own which way it went.
matchesFilter(row, filter) ==
    CASE filter = "sent" -> row.kind \in {"sent", "anchor_withdraw"} \/ row.direction = -1
      [] filter = "received" -> row.kind \in {"received", "anchor_deposit"} \/ row.direction = 1
      [] filter = "auto" -> row.chip = "auto_approved"
      [] filter \in {"p2p", "anchor"} -> row.origin = filter
      [] filter = "voice" -> row.origin \in {"turn", "demo"}
      [] OTHER -> TRUE
\* The search box: a name or an address that the row shows.
Anything == "anything"
matchesQuery(row, query) == query \in {Anything, row.who, row.nickname}
applyFilters(filter, query) ==
    LET list == rows
    IN  Picked(list, {i \in DOMAIN list :
                        matchesFilter(list[i], filter) /\ matchesQuery(list[i], query)})

\* Sticky headers: a row joins the group of its day, wherever that began.
dayKey(at) == at \div DAY
groupByDay(list) ==
    LET Day(i) == dayKey(list[i].at)
        heads  == Picked(list, {i \in DOMAIN list : \A j \in 1 .. i - 1 : Day(j) # Day(i)})
    IN  [g \in DOMAIN heads |->
            LET day == dayKey(heads[g].at)
            IN  [day |-> day, rows |-> Picked(list, {i \in DOMAIN list : Day(i) = day})]]

\* The effect, up to its first await; an older page's answer may still be on its way.
Loads(entries) ==
    /\ visits < MaxVisits
    /\ visits' = visits + 1
    /\ timeline' = [timeline EXCEPT
           !.step = "config", !.chain = <<>>, !.extra = <<>>, !.cursor = NoCursor,
           !.turnRows = [i \in DOMAIN entries |-> turnToHistoryRow(entries[i])],
           !.more = IF @ = NoMore THEN @ ELSE [@ EXCEPT !.late = TRUE],
           !.hasMore = FALSE, !.mixed = FALSE, !.top = 0]
    /\ UNCHANGED <<turns, running, ledger, aliases, logClock>>

refresh == Loads(readTurnLog) /\ UNCHANGED log

\* clearTurnLog, best effort as well, and a new reading.
clearLocal ==
    /\ timeline.step # "closed"
    /\ log' \in {<<>>, log}
    /\ Loads(parseTurnLog(log'))

ClosesPage == timeline.step # "closed" /\ timeline' = NoPage
              /\ UNCHANGED <<log, turns, running, ledger, aliases, logClock, visits>>

OffThePage == <<log, turns, running, ledger, aliases, logClock, visits>>

\* Without an owner the page shows its demo, without a configuration an error.
ReadsConfig(found) ==
    /\ timeline.step = "config"
    /\ timeline' = CASE found = "owner" -> [timeline EXCEPT !.step = "payments"]
                 [] found = "nobody" -> [timeline EXCEPT !.step = "demo", !.demo = TRUE]
                 [] found = "error" -> [timeline EXCEPT !.step = "failed", !.demo = FALSE]
    /\ UNCHANGED OffThePage

ReadsPayments(reachable) ==
    /\ timeline.step = "payments"
    /\ LET ids == PageBefore(Len(ledger) + 1)
           live == [timeline EXCEPT !.step = "extras", !.demo = FALSE]
       IN  timeline' = IF ~reachable THEN live
                   ELSE [live EXCEPT !.chain = ChainRows(ids), !.cursor = nextCursor(ids),
                                     !.hasMore = nextCursor(ids) # NoCursor,
                                     !.mixed = FALSE, !.top = Len(ledger)]
    /\ UNCHANGED OffThePage

ReadsExtras(lane) ==
    /\ timeline.step = "extras"
    /\ timeline' = [timeline EXCEPT !.step = "done",
                            !.extra = loadP2pRows(lane.offers) \o loadAnchorRows(lane.records)]
    /\ UNCHANGED OffThePage

loadMore ==
    /\ timeline.step \in {"payments", "extras", "done"}
    /\ timeline.hasMore /\ timeline.more = NoMore
    /\ timeline' = [timeline EXCEPT !.more = [from |-> timeline.cursor, late |-> timeline.mixed]]
    /\ UNCHANGED OffThePage

\* Older rows join those shown by then, and the cursor moves, whichever reading asked.
LoadsMore(reachable) ==
    /\ timeline.more # NoMore
    /\ LET ids == PageBefore(timeline.more.from)
       IN  timeline' = IF ~reachable THEN [timeline EXCEPT !.more = NoMore, !.hasMore = FALSE]
                   ELSE [timeline EXCEPT !.more = NoMore, !.chain = mergeRows(@ \o ChainRows(ids)),
                                     !.cursor = nextCursor(ids),
                                     !.hasMore = nextCursor(ids) # NoCursor,
                                     !.mixed = @ \/ timeline.more.late]
    /\ UNCHANGED OffThePage

\* The webview starts anew: what was under way is forgotten, the log is not.
StartsAnew ==
    /\ running # {}
    /\ running' = {} /\ timeline' = NoPage
    /\ UNCHANGED <<log, turns, ledger, aliases, logClock, visits>>

-----------------------------------------------------------------------------
HistoryInit ==
    /\ log \in Stores /\ turns = 0 /\ running = {} /\ ledger = <<>>
    /\ aliases \in Books /\ logClock = 0 /\ timeline = NoPage /\ visits = 0

HistoryNext ==
    \/ \E topic \in Topics : StartsTurn(topic)
    \/ \E id \in 1 .. MaxTurns :
          \/ \E how \in {"error", "answer", "intent"}, said \in Topics : AgentEnds(id, how, said)
          \/ \E b \in BOOLEAN : ReportsFailure(id, b) \/ \E to \in Payees : Lands(id, b, to)
          \/ MarksAutomatic(id) \/ ReportsSubmitted(id)
    \/ \E records \in Incoming : Receives(records)
    \/ TickPasses \/ refresh \/ clearLocal \/ ClosesPage \/ loadMore \/ StartsAnew
    \/ \E found \in {"owner", "nobody", "error"} : ReadsConfig(found)
    \/ \E b \in BOOLEAN : ReadsPayments(b) \/ LoadsMore(b)
    \/ \E lane \in Lanes : ReadsExtras(lane)

HistorySpec == HistoryInit /\ [][HistoryNext]_historyVars

-----------------------------------------------------------------------------
(* Properties.                                                              *)

\* The records read so far: from the newest of the first page down to the cursor.
Loaded == (IF timeline.cursor = NoCursor THEN 1 ELSE timeline.cursor) .. timeline.top
Tells(row, id) == row.hash = ledger[id].hash

\* A transaction is listed once, whether its turn, the chain or both tell of it, and
\* every payment read so far is listed, unless newer rows fill the list or an older
\* reading's page joined this one (mergeRows, loadMore; useHistoryData.ts:175-201).
PaymentsAreListedOnce ==
    LET list == rows IN
    /\ \A i, j \in DOMAIN list : i # j /\ list[i].hash # NoHash => list[i].hash # list[j].hash
    /\ ~timeline.demo /\ ~timeline.mixed /\ Len(list) < MAX_ROWS =>
          \A id \in Loaded : isPayment(id) => \E i \in DOMAIN list : Tells(list[i], id)

\* The payments that the suggestions would count left the account in the list as well,
\* or a turn tells of them (mapHistoryRecords, mapWalletTransactions).
CountedPaymentsWentOut ==
    LET list == rows IN
    \A id \in mapHistoryRecords, i \in DOMAIN list :
        Tells(list[i], id) /\ list[i].origin # "turn" =>
            matchesFilter(list[i], "sent") /\ ~matchesFilter(list[i], "received")

\* A turn that stands for a payment on the ledger does not say that it failed or was
\* called off, however it was talked over, cut short or half stored (recordTurnOutcome).
SettledIsNotCalledOff ==
    LET list == rows IN
    \A i \in DOMAIN list : list[i].hash # NoHash => list[i].chip \in {"confirmed", "auto_approved"}

\* Only the newest entry of the log can be running (recordTurnStart).
OnlyTheNewestRuns ==
    LET entries == readTurnLog IN
    \A i \in DOMAIN entries : entries[i].outcome = "in_progress" => i = 1

\* A name of the environment's book is shown for no other address than its own, whatever
\* the committed book says, and so for one counterparty only (buildAliasEntries).
NamesAreTheOwners ==
    LET list == rows IN
    \A i \in DOMAIN list :
        LET name == list[i].nickname IN
        name # NoName /\ name \in DOMAIN aliases.env /\ aliases.env[name] \in Accounts
            => aliases.env[name] = list[i].who

\* Under any chip and search the days are in order, each a stretch of the list, and hold
\* every row found (applyFilters, groupByDay).
DaysAreInOrder ==
    \A filter \in {"all", "sent", "voice"}, query \in {Anything, Owner} \cup Payees :
        LET list   == applyFilters(filter, query)
            groups == groupByDay(list)
        IN  /\ \A g, h \in DOMAIN groups : g < h => groups[g].day > groups[h].day
            /\ \A g \in DOMAIN groups : \E n \in 0 .. Len(list) :
                  groups[g].rows = SubSeq(list, n + 1, n + Len(groups[g].rows))
            /\ \A i \in DOMAIN list : \E g \in DOMAIN groups :
                  \E p \in DOMAIN groups[g].rows : groups[g].rows[p] = list[i]

\* The history lists each payment once, as what it was (useHistoryData).
HistoryIsTold ==
    /\ PaymentsAreListedOnce /\ CountedPaymentsWentOut /\ SettledIsNotCalledOff
    /\ OnlyTheNewestRuns /\ NamesAreTheOwners /\ DaysAreInOrder
=============================================================================
