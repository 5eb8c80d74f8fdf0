------------------------------- MODULE Keeper -------------------------------
(***************************************************************************)
(* The keeper (stellar/src/keeper): an untrusted process that asks the     *)
(* guard contract which standing orders are due and submits one            *)
(* execute_schedule for each.  All its state is in memory.                 *)
(*                                                                         *)
(* Time is left out: a back-off window that passes, a transaction whose    *)
(* validity window passes and an order that comes due are steps that may   *)
(* happen at any moment.  The ledger is external: an order is due or not,  *)
(* the owner's rule lets it run or not, its entries may be archived, and   *)
(* a submitted transaction lands, fails or never lands.  The dry-run       *)
(* option, which never submits, is left out.                               *)
(***************************************************************************)
EXTENDS Integers, Sequences, FiniteSets

CONSTANTS LastId,            \* orders are numbered 1 .. LastId
          Refusable,         \* orders whose owner may bar and allow runs
          Archivable,        \* orders whose entries are archived at first
          MaxPerTick, MaxListLimit, MaxPagesPerTick, MaxDueScan,
          MaxRestarts,
          None

Ids      == 1 .. LastId
Purposes == {"execute", "restore"}

ASSUME KeeperAssumption ==
    /\ Refusable \subseteq Ids /\ Archivable \subseteq Ids
    /\ LastId \in Nat /\ MaxPerTick \in Nat \ {0} /\ MaxListLimit \in Nat \ {0}
    /\ MaxPagesPerTick \in Nat \ {0} /\ MaxDueScan \in Nat \ {0}
    /\ MaxRestarts \in Nat
    /\ None \notin [purpose : Purposes, status : {"SUCCESS", "FAILED", "POOLED", "STALE", "GONE"}]

VARIABLES
    \* The ledger and the network.
    due, allowed, archived,
    txs,        \* an order's transaction: its purpose and status, None without one
    strays,     \* transactions of an earlier process that may still land
    \* The keeper's memory.
    pc, inflight,
    pending,    \* orders whose transaction is remembered as of unknown fate
    backoff, sweepCursor,
    todo,       \* pending ids resolvePending has still to look at
    cursor, pages, dueIds, candidates,    \* of the scan
    fresh,      \* the sequence number of the transaction being built is current
    \* History.
    restarts,
    ran,        \* orders that ran since the sweep last started over
    report      \* the transaction the step just taken reported as executed

ledgerVars == <<due, allowed, archived, ran, strays>>
scanVars   == <<cursor, pages, dueIds>>
memVars    == <<pc, inflight, pending, backoff, sweepCursor, todo, scanVars, candidates>>
vars       == <<ledgerVars, txs, memVars, fresh, restarts, report>>

\* "POOLED" may still land; "STALE" cannot (it was never accepted, or another
\* transaction took its sequence number), but the keeper is not told; "GONE" is
\* past its validity window.
Statuses == {"POOLED", "STALE", "SUCCESS", "FAILED", "GONE"}
Tx       == [purpose : Purposes, status : Statuses]

InitMemory ==
    /\ pc = "tick" /\ inflight = {} /\ sweepCursor = 0
    /\ pending = {} /\ backoff = [i \in Ids |-> None]
    /\ todo = {} /\ cursor = 0 /\ pages = 0 /\ dueIds = {} /\ candidates = <<>>
    /\ fresh = TRUE

Init ==
    /\ due = Ids /\ allowed = Ids /\ archived = Archivable /\ ran = {}
    /\ txs = [i \in Ids |-> None] /\ strays = {}
    /\ InitMemory
    /\ restarts = 0 /\ report = None

-----------------------------------------------------------------------------
(* The ledger.                                                             *)

\* An order comes due again, but not before the sweep has wrapped: the interval
\* of an order is taken to be longer than a sweep.
ComesDue(i) ==
    /\ i \notin due \cup ran
    /\ due' = due \cup {i}
    /\ UNCHANGED <<allowed, archived, ran, strays, txs, memVars, fresh, restarts, report>>

\* The owner bars runs of the order (tightens the rule, takes the allowance away)
\* or allows them again.
OwnerChanges(i) ==
    /\ allowed' = IF i \in allowed THEN allowed \ {i} ELSE allowed \cup {i}
    /\ UNCHANGED <<due, archived, ran, strays, txs, memVars, fresh, restarts, report>>

\* The contract refuses a run of an order that is not due or not allowed.
Succeeds(i, purpose) == purpose = "restore" \/ i \in due \cap allowed

\* A transaction for i is included: a run pays and moves the order to a later
\* slot, a restore brings its entries back.  A sequence number that was read
\* before is not current any more.
Included(i, purpose) ==
    /\ LET runs == purpose = "execute" /\ Succeeds(i, purpose)
       IN due' = (IF runs THEN due \ {i} ELSE due) /\ ran' = (IF runs THEN ran \cup {i} ELSE ran)
    /\ archived' = IF purpose = "restore" THEN archived \ {i} ELSE archived
    /\ fresh' = IF pc \in {"simulate", "send_execute", "send_restore"} THEN FALSE ELSE fresh
    /\ UNCHANGED <<allowed, memVars, restarts, report>>

\* The transactions built on the same sequence number cannot land any more.
Overtaken == [i \in Ids |-> IF txs[i] # None /\ txs[i].status = "POOLED"
                            THEN [txs[i] EXCEPT !.status = "STALE"] ELSE txs[i]]

Lands(i) ==
    /\ txs[i] # None /\ txs[i].status = "POOLED"
    /\ Included(i, txs[i].purpose)
    /\ txs' = [Overtaken EXCEPT ![i].status =
                 IF Succeeds(i, txs[i].purpose) THEN "SUCCESS" ELSE "FAILED"]
    /\ strays' = {}

StrayLands(i, purpose) ==
    /\ <<i, purpose>> \in strays
    /\ Included(i, purpose)
    /\ txs' = Overtaken /\ strays' = {}

\* The validity window and EXPIRY_SLACK_MS pass.
Lapses(i) ==
    /\ txs[i] # None /\ txs[i].status \in {"POOLED", "STALE"}
    /\ txs' = [txs EXCEPT ![i].status = "GONE"]
    /\ UNCHANGED <<ledgerVars, memVars, fresh, restarts, report>>

StraysLapse ==
    /\ strays # {} /\ strays' = {}
    /\ UNCHANGED <<due, allowed, archived, ran, txs, memVars, fresh, restarts, report>>

\* The back-off window of an order passes.  A tick reads the time once, before its scan.
WindowPasses(i) ==
    /\ pc # "scan"
    /\ backoff[i] = "open"
    /\ backoff' = [backoff EXCEPT ![i] = "passed"]
    /\ UNCHANGED <<ledgerVars, txs, pc, inflight, pending, sweepCursor, todo, scanVars,
                   candidates, fresh, restarts, report>>

-----------------------------------------------------------------------------
(* What a result does to the keeper's memory.                              *)

Least(a, b) == IF a <= b THEN a ELSE b

\* A failure opens a back-off window; how long it is depends on the kind of the
\* error and on how often it came in a row.
registerFailure(i) == backoff' = [backoff EXCEPT ![i] = "open"] /\ report' = None

\* What getTransaction says of a transaction, as the client classifies it.
checkPending(tx) ==
    CASE tx.status = "SUCCESS" -> "success"
      [] tx.status = "FAILED"  -> "failed"
      [] tx.status = "GONE"    -> "rejected"
      [] OTHER                 -> "pending"

\* A run that settled: the one place that reports "executed".
handle(i) ==
    IF checkPending(txs[i]) = "success"
    THEN backoff' = [backoff EXCEPT ![i] = None] /\ report' = txs[i]
    ELSE registerFailure(i)

\* A restore that settled just makes the order eligible again.
handleRestoreResolution(i) ==
    IF checkPending(txs[i]) = "success" THEN UNCHANGED backoff /\ report' = None
    ELSE registerFailure(i)

\* The order's transaction has a final status and is forgotten.
Settle(i) ==
    /\ IF txs[i].purpose = "restore" THEN handleRestoreResolution(i) ELSE handle(i)
    /\ txs' = [txs EXCEPT ![i] = None]

-----------------------------------------------------------------------------
(* A tick: resolve what is pending, scan, execute one after the other.     *)

StartTick ==
    /\ pc = "tick"
    /\ pc' = "resolve" /\ todo' = pending
    /\ report' = None
    /\ UNCHANGED <<ledgerVars, txs, inflight, pending, backoff, sweepCursor, scanVars,
                   candidates, fresh, restarts>>

\* One pending transaction has settled.
Resolve(i) ==
    /\ pc = "resolve" /\ i \in todo
    /\ checkPending(txs[i]) # "pending"
    /\ todo' = todo \ {i}
    /\ pending' = pending \ {i}
    /\ Settle(i)
    /\ UNCHANGED <<ledgerVars, pc, inflight, sweepCursor, scanVars, candidates, fresh, restarts>>

\* It has not, or the question failed: it stays pending until the next tick.
KeepPending(i) ==
    /\ pc = "resolve" /\ i \in todo
    /\ todo' = todo \ {i} /\ report' = None
    /\ UNCHANGED <<ledgerVars, txs, pc, inflight, pending, backoff, sweepCursor, scanVars,
                   candidates, fresh, restarts>>

activeBackoffIds == {i \in Ids : backoff[i] = "open"}

suppressed == inflight \cup pending \cup activeBackoffIds

StartScan ==
    /\ pc = "resolve" /\ todo = {}
    /\ pc' = "scan" /\ cursor' = sweepCursor
    /\ report' = None
    /\ UNCHANGED <<ledgerVars, txs, inflight, pending, backoff, sweepCursor, todo, pages,
                   dueIds, candidates, fresh, restarts>>

\* Room for MaxPerTick orders beside the ones that are skipped.
limit == Least(MaxListLimit, MaxPerTick + Cardinality(suppressed))

\* The contract's list_due as the client decodes it: the due orders of a window of
\* ids and where the next window starts, None after the last.
listDue(from, size) ==
    LET start == IF from < 1 THEN 1 ELSE from
        end   == Least(start + Least(size, MaxDueScan), LastId + 1)
    IN  [ids |-> due \cap (start .. end - 1), nextCursor |-> IF end > LastId THEN None ELSE end]

\* Entries whose window has passed and that this tick did not see due are dropped.
pruneBackoff(dueNow) ==
    [i \in Ids |-> IF backoff[i] = "passed" /\ i \notin dueNow THEN None ELSE backoff[i]]

EndScan(seen) ==
    /\ pc' = "exec" /\ backoff' = pruneBackoff(seen)
    /\ cursor' = 0 /\ pages' = 0 /\ dueIds' = {}

\* A cursor that does not advance is the end of the id space.
endOfSpace(page) == page.nextCursor = None \/ page.nextCursor <= cursor

\* Faulty variant: the sweep stays at the end of the id space.
NeverStartsOver(page) == IF page.nextCursor = None THEN cursor ELSE page.nextCursor

nextSweep(page) == IF endOfSpace(page) THEN 0 ELSE page.nextCursor

\* A page's ids in the order of the contract: there is one such sequence.
Ascending(ids) ==
    {s \in [1 .. Cardinality(ids) -> ids] : \A i, j \in DOMAIN s : i < j => s[i] < s[j]}

\* A page arrives.  The sweep moves past it whether or not all its orders became
\* candidates, and starts over at the end of the id space.
FetchPage ==
    /\ pc = "scan"
    /\ \E new \in Ascending(listDue(cursor, limit).ids \ (dueIds \cup suppressed)) :
          candidates' = candidates \o SubSeq(new, 1, Least(Len(new), MaxPerTick - Len(candidates)))
    /\ LET page == listDue(cursor, limit)
           seen == dueIds \cup page.ids
       IN /\ sweepCursor' = nextSweep(page)
          /\ ran' = IF endOfSpace(page) THEN {} ELSE ran
          /\ IF endOfSpace(page) \/ Len(candidates') >= MaxPerTick \/ pages + 1 >= MaxPagesPerTick
             THEN EndScan(seen)
             ELSE /\ cursor' = sweepCursor' /\ pages' = pages + 1 /\ dueIds' = seen
                  /\ UNCHANGED <<pc, backoff>>
    /\ report' = None
    /\ UNCHANGED <<due, allowed, archived, strays, txs, inflight, pending, todo, fresh, restarts>>

\* A page fails: the tick fails with the first one, a later one just ends the scan.
\* Either way the next tick asks for the same page.
FetchFails ==
    /\ pc = "scan"
    /\ sweepCursor' = cursor
    /\ IF pages = 0
       THEN pc' = "tick" /\ cursor' = 0 /\ UNCHANGED <<backoff, pages, dueIds>>
       ELSE EndScan(dueIds)
    /\ report' = None
    /\ UNCHANGED <<ledgerVars, txs, inflight, pending, todo, candidates, fresh, restarts>>

EndTick ==
    /\ pc = "exec" /\ candidates = <<>>
    /\ pc' = "tick" /\ report' = None
    /\ UNCHANGED <<ledgerVars, txs, inflight, pending, backoff, sweepCursor, todo, scanVars,
                   candidates, fresh, restarts>>

Current == Head(candidates)

\* runOne: the account's sequence number is read and the run is built.
StartRun ==
    /\ pc = "exec" /\ candidates # <<>>
    /\ Current \notin inflight \cup pending
    /\ inflight' = {Current}
    /\ pc' = "simulate" /\ report' = None
    /\ UNCHANGED <<ledgerVars, txs, pending, backoff, sweepCursor, todo, scanVars, candidates,
                   fresh, restarts>>

\* The run has a result: the next candidate's turn.
Finish == inflight' = {} /\ candidates' = Tail(candidates) /\ pc' = "exec" /\ fresh' = TRUE

\* The simulation refuses the run (not due, barred by the rule), or asks for a
\* signature or a fee the keeper does not give, or the request fails.
SimulationRefuses ==
    /\ pc = "simulate"
    /\ registerFailure(Current) /\ Finish
    /\ UNCHANGED <<ledgerVars, txs, pending, sweepCursor, todo, scanVars, restarts>>

\* A run can go ahead as it is; archived entries are restored first, by a
\* transaction of its own, built on a newly read sequence number.
Simulates ==
    /\ pc = "simulate"
    /\ \/ Current \in archived /\ pc' = "send_restore" /\ fresh' = TRUE
       \/ Current \notin archived /\ Current \in due \cap allowed
            /\ pc' = "send_execute" /\ UNCHANGED fresh
    /\ report' = None
    /\ UNCHANGED <<ledgerVars, txs, inflight, pending, backoff, sweepCursor, todo, scanVars,
                   candidates, restarts>>

Sending == pc \in {"send_restore", "send_execute"}

\* The transaction is signed, and its hash known, before it is sent.
Signed(status) ==
    txs' = [txs EXCEPT ![Current] =
              [purpose |-> IF pc = "send_restore" THEN "restore" ELSE "execute", status |-> status]]

\* Faulty variant: a failed send is taken for a refused one.
TakesLostForRefused ==
    /\ Sending
    /\ \/ fresh /\ Signed("POOLED")
       \/ Signed("STALE")
    /\ registerFailure(Current) /\ Finish
    /\ UNCHANGED <<ledgerVars, pending, sweepCursor, todo, scanVars, restarts>>

\* sendTransaction throws: the node may have accepted the transaction.
SendFails ==
    /\ Sending
    /\ \/ fresh /\ Signed("POOLED")
       \/ Signed("STALE")
    /\ pending' = pending \cup {Current}
    /\ Finish /\ report' = None
    /\ UNCHANGED <<ledgerVars, backoff, sweepCursor, todo, scanVars, restarts>>

\* The node refuses the transaction (for its sequence number, or the keeper's
\* funds), or asks to try again later.
SendRefused ==
    /\ Sending
    /\ registerFailure(Current) /\ Finish
    /\ UNCHANGED <<ledgerVars, txs, pending, sweepCursor, todo, scanVars, restarts>>

SendAccepted ==
    /\ Sending /\ fresh
    /\ Signed("POOLED")
    /\ pc' = "wait" /\ report' = None
    /\ UNCHANGED <<ledgerVars, inflight, pending, backoff, sweepCursor, todo, scanVars,
                   candidates, fresh, restarts>>

\* The wait ends with a final status.  After a restore the run is built again.
WaitEnds ==
    /\ pc = "wait" /\ checkPending(txs[Current]) # "pending"
    /\ IF txs[Current].purpose = "restore" /\ checkPending(txs[Current]) = "success"
       THEN /\ pc' = "simulate" /\ txs' = [txs EXCEPT ![Current] = None] /\ report' = None
            /\ UNCHANGED <<inflight, candidates, backoff, fresh>>
       ELSE Settle(Current) /\ Finish
    /\ UNCHANGED <<ledgerVars, pending, sweepCursor, todo, scanVars, restarts>>

\* A poll fails: the hash is kept for a later tick.
WaitFails ==
    /\ pc = "wait"
    /\ pending' = pending \cup {Current}
    /\ Finish /\ report' = None
    /\ UNCHANGED <<ledgerVars, txs, backoff, sweepCursor, todo, scanVars, restarts>>

\* The process ends and starts again, with an empty memory.
Restart ==
    /\ restarts < MaxRestarts /\ restarts' = restarts + 1
    /\ pc' = "tick" /\ inflight' = {} /\ sweepCursor' = 0 /\ pending' = {}
    /\ backoff' = [i \in Ids |-> None] /\ todo' = {} /\ cursor' = 0 /\ pages' = 0
    /\ dueIds' = {} /\ candidates' = <<>> /\ fresh' = TRUE
    /\ strays' = strays \cup {stray \in Ids \X Purposes :
                     txs[stray[1]] = [purpose |-> stray[2], status |-> "POOLED"]}
    /\ txs' = [i \in Ids |-> None] /\ report' = None
    /\ UNCHANGED <<due, allowed, archived, ran>>

-----------------------------------------------------------------------------
KeeperStep ==
    \/ StartTick \/ StartScan \/ FetchPage \/ FetchFails \/ EndTick
    \/ \E i \in Ids : Resolve(i) \/ KeepPending(i)
    \/ StartRun \/ SimulationRefuses \/ Simulates
    \/ SendFails \/ SendRefused \/ SendAccepted
    \/ WaitEnds \/ WaitFails

LedgerStep ==
    \/ \E i \in Ids : ComesDue(i) \/ WindowPasses(i) \/ Lands(i) \/ Lapses(i)
    \/ \E i \in Refusable : OwnerChanges(i)
    \/ \E i \in Ids, p \in Purposes : StrayLands(i, p)
    \/ StraysLapse

Next == KeeperStep \/ LedgerStep \/ Restart

Spec == Init /\ [][Next]_vars

\* The process runs; a page, and the fate of a transaction, is learnt if it is
\* asked for again and again; windows pass.
FairSpec ==
    /\ Spec /\ WF_vars(KeeperStep) /\ SF_vars(FetchPage)
    /\ \A i \in Ids : SF_vars(Resolve(i)) /\ SF_vars(WindowPasses(i)) /\ WF_vars(Lapses(i))

-----------------------------------------------------------------------------
TypeOK ==
    /\ due \subseteq Ids /\ allowed \subseteq Ids /\ archived \subseteq Ids /\ ran \subseteq Ids
    /\ txs \in [Ids -> Tx \cup {None}] /\ strays \subseteq Ids \X Purposes
    /\ pc \in {"tick", "resolve", "scan", "exec", "simulate", "send_restore", "send_execute", "wait"}
    /\ inflight \subseteq Ids /\ pending \subseteq Ids /\ todo \subseteq Ids /\ dueIds \subseteq Ids
    /\ backoff \in [Ids -> {"open", "passed", None}]
    /\ sweepCursor \in Nat /\ cursor \in Nat /\ pages \in Nat
    /\ candidates \in Seq(Ids) /\ Len(candidates) <= MaxPerTick
    /\ fresh \in BOOLEAN /\ restarts \in 0 .. MaxRestarts
    /\ report \in Tx \cup {None}

\* A transaction that may still land is never lost by the process that sent it, and
\* its order is not submitted again: the order is either the one waited for or
\* pending, and never both (chain.ts submitAndWait, keeper.ts handle).
NothingInThePoolIsForgotten ==
    /\ \A i \in Ids : txs[i] # None => i \in pending \/ (pc = "wait" /\ i = Current)
    /\ \A i \in pending : txs[i] # None
    /\ inflight \cap pending = {}

\* "executed" is reported of a run that landed, never of a restore, whichever way
\* the keeper learnt of it (keeper.ts handle, handleRestoreResolution).
ExecutedMeansRan ==
    report # None => report.purpose = "execute" /\ report.status = "SUCCESS"

\* The keeper's memory and its reports are true of the network (keeper.ts:291-330).
FatesAreKnown == NothingInThePoolIsForgotten /\ ExecutedMeansRan

\* An order that stays due is attempted again and again, whatever page fails, other
\* orders are refused or stay pending, and wherever the sweep was.  The comments of
\* keeper.ts (:17, :136, :141) say so of any page; it holds of pages that have no
\* more orders than a tick takes.
DueIsAttempted == \A i \in Ids : []<>(i \notin due \/ i \in inflight)
=============================================================================
