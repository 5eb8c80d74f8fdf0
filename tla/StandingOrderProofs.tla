------------------------ MODULE StandingOrderProofs ------------------------
(***************************************************************************)
(* The keeper's memory agrees with the network: a transaction whose fate   *)
(* is unknown is remembered, its order is not submitted again, and what is *)
(* reported as executed has run.  For any number of orders, any limits of  *)
(* a tick, any owners and any number of restarts.                          *)
(*                                                                         *)
(* And the orders follow what the user was shown of them: what is          *)
(* cancelled, what is ordered and what is warned of.  For any number of    *)
(* wishes at once, any names, addresses and orders.                        *)
(***************************************************************************)
EXTENDS Keeper, ScheduleBook, FiniteSetTheorems, SequenceTheorems, TLAPS

-----------------------------------------------------------------------------
(* The inductive invariant.                                                 *)

Busy == {"simulate", "send_restore", "send_execute", "wait"}

\* Exactly while an order is being run it is the head of the candidates and the one
\* in flight; what is still to be resolved is pending; what is waited for was sent.
AtWork ==
    /\ pc \in Busy => candidates # <<>> /\ inflight = {Current}
    /\ pc \notin Busy => inflight = {}
    /\ todo \subseteq pending
    /\ pc = "wait" => txs[Current] # None

KeeperInv == TypeOK /\ AtWork /\ NothingInThePoolIsForgotten /\ ExecutedMeansRan

-----------------------------------------------------------------------------
(* Transactions, pages and results.                                         *)

\* A transaction is never taken for the absence of one.
LEMMA TxIsNotNone == None \notin Tx
BY KeeperAssumption DEF Tx, Statuses, Purposes

\* The order being run is an order.
LEMMA CurrentIsAnOrder ==
    ASSUME TypeOK, candidates # <<>>
    PROVE  Current \in Ids /\ Tail(candidates) \in Seq(Ids)
           /\ Len(Tail(candidates)) <= MaxPerTick
<1>1. candidates \in Seq(Ids) /\ Len(candidates) <= MaxPerTick /\ MaxPerTick \in Nat
  BY KeeperAssumption DEF TypeOK
<1>2. Head(candidates) \in Ids /\ Tail(candidates) \in Seq(Ids)
      /\ Len(Tail(candidates)) = Len(candidates) - 1 /\ Len(candidates) \in Nat
  BY <1>1
<1> QED
  BY <1>1, <1>2 DEF Current

\* A final status is one of three.
LEMMA SettledStatus ==
    ASSUME NEW tx \in Tx, checkPending(tx) = "success"
    PROVE  tx.status = "SUCCESS"
BY DEF checkPending, Tx, Statuses

\* A settled transaction is forgotten, and reported only if it is a run that landed.
LEMMA SettleEffect ==
    ASSUME TypeOK, NEW i \in Ids, txs[i] # None, Settle(i)
    PROVE  /\ txs' = [txs EXCEPT ![i] = None]
           /\ backoff' \in [Ids -> {"open", "passed", None}]
           /\ report' \in Tx \cup {None}
           /\ ExecutedMeansRan'
<1>1. txs[i] \in Tx
  BY DEF TypeOK
<1>2. txs[i].purpose \in {"execute", "restore"}
  BY <1>1 DEF Tx, Purposes
<1>3. CASE txs[i].purpose = "restore"
  BY <1>3 DEF Settle, handleRestoreResolution, registerFailure, TypeOK, ExecutedMeansRan
<1>4. CASE txs[i].purpose = "execute"
  <2>1. CASE checkPending(txs[i]) = "success"
    <3>1. backoff' = [backoff EXCEPT ![i] = None] /\ report' = txs[i]
      BY <1>4, <2>1 DEF Settle, handle
    <3>2. txs[i].status = "SUCCESS"
      BY <1>1, <2>1, SettledStatus
    <3> QED
      BY <1>1, <1>4, <3>1, <3>2 DEF Settle, TypeOK, ExecutedMeansRan
  <2>2. CASE checkPending(txs[i]) # "success"
    BY <1>4, <2>2 DEF Settle, handle, registerFailure, TypeOK, ExecutedMeansRan
  <2> QED
    BY <2>1, <2>2
<1> QED
  BY <1>2, <1>3, <1>4

\* A page asks for orders, and names the next one or none.
LEMMA PageType ==
    ASSUME TypeOK, NEW from \in Nat, NEW size \in Nat
    PROVE  /\ listDue(from, size).ids \subseteq Ids
           /\ listDue(from, size).nextCursor \in Nat \cup {None}
<1> DEFINE start == IF from < 1 THEN 1 ELSE from
           end == Least(start + Least(size, MaxDueScan), LastId + 1)
<1>1. start \in Nat /\ end \in Nat
  BY KeeperAssumption DEF Least
<1>2. listDue(from, size) =
        [ids |-> due \cap (start .. end - 1), nextCursor |-> IF end > LastId THEN None ELSE end]
  BY DEF listDue
<1> HIDE DEF start, end
<1> QED
  BY <1>1, <1>2 DEF TypeOK

\* A scan makes orders candidates, and no more than a tick takes.
LEMMA CandidatesGrow ==
    ASSUME TypeOK, NEW S, S \subseteq Ids, NEW s \in Ascending(S),
           candidates' = candidates \o SubSeq(s, 1, Least(Len(s), MaxPerTick - Len(candidates)))
    PROVE  candidates' \in Seq(Ids) /\ Len(candidates') <= MaxPerTick
<1> DEFINE n == Cardinality(S)
           m == Least(Len(s), MaxPerTick - Len(candidates))
<1>1. IsFiniteSet(S)
  <2>1. IsFiniteSet(1 .. LastId)
    BY KeeperAssumption, FS_Interval
  <2> QED
    BY <2>1, FS_Subset DEF Ids
<1>2. n \in Nat
  BY <1>1, FS_CardinalityType
<1>3. s \in [1 .. n -> Ids]
  BY DEF Ascending
<1> HIDE DEF n
<1>4. s \in Seq(Ids) /\ Len(s) = n
  BY <1>2, <1>3
<1>5. /\ candidates \in Seq(Ids) /\ Len(candidates) \in Nat /\ MaxPerTick \in Nat
      /\ Len(candidates) <= MaxPerTick
  BY KeeperAssumption DEF TypeOK
<1>6. m \in Nat /\ m <= Len(s) /\ m <= MaxPerTick - Len(candidates)
  BY <1>2, <1>4, <1>5 DEF Least
<1> HIDE DEF m
<1>7. SubSeq(s, 1, m) \in Seq(Ids) /\ Len(SubSeq(s, 1, m)) = m
  BY <1>4, <1>6
<1>8. /\ candidates \o SubSeq(s, 1, m) \in Seq(Ids)
      /\ Len(candidates \o SubSeq(s, 1, m)) = Len(candidates) + m
  BY <1>5, <1>7, ConcatProperties
<1>9. candidates' = candidates \o SubSeq(s, 1, m)
  BY DEF m
<1>10. Len(candidates) + m <= MaxPerTick
  BY <1>5, <1>6
<1> QED
  BY <1>8, <1>9, <1>10

-----------------------------------------------------------------------------
(* The network's steps.                                                     *)

\* What the network does to a transaction, it stays a transaction and stays remembered.
LEMMA NetworkKeeps ==
    ASSUME KeeperInv, UNCHANGED <<pc, inflight, pending, todo, candidates, report>>,
           TypeOK', \A i \in Ids : txs'[i] = None <=> txs[i] = None
    PROVE  KeeperInv'
<1>1. AtWork'
  <2>1. pc = "wait" => Current \in Ids
    BY CurrentIsAnOrder DEF KeeperInv, AtWork, Busy
  <2> QED
    BY <2>1 DEF KeeperInv, AtWork, Busy, Current
<1>2. NothingInThePoolIsForgotten'
  BY DEF KeeperInv, TypeOK, NothingInThePoolIsForgotten, Current
<1>3. ExecutedMeansRan'
  BY DEF KeeperInv, ExecutedMeansRan
<1> QED
  BY <1>1, <1>2, <1>3 DEF KeeperInv

\* A transaction that is included makes the others on its sequence number stale.
LEMMA OvertakenType ==
    ASSUME TypeOK
    PROVE  /\ Overtaken \in [Ids -> Tx \cup {None}]
           /\ \A i \in Ids : Overtaken[i] = None <=> txs[i] = None
<1>1. ASSUME NEW i \in Ids
      PROVE  /\ Overtaken[i] \in Tx \cup {None}
             /\ Overtaken[i] = None <=> txs[i] = None
  <2>1. CASE txs[i] # None /\ txs[i].status = "POOLED"
    <3>1. txs[i] \in Tx
      BY <2>1 DEF TypeOK
    <3>2. [txs[i] EXCEPT !.status = "STALE"] \in Tx
      BY <3>1 DEF Tx, Statuses
    <3>3. Overtaken[i] = [txs[i] EXCEPT !.status = "STALE"]
      BY <2>1 DEF Overtaken
    <3> QED
      BY <2>1, <3>2, <3>3, TxIsNotNone
  <2>2. CASE ~(txs[i] # None /\ txs[i].status = "POOLED")
    <3>1. Overtaken[i] = txs[i]
      BY <2>2 DEF Overtaken
    <3> QED
      BY <3>1 DEF TypeOK
  <2> QED
    BY <2>1, <2>2
<1>2. Overtaken = [i \in Ids |-> Overtaken[i]]
  BY DEF Overtaken
<1> QED
  BY <1>1, <1>2

LEMMA NetworkStep ==
    ASSUME KeeperInv, LedgerStep
    PROVE  KeeperInv'
<1>1. TypeOK
  BY DEF KeeperInv
<1>2. ASSUME NEW i \in Ids, ComesDue(i)
      PROVE  KeeperInv'
  <2>1. TypeOK'
    BY <1>1, <1>2 DEF ComesDue, TypeOK, memVars, scanVars
  <2> QED
    BY <1>2, <2>1, NetworkKeeps DEF ComesDue, memVars
<1>3. ASSUME NEW i \in Refusable, OwnerChanges(i)
      PROVE  KeeperInv'
  <2>1. TypeOK'
    BY <1>1, <1>3, KeeperAssumption DEF OwnerChanges, TypeOK, memVars, scanVars
  <2> QED
    BY <1>3, <2>1, NetworkKeeps DEF OwnerChanges, memVars
<1>4. ASSUME NEW i \in Ids, WindowPasses(i)
      PROVE  KeeperInv'
  <2>1. TypeOK'
    BY <1>1, <1>4 DEF WindowPasses, TypeOK, ledgerVars, scanVars
  <2> QED
    BY <1>4, <2>1, NetworkKeeps DEF WindowPasses
<1>5. ASSUME NEW i \in Ids, Lands(i)
      PROVE  KeeperInv'
  <2>1. txs[i] \in Tx /\ txs[i] # None
    BY <1>1, <1>5 DEF Lands, TypeOK
  <2>2. Overtaken[i] \in Tx
    BY <1>1, <2>1, OvertakenType
  <2>3. PICK status \in Statuses :
          txs' = [Overtaken EXCEPT ![i] = [Overtaken[i] EXCEPT !.status = status]]
    BY <1>5 DEF Lands, Statuses
  <2>4. [Overtaken[i] EXCEPT !.status = status] \in Tx
    BY <2>2, <2>3 DEF Tx
  <2>5. /\ txs' \in [Ids -> Tx \cup {None}]
        /\ \A j \in Ids : txs'[j] = None <=> txs[j] = None
    BY <1>1, <2>1, <2>3, <2>4, OvertakenType, TxIsNotNone
  <2>6. TypeOK'
    BY <1>1, <1>5, <2>5 DEF Lands, Included, TypeOK, memVars, scanVars
  <2> QED
    BY <1>5, <2>5, <2>6, NetworkKeeps DEF Lands, Included, memVars
<1>6. ASSUME NEW i \in Ids, Lapses(i)
      PROVE  KeeperInv'
  <2>1. txs[i] \in Tx /\ txs[i] # None
    BY <1>1, <1>6 DEF Lapses, TypeOK
  <2>2. txs' = [txs EXCEPT ![i] = [txs[i] EXCEPT !.status = "GONE"]]
    BY <1>6 DEF Lapses
  <2>3. [txs[i] EXCEPT !.status = "GONE"] \in Tx
    BY <2>1 DEF Tx, Statuses
  <2>4. /\ txs' \in [Ids -> Tx \cup {None}]
        /\ \A j \in Ids : txs'[j] = None <=> txs[j] = None
    BY <1>1, <2>1, <2>2, <2>3, TxIsNotNone DEF TypeOK
  <2>5. TypeOK'
    BY <1>1, <1>6, <2>4 DEF Lapses, TypeOK, ledgerVars, memVars, scanVars
  <2> QED
    BY <1>6, <2>4, <2>5, NetworkKeeps DEF Lapses, memVars
<1>7. ASSUME NEW i \in Ids, NEW p \in Purposes, StrayLands(i, p)
      PROVE  KeeperInv'
  <2>1. /\ txs' \in [Ids -> Tx \cup {None}]
        /\ \A j \in Ids : txs'[j] = None <=> txs[j] = None
    BY <1>1, <1>7, OvertakenType DEF StrayLands
  <2>2. TypeOK'
    BY <1>1, <1>7, <2>1 DEF StrayLands, Included, TypeOK, memVars, scanVars
  <2> QED
    BY <1>7, <2>1, <2>2, NetworkKeeps DEF StrayLands, Included, memVars
<1>8. CASE StraysLapse
  <2>1. TypeOK'
    BY <1>1, <1>8 DEF StraysLapse, TypeOK, memVars, scanVars
  <2> QED
    BY <1>8, <2>1, NetworkKeeps DEF StraysLapse, memVars
<1> QED
  BY <1>2, <1>3, <1>4, <1>5, <1>6, <1>7, <1>8 DEF LedgerStep

-----------------------------------------------------------------------------
(* The keeper's steps.                                                      *)

\* Steps that send and settle nothing leave what is remembered alone.
LEMMA QuietKeeps ==
    ASSUME KeeperInv, UNCHANGED <<txs, inflight, pending>>, report' = None, TypeOK',
           todo' \subseteq pending,
           pc \notin Busy, pc' \notin Busy
    PROVE  KeeperInv'
<1>1. AtWork'
  BY DEF KeeperInv, AtWork, Busy
<1>2. NothingInThePoolIsForgotten'
  BY DEF KeeperInv, NothingInThePoolIsForgotten, Busy
<1>3. ExecutedMeansRan'
  BY DEF ExecutedMeansRan
<1> QED
  BY <1>1, <1>2, <1>3 DEF KeeperInv

\* What the end of a scan leaves.
LEMMA ScanEnds ==
    ASSUME TypeOK, NEW seen, EndScan(seen)
    PROVE  pc' = "exec" /\ backoff' \in [Ids -> {"open", "passed", None}]
           /\ cursor' = 0 /\ pages' = 0 /\ dueIds' = {}
BY DEF EndScan, pruneBackoff, TypeOK

LEMMA PageStep ==
    ASSUME KeeperInv, FetchPage
    PROVE  KeeperInv'
<1> DEFINE page == listDue(cursor, limit)
<1>1. TypeOK /\ pc = "scan"
  BY DEF KeeperInv, FetchPage
<1>2. limit \in Nat
  <2>1. IsFiniteSet(suppressed)
    <3>1. IsFiniteSet(1 .. LastId)
      BY KeeperAssumption, FS_Interval
    <3>2. suppressed \subseteq 1 .. LastId
      BY <1>1 DEF suppressed, activeBackoffIds, TypeOK, Ids
    <3> QED
      BY <3>1, <3>2, FS_Subset
  <2>2. Cardinality(suppressed) \in Nat
    BY <2>1, FS_CardinalityType
  <2> QED
    BY <2>2, KeeperAssumption DEF limit, Least
<1>3. page.ids \subseteq Ids /\ page.nextCursor \in Nat \cup {None}
  BY <1>1, <1>2, PageType DEF TypeOK
<1> HIDE DEF page
<1>4. candidates' \in Seq(Ids) /\ Len(candidates') <= MaxPerTick
  <2>1. PICK new \in Ascending(page.ids \ (dueIds \cup suppressed)) :
          candidates' = candidates \o SubSeq(new, 1, Least(Len(new), MaxPerTick - Len(candidates)))
    BY DEF FetchPage, page
  <2> QED
    BY <1>1, <1>3, <2>1, CandidatesGrow
<1>5. sweepCursor' \in Nat
  BY <1>3 DEF FetchPage, nextSweep, endOfSpace, page
<1>6. ran' \subseteq Ids
  BY <1>1 DEF FetchPage, TypeOK
<1>7. /\ pc' \in {"scan", "exec"} /\ backoff' \in [Ids -> {"open", "passed", None}]
      /\ cursor' \in Nat /\ pages' \in Nat /\ dueIds' \subseteq Ids
  <2>1. CASE EndScan(dueIds \cup page.ids)
    BY <1>1, <2>1, ScanEnds
  <2>2. CASE /\ cursor' = sweepCursor' /\ pages' = pages + 1 /\ dueIds' = dueIds \cup page.ids
             /\ UNCHANGED <<pc, backoff>>
    BY <1>1, <1>3, <1>5, <2>2 DEF TypeOK
  <2> QED
    BY <2>1, <2>2 DEF FetchPage, page
<1>8. TypeOK'
  BY <1>1, <1>4, <1>5, <1>6, <1>7 DEF FetchPage, TypeOK
<1>9. pc' \notin Busy /\ pc \notin Busy
  BY <1>1, <1>7 DEF Busy
<1>10. todo' \subseteq pending
  BY DEF FetchPage, KeeperInv, AtWork
<1> QED
  BY <1>8, <1>9, <1>10, QuietKeeps DEF FetchPage

LEMMA FailedPageStep ==
    ASSUME KeeperInv, FetchFails
    PROVE  KeeperInv'
<1>1. TypeOK /\ pc = "scan"
  BY DEF KeeperInv, FetchFails
<1>2. /\ pc' \in {"tick", "exec"} /\ backoff' \in [Ids -> {"open", "passed", None}]
      /\ cursor' \in Nat /\ pages' \in Nat /\ dueIds' \subseteq Ids
  <2>1. CASE pages = 0
    BY <1>1, <2>1 DEF FetchFails, TypeOK
  <2>2. CASE pages # 0
    BY <1>1, <2>2, ScanEnds DEF FetchFails
  <2> QED
    BY <2>1, <2>2
<1>3. TypeOK'
  BY <1>1, <1>2 DEF FetchFails, TypeOK, ledgerVars
<1>4. pc' \notin Busy /\ pc \notin Busy /\ todo' \subseteq pending
  BY <1>1, <1>2 DEF Busy, FetchFails, KeeperInv, AtWork
<1> QED
  BY <1>3, <1>4, QuietKeeps DEF FetchFails

\* The keeper's other steps outside a run.
LEMMA TickStep ==
    ASSUME KeeperInv,
           \/ StartTick \/ StartScan \/ EndTick
           \/ \E i \in Ids : KeepPending(i)
    PROVE  KeeperInv'
<1>1. TypeOK /\ AtWork
  BY DEF KeeperInv
<1>2. CASE StartTick
  <2>1. TypeOK'
    BY <1>1, <1>2 DEF StartTick, TypeOK, ledgerVars, scanVars
  <2> QED
    BY <1>2, <2>1, QuietKeeps DEF StartTick, Busy
<1>3. CASE StartScan
  <2>1. TypeOK'
    BY <1>1, <1>3 DEF StartScan, TypeOK, ledgerVars
  <2> QED
    BY <1>1, <1>3, <2>1, QuietKeeps DEF StartScan, Busy, AtWork
<1>4. CASE EndTick
  <2>1. TypeOK'
    BY <1>1, <1>4 DEF EndTick, TypeOK, ledgerVars, scanVars
  <2> QED
    BY <1>1, <1>4, <2>1, QuietKeeps DEF EndTick, Busy, AtWork
<1>5. ASSUME NEW i \in Ids, KeepPending(i)
      PROVE  KeeperInv'
  <2>1. TypeOK'
    BY <1>1, <1>5 DEF KeepPending, TypeOK, ledgerVars, scanVars
  <2> QED
    BY <1>1, <1>5, <2>1, QuietKeeps DEF KeepPending, Busy, AtWork
<1> QED
  BY <1>2, <1>3, <1>4, <1>5

\* A run that ends leaves its order's transaction remembered exactly when it is pending.
LEMMA FinishKeeps ==
    ASSUME KeeperInv, pc \in Busy, Finish,
           UNCHANGED <<ledgerVars, sweepCursor, todo, scanVars, restarts>>,
           backoff' \in [Ids -> {"open", "passed", None}],
           report' \in Tx \cup {None}, ExecutedMeansRan',
           txs' \in [Ids -> Tx \cup {None}],
           pending' \in {pending, pending \cup {Current}},
           \A i \in Ids \ {Current} : txs'[i] = txs[i],
           txs'[Current] # None <=> Current \in pending'
    PROVE  KeeperInv'
<1>1. TypeOK /\ AtWork /\ candidates # <<>>
  BY DEF KeeperInv, AtWork
<1>2. /\ Current \in Ids /\ Tail(candidates) \in Seq(Ids)
      /\ Len(Tail(candidates)) <= MaxPerTick
  BY <1>1, CurrentIsAnOrder
<1>3. pending' \subseteq Ids
  BY <1>1, <1>2 DEF TypeOK
<1>4. TypeOK'
  BY <1>1, <1>2, <1>3 DEF TypeOK, Finish, ledgerVars, scanVars
<1>5. AtWork'
  BY <1>1 DEF AtWork, Finish, Busy
<1>6. ASSUME NEW i \in Ids, txs'[i] # None
      PROVE  i \in pending'
  <2>1. CASE i = Current
    BY <1>6, <2>1
  <2>2. CASE i # Current
    BY <1>6, <2>2 DEF KeeperInv, NothingInThePoolIsForgotten
  <2> QED
    BY <2>1, <2>2
<1>7. ASSUME NEW i \in pending'
      PROVE  txs'[i] # None
  <2>1. CASE i = Current
    BY <1>7, <2>1
  <2>2. CASE i # Current
    <3>1. i \in pending /\ i \in Ids
      BY <1>3, <1>7, <2>2
    <3> QED
      BY <2>2, <3>1 DEF KeeperInv, NothingInThePoolIsForgotten
  <2> QED
    BY <2>1, <2>2
<1>8. NothingInThePoolIsForgotten'
  BY <1>6, <1>7 DEF NothingInThePoolIsForgotten, Finish
<1> QED
  BY <1>4, <1>5, <1>8 DEF KeeperInv

\* While an order is run it is not pending, and nothing of it is remembered unless it
\* is waited for.
LEMMA RunningIsNotPending ==
    ASSUME KeeperInv, pc \in Busy
    PROVE  /\ Current \in Ids /\ Current \notin pending
           /\ pc # "wait" => txs[Current] = None
<1>1. TypeOK /\ inflight = {Current} /\ candidates # <<>>
  BY DEF KeeperInv, AtWork
<1>2. Current \in Ids
  BY <1>1, CurrentIsAnOrder
<1>3. Current \notin pending
  BY <1>1 DEF KeeperInv, NothingInThePoolIsForgotten
<1> QED
  BY <1>2, <1>3 DEF KeeperInv, NothingInThePoolIsForgotten

\* What is sent is remembered under its purpose.
LEMMA SignedEffect ==
    ASSUME TypeOK, Current \in Ids, NEW status \in Statuses, Signed(status)
    PROVE  /\ txs' \in [Ids -> Tx \cup {None}]
           /\ \A i \in Ids \ {Current} : txs'[i] = txs[i]
           /\ txs'[Current] # None
<1> DEFINE sent == [purpose |-> IF pc = "send_restore" THEN "restore" ELSE "execute",
                    status |-> status]
<1>1. sent \in Tx
  BY DEF Tx, Purposes
<1>2. txs' = [txs EXCEPT ![Current] = sent]
  BY DEF Signed
<1> HIDE DEF sent
<1> QED
  BY <1>1, <1>2, TxIsNotNone DEF TypeOK

LEMMA ResolveStep ==
    ASSUME KeeperInv, NEW i \in Ids, Resolve(i)
    PROVE  KeeperInv'
<1>1. TypeOK /\ AtWork /\ pc = "resolve" /\ i \in todo /\ i \in pending
  BY DEF KeeperInv, AtWork, Resolve
<1>2. txs[i] # None
  BY <1>1 DEF KeeperInv, NothingInThePoolIsForgotten
<1>3. /\ txs' = [txs EXCEPT ![i] = None]
      /\ backoff' \in [Ids -> {"open", "passed", None}]
      /\ report' \in Tx \cup {None}
      /\ ExecutedMeansRan'
  BY <1>1, <1>2, SettleEffect DEF Resolve
<1>4. TypeOK'
  BY <1>1, <1>3 DEF Resolve, TypeOK, ledgerVars, scanVars
<1>5. AtWork'
  BY <1>1 DEF AtWork, Resolve, Busy
<1>6. NothingInThePoolIsForgotten'
  <2>1. pending' = pending \ {i} /\ inflight' = inflight /\ pc' = pc
    BY DEF Resolve
  <2>2. \A j \in Ids : txs'[j] = IF j = i THEN None ELSE txs[j]
    BY <1>1, <1>3 DEF TypeOK
  <2>3. pending \subseteq Ids
    BY <1>1 DEF TypeOK
  <2>4. /\ \A j \in Ids : txs[j] # None => j \in pending
        /\ \A j \in pending : txs[j] # None
        /\ inflight \cap pending = {}
    BY <1>1 DEF KeeperInv, NothingInThePoolIsForgotten
  <2> QED
    BY <2>1, <2>2, <2>3, <2>4 DEF NothingInThePoolIsForgotten
<1> QED
  BY <1>3, <1>4, <1>5, <1>6 DEF KeeperInv

LEMMA StartRunStep ==
    ASSUME KeeperInv, StartRun
    PROVE  KeeperInv'
<1>1. TypeOK /\ candidates # <<>> /\ Current \notin pending
  BY DEF KeeperInv, StartRun
<1>2. Current \in Ids
  BY <1>1, CurrentIsAnOrder
<1>3. TypeOK'
  BY <1>1, <1>2 DEF StartRun, TypeOK, ledgerVars, scanVars
<1>4. AtWork'
  BY <1>1 DEF StartRun, KeeperInv, AtWork, Busy, Current
<1>5. NothingInThePoolIsForgotten'
  BY <1>1 DEF StartRun, KeeperInv, NothingInThePoolIsForgotten
<1> QED
  BY <1>3, <1>4, <1>5 DEF StartRun, KeeperInv, ExecutedMeansRan

LEMMA SimulatesStep ==
    ASSUME KeeperInv, Simulates
    PROVE  KeeperInv'
<1>1. TypeOK /\ pc = "simulate" /\ pc' \in {"send_restore", "send_execute"} /\ fresh' \in BOOLEAN
  BY DEF KeeperInv, Simulates, TypeOK
<1>2. TypeOK'
  BY <1>1 DEF Simulates, TypeOK, ledgerVars, scanVars
<1>3. AtWork'
  BY <1>1 DEF Simulates, KeeperInv, AtWork, Busy, Current
<1>4. NothingInThePoolIsForgotten'
  BY <1>1 DEF Simulates, KeeperInv, NothingInThePoolIsForgotten
<1> QED
  BY <1>2, <1>3, <1>4 DEF Simulates, KeeperInv, ExecutedMeansRan

LEMMA SendAcceptedStep ==
    ASSUME KeeperInv, SendAccepted
    PROVE  KeeperInv'
<1>1. TypeOK /\ pc \in Busy /\ pc # "wait" /\ pc' = "wait"
  BY DEF KeeperInv, SendAccepted, Sending, Busy
<1>2. Current \in Ids /\ Current \notin pending
  BY <1>1, RunningIsNotPending
<1>3. /\ txs' \in [Ids -> Tx \cup {None}]
      /\ \A i \in Ids \ {Current} : txs'[i] = txs[i]
      /\ txs'[Current] # None
  BY <1>1, <1>2, SignedEffect DEF SendAccepted, Statuses
<1>4. TypeOK'
  BY <1>1, <1>3 DEF SendAccepted, TypeOK, ledgerVars, scanVars
<1>5. AtWork'
  BY <1>1, <1>3 DEF SendAccepted, KeeperInv, AtWork, Busy, Current
<1>6. NothingInThePoolIsForgotten'
  <2>1. Current' = Current /\ pending' = pending /\ inflight' = inflight
    BY DEF SendAccepted, Current
  <2>2. pending \subseteq Ids
    BY <1>1 DEF TypeOK
  <2>3. /\ \A j \in Ids : txs[j] # None => j \in pending
        /\ \A j \in pending : txs[j] # None
        /\ inflight \cap pending = {}
    BY <1>1 DEF KeeperInv, NothingInThePoolIsForgotten
  <2> QED
    BY <1>1, <1>2, <1>3, <2>1, <2>2, <2>3 DEF NothingInThePoolIsForgotten
<1> QED
  BY <1>4, <1>5, <1>6 DEF SendAccepted, KeeperInv, ExecutedMeansRan

\* The ways a run ends.
LEMMA RunEndsStep ==
    ASSUME KeeperInv,
           SimulationRefuses \/ SendFails \/ SendRefused \/ WaitEnds \/ WaitFails
    PROVE  KeeperInv'
<1>1. TypeOK /\ pc \in Busy
  BY DEF KeeperInv, Busy, Sending, SimulationRefuses, SendFails, SendRefused, WaitEnds,
         WaitFails
<1>2. Current \in Ids /\ Current \notin pending
  BY <1>1, RunningIsNotPending
<1>3. CASE SimulationRefuses \/ SendRefused
  <2>1. pc # "wait" /\ txs[Current] = None
    BY <1>1, <1>3, RunningIsNotPending DEF SimulationRefuses, SendRefused, Sending
  <2>2. backoff' = [backoff EXCEPT ![Current] = "open"] /\ report' = None
    BY <1>3 DEF SimulationRefuses, SendRefused, registerFailure
  <2>3. /\ backoff' \in [Ids -> {"open", "passed", None}]
        /\ report' \in Tx \cup {None} /\ ExecutedMeansRan'
    BY <1>1, <2>2 DEF TypeOK, ExecutedMeansRan
  <2>4. /\ txs' \in [Ids -> Tx \cup {None}] /\ txs' = txs /\ pending' = pending
        /\ Finish /\ UNCHANGED <<ledgerVars, sweepCursor, todo, scanVars, restarts>>
    BY <1>1, <1>3 DEF SimulationRefuses, SendRefused, TypeOK
  <2> QED
    BY <1>1, <1>2, <2>1, <2>3, <2>4, FinishKeeps
<1>4. CASE SendFails
  <2>1. /\ txs' \in [Ids -> Tx \cup {None}]
        /\ \A i \in Ids \ {Current} : txs'[i] = txs[i]
        /\ txs'[Current] # None
    BY <1>1, <1>2, <1>4, SignedEffect DEF SendFails, Statuses
  <2>2. /\ backoff' \in [Ids -> {"open", "passed", None}]
        /\ report' \in Tx \cup {None} /\ ExecutedMeansRan'
    BY <1>1, <1>4 DEF SendFails, TypeOK, ExecutedMeansRan
  <2> QED
    BY <1>1, <1>4, <2>1, <2>2, FinishKeeps DEF SendFails
<1>5. CASE WaitFails
  <2>1. txs[Current] # None /\ txs' = txs /\ txs \in [Ids -> Tx \cup {None}]
    BY <1>1, <1>5 DEF WaitFails, KeeperInv, AtWork, TypeOK
  <2>2. /\ backoff' \in [Ids -> {"open", "passed", None}]
        /\ report' \in Tx \cup {None} /\ ExecutedMeansRan'
    BY <1>1, <1>5 DEF WaitFails, TypeOK, ExecutedMeansRan
  <2> QED
    BY <1>1, <1>5, <2>1, <2>2, FinishKeeps DEF WaitFails
<1>6. CASE WaitEnds
  <2>1. pc = "wait" /\ txs[Current] # None
    BY <1>6 DEF WaitEnds, KeeperInv, AtWork
  <2>2. CASE Settle(Current) /\ Finish
    <3>1. /\ txs' = [txs EXCEPT ![Current] = None]
          /\ backoff' \in [Ids -> {"open", "passed", None}]
          /\ report' \in Tx \cup {None}
          /\ ExecutedMeansRan'
      BY <1>1, <1>2, <2>1, <2>2, SettleEffect
    <3>2. /\ txs' \in [Ids -> Tx \cup {None}] /\ txs'[Current] = None
          /\ \A i \in Ids \ {Current} : txs'[i] = txs[i]
      BY <1>1, <1>2, <3>1 DEF TypeOK
    <3> QED
      BY <1>1, <1>2, <1>6, <2>2, <3>1, <3>2, FinishKeeps DEF WaitEnds
  <2>3. CASE /\ pc' = "simulate" /\ txs' = [txs EXCEPT ![Current] = None] /\ report' = None
             /\ UNCHANGED <<inflight, candidates, backoff, fresh>>
    <3>1. UNCHANGED <<ledgerVars, pending, sweepCursor, todo, scanVars, restarts>>
      BY <1>6 DEF WaitEnds
    <3>2. TypeOK'
      BY <1>1, <2>3, <3>1 DEF TypeOK, ledgerVars, scanVars
    <3>3. AtWork'
      BY <1>1, <2>3, <3>1 DEF KeeperInv, AtWork, Busy, Current
    <3>4. \A j \in Ids : txs'[j] = IF j = Current THEN None ELSE txs[j]
      BY <1>1, <2>3 DEF TypeOK
    <3>5. NothingInThePoolIsForgotten'
      BY <1>1, <1>2, <2>3, <3>1, <3>4 DEF KeeperInv, NothingInThePoolIsForgotten, TypeOK
    <3> QED
      BY <2>3, <3>2, <3>3, <3>5 DEF KeeperInv, ExecutedMeansRan
  <2> QED
    BY <1>6, <2>2, <2>3 DEF WaitEnds
<1> QED
  BY <1>3, <1>4, <1>5, <1>6

\* A new process remembers nothing, and has sent nothing.
LEMMA RestartStep ==
    ASSUME KeeperInv, Restart
    PROVE  KeeperInv'
<1>1. TypeOK
  BY DEF KeeperInv
<1>2. TypeOK'
  BY <1>1, KeeperAssumption DEF Restart, TypeOK
<1>3. AtWork'
  BY DEF Restart, AtWork, Busy
<1> QED
  BY <1>2, <1>3 DEF Restart, KeeperInv, NothingInThePoolIsForgotten, ExecutedMeansRan

LEMMA InitKnows == Init => KeeperInv
BY KeeperAssumption DEF Init, InitMemory, KeeperInv, TypeOK, AtWork, Busy,
   NothingInThePoolIsForgotten, ExecutedMeansRan

LEMMA KeeperInvStep == KeeperInv /\ [Next]_vars => KeeperInv'
<1> SUFFICES ASSUME KeeperInv, [Next]_vars PROVE KeeperInv'
  OBVIOUS
<1>1. CASE UNCHANGED vars
  BY <1>1 DEF vars, ledgerVars, memVars, scanVars, KeeperInv, TypeOK, AtWork, Current,
              NothingInThePoolIsForgotten, ExecutedMeansRan
<1>2. CASE KeeperStep
  BY <1>2, PageStep, FailedPageStep, TickStep, ResolveStep, StartRunStep, SimulatesStep,
     SendAcceptedStep, RunEndsStep
  DEF KeeperStep
<1> QED
  BY <1>1, <1>2, NetworkStep, RestartStep DEF Next

\* The keeper's state is well formed whatever the network, the owners and the pages do.
THEOREM KeeperTypeCorrect == Spec => []TypeOK
<1>1. KeeperInv => TypeOK
  BY DEF KeeperInv
<1> QED
  BY <1>1, InitKnows, KeeperInvStep, PTL DEF Spec

\* A transaction whose fate the keeper does not know is remembered, and its order not
\* submitted again, until the fate is known; "executed" is said of runs that landed
\* (keeper.ts handle, runOne, resolvePending).
THEOREM FatesStayKnown == Spec => []FatesAreKnown
<1>1. KeeperInv => FatesAreKnown
  BY DEF KeeperInv, FatesAreKnown
<1> QED
  BY <1>1, InitKnows, KeeperInvStep, PTL DEF Spec

-----------------------------------------------------------------------------
(* Standing orders as they are asked for.                                   *)

Whoever  == Addresses \cup {Nobody}
Intents  == [kind : {"schedule_payment", "cancel_schedule", Absent},
             recipient : Names \cup {Absent}, amount : Nat, first : Nat,
             repeat : {"once", "day", "week", Absent}, runs : Nat, id : Nat,
             which : {Absent, "last", "next"}]
Ops      == [op : {"create_schedule", "cancel_schedule", Absent}, id : Nat, to : Whoever,
             amount : Nat, first : Nat, interval : Nat, runs : Nat]
Wishful  == [at : {"idle", "wished", "rule", "orders", "allowance", "build", "approval", "landed"},
             intent : Intents, call : Ops, shown : Ops]
Orders   == [state : {"none", "active", "ended"}, to : Whoever, amount : Nat, next : Nat,
             interval : Nat, runs_left : Nat, wish : Flows \cup {Absent}]
Rules    == {r \in [published : BOOLEAN, allows : BOOLEAN, per_tx_limit : Nat] :
                r.allows => r.published}

\* Amounts, limits, runs and bounds are natural numbers.
BookConstants ==
    /\ Amounts \subseteq Nat /\ Limits \subseteq Nat
    /\ REPEAT_RUNS \in Nat /\ MaxIds \in Nat /\ MaxTime \in Nat

BookTyped ==
    /\ contacts \in [Names -> Whoever] /\ env \in [Names -> Whoever]
    /\ flow \in [Flows -> Wishful]
    /\ rule \in Rules /\ allowance \in Nat /\ now \in Nat
    /\ order \in [OrderIds -> Orders]

\* The runs an intent asks for.
RunsOf(intent) == IF intent.runs = 0 THEN 1 ELSE intent.runs

\* A call to create orders what the intent says.
OrdersTheWish(f) ==
    /\ f.at = "wished" /\ f.intent.kind = "schedule_payment" =>
          f.intent.recipient \in Names /\ f.intent.repeat # Absent
    /\ f.at \in {"rule", "orders", "allowance"} => f.call.op = "create_schedule"
    /\ f.at \in {"build", "approval"} => f.call.op # Absent
    /\ f.at \in {"rule", "orders", "allowance", "build", "approval", "landed"}
          /\ f.call.op = "create_schedule" =>
          /\ f.call.amount = f.intent.amount /\ f.call.amount > 0
          /\ f.call.runs = RunsOf(f.intent)

\* A call to cancel names an order that is, or was, the one it shows.
NamesItsOrder(call) ==
    /\ call.id \in OrderIds /\ order[call.id].state \in {"active", "ended"}
    /\ order[call.id].state = "active" =>
          order[call.id].to = call.to /\ order[call.id].amount = call.amount

CancelsTheNamed(f) ==
    f.at \in {"build", "approval"} /\ f.call.op = "cancel_schedule" => NamesItsOrder(f.call)

\* An active order moves something, some more times, and remembers a wish only until the
\* user has seen it land.
OrderKept(o) ==
    o.state = "active" =>
        /\ o.amount > 0 /\ o.runs_left > 0
        /\ o.wish # Absent => /\ o.wish \in Flows /\ flow[o.wish].at = "landed"
                              /\ o.amount = flow[o.wish].intent.amount
                              /\ o.runs_left = RunsOf(flow[o.wish].intent)

StandingInv ==
    /\ BookTyped
    /\ \A f \in Flows : OrdersTheWish(flow[f]) /\ CancelsTheNamed(flow[f])
    /\ \A f \in Flows : flow[f].at = "approval" => flow[f].shown = flow[f].call
    /\ \A i \in OrderIds : OrderKept(order[i])

LEMMA IdleIsNoWish ==
    /\ Idle \in Wishful /\ NoIntent \in Intents /\ NoCall \in Ops
    /\ Idle.at = "idle" /\ NoOrder.state = "none"
    /\ NoOrder \in Orders /\ NoRule \in Rules
<1>1. NoIntent \in Intents /\ NoCall \in Ops
  BY DEF NoIntent, NoCall, Intents, Ops, Whoever
<1>2. Idle \in Wishful /\ Idle.at = "idle"
  BY <1>1 DEF Idle, Wishful
<1> QED
  BY <1>1, <1>2 DEF NoOrder, Orders, NoRule, Rules, Whoever

LEMMA StandingBegins == BookInit => StandingInv
<1> SUFFICES ASSUME BookInit  PROVE StandingInv
  OBVIOUS
<1>1. BookTyped
  BY IdleIsNoWish DEF BookInit, BookTyped, Whoever
<1>2. \A f \in Flows : flow[f] = Idle
  BY DEF BookInit
<1>3. \A i \in OrderIds : order[i] = NoOrder
  BY DEF BookInit
<1> QED
  BY <1>1, <1>2, <1>3, IdleIsNoWish DEF StandingInv, OrdersTheWish, CancelsTheNamed, OrderKept

\* A wish goes on; the orders stay as they are.
LEMMA WishesGoOn ==
    ASSUME StandingInv, NEW f \in Flows, NEW new \in Wishful, flow' = [flow EXCEPT ![f] = new],
           UNCHANGED <<contacts, env, rule, allowance, now, order>>, flow[f].at # "landed",
           OrdersTheWish(new), CancelsTheNamed(new), new.at = "approval" => new.shown = new.call
    PROVE  StandingInv'
<1>1. /\ flow' \in [Flows -> Wishful] /\ flow'[f] = new
      /\ \A g \in Flows \ {f} : flow'[g] = flow[g]
      /\ order' = order
  BY DEF StandingInv, BookTyped
<1>2. ASSUME NEW g \in Flows
      PROVE  /\ OrdersTheWish(flow[g])' /\ CancelsTheNamed(flow[g])'
             /\ flow'[g].at = "approval" => flow'[g].shown = flow'[g].call
  <2>1. /\ OrdersTheWish(flow'[g]) /\ CancelsTheNamed(flow'[g])
        /\ flow'[g].at = "approval" => flow'[g].shown = flow'[g].call
    BY <1>1 DEF StandingInv
  <2> QED
    BY <1>1, <2>1 DEF OrdersTheWish, CancelsTheNamed, NamesItsOrder, RunsOf
<1>3. ASSUME NEW i \in OrderIds  PROVE OrderKept(order[i])'
  <2>1. OrderKept(order[i])
    BY DEF StandingInv
  <2> QED
    BY <1>1, <2>1 DEF OrderKept, RunsOf
<1> QED
  BY <1>1, <1>2, <1>3 DEF StandingInv, BookTyped

LEMMA Refusing ==
    ASSUME StandingInv, NEW f \in Flows, Refuses(f), flow[f].at # "landed",
           UNCHANGED <<contacts, env, rule, allowance, now, order>>
    PROVE  StandingInv'
<1>1. OrdersTheWish(Idle) /\ CancelsTheNamed(Idle) /\ Idle.at # "approval"
  BY IdleIsNoWish DEF OrdersTheWish, CancelsTheNamed
<1> QED
  BY <1>1, IdleIsNoWish, WishesGoOn DEF Refuses

\* A step that asks nothing new of the call.
LEMMA GoingTo ==
    ASSUME StandingInv, NEW f \in Flows, NEW at \in {"orders", "allowance", "build"}, Goes(f, at),
           flow[f].at \in {"rule", "orders", "allowance"},
           UNCHANGED <<contacts, env, rule, allowance, now, order>>
    PROVE  StandingInv'
<1> DEFINE new == [flow[f] EXCEPT !.at = at]
<1>1. flow[f] \in Wishful /\ OrdersTheWish(flow[f])
  BY DEF StandingInv, BookTyped
<1>2. /\ new \in Wishful /\ new.at = at /\ new.intent = flow[f].intent
      /\ new.call = flow[f].call /\ new.shown = flow[f].shown
  BY <1>1 DEF Wishful
<1>3. flow' = [flow EXCEPT ![f] = new]
  BY DEF Goes, StandingInv, BookTyped
<1> HIDE DEF new
<1>4. OrdersTheWish(new) /\ CancelsTheNamed(new) /\ new.at # "approval"
  BY <1>1, <1>2 DEF OrdersTheWish, CancelsTheNamed, RunsOf, Absent
<1> QED
  BY <1>2, <1>3, <1>4, WishesGoOn

LEMMA Wishing ==
    ASSUME StandingInv, NEW f \in Flows, NEW intent \in Intents, Wishes(f, intent),
           intent.kind = "schedule_payment" =>
              intent.recipient \in Names /\ intent.repeat # Absent
    PROVE  StandingInv'
<1> DEFINE new == [Idle EXCEPT !.at = "wished", !.intent = intent]
<1>1. /\ new \in Wishful /\ new.at = "wished" /\ new.intent = intent
  BY IdleIsNoWish DEF Wishful
<1>2. flow' = [flow EXCEPT ![f] = new] /\ flow[f].at = "idle"
      /\ UNCHANGED <<contacts, env, rule, allowance, now, order>>
  BY DEF Wishes, Chain
<1> HIDE DEF new
<1>3. OrdersTheWish(new) /\ CancelsTheNamed(new) /\ new.at # "approval"
  BY <1>1 DEF OrdersTheWish, CancelsTheNamed
<1> QED
  BY <1>1, <1>2, <1>3, WishesGoOn

LEMMA Asking ==
    ASSUME BookConstants, StandingInv, NEW f \in Flows, Asks(f)
    PROVE  StandingInv'
<1>1. ASSUME NEW to \in Names \cup Addresses, NEW a \in Amounts, NEW e \in {"once", "week"},
             NEW t \in Firsts, Submits(f, to, a, e, t)
      PROVE  StandingInv'
  <2>1. PICK n \in resolveRecipientAlias(to) : Wishes(f, FormIntent(n, a, e, t))
    BY <1>1 DEF Submits
  <2>2. n \in Names /\ t \in Nat /\ a \in Nat /\ REPEAT_RUNS \in Nat
    BY DEF resolveRecipientAlias, BookConstants, Firsts
  <2>3. /\ FormIntent(n, a, e, t) \in Intents
        /\ FormIntent(n, a, e, t).recipient = n /\ FormIntent(n, a, e, t).repeat = e
    BY <2>2, IdleIsNoWish DEF FormIntent, Intents
  <2> QED
    BY <2>1, <2>2, <2>3, Wishing DEF Absent
<1>2. ASSUME NEW n \in Names, NEW a \in Amounts, NEW e \in {"once", "day"},
             NEW r \in 0 .. REPEAT_RUNS, NEW t \in Firsts, Speaks(f, n, a, e, r, t)
      PROVE  StandingInv'
  <2> DEFINE i == [NoIntent EXCEPT !.kind = "schedule_payment", !.recipient = n, !.amount = a,
                                   !.first = t, !.repeat = e, !.runs = r]
  <2>1. t \in Nat /\ a \in Nat /\ r \in Nat
    BY DEF BookConstants, Firsts
  <2>2. i \in Intents /\ i.recipient = n /\ i.repeat = e
    BY <2>1, IdleIsNoWish DEF Intents
  <2>3. Wishes(f, i)
    BY <1>2 DEF Speaks
  <2> HIDE DEF i
  <2> QED
    BY <2>2, <2>3, Wishing DEF Absent
<1>3. ASSUME NEW id \in OrderIds \cup {0}, NEW n \in Names \cup {Absent},
             NEW w \in {Absent, "last", "next"}, WishesToCancel(f, id, n, w)
      PROVE  StandingInv'
  <2> DEFINE i == [NoIntent EXCEPT !.kind = "cancel_schedule", !.id = id, !.recipient = n,
                                   !.which = w]
  <2>1. id \in Nat
    BY DEF BookConstants, OrderIds
  <2>2. i \in Intents /\ i.kind = "cancel_schedule"
    BY <2>1, IdleIsNoWish DEF Intents
  <2>3. Wishes(f, i)
    BY <1>3 DEF WishesToCancel
  <2> HIDE DEF i
  <2> QED
    BY <2>2, <2>3, Wishing
<1> QED
  BY <1>1, <1>2, <1>3 DEF Asks

LEMMA Drafting ==
    ASSUME StandingInv, NEW f \in Flows, Drafts(f)
    PROVE  StandingInv'
<1> DEFINE d    == draftFromIntent(flow[f].intent)
           call == parseDraft(d)
           new  == [flow[f] EXCEPT !.at = "rule", !.call = call]
<1>1. /\ flow[f] \in Wishful /\ flow[f].at = "wished" /\ flow[f].intent \in Intents
      /\ flow[f].intent.recipient \in Names /\ flow[f].intent.repeat \in {"once", "day", "week"}
      /\ UNCHANGED <<contacts, env, rule, allowance, now, order>>
  BY DEF Drafts, StandingInv, BookTyped, OrdersTheWish, Intents, Wishful, Chain
<1>2. /\ d.recipient = flow[f].intent.recipient /\ d.amount = flow[f].intent.amount
      /\ d.repeat = flow[f].intent.repeat /\ d.runs = flow[f].intent.runs
      /\ d.first = flow[f].intent.first /\ d.runs \in Nat /\ d.amount \in Nat /\ d.first \in Nat
  BY <1>1 DEF draftFromIntent, Intents
<1>3. CASE ~ (Parses(d) /\ InTime(d))
  <2>1. Refuses(f)
    BY <1>3 DEF Drafts
  <2> QED
    BY <1>1, <2>1, Refusing
<1>4. CASE Parses(d) /\ InTime(d)
  <2> DEFINE interval == IntervalSecs[d.repeat]
             runs     == IF d.repeat = "once" \/ d.runs = 0 THEN 1 ELSE d.runs
  <2>1. flow' = [flow EXCEPT ![f] = new]
    BY <1>4 DEF Drafts, StandingInv, BookTyped
  <2>2. Book[d.recipient] \in Whoever
    BY <1>1, <1>2 DEF Book, StandingInv, BookTyped
  <2>3. interval \in Nat /\ runs \in Nat
    BY <1>1, <1>2 DEF IntervalSecs
  <2>4. runs = RunsOf(flow[f].intent) /\ d.amount > 0
    BY <1>2, <1>4 DEF Parses, RunsOf
  <2>5. call = [NoCall EXCEPT !.op = "create_schedule", !.to = Book[d.recipient],
                              !.amount = d.amount, !.first = d.first, !.interval = interval,
                              !.runs = runs]
    BY DEF parseDraft, resolveInterval
  <2> HIDE DEF d, interval, runs, call
  <2>6. /\ call \in Ops /\ call.op = "create_schedule" /\ call.amount = d.amount
        /\ call.runs = runs
    BY <1>2, <2>2, <2>3, <2>5, IdleIsNoWish DEF Ops
  <2>7. new \in Wishful /\ new.at = "rule" /\ new.call = call /\ new.intent = flow[f].intent
    BY <1>1, <2>6 DEF Wishful
  <2> HIDE DEF new
  <2>8. OrdersTheWish(new) /\ CancelsTheNamed(new) /\ new.at # "approval"
    BY <1>2, <2>4, <2>6, <2>7 DEF OrdersTheWish, CancelsTheNamed
  <2> QED
    BY <1>1, <2>1, <2>7, <2>8, WishesGoOn
<1> QED
  BY <1>3, <1>4

LEMMA FindingTheOrder ==
    ASSUME BookConstants, StandingInv, NEW f \in Flows, FindsOrder(f)
    PROVE  StandingInv'
<1>1. /\ flow[f] \in Wishful /\ flow[f].at = "wished" /\ flow[f].intent.kind = "cancel_schedule"
      /\ UNCHANGED <<contacts, env, rule, allowance, now, order>>
  BY DEF FindsOrder, StandingInv, BookTyped, Chain
<1>2. CASE Refuses(f)
  BY <1>1, <1>2, Refusing
<1>3. ASSUME NEW id \in Active,
             flow' = [flow EXCEPT ![f].at = "build", ![f].call = CancelCall(id)]
      PROVE  StandingInv'
  <2> DEFINE call == CancelCall(id)
             new  == [flow[f] EXCEPT !.at = "build", !.call = call]
  <2>1. /\ id \in OrderIds /\ id \in Nat /\ order[id] \in Orders /\ order[id].state = "active"
    BY DEF Active, OrderIds, StandingInv, BookTyped, BookConstants
  <2>2. /\ call \in Ops /\ call.op = "cancel_schedule" /\ call.id = id
        /\ call.to = order[id].to /\ call.amount = order[id].amount
    <3>1. order[id].to \in Whoever /\ order[id].amount \in Nat
      BY <2>1 DEF Orders
    <3> QED
      BY <2>1, <3>1, IdleIsNoWish DEF CancelCall, Ops
  <2>3. flow' = [flow EXCEPT ![f] = new]
    BY <1>3 DEF StandingInv, BookTyped
  <2> HIDE DEF call
  <2>4. new \in Wishful /\ new.at = "build" /\ new.call = call
    BY <1>1, <2>2 DEF Wishful
  <2> HIDE DEF new
  <2>5. OrdersTheWish(new) /\ CancelsTheNamed(new) /\ new.at # "approval"
    BY <2>1, <2>2, <2>4 DEF OrdersTheWish, CancelsTheNamed, NamesItsOrder, Absent
  <2> QED
    BY <1>1, <2>3, <2>4, <2>5, WishesGoOn
<1>4. \/ Refuses(f)
      \/ \E id \in Active : flow' = [flow EXCEPT ![f].at = "build", ![f].call = CancelCall(id)]
  <2> DEFINE i == flow[f].intent
             found == IF i.id # 0 THEN Active \cap {i.id} ELSE pickByRecipient(i.recipient, i.which)
  <2>1. found \subseteq Active
    BY DEF pickByRecipient, Picked
  <2>2. \/ Refuses(f)
        \/ \E id \in found : flow' = [flow EXCEPT ![f].at = "build", ![f].call = CancelCall(id)]
    BY DEF FindsOrder
  <2> HIDE DEF found
  <2> QED
    BY <2>1, <2>2
<1> QED
  BY <1>2, <1>3, <1>4

LEMMA Building ==
    ASSUME StandingInv, NEW f \in Flows, Builds(f)
    PROVE  StandingInv'
<1> DEFINE old == flow[f]
           new == [old EXCEPT !.at = "approval", !.shown = old.call]
<1>1. /\ old \in Wishful /\ old.at = "build" /\ OrdersTheWish(old) /\ CancelsTheNamed(old)
      /\ UNCHANGED <<contacts, env, rule, allowance, now, order>>
  BY DEF Builds, StandingInv, BookTyped, Chain
<1>2. CASE ~Acceptable(old.call)
  <2>1. Refuses(f)
    BY <1>2 DEF Builds
  <2> QED
    BY <1>1, <2>1, Refusing
<1>3. CASE Acceptable(old.call)
  <2>1. flow' = [flow EXCEPT ![f] = new]
    BY <1>3 DEF Builds, StandingInv, BookTyped
  <2> HIDE DEF old
  <2>2. /\ new \in Wishful /\ new.at = "approval" /\ new.intent = old.intent
        /\ new.call = old.call /\ new.shown = old.call
    BY <1>1 DEF Wishful
  <2> HIDE DEF new
  <2>3. OrdersTheWish(new) /\ CancelsTheNamed(new)
    BY <1>1, <2>2 DEF OrdersTheWish, CancelsTheNamed, RunsOf
  <2> QED
    BY <1>1, <2>1, <2>2, <2>3, WishesGoOn DEF old
<1> QED
  BY <1>2, <1>3

\* Orders that end, run or come newly about stay what a call has named.
LEMMA NamesStay ==
    ASSUME StandingInv, NEW f \in Flows, CancelsTheNamed(flow[f]),
           \A i \in OrderIds : order[i].state \in {"active", "ended"} =>
              /\ order'[i].state \in {"active", "ended"}
              /\ order'[i].state = "active" =>
                    /\ order[i].state = "active"
                    /\ order'[i].to = order[i].to /\ order'[i].amount = order[i].amount,
           flow'[f] = flow[f]
    PROVE  CancelsTheNamed(flow[f])'
<1>1. SUFFICES ASSUME flow[f].at \in {"build", "approval"}, flow[f].call.op = "cancel_schedule"
               PROVE  NamesItsOrder(flow[f].call)'
  BY DEF CancelsTheNamed
<1>2. NamesItsOrder(flow[f].call)
  BY <1>1 DEF CancelsTheNamed
<1> DEFINE call == flow[f].call
<1>3. /\ call.id \in OrderIds /\ order'[call.id].state \in {"active", "ended"}
      /\ order'[call.id].state = "active" =>
            order'[call.id].to = call.to /\ order'[call.id].amount = call.amount
  BY <1>2 DEF NamesItsOrder
<1>4. flow'[f].call = call
  OBVIOUS
<1> HIDE DEF call
<1>5. /\ flow'[f].call.id \in OrderIds /\ order'[flow'[f].call.id].state \in {"active", "ended"}
      /\ order'[flow'[f].call.id].state = "active" =>
            /\ order'[flow'[f].call.id].to = flow'[f].call.to
            /\ order'[flow'[f].call.id].amount = flow'[f].call.amount
  BY <1>3, <1>4
<1> QED
  BY <1>5 DEF NamesItsOrder

\* What a flow's wish, its call and its summary have to do with one another does not
\* depend on the chain.
LEMMA FlowStays ==
    ASSUME StandingInv, NEW f \in Flows, flow'[f] = flow[f]
    PROVE  /\ OrdersTheWish(flow[f])'
           /\ flow'[f].at = "approval" => flow'[f].shown = flow'[f].call
<1>1. OrdersTheWish(flow[f]) /\ (flow[f].at = "approval" => flow[f].shown = flow[f].call)
  BY DEF StandingInv
<1> QED
  BY <1>1 DEF OrdersTheWish, RunsOf

LEMMA LeastIndex ==
    ASSUME NEW n \in Nat, NEW S \in SUBSET (1 .. n), S # {}
    PROVE  \E i \in S : \A j \in S : i <= j
<1> DEFINE T == {1 .. i : i \in S}
<1>1. FiniteSubsetsOf(1 .. n) = SUBSET (1 .. n)
  <2>1. IsFiniteSet(1 .. n)
    <3>1. 1 \in Int /\ n \in Int
      OBVIOUS
    <3> QED
      BY <3>1, FS_Interval
  <2> QED
    BY <2>1, FS_FiniteSubsetsOfFinite
<1>2. T \in SUBSET FiniteSubsetsOf(1 .. n) /\ T # {}
  <2>1. \A i \in S : 1 .. i \in SUBSET (1 .. n)
    OBVIOUS
  <2>2. T \in SUBSET SUBSET (1 .. n) /\ T # {}
    BY <2>1
  <2> QED
    BY <1>1, <2>2
<1> HIDE DEF T
<1>3. PICK x \in T : \A y \in T : ~ (<<y, x>> \in StrictSubsetOrdering(1 .. n))
  BY <1>2, FS_StrictSubsetOrderingWellFounded, WFMin
<1>4. \A y \in T : y \subseteq x => y = x
  BY <1>1, <1>2, <1>3 DEF StrictSubsetOrdering
<1>5. PICK i \in S : x = 1 .. i
  BY <1>3 DEF T
<1>6. ASSUME NEW j \in S, j < i  PROVE FALSE
  <2>1. 1 .. j \subseteq 1 .. i /\ i \in 1 .. i /\ i \notin 1 .. j
    BY <1>6
  <2> QED
    BY <1>4, <1>5, <2>1 DEF T
<1> QED
  BY <1>6

\* A free number is found when there is one.
LEMMA NextIdIsFree ==
    ASSUME BookConstants, NEW i \in OrderIds, order[i].state = "none"
    PROVE  NextId \in OrderIds /\ order[NextId].state = "none"
<1> DEFINE S == {k \in OrderIds : order[k].state = "none"}
<1>1. MaxIds \in Nat /\ S \in SUBSET (1 .. MaxIds) /\ S # {}
  BY DEF BookConstants, OrderIds
<1>2. PICK k \in S : \A j \in S : k <= j
  <2> HIDE DEF S
  <2> QED
    BY <1>1, LeastIndex
<1>3. k \in OrderIds /\ order[k].state = "none" /\ \A j \in 1 .. (k - 1) : order[j].state # "none"
  BY <1>1, <1>2 DEF OrderIds
<1> QED
  BY <1>3 DEF NextId

LEMMA Cancelling ==
    ASSUME BookConstants, StandingInv, NEW f \in Flows, flow[f].at = "approval",
           cancel_schedule(flow[f].call), Goes(f, "landed"),
           flow[f].call.op # "create_schedule", flow[f].call.id \in Active,
           UNCHANGED <<contacts, env, rule, allowance, now>>
    PROVE  StandingInv'
<1> DEFINE id  == flow[f].call.id
           new == [flow[f] EXCEPT !.at = "landed"]
<1>1. /\ flow[f] \in Wishful /\ OrdersTheWish(flow[f])
      /\ id \in OrderIds /\ flow \in [Flows -> Wishful] /\ order \in [OrderIds -> Orders]
  BY DEF StandingInv, BookTyped, Active
<1>2. new \in Wishful /\ new.at = "landed" /\ new.intent = flow[f].intent /\ new.call = flow[f].call
  BY <1>1 DEF Wishful
<1>3. flow' = [flow EXCEPT ![f] = new]
  BY <1>1 DEF Goes
<1>4. ended \in Orders /\ ended.state = "ended"
  BY IdleIsNoWish DEF ended, Orders
<1>5. order' = [order EXCEPT ![id] = ended]
  BY DEF cancel_schedule
<1> HIDE DEF id, new, ended
<1>6. /\ flow' \in [Flows -> Wishful] /\ flow'[f] = new /\ \A g \in Flows \ {f} : flow'[g] = flow[g]
      /\ order' \in [OrderIds -> Orders] /\ order'[id] = ended
      /\ \A i \in OrderIds \ {id} : order'[i] = order[i]
  BY <1>1, <1>2, <1>3, <1>4, <1>5
<1>7. ASSUME NEW g \in Flows
      PROVE  /\ OrdersTheWish(flow[g])' /\ CancelsTheNamed(flow[g])'
             /\ flow'[g].at = "approval" => flow'[g].shown = flow'[g].call
  <2>1. CASE g = f
    <3>1. flow'[g].at = "landed" /\ flow'[g].call.op # "create_schedule"
      BY <1>2, <1>6, <2>1
    <3> QED
      BY <3>1 DEF OrdersTheWish, CancelsTheNamed
  <2>2. CASE g # f
    <3>1. flow'[g] = flow[g] /\ CancelsTheNamed(flow[g])
      BY <1>6, <2>2 DEF StandingInv
    <3> QED
      BY <1>4, <1>6, <3>1, FlowStays, NamesStay
  <2> QED
    BY <2>1, <2>2
<1>8. ASSUME NEW i \in OrderIds  PROVE OrderKept(order[i])'
  <2>1. OrderKept(order[i])
    BY DEF StandingInv
  <2>2. CASE i = id
    BY <1>4, <1>6, <2>2 DEF OrderKept
  <2>3. CASE i # id
    <3>1. order'[i] = order[i]
      BY <1>6, <2>3
    <3>2. order[i].state = "active" /\ order[i].wish # Absent => flow'[order[i].wish] = flow[order[i].wish]
      BY <1>6, <2>1 DEF OrderKept
    <3> QED
      BY <2>1, <3>1, <3>2 DEF OrderKept, RunsOf
  <2> QED
    BY <2>2, <2>3
<1> QED
  BY <1>6, <1>7, <1>8 DEF StandingInv, BookTyped

LEMMA Creating ==
    ASSUME BookConstants, StandingInv, NEW f \in Flows, flow[f].at = "approval",
           create_schedule(f, flow[f].call), Goes(f, "landed"),
           flow[f].call.op = "create_schedule", flow[f].call.runs > 0,
           \E i \in OrderIds : order[i].state = "none",
           UNCHANGED <<contacts, env, rule, allowance, now>>
    PROVE  StandingInv'
<1> DEFINE call == flow[f].call
           id   == NextId
           new  == [flow[f] EXCEPT !.at = "landed"]
           o    == [state |-> "active", to |-> call.to, amount |-> call.amount, next |-> call.first,
                    interval |-> call.interval, runs_left |-> call.runs, wish |-> f]
<1>1. /\ flow[f] \in Wishful /\ OrdersTheWish(flow[f])
      /\ flow \in [Flows -> Wishful] /\ order \in [OrderIds -> Orders]
  BY DEF StandingInv, BookTyped
<1>2. id \in OrderIds /\ order[id].state = "none"
  BY NextIdIsFree
<1>3. /\ new \in Wishful /\ new.at = "landed" /\ new.intent = flow[f].intent /\ new.call = call
  BY <1>1 DEF Wishful
<1>4. /\ call \in Ops /\ call.amount = flow[f].intent.amount /\ call.amount > 0
      /\ call.runs = RunsOf(flow[f].intent)
  BY <1>1 DEF Wishful, OrdersTheWish
<1>5. /\ o \in Orders /\ o.state = "active" /\ o.amount = call.amount /\ o.runs_left = call.runs
      /\ o.wish = f
  BY <1>4 DEF Ops, Orders
<1>6. flow' = [flow EXCEPT ![f] = new] /\ order' = [order EXCEPT ![id] = o]
  BY <1>1 DEF Goes, create_schedule
<1> HIDE DEF id, new, o
<1>7. /\ flow' \in [Flows -> Wishful] /\ flow'[f] = new /\ \A g \in Flows \ {f} : flow'[g] = flow[g]
      /\ order' \in [OrderIds -> Orders] /\ order'[id] = o
      /\ \A i \in OrderIds \ {id} : order'[i] = order[i]
  BY <1>1, <1>2, <1>3, <1>5, <1>6
<1>8. ASSUME NEW g \in Flows
      PROVE  /\ OrdersTheWish(flow[g])' /\ CancelsTheNamed(flow[g])'
             /\ flow'[g].at = "approval" => flow'[g].shown = flow'[g].call
  <2>1. CASE g = f
    <3>1. /\ flow'[g].at = "landed" /\ flow'[g].call = call /\ flow'[g].intent = flow[f].intent
      BY <1>3, <1>7, <2>1
    <3> HIDE DEF call
    <3> QED
      BY <1>4, <3>1 DEF OrdersTheWish, CancelsTheNamed, RunsOf
  <2>2. CASE g # f
    <3>1. flow'[g] = flow[g] /\ CancelsTheNamed(flow[g])
      BY <1>7, <2>2 DEF StandingInv
    <3>2. \A i \in OrderIds : order[i].state \in {"active", "ended"} => order'[i] = order[i]
      BY <1>2, <1>7
    <3> QED
      BY <3>1, <3>2, FlowStays, NamesStay
  <2> QED
    BY <2>1, <2>2
<1>9. ASSUME NEW i \in OrderIds  PROVE OrderKept(order[i])'
  <2>1. OrderKept(order[i])
    BY DEF StandingInv
  <2>2. CASE i = id
    <3>1. /\ order'[i].state = "active" /\ order'[i].amount = call.amount
          /\ order'[i].runs_left = call.runs /\ order'[i].wish = f
          /\ flow'[f].at = "landed" /\ flow'[f].intent = flow[f].intent
      BY <1>3, <1>5, <1>7, <2>2
    <3>2. /\ order'[i].amount > 0 /\ order'[i].runs_left > 0 /\ order'[i].wish \in Flows
          /\ flow'[order'[i].wish].at = "landed"
          /\ order'[i].amount = flow'[order'[i].wish].intent.amount
          /\ order'[i].runs_left = RunsOf(flow'[order'[i].wish].intent)
      <4> HIDE DEF call
      <4>1. call.runs > 0
        BY DEF call
      <4> QED
        BY <1>4, <3>1, <4>1
    <3> QED
      BY <3>2 DEF OrderKept, RunsOf
  <2>3. CASE i # id
    <3>1. order'[i] = order[i]
      BY <1>7, <2>3
    <3>2. order[i].state = "active" /\ order[i].wish # Absent => flow'[order[i].wish] = flow[order[i].wish]
      BY <1>7, <2>1 DEF OrderKept
    <3> QED
      BY <2>1, <3>1, <3>2 DEF OrderKept, RunsOf
  <2> QED
    BY <2>2, <2>3
<1> QED
  BY <1>7, <1>8, <1>9 DEF StandingInv, BookTyped

LEMMA Landing ==
    ASSUME BookConstants, StandingInv, NEW f \in Flows, CallLands(f)
    PROVE  StandingInv'
<1>1. CASE Acceptable(flow[f].call) /\ flow[f].call.op = "create_schedule"
  BY <1>1, Creating DEF CallLands, Acceptable
<1>2. CASE Acceptable(flow[f].call) /\ flow[f].call.op # "create_schedule"
  BY <1>2, Cancelling DEF CallLands, Acceptable
<1>3. CASE ~ Acceptable(flow[f].call)
  BY <1>3, Refusing DEF CallLands
<1> QED
  BY <1>1, <1>2, <1>3

LEMMA Finishing ==
    ASSUME StandingInv, NEW f \in Flows, Finishes(f)
    PROVE  StandingInv'
<1> DEFINE forgotten(i) == [order[i] EXCEPT !.wish = Absent]
<1>1. flow \in [Flows -> Wishful] /\ order \in [OrderIds -> Orders]
  BY DEF StandingInv, BookTyped
<1>2. /\ flow' \in [Flows -> Wishful] /\ flow'[f] = Idle /\ \A g \in Flows \ {f} : flow'[g] = flow[g]
  BY <1>1, IdleIsNoWish DEF Finishes, Refuses
<1>3. ASSUME NEW i \in OrderIds
      PROVE  /\ order'[i] \in Orders /\ order'[i].state = order[i].state
             /\ order'[i].to = order[i].to /\ order'[i].amount = order[i].amount
             /\ order'[i].runs_left = order[i].runs_left
             /\ order'[i].wish = IF order[i].wish = f THEN Absent ELSE order[i].wish
  <2>1. order[i] \in Orders
    BY <1>1
  <2>2. order'[i] = IF order[i].wish = f THEN forgotten(i) ELSE order[i]
    BY DEF Finishes
  <2>3. /\ forgotten(i) \in Orders /\ forgotten(i).state = order[i].state
        /\ forgotten(i).to = order[i].to /\ forgotten(i).amount = order[i].amount
        /\ forgotten(i).runs_left = order[i].runs_left /\ forgotten(i).wish = Absent
    BY <2>1 DEF Orders
  <2> HIDE DEF forgotten
  <2> QED
    BY <2>1, <2>2, <2>3
<1>4. order' \in [OrderIds -> Orders]
  <2>1. order' = [i \in OrderIds |-> order'[i]]
    BY DEF Finishes
  <2> QED
    BY <1>3, <2>1
<1>5. ASSUME NEW g \in Flows
      PROVE  /\ OrdersTheWish(flow[g])' /\ CancelsTheNamed(flow[g])'
             /\ flow'[g].at = "approval" => flow'[g].shown = flow'[g].call
  <2>1. CASE g = f
    BY <1>2, <2>1, IdleIsNoWish DEF OrdersTheWish, CancelsTheNamed
  <2>2. CASE g # f
    <3>1. flow'[g] = flow[g] /\ CancelsTheNamed(flow[g])
      BY <1>2, <2>2 DEF StandingInv
    <3> QED
      BY <1>3, <3>1, FlowStays, NamesStay
  <2> QED
    BY <2>1, <2>2
<1>6. ASSUME NEW i \in OrderIds  PROVE OrderKept(order[i])'
  <2>1. OrderKept(order[i])
    BY DEF StandingInv
  <2>2. order'[i].wish # Absent /\ order[i].state = "active" =>
           flow'[order[i].wish] = flow[order[i].wish] /\ order'[i].wish = order[i].wish
    BY <1>2, <1>3, <2>1 DEF OrderKept
  <2> QED
    BY <1>3, <2>1, <2>2 DEF OrderKept, RunsOf
<1>7. UNCHANGED <<contacts, env, rule, allowance, now>>
  BY DEF Finishes
<1> QED
  BY <1>2, <1>4, <1>5, <1>6, <1>7 DEF StandingInv, BookTyped

\* What others change leaves the wishes and the orders alone.
LEMMA OthersChange ==
    ASSUME StandingInv, UNCHANGED <<flow, order>>, BookTyped'
    PROVE  StandingInv'
BY DEF StandingInv, OrdersTheWish, CancelsTheNamed, NamesItsOrder, OrderKept, RunsOf

LEMMA Meanwhile ==
    ASSUME BookConstants, StandingInv,
           \/ \E n \in Names, a \in Addresses \cup {Nobody} : SavesContact(n, a)
           \/ \E r \in RuleChoices : ChangesRule(r)
           \/ \E n \in Limits : Approves(n)
           \/ Passes
           \/ UNCHANGED bookVars
    PROVE  StandingInv'
<1>1. BookTyped
  BY DEF StandingInv
<1>2. CASE \E n \in Names, a \in Addresses \cup {Nobody} : SavesContact(n, a)
  BY <1>1, <1>2, OthersChange DEF SavesContact, Elsewhere, Chain, BookTyped, Whoever
<1>3. CASE \E r \in RuleChoices : ChangesRule(r)
  <2>1. ASSUME NEW r \in RuleChoices  PROVE r \in Rules
    <3>1. NoRule \in Rules
      BY DEF NoRule, Rules
    <3>2. CASE r \in [published : {TRUE}, allows : {TRUE}, per_tx_limit : Limits]
      <4>1. r \in [published : BOOLEAN, allows : BOOLEAN, per_tx_limit : Nat] /\ r.published = TRUE
        BY <3>2 DEF BookConstants
      <4> QED
        BY <4>1 DEF Rules
    <3>3. CASE r \in [published : {TRUE}, allows : {FALSE}, per_tx_limit : {1}]
      <4>1. r \in [published : BOOLEAN, allows : BOOLEAN, per_tx_limit : Nat] /\ r.allows = FALSE
        <5>1. {TRUE} \subseteq BOOLEAN /\ {FALSE} \subseteq BOOLEAN /\ {1} \subseteq Nat
          OBVIOUS
        <5>2. r.allows \in {FALSE}
          BY <3>3
        <5>3. r.published \in BOOLEAN /\ r.allows \in BOOLEAN /\ r.per_tx_limit \in Nat
          BY <3>3, <5>1
        <5>4. r = [published |-> r.published, allows |-> r.allows, per_tx_limit |-> r.per_tx_limit]
          BY <3>3
        <5> QED
          BY <5>2, <5>3, <5>4
      <4> QED
        BY <4>1 DEF Rules
    <3> QED
      BY <3>1, <3>2, <3>3 DEF RuleChoices
  <2> QED
    BY <1>1, <1>3, <2>1, OthersChange DEF ChangesRule, Elsewhere, BookTyped
<1>4. CASE \E n \in Limits : Approves(n)
  BY <1>1, <1>4, OthersChange DEF Approves, Elsewhere, BookTyped, BookConstants
<1>5. CASE Passes
  BY <1>1, <1>5, OthersChange DEF Passes, Elsewhere, BookTyped
<1>6. CASE UNCHANGED bookVars
  BY <1>1, <1>6, OthersChange DEF bookVars, BookTyped
<1> QED
  BY <1>2, <1>3, <1>4, <1>5, <1>6

LEMMA Running ==
    ASSUME BookConstants, StandingInv, NEW i \in OrderIds, Runs(i)
    PROVE  StandingInv'
<1> DEFINE o   == order[i]
           cut == [o EXCEPT !.runs_left = @ - 1, !.next = now + o.interval, !.wish = Absent]
           new == IF o.runs_left = 1 THEN ended ELSE cut
<1>1. /\ o \in Orders /\ o.state = "active" /\ OrderKept(o) /\ order \in [OrderIds -> Orders]
      /\ o.amount <= allowance /\ allowance \in Nat /\ now \in Nat
      /\ UNCHANGED <<flow, contacts, env, rule, now>>
  BY DEF StandingInv, BookTyped, Runs, Executable, Active, Elsewhere
<1>2. o.runs_left \in Nat \ {0} /\ o.amount \in Nat /\ o.interval \in Nat
  BY <1>1 DEF OrderKept, Orders
<1>3. allowance' = allowance - o.amount /\ order' = [order EXCEPT ![i] = new]
  BY DEF Runs
<1>4. ended \in Orders /\ ended.state = "ended"
  BY IdleIsNoWish DEF ended, Orders
<1>5. o.runs_left # 1 =>
         /\ cut \in Orders /\ cut.state = "active" /\ cut.to = o.to /\ cut.amount = o.amount
         /\ cut.runs_left > 0 /\ cut.wish = Absent
  <2> SUFFICES ASSUME o.runs_left # 1
               PROVE  /\ cut \in Orders /\ cut.state = "active" /\ cut.to = o.to
                      /\ cut.amount = o.amount /\ cut.runs_left > 0 /\ cut.wish = Absent
    OBVIOUS
  <2> DEFINE left == o.runs_left - 1
             next == now + o.interval
  <2>1. left \in Nat /\ left > 0 /\ next \in Nat
    BY <1>1, <1>2
  <2>2. cut = [o EXCEPT !.runs_left = left, !.next = next, !.wish = Absent]
    OBVIOUS
  <2>3. o \in Orders /\ o.state = "active"
    BY <1>1
  <2> HIDE DEF cut, left, next, o
  <2> QED
    BY <2>1, <2>2, <2>3 DEF Orders
<1> HIDE DEF cut, ended
<1>6. /\ new \in Orders /\ new.state \in {"active", "ended"}
      /\ new.state = "active" => /\ new.to = o.to /\ new.amount = o.amount
                                 /\ new.runs_left > 0 /\ new.wish = Absent
  BY <1>4, <1>5
<1> HIDE DEF new
<1>7. /\ order' \in [OrderIds -> Orders] /\ order'[i] = new
      /\ \A j \in OrderIds \ {i} : order'[j] = order[j]
  BY <1>1, <1>3, <1>6
<1>8. allowance' \in Nat
  BY <1>1, <1>2, <1>3
<1>9. ASSUME NEW g \in Flows
      PROVE  /\ OrdersTheWish(flow[g])' /\ CancelsTheNamed(flow[g])'
             /\ flow'[g].at = "approval" => flow'[g].shown = flow'[g].call
  <2>1. flow'[g] = flow[g] /\ CancelsTheNamed(flow[g])
    BY <1>1 DEF StandingInv
  <2>2. \A j \in OrderIds : order[j].state \in {"active", "ended"} =>
           /\ order'[j].state \in {"active", "ended"}
           /\ order'[j].state = "active" =>
                 /\ order[j].state = "active"
                 /\ order'[j].to = order[j].to /\ order'[j].amount = order[j].amount
    BY <1>1, <1>6, <1>7
  <2> QED
    BY <2>1, <2>2, FlowStays, NamesStay
<1>10. ASSUME NEW j \in OrderIds  PROVE OrderKept(order[j])'
  <2>1. CASE j = i
    BY <1>1, <1>2, <1>6, <1>7, <2>1 DEF OrderKept
  <2>2. CASE j # i
    <3>1. order'[j] = order[j] /\ flow' = flow /\ OrderKept(order[j])
      BY <1>1, <1>7, <2>2 DEF StandingInv
    <3> QED
      BY <3>1 DEF OrderKept, RunsOf
  <2> QED
    BY <2>1, <2>2
<1> QED
  BY <1>1, <1>7, <1>8, <1>9, <1>10 DEF StandingInv, BookTyped

LEMMA Reading ==
    ASSUME BookConstants, StandingInv, NEW f \in Flows,
           ReadsRule(f) \/ CountsOrders(f) \/ ReadsAllowance(f)
    PROVE  StandingInv'
<1>1. /\ flow[f].at \in {"rule", "orders", "allowance"}
      /\ UNCHANGED <<contacts, env, rule, allowance, now, order>>
      /\ Refuses(f) \/ \E at \in {"orders", "allowance", "build"} : Goes(f, at)
  BY DEF ReadsRule, CountsOrders, ReadsAllowance, Chain
<1> QED
  BY <1>1, Refusing, GoingTo

LEMMA StandingGoesOn ==
    ASSUME BookConstants, StandingInv, [BookNext]_bookVars
    PROVE  StandingInv'
<1>1. ASSUME NEW f \in Flows, FlowStep(f)  PROVE StandingInv'
  BY <1>1, Drafting, Reading, FindingTheOrder, Building, Landing, Finishing DEF FlowStep
<1> QED
  BY <1>1, Asking, Running, Meanwhile DEF BookNext

THEOREM StandingInvariant ==
    ASSUME BookConstants
    PROVE  BookSpec => []StandingInv
<1>1. BookInit => StandingInv
  BY StandingBegins
<1>2. StandingInv /\ [BookNext]_bookVars => StandingInv'
  BY StandingGoesOn
<1> QED
  BY <1>1, <1>2, PTL DEF BookSpec

\* The steps of one wish touch no other's.
LEMMA OnlyItsWish ==
    ASSUME NEW f \in Flows, FlowStep(f) \/ Asks(f), StandingInv, NEW g \in Flows \ {f}
    PROVE  flow'[g] = flow[g]
<1>1. flow \in [Flows -> Wishful]
  BY DEF StandingInv, BookTyped
<1>2. CASE Drafts(f) \/ ReadsRule(f) \/ CountsOrders(f) \/ ReadsAllowance(f)
  BY <1>1, <1>2 DEF Drafts, ReadsRule, CountsOrders, ReadsAllowance, Refuses, Goes
<1>3. CASE FindsOrder(f) \/ Builds(f)
  BY <1>1, <1>3 DEF FindsOrder, Builds, Refuses
<1>4. CASE CallLands(f) \/ Finishes(f)
  BY <1>1, <1>4 DEF CallLands, Finishes, Refuses, Goes
<1>5. CASE Asks(f)
  BY <1>1, <1>5 DEF Asks, Submits, Speaks, WishesToCancel, Wishes
<1> QED
  BY <1>2, <1>3, <1>4, <1>5 DEF FlowStep

LEMMA OnlyItsCallLands ==
    ASSUME StandingInv, [BookNext]_bookVars, NEW f \in Flows,
           flow[f].at = "approval", flow'[f].at = "landed"
    PROVE  CallLands(f)
<1>1. flow' # flow
  OBVIOUS
<1>2. PICK g \in Flows : FlowStep(g) \/ Asks(g)
  BY <1>1 DEF BookNext, SavesContact, ChangesRule, Approves, Runs, Passes, Elsewhere, bookVars
<1>3. g = f
  BY <1>2, OnlyItsWish
<1>4. ~Asks(f)
  BY DEF Asks, Submits, Speaks, WishesToCancel, Wishes
<1>5. ~Finishes(f)
  <2>1. Finishes(f) => flow'[f] = Idle
    BY DEF Finishes, Refuses, StandingInv, BookTyped
  <2> QED
    BY <2>1, IdleIsNoWish
<1> QED
  BY <1>2, <1>3, <1>4, <1>5
     DEF FlowStep, Drafts, ReadsRule, CountsOrders, ReadsAllowance, FindsOrder, Builds

LEMMA LandingCancelsTheShown ==
    ASSUME StandingInv, NEW f \in Flows, CallLands(f), flow'[f].at = "landed",
           flow[f].call.op = "cancel_schedule"
    PROVE  \E i \in Active :
              /\ order'[i].state = "ended"
              /\ order[i].to = flow[f].shown.to /\ order[i].amount = flow[f].shown.amount
<1> DEFINE id == flow[f].call.id
<1>1. flow[f].at = "approval" /\ flow[f].shown = flow[f].call /\ NamesItsOrder(flow[f].call)
  BY DEF CallLands, StandingInv, CancelsTheNamed
<1>2. Acceptable(flow[f].call)
  <2>1. ~ Refuses(f)
    BY IdleIsNoWish DEF Refuses, StandingInv, BookTyped
  <2> QED
    BY <2>1 DEF CallLands
<1>3. id \in Active /\ cancel_schedule(flow[f].call)
  BY <1>2 DEF Acceptable, CallLands
<1>4. order'[id].state = "ended"
  BY <1>3, IdleIsNoWish DEF cancel_schedule, ended, Active, StandingInv, BookTyped, Orders
<1>5. order[id].to = flow[f].shown.to /\ order[id].amount = flow[f].shown.amount
  BY <1>1, <1>3 DEF NamesItsOrder, Active
<1> QED
  BY <1>3, <1>4, <1>5

LEMMA OrdersFollow == StandingInv => OrderIsAsWished /\ WarnedRunsFail
<1> SUFFICES ASSUME StandingInv  PROVE OrderIsAsWished /\ WarnedRunsFail
  OBVIOUS
<1>1. OrderIsAsWished
  BY DEF StandingInv, OrderIsAsWished, OrderKept, RunsOf, Active
<1>2. ASSUME summarizeScheduleHealth = "warn", NEW i \in Active  PROVE ~Executable(i)
  <2>1. ~rule.published \/ allowance = 0
    BY <1>2 DEF summarizeScheduleHealth
  <2>2. rule.allows => rule.published
    BY DEF StandingInv, BookTyped, Rules
  <2>3. order[i] \in Orders /\ order[i].amount > 0
    BY DEF StandingInv, BookTyped, OrderKept, Active
  <2>4. order[i].amount \in Nat
    BY <2>3 DEF Orders
  <2>5. allowance = 0 => ~ (order[i].amount <= allowance)
    BY <2>3, <2>4
  <2> QED
    BY <2>1, <2>2, <2>5 DEF Executable
<1> QED
  BY <1>1, <1>2 DEF WarnedRunsFail

\* What is cancelled is the order the approval showed, what is ordered is what was wished
\* for, and what the panel warns of fails, whatever is created, run, cancelled, approved
\* or published in between (cancelSchedule.ts, newSchedule.ts, schedules.ts).
THEOREM OrdersKeepToTheirCards ==
    ASSUME BookConstants
    PROVE  BookSpec => OrdersFollowTheirCards
<1>1. StandingInv /\ [BookNext]_bookVars =>
         [\A f \in Flows :
             flow[f].at = "approval" /\ flow'[f].at = "landed" /\ flow[f].call.op = "cancel_schedule"
             => \E i \in Active :
                   /\ order'[i].state = "ended"
                   /\ order[i].to = flow[f].shown.to /\ order[i].amount = flow[f].shown.amount]_bookVars
  BY OnlyItsCallLands, LandingCancelsTheShown
<1>2. StandingInv => OrderIsAsWished /\ WarnedRunsFail
  BY OrdersFollow
<1> QED
  BY <1>1, <1>2, StandingInvariant, PTL DEF BookSpec, OrdersFollowTheirCards, CancelsWhatWasShown
=============================================================================
