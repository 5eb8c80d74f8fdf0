-------------------------- MODULE GateClientProofs --------------------------
(***************************************************************************)
(* The two clients of the approval gate, the wallet's commands and the     *)
(* approval card, use it as its specification allows, so what is proved of *)
(* the gate holds of either composition.  A logout is final; and a card    *)
(* that offers a decision while nothing is on its way shows the request    *)
(* the gate is waiting for.  For any threads, timeouts, requests, batch    *)
(* sizes and lengths of the webview's queue.                               *)
(***************************************************************************)
EXTENDS WalletSession, ApprovalOverlay, ApprovalGateProofs, SequenceTheorems

\* A command between its question to the session and its call of the gate carries
\* an argument the gate accepts.
CommandOK ==
    /\ main \in [op : Commands, arg : Nat]
    /\ main.op = "begin_batch" => main.arg \in BatchSizes
    /\ main.op = "sign" => main.arg \in Known

\* From the moment a logout has been to the gate, nothing of before is live.
LoggedOutIsOver ==
    /\ logged_out \in Nat /\ logged_out <= next_id
    /\ main.op # "lock" => \A id \in 1 .. logged_out : ~LiveRequest(id)

SessionInv == GateInv /\ CommandOK /\ LoggedOutIsOver

-----------------------------------------------------------------------------

\* A command asks first: it goes on with its argument, or it is over.
LEMMA GoesOn ==
    ASSUME NEW op, NEW arg, GoOn(op, arg)
    PROVE  main' = [op |-> op, arg |-> arg] \/ main' = Rest
BY DEF GoOn

\* Every step of the composition is a step of the gate, or none.
LEMMA StepIsGateStep ==
    ASSUME SessionInv, [Next]_vars
    PROVE  [GateNext]_gateVars
<1>1. CASE Connect \/ LockCommand \/ Poll \/ SignChallenge \/ TickerWakes \/ BeginCommand
  BY <1>1 DEF Connect, LockCommand, Poll, SignChallenge, TickerWakes, BeginCommand
<1>2. ASSUME NEW minutes, SetAutoLock(minutes)
      PROVE  UNCHANGED gateVars
  BY <1>2 DEF SetAutoLock
<1>3. CASE LockInvalidates \/ TickerInvalidates
  BY <1>3 DEF LockInvalidates, TickerInvalidates, GateNext
<1>4. CASE BeginStores
  BY <1>4 DEF BeginStores, SessionInv, CommandOK, GateNext
<1>5. ASSUME NEW t \in Tasks, NEW id \in Known, AuthorizeCommand(t, "single", id)
      PROVE  [GateNext]_gateVars
  BY <1>5 DEF AuthorizeCommand, GateNext
<1>6. ASSUME NEW t \in Tasks, NEW id \in 1 .. next_batch_id, AuthorizeCommand(t, "batch", id)
      PROVE  [GateNext]_gateVars
  BY <1>6 DEF AuthorizeCommand, GateNext
<1>7. ASSUME NEW id \in Known, DenyCommand(id) \/ StatusCommand(id) \/ SignCommand(id)
      PROVE  [GateNext]_gateVars
  BY <1>7 DEF DenyCommand, StatusCommand, SignCommand, GateNext
<1>8. CASE SignTakes
  BY <1>8 DEF SignTakes, SessionInv, CommandOK, GateNext
<1>9. ASSUME NEW signed \in BOOLEAN, SignSigns(signed)
      PROVE  UNCHANGED gateVars
  BY <1>9 DEF SignSigns
<1>10. CASE PoolOrClock
  BY <1>10 DEF PoolOrClock, GateNext
<1>11. CASE UNCHANGED vars
  BY <1>11 DEF vars
<1> QED
  BY <1>1, <1>2, <1>3, <1>4, <1>5, <1>6, <1>7, <1>8, <1>9, <1>10, <1>11 DEF Next

\* No step forgets a request id.
LEMMA IdsGrow ==
    ASSUME GateInv, [GateNext]_gateVars
    PROVE  next_id \in Nat /\ next_id' \in Nat /\ next_id <= next_id'
<1>1. next_id \in Nat /\ next_id' \in Nat
  BY GateStep DEF GateInv, GateTypeOK
<1>2. \A n \in BatchSizes : n \in Nat
  BY GateAssumption
<1>3. next_id' = next_id \/ next_id' = next_id + 1 \/ \E n \in BatchSizes : next_id' = next_id + n
  BY DEF GateNext, Begin, BeginBatch, Call, TaskStep, Prepare, PrepareRefused, Answer, Panic,
         Drop, Deny, Status, Take, InvalidateForLock, Tick, store, gateVars
<1> QED
  BY <1>1, <1>2, <1>3

\* The command in hand keeps an argument the gate accepts.
LEMMA CommandStep ==
    ASSUME SessionInv, [Next]_vars
    PROVE  CommandOK'
<1>1. next_id \in Nat /\ next_id' \in Nat /\ next_id <= next_id'
  BY StepIsGateStep, IdsGrow DEF SessionInv
<1>2. /\ Rest \in [op : Commands, arg : Nat] /\ Rest.op = "rest"
      /\ [Rest EXCEPT !.op = "lock"] \in [op : Commands, arg : Nat]
      /\ [Rest EXCEPT !.op = "lock"].op = "lock"
  BY DEF Rest, Commands
<1>3. CASE main' = main
  BY <1>1, <1>3 DEF SessionInv, CommandOK, Known
<1>4. CASE main' = Rest \/ main' = [Rest EXCEPT !.op = "lock"]
  BY <1>2, <1>4 DEF CommandOK
<1>5. CASE BeginCommand
  <2>1. CASE GoOn("begin", 0)
    BY <1>4, <2>1, GoesOn DEF CommandOK, Commands
  <2>2. ASSUME NEW n \in BatchSizes, GoOn("begin_batch", n)
        PROVE  CommandOK'
    BY <1>4, <2>2, GoesOn, GateAssumption DEF CommandOK, Commands
  <2> QED
    BY <1>5, <2>1, <2>2 DEF BeginCommand
<1>6. ASSUME NEW id \in Known, SignCommand(id)
      PROVE  CommandOK'
  <2>1. GoOn("sign", id) /\ next_id' = next_id
    BY <1>6 DEF SignCommand, gateVars
  <2> QED
    BY <1>1, <1>4, <2>1, GoesOn DEF CommandOK, Commands, Known
<1>7. CASE SignTakes
  <2>1. CASE main' = [main EXCEPT !.op = "signing"]
    BY <2>1 DEF SessionInv, CommandOK, Commands
  <2> QED
    BY <1>4, <1>7, <2>1 DEF SignTakes
<1> QED
  BY <1>3, <1>4, <1>5, <1>6, <1>7
  DEF Next, Connect, LockCommand, LockInvalidates, Poll, SetAutoLock, TickerWakes,
      TickerInvalidates, BeginStores, AuthorizeCommand, DenyCommand, StatusCommand, SignSigns,
      SignChallenge, PoolOrClock, vars

\* The lock leaves nothing live.
LEMMA LockEndsAll ==
    ASSUME GateTypeOK, InvalidateForLock
    PROVE  \A id : ~LiveRequest(id)'
<1>1. \A e \in Entry : Locked(e).state \notin Live
  BY DEF Locked, Entry, Live
<1>2. current' # None => current'.state \notin Live
  BY <1>1 DEF InvalidateForLock, GateTypeOK
<1>3. batch' # None => \A i \in DOMAIN batch'.entries : batch'.entries[i].state \notin Live
  <2>1. CASE batch # None
    <3>1. batch \in Batch /\ \A i \in DOMAIN batch.entries : batch.entries[i] \in Entry
      BY <2>1 DEF GateTypeOK, Batch
    <3>2. batch'.entries = [i \in DOMAIN batch.entries |-> Locked(batch.entries[i])]
      BY <2>1, <3>1 DEF InvalidateForLock, Batch
    <3> QED
      BY <1>1, <3>1, <3>2
  <2>2. CASE batch = None
    BY <2>2 DEF InvalidateForLock
  <2> QED
    BY <2>1, <2>2
<1> QED
  BY <1>2, <1>3 DEF LiveRequest, Stored, Steps

\* Nothing of before a logout comes back to life.
LEMMA LogoutStep ==
    ASSUME SessionInv, [Next]_vars
    PROVE  LoggedOutIsOver'
<1>1. next_id \in Nat /\ next_id' \in Nat /\ next_id <= next_id'
  BY StepIsGateStep, IdsGrow DEF SessionInv
<1>2. \A id \in Known : ~LiveRequest(id) => ~LiveRequest(id)'
  BY StepIsGateStep, GateStep DEF SessionInv
<1>3. CASE logged_out' = logged_out /\ (main'.op # "lock" => main.op # "lock")
  <2>1. 1 .. logged_out \subseteq Known /\ logged_out <= next_id'
    BY <1>1 DEF SessionInv, LoggedOutIsOver, Known
  <2> QED
    BY <1>2, <1>3, <2>1 DEF SessionInv, LoggedOutIsOver
<1>4. CASE LockCommand
  BY <1>1, <1>4 DEF LockCommand, LoggedOutIsOver, Rest, gateVars
<1>5. CASE LockInvalidates
  <2>1. \A id : ~LiveRequest(id)'
    BY <1>5, LockEndsAll DEF LockInvalidates, SessionInv, GateInv
  <2>2. logged_out' = logged_out
    BY <1>5 DEF LockInvalidates
  <2> QED
    BY <1>1, <2>1, <2>2 DEF LoggedOutIsOver, SessionInv
<1>6. CASE ~LockCommand /\ ~LockInvalidates
  <2>1. logged_out' = logged_out /\ (main' = main \/ main.op # "lock")
    <3>1. Rest.op = "rest"
      BY DEF Rest
    <3> QED
      BY <1>6, <3>1
      DEF Next, Connect, Poll, SetAutoLock, TickerWakes, TickerInvalidates, BeginCommand,
          BeginStores, AuthorizeCommand, DenyCommand, StatusCommand, SignCommand, SignTakes,
          SignSigns, SignChallenge, PoolOrClock, vars
  <2> QED
    BY <1>3, <2>1
<1> QED
  BY <1>4, <1>5, <1>6

-----------------------------------------------------------------------------

\* The invariant holds in every state of the composition.
THEOREM SessionInvariant == Spec => []SessionInv
<1>1. Init => SessionInv
  BY GateStart DEF Init, GateInit, SessionInv, CommandOK, LoggedOutIsOver, Rest, Commands
<1>2. SessionInv /\ [Next]_vars => SessionInv'
  BY StepIsGateStep, GateStep, CommandStep, LogoutStep DEF SessionInv
<1> QED
  BY <1>1, <1>2, PTL DEF Spec

\* The wallet's commands use the gate as the gate allows: every behaviour of the
\* composition is one of the gate, and GateInvariant and OverIsFinal apply to it.
THEOREM SessionImplementsGate == Spec => GateSpec
<1>1. Init => GateInit
  BY DEF Init
<1>2. SessionInv /\ [Next]_vars => [GateNext]_gateVars
  BY StepIsGateStep
<1> QED
  BY <1>1, <1>2, SessionInvariant, PTL DEF Spec, GateSpec

\* Nothing begun before a logout is released after it (session.rs:371-372).
THEOREM LogoutEndsApprovals == Spec => LogoutIsFinal
<1>1. ASSUME SessionInv, [Next]_vars
      PROVE  [\A id \in 1 .. logged_out : ~Releases(id)]_vars
  <2> SUFFICES ASSUME NEW id \in 1 .. logged_out, Releases(id)
               PROVE  FALSE
    OBVIOUS
  <2>1. released \in Seq(Nat)
    BY <1>1 DEF SessionInv, GateInv, GateTypeOK
  <2>2. released' # released
    BY <2>1 DEF Releases
  <2>3. SignTakes
    BY <1>1, <2>2 DEF Next, Connect, LockCommand, LockInvalidates, Poll, SetAutoLock, TickerWakes,
                TickerInvalidates, BeginCommand, BeginStores, AuthorizeCommand, DenyCommand,
                StatusCommand, SignCommand, SignSigns, SignChallenge, PoolOrClock, vars, gateVars, store,
                InvalidateForLock, Begin, BeginBatch, Call, Deny, Status, TaskStep, Prepare,
                PrepareRefused, Answer, Panic, Drop, Tick
  <2>4. CanRelease(main.arg) /\ released' = Append(released, main.arg)
    BY <2>2, <2>3 DEF SignTakes, Take
  <2>5. id = main.arg
    BY <1>1, <2>1, <2>4 DEF Releases, SessionInv, CommandOK
  <2>6. LiveRequest(id)
    BY <2>4, <2>5 DEF CanRelease, LiveRequest, Live
  <2> QED
    BY <1>1, <2>3, <2>6 DEF SignTakes, SessionInv, LoggedOutIsOver
<1> QED
  BY <1>1, SessionInvariant, PTL DEF Spec, LogoutIsFinal

-----------------------------------------------------------------------------
(* The approval card.  Whatever it believes of a pending request, from the *)
(* last read on its way or from what it shows, is true or out of time,     *)
(* unless something that makes it read again is on its way (CardInv).      *)

Snapshots ==
    [kind : Kinds, id : Nat, ids : SUBSET Nat, state : ApprovalState, expires_at : Nat]
MaybeSnapshot == Snapshots \cup {NoSnapshot}
Failures == {"none", "cancelled", "failed", "expired", "notPending"}
Message ==
    {Requested, Authorized, DenyRefused}
        \cup [type : {"approval_result"}, ids : SUBSET Nat, approved : BOOLEAN]
        \cup [type : {"snapshot"}, snapshot : MaybeSnapshot]
        \cup [type : {"refused"}, kind : Failures]
Stages == {"hidden", "pending", "authorizing", "sent", "denied", "expired", "failed"}

CardTypeOK ==
    /\ overlay \in [stage : Stages, snapshot : MaybeSnapshot, nowMs : Nat]
    /\ inbox \in Seq(Message)
    /\ reply \in [Tasks -> Failures \cup {"authorized"}]

\* A snapshot names what has been begun, where n requests and b batches were.
IsOf(s, n, b) == s # NoSnapshot =>
    IF s.kind = "single" THEN s.id \in 1 .. n ELSE s.id \in 1 .. b

IdsAreGiven ==
    /\ current # None => current.id \in 1 .. next_id
    /\ batch # None => /\ batch.id \in 1 .. next_batch_id
                       /\ \A i \in DOMAIN batch.entries : batch.entries[i].id \in 1 .. next_id

SnapshotsAreOfTheGate ==
    /\ IsOf(overlay.snapshot, next_id, next_batch_id)
    /\ \A k \in DOMAIN inbox :
          inbox[k].type = "snapshot" => IsOf(inbox[k].snapshot, next_id, next_batch_id)

\* A snapshot that says pending agrees with what the gate would answer, or is out of time.
Agrees(s, answer, at) ==
    s.state = "pending" =>
        \/ at >= s.expires_at
        \/ answer.state = "pending" /\ answer.ids = s.ids /\ answer.expires_at = s.expires_at

IsRead(m) == m.type = "snapshot"

\* Something is coming that makes the card read the gate again.
Stirred == \/ \E k \in DOMAIN inbox : Rereads(inbox[k])
           \/ \E t \in Tasks : reply[t] = "authorized"

LastReadAgrees ==
    \E k \in DOMAIN inbox : /\ IsRead(inbox[k]) /\ Agrees(inbox[k].snapshot, Hydrated, now)
                            /\ \A j \in DOMAIN inbox : j > k => ~IsRead(inbox[j])
CardAgrees ==
    /\ \A k \in DOMAIN inbox : ~IsRead(inbox[k])
    /\ Deciding(overlay) => Agrees(overlay.snapshot, Hydrated, now)

RepliesAreDropping == \A t \in Tasks : reply[t] = "authorized" => task[t].pc = "dropping"
DecidesOnPending == Deciding(overlay) => overlay.snapshot.state = "pending"
Informed == Stirred \/ LastReadAgrees \/ CardAgrees

CardInv == /\ GateInv /\ BatchInv /\ IdsAreGiven
           /\ CardTypeOK /\ SnapshotsAreOfTheGate
           /\ RepliesAreDropping /\ DecidesOnPending /\ Informed

-----------------------------------------------------------------------------
(* What the gate answers.                                                  *)

\* A batch is pending while it is in time and no step of it is decided.
LEMMA BatchAnswer ==
    ASSUME GateInv, BatchInv, batch # None
    PROVE  /\ Hydrated \in Snapshots /\ Hydrated.kind = "batch" /\ Hydrated.id = batch.id
           /\ Hydrated.ids = { batch.entries[i].id : i \in DOMAIN batch.entries }
           /\ Hydrated.expires_at = batch.expires_at
           /\ Hydrated.state = "pending" <=> ~IsDue(batch) /\ AllPending(batch)
<1>1. batch \in Batch /\ \A i \in DOMAIN batch.entries : batch.entries[i] \in Entry
  BY DEF GateInv, GateTypeOK, Batch
<1>2. Hydrated = snapshot_of_batch(batch)
  BY DEF Hydrated
<1>3. { batch.entries[i].id : i \in DOMAIN batch.entries } \in SUBSET Nat
  BY <1>1 DEF Entry
<1>4. batch_state(batch) \in ApprovalState
  BY DEF batch_state, ApprovalState, Live
<1>5. batch_state(batch) = "pending" <=> ~IsDue(batch) /\ AllPending(batch)
  <2> DEFINE states == { batch.entries[i].state : i \in DOMAIN batch.entries }
  <2>1. batch_state(batch) =
           IF "expired" \in states \/ IsDue(batch) THEN "expired"
           ELSE IF "denied" \in states THEN "denied"
           ELSE IF states = {"authorized"} THEN "authorized"
           ELSE IF "consumed" \in states THEN "consumed"
           ELSE "pending"
    BY DEF batch_state
  <2>2. states \subseteq ApprovalState
    BY <1>1 DEF Entry
  <2>3. CASE IsDue(batch)
    BY <2>1, <2>3
  <2>4. CASE ~IsDue(batch) /\ AllPending(batch)
    <3>1. states \subseteq {"pending"}
      BY <2>4 DEF AllPending
    <3> HIDE DEF states
    <3> QED
      BY <2>1, <2>4, <3>1
  <2>5. CASE ~IsDue(batch) /\ ~AllPending(batch)
    <3>1. "pending" \notin states /\ states # {}
      BY <2>5 DEF BatchInv, BatchMovesTogether, AllPending
    <3> HIDE DEF states
    <3> QED
      BY <2>1, <2>2, <2>5, <3>1 DEF ApprovalState, Live
  <2> QED
    BY <2>3, <2>4, <2>5
<1> QED
  BY <1>1, <1>2, <1>3, <1>4, <1>5 DEF snapshot_of_batch, Snapshots, Kinds, Batch

\* A single request is pending while it is in time and undecided.
LEMMA SingleAnswer ==
    ASSUME GateInv, batch = None, current # None
    PROVE  /\ Hydrated \in Snapshots /\ Hydrated.kind = "single" /\ Hydrated.id = current.id
           /\ Hydrated.ids = {current.id} /\ Hydrated.expires_at = current.expires_at
           /\ Hydrated.state = "pending" <=> ~IsDue(current) /\ current.state = "pending"
<1>1. current \in Entry
  BY DEF GateInv, GateTypeOK
<1>2. Hydrated = snapshot_of_entry(current)
  BY DEF Hydrated
<1>3. /\ Looked(current) \in ApprovalState
      /\ Looked(current) = "pending" <=> ~IsDue(current) /\ current.state = "pending"
  BY <1>1 DEF Looked, Entry, ApprovalState, Live
<1> QED
  BY <1>1, <1>2, <1>3 DEF snapshot_of_entry, Snapshots, Kinds, Entry

\* The three cases of one answer, now and in the next state.
AnswerShape ==
    /\ batch # None =>
          /\ Hydrated \in Snapshots /\ Hydrated.kind = "batch" /\ Hydrated.id = batch.id
          /\ Hydrated.ids = { batch.entries[i].id : i \in DOMAIN batch.entries }
          /\ Hydrated.expires_at = batch.expires_at
          /\ Hydrated.state = "pending" <=> ~IsDue(batch) /\ AllPending(batch)
    /\ batch = None /\ current # None =>
          /\ Hydrated \in Snapshots /\ Hydrated.kind = "single" /\ Hydrated.id = current.id
          /\ Hydrated.ids = {current.id} /\ Hydrated.expires_at = current.expires_at
          /\ Hydrated.state = "pending" <=> ~IsDue(current) /\ current.state = "pending"
    /\ batch = None /\ current = None => Hydrated = NoSnapshot /\ Hydrated.state # "pending"

LEMMA Answered == GateInv /\ BatchInv => AnswerShape
<1> SUFFICES ASSUME GateInv, BatchInv PROVE AnswerShape
  OBVIOUS
<1>1. batch = None /\ current = None => Hydrated = NoSnapshot /\ Hydrated.state # "pending"
  BY DEF Hydrated, NoSnapshot
<1> QED
  BY <1>1, BatchAnswer, SingleAnswer DEF AnswerShape

LEMMA AnsweredNext == GateInv' /\ BatchInv' => AnswerShape'
BY Answered, PTL

-----------------------------------------------------------------------------
(* What is pending in the gate stays so, or its time is up, unless the     *)
(* step is announced.                                                      *)

\* The request the gate is waiting for stays the one it is waiting for.
SlotsKept ==
    /\ batch # None /\ ~IsDue(batch) /\ AllPending(batch) =>
          /\ batch' # None /\ batch'.expires_at = batch.expires_at
          /\ DOMAIN batch'.entries = DOMAIN batch.entries
          /\ \A i \in DOMAIN batch.entries :
                /\ batch'.entries[i].id = batch.entries[i].id
                /\ batch'.entries[i].state = "pending"
    /\ batch = None /\ current # None /\ ~IsDue(current) /\ current.state = "pending" =>
          /\ batch' = None /\ current' # None
          /\ current'.id = current.id /\ current'.expires_at = current.expires_at
          /\ current'.state = "pending"

StillAsked ==
    Hydrated.state = "pending" =>
        \/ now' >= Hydrated.expires_at
        \/ /\ Hydrated'.state = "pending" /\ Hydrated'.ids = Hydrated.ids
           /\ Hydrated'.expires_at = Hydrated.expires_at

LEMMA KeptIsAsked ==
    ASSUME GateInv, BatchInv, GateInv', BatchInv', SlotsKept
    PROVE  StillAsked
<1> SUFFICES ASSUME Hydrated.state = "pending", ~(now' >= Hydrated.expires_at)
             PROVE  /\ Hydrated'.state = "pending" /\ Hydrated'.ids = Hydrated.ids
                    /\ Hydrated'.expires_at = Hydrated.expires_at
  BY DEF StillAsked
<1> USE Answered, AnsweredNext
<1>1. CASE batch # None
  <2>1. ~IsDue(batch) /\ AllPending(batch) /\ Hydrated.expires_at = batch.expires_at
    BY <1>1 DEF AnswerShape
  <2>2. /\ batch' # None /\ batch'.expires_at = batch.expires_at
        /\ DOMAIN batch'.entries = DOMAIN batch.entries
        /\ \A i \in DOMAIN batch.entries :
              /\ batch'.entries[i].id = batch.entries[i].id
              /\ batch'.entries[i].state = "pending"
    BY <1>1, <2>1 DEF SlotsKept
  <2>3. /\ Hydrated'.ids = { batch'.entries[i].id : i \in DOMAIN batch'.entries }
        /\ Hydrated'.expires_at = batch'.expires_at
        /\ Hydrated'.state = "pending" <=> ~(now' >= batch'.expires_at) /\ AllPending(batch)'
    BY <2>2 DEF AnswerShape, IsDue
  <2>4. AllPending(batch)'
    BY <2>2 DEF AllPending
  <2>5. { batch'.entries[i].id : i \in DOMAIN batch'.entries }
            = { batch.entries[i].id : i \in DOMAIN batch.entries }
    BY <2>2
  <2> QED
    BY <1>1, <2>1, <2>2, <2>3, <2>4, <2>5 DEF AnswerShape
<1>2. CASE batch = None /\ current # None
  <2>1. ~IsDue(current) /\ current.state = "pending" /\ Hydrated.expires_at = current.expires_at
    BY <1>2 DEF AnswerShape
  <2>2. /\ batch' = None /\ current' # None
        /\ current'.id = current.id /\ current'.expires_at = current.expires_at
        /\ current'.state = "pending"
    BY <1>2, <2>1 DEF SlotsKept
  <2>3. /\ Hydrated'.ids = {current'.id} /\ Hydrated'.expires_at = current'.expires_at
        /\ Hydrated'.state = "pending" <=> ~(now' >= current'.expires_at) /\ current'.state = "pending"
    BY <2>2 DEF AnswerShape, IsDue
  <2> QED
    BY <1>2, <2>1, <2>2, <2>3 DEF AnswerShape
<1>3. CASE batch = None /\ current = None
  BY <1>3 DEF AnswerShape
<1> QED
  BY <1>1, <1>2, <1>3

LEMMA SameSlots ==
    ASSUME GateInv, UNCHANGED <<current, batch>>
    PROVE  SlotsKept
BY DEF SlotsKept, AllPending

\* A prompt that opens, is refused or returns decides nothing that is still in time.
LEMMA PromptKeeps ==
    ASSUME GateInv, NEW t \in Tasks, Prepare(t) \/ PrepareRefused(t) \/ Panic(t) \/ Drop(t)
    PROVE  SlotsKept
<1>1. /\ batch # None => batch \in Batch
      /\ current # None => current \in Entry
  BY DEF GateInv, GateTypeOK
<1>2. CASE UNCHANGED <<current, batch>>
  BY <1>2, SameSlots
<1>3. CASE Prepare(t)
  <2>1. \/ current' = [current EXCEPT !.in_flight = TRUE] /\ current # None /\ batch' = batch
        \/ batch' = [batch EXCEPT !.in_flight = TRUE] /\ batch # None /\ current' = current
    BY <1>3 DEF Prepare, OpensSingle, OpensBatch, SingleSlot, BatchSlot, InCurrent
  <2> QED
    BY <1>1, <2>1, GateAssumption DEF SlotsKept, AllPending, Batch, Entry
<1>4. CASE PrepareRefused(t)
  BY <1>1, <1>4 DEF PrepareRefused, SlotsKept, AllPending, BatchSlot
<1>5. CASE Drop(t)
  <2>1. /\ current' = current \/ current' = [current EXCEPT !.in_flight = FALSE]
        /\ batch' = batch \/ batch' = [batch EXCEPT !.in_flight = FALSE]
    BY <1>5 DEF Drop, LatchAfterDrop, SingleSlot, BatchSlot, InCurrent
  <2>2. batch' = None <=> batch = None
    BY <1>5, DropEvolves DEF SlotsEvolve, GateInv
  <2>3. current' = None <=> current = None
    BY <1>5, DropEvolves DEF SlotsEvolve, GateInv
  <2> QED
    BY <1>1, <2>1, <2>2, <2>3 DEF SlotsKept, AllPending, Batch, Entry
<1> QED
  BY <1>2, <1>3, <1>4, <1>5 DEF Panic, store

\* An answer that does not authorise the request leaves it as it is.
LEMMA AnswerKeeps ==
    ASSUME GateInv, BatchInv, NEW t \in Tasks, NEW approved \in BOOLEAN, Answer(t, approved),
           NEW failure, Outcome(t, approved, failure) # "authorized"
    PROVE  SlotsKept
<1>1. /\ batch # None => batch \in Batch
      /\ current # None => current \in Entry
      /\ current = None \/ batch = None
  BY DEF GateInv, GateTypeOK, StoreInv, OneSlot
<1>2. /\ batch # None /\ ~IsDue(batch) /\ AllPending(batch) => ~(approved /\ BatchSlot(t))
      /\ batch = None /\ current # None /\ ~IsDue(current) /\ current.state = "pending"
            => ~(approved /\ SingleSlot(t))
  <2>1. approved => Outcome(t, approved, failure) =
           LET slot  == IF task[t].kind = "single" THEN SingleSlot(t) ELSE BatchSlot(t)
               state == IF ~slot THEN "gone" ELSE Hydrated.state
           IN CASE state = "pending" -> "authorized"
                [] state = "expired" -> "expired"
                [] state \notin {"pending", "expired"} -> "notPending"
    BY DEF Outcome
  <2>2. ASSUME approved, SingleSlot(t) \/ BatchSlot(t)
        PROVE  Hydrated.state # "pending"
    BY <2>1, <2>2 DEF SingleSlot, BatchSlot
  <2> QED
    BY <2>2, Answered DEF AnswerShape
<1>3. CASE batch # None /\ ~IsDue(batch) /\ AllPending(batch)
  <2>1. ~(AllPending(batch) /\ approved) \/ ~BatchSlot(t)
    BY <1>2, <1>3
  <2>2. batch' = batch \/ batch' = [batch EXCEPT !.in_flight = FALSE]
    BY <1>3, <2>1 DEF Answer, DecidedBatch
  <2>3. /\ batch' \in Batch
        /\ batch'.entries = batch.entries /\ batch'.expires_at = batch.expires_at
    BY <1>1, <1>3, <2>2 DEF Batch
  <2> QED
    BY <1>3, <2>3, GateAssumption DEF SlotsKept, AllPending
<1>4. CASE batch = None /\ current # None /\ ~IsDue(current) /\ current.state = "pending"
  <2>1. batch' = batch
    BY <1>4 DEF Answer, BatchSlot
  <2>2. Decided(current, FALSE) = "pending"
    BY <1>4 DEF Decided
  <2>3. \/ current' = current
        \/ current' = [current EXCEPT !.in_flight = FALSE, !.state = "pending"]
    BY <1>2, <1>4, <2>2 DEF Answer, AnswersSingle
  <2>4. /\ current' \in Entry /\ current'.state = "pending"
        /\ current'.id = current.id /\ current'.expires_at = current.expires_at
    BY <1>1, <1>4, <2>3 DEF Entry, ApprovalState, Live
  <2> QED
    BY <1>4, <2>1, <2>4, GateAssumption DEF SlotsKept
<1> QED
  BY <1>3, <1>4 DEF SlotsKept

\* Looking and taking leave alone what is pending and in time.
LEMMA CallKeeps ==
    ASSUME GateInv, BatchInv, NEW id, Status(id) \/ Take(id)
    PROVE  SlotsKept
<1>1. /\ batch # None => batch \in Batch
      /\ current # None => current \in Entry
      /\ current = None \/ batch = None
  BY DEF GateInv, GateTypeOK, StoreInv, OneSlot
<1>2. ASSUME NEW e, e.state = "pending", ~IsDue(e)
      PROVE  Looked(e) = "pending" /\ Taken(e) = "pending"
  BY <1>2 DEF Looked, Taken, Live
<1>3. CASE batch # None /\ ~IsDue(batch) /\ AllPending(batch)
  <2> DEFINE s == [i \in DOMAIN batch.entries |-> "pending"]
  <2>1. \A i \in DOMAIN batch.entries :
          /\ batch.entries[i].state = "pending"
          /\ Looked(batch.entries[i]) = "pending" /\ Taken(batch.entries[i]) = "pending"
    BY <1>2, <1>3 DEF AllPending, BatchInv, IsDue
  <2>2. batch' = batch \/ batch' = WithStates(batch, s)
    BY <1>3, <2>1 DEF Status, Take
  <2>3. DOMAIN s = DOMAIN batch.entries /\ \A i \in DOMAIN batch.entries : s[i] = "pending"
    OBVIOUS
  <2> HIDE DEF s
  <2>4. CASE batch' = batch
    BY <1>3, <2>4 DEF SlotsKept, AllPending
  <2>5. CASE batch' = WithStates(batch, s)
    BY <1>1, <1>3, <2>3, <2>5, StatesMapped, GateAssumption DEF SlotsKept, ApprovalState, Live
  <2> QED
    BY <2>2, <2>4, <2>5
<1>4. CASE batch = None /\ current # None /\ ~IsDue(current) /\ current.state = "pending"
  <2>1. batch' = batch
    BY <1>4 DEF Status, Take, InBatch, Steps
  <2>2. current' = current \/ current' = [current EXCEPT !.state = "pending"]
    BY <1>2, <1>4 DEF Status, Take
  <2> QED
    BY <1>1, <1>4, <2>1, <2>2, GateAssumption DEF SlotsKept, Entry
<1> QED
  BY <1>3, <1>4 DEF SlotsKept

\* A lock that has nothing to announce changes nothing.
LEMMA LockKeeps ==
    ASSUME GateInv, InvalidateForLock, LiveIds = {}
    PROVE  SlotsKept
<1>1. /\ batch # None => batch \in Batch
      /\ current # None => current \in Entry
  BY DEF GateInv, GateTypeOK
<1>2. \A e \in Stored : e.state \notin Live
  BY DEF LiveIds
<1>3. current # None => current.state # "pending"
  BY <1>2 DEF Stored, Live
<1>4. batch # None => \A i \in DOMAIN batch.entries : batch.entries[i].state # "pending"
  BY <1>2 DEF Stored, Steps, Live
<1>5. CASE batch # None /\ AllPending(batch)
  <2>1. DOMAIN batch.entries = {}
    BY <1>4, <1>5 DEF AllPending
  <2>2. /\ batch' # None /\ batch'.expires_at = batch.expires_at
        /\ DOMAIN batch'.entries = DOMAIN batch.entries
    <3> DEFINE f == [i \in DOMAIN batch.entries |-> Locked(batch.entries[i])]
    <3>1. batch' = [batch EXCEPT !.entries = f]
      BY <1>5 DEF InvalidateForLock
    <3>2. DOMAIN f = DOMAIN batch.entries /\ f = [i \in DOMAIN f |-> f[i]]
      OBVIOUS
    <3> HIDE DEF f
    <3> QED
      BY <1>1, <1>5, <2>1, <3>1, <3>2, EntriesMapped, GateAssumption
  <2> QED
    BY <1>5, <2>1, <2>2 DEF SlotsKept
<1> QED
  BY <1>3, <1>5 DEF SlotsKept

-----------------------------------------------------------------------------
(* The card uses the gate as the gate allows.                              *)

\* What a step makes of the slots, unless it begins a request.
LEMMA StepEvolves ==
    ASSUME GateInv, [GateNext]_gateVars
    PROVE  \/ SlotsEvolve(current', batch', consented')
           \/ Begin
           \/ \E n \in BatchSizes : BeginBatch(n)
<1> USE DEF GateInv
<1>1. ASSUME UNCHANGED <<current, batch>>
      PROVE  SlotsEvolve(current', batch', consented')
  BY <1>1, Unchanged
<1>2. ASSUME NEW t \in Tasks, NEW kind, NEW id, Call(t, kind, id)
      PROVE  SlotsEvolve(current', batch', consented')
  BY <1>1, <1>2 DEF Call, store
<1>3. ASSUME NEW t \in Tasks, TaskStep(t)
      PROVE  SlotsEvolve(current', batch', consented')
  BY <1>1, <1>3, PrepareEvolves, AnswerEvolves, DropEvolves DEF TaskStep, Panic, store
<1>4. ASSUME NEW id, Deny(id) \/ Status(id) \/ Take(id)
      PROVE  SlotsEvolve(current', batch', consented')
  BY <1>4, DenyEvolves, StatusEvolves, TakeEvolves
<1>5. CASE InvalidateForLock \/ Tick \/ UNCHANGED gateVars
  BY <1>1, <1>5, LockEvolves DEF Tick, store, gateVars
<1> QED
  BY <1>2, <1>3, <1>4, <1>5 DEF GateNext

\* No step forgets a batch's id either, and every id in a slot was given to a request.
LEMMA GivenStep ==
    ASSUME GateInv, IdsAreGiven, [GateNext]_gateVars
    PROVE  /\ next_id \in Nat /\ next_id' \in Nat /\ next_id <= next_id'
           /\ next_batch_id \in Nat /\ next_batch_id' \in Nat /\ next_batch_id <= next_batch_id'
           /\ IdsAreGiven'
<1>1. /\ next_id \in Nat /\ next_id' \in Nat /\ next_id <= next_id'
      /\ next_batch_id \in Nat /\ next_batch_id' \in Nat
  BY IdsGrow, GateStep DEF GateInv, GateTypeOK
<1>2. next_batch_id' = next_batch_id \/ next_batch_id' = next_batch_id + 1
  BY DEF GateNext, Begin, BeginBatch, Call, TaskStep, Prepare, PrepareRefused, Answer, Panic,
         Drop, Deny, Status, Take, InvalidateForLock, Tick, store, gateVars
<1>3. next_batch_id <= next_batch_id'
  BY <1>1, <1>2
<1>4. CASE SlotsEvolve(current', batch', consented')
  BY <1>1, <1>3, <1>4 DEF IdsAreGiven, SlotsEvolve, BatchEvolves, EntryEvolves
<1>5. CASE Begin
  BY <1>1, <1>5 DEF Begin, Fresh, IdsAreGiven
<1>6. ASSUME NEW n \in BatchSizes, BeginBatch(n)
      PROVE  IdsAreGiven'
  <2>1. n \in Nat
    BY GateAssumption
  <2>2. /\ current' = None /\ next_id' = next_id + n /\ next_batch_id' = next_batch_id + 1
        /\ batch'.id = next_batch_id + 1
        /\ batch'.entries = [i \in 1 .. n |-> Fresh(next_id + i)]
    BY <1>6 DEF BeginBatch
  <2>3. /\ DOMAIN batch'.entries = 1 .. n
        /\ \A i \in 1 .. n : batch'.entries[i].id = next_id + i
    BY <2>2 DEF Fresh
  <2> QED
    BY <1>1, <2>1, <2>2, <2>3 DEF IdsAreGiven
<1> QED
  BY <1>1, <1>3, <1>4, <1>5, <1>6, StepEvolves

\* What a card that asks for a decision shows was begun.
LEMMA ShownIsGiven ==
    ASSUME CardInv, Deciding(overlay)
    PROVE  /\ overlay.snapshot \in Snapshots /\ overlay.snapshot.state = "pending"
           /\ overlay.snapshot.kind = "single" => overlay.snapshot.id \in 1 .. next_id
           /\ overlay.snapshot.kind = "batch" => overlay.snapshot.id \in 1 .. next_batch_id
           /\ overlay.snapshot.kind \in Kinds
<1>1. overlay.snapshot.state = "pending" /\ overlay.snapshot \in MaybeSnapshot
  BY DEF CardInv, DecidesOnPending, CardTypeOK
<1>2. overlay.snapshot # NoSnapshot
  BY <1>1 DEF NoSnapshot
<1> QED
  BY <1>1, <1>2 DEF CardInv, SnapshotsAreOfTheGate, IsOf, MaybeSnapshot, Snapshots, Kinds

\* Whatever a read does to the gate is what looking at its request does.
LEMMA LookIsStatus ==
    ASSUME CardInv, Looks
    PROVE  [GateNext]_gateVars /\ SlotsKept
<1>1. CASE batch = None /\ current # None
  <2>1. Status(current.id)
    BY <1>1 DEF Looks, Status, InCurrent
  <2>2. current.id \in Known
    BY <1>1 DEF CardInv, IdsAreGiven, Known
  <2> QED
    BY <2>1, <2>2, CallKeeps DEF GateNext, CardInv
<1>2. CASE ~(batch = None /\ current # None)
  <2>1. UNCHANGED gateVars
    BY <1>2 DEF Looks, gateVars
  <2> QED
    BY <2>1, SameSlots DEF gateVars, CardInv
<1> QED
  BY <1>1, <1>2

LEMMA CardStepIsGateStep ==
    ASSUME CardInv, [OverlayNext]_overlayVars
    PROVE  [GateNext]_gateVars
<1>1. CASE approval_begin \/ Locks \/ Elsewhere
  BY <1>1 DEF approval_begin, Locks, Elsewhere, GateNext
<1>2. ASSUME NEW n \in BatchSizes, approval_begin_batch(n)
      PROVE  GateNext
  BY <1>2 DEF approval_begin_batch, GateNext
<1>3. ASSUME NEW t \in Tasks, Prompts(t) \/ approval_authorize(t)
      PROVE  GateNext
  BY <1>3 DEF Prompts, approval_authorize, GateNext, TaskStep
<1>4. ASSUME NEW t \in Tasks, onApprove(t)
      PROVE  GateNext
  <2>1. Call(t, overlay.snapshot.kind, overlay.snapshot.id) /\ Deciding(overlay)
    BY <1>4 DEF onApprove, canApprove, Deciding
  <2> QED
    BY <2>1, ShownIsGiven DEF GateNext, Known, Kinds
<1>5. CASE Delivered
  BY <1>5, LookIsStatus DEF Delivered
<1>6. CASE onDeny
  <2>1. PICK id : Deny(id) \/ UNCHANGED gateVars
    BY <1>6 DEF onDeny
  <2>2. Deny(id) => id \in Known
    BY DEF Deny, DenyBatch, DenySingle, InBatch, InCurrent, Steps, CardInv, IdsAreGiven, Known
  <2> QED
    BY <2>1, <2>2 DEF GateNext
<1>7. CASE Ticks \/ Dismisses \/ UNCHANGED overlayVars
  BY <1>7 DEF Ticks, Dismisses, overlayVars
<1> QED
  BY <1>1, <1>2, <1>3, <1>4, <1>5, <1>6, <1>7 DEF OverlayNext

-----------------------------------------------------------------------------
(* The card stays informed.                                                *)

LEMMA SentParts ==
    ASSUME NEW s \in Seq(Message), NEW ms \in Seq(Message)
    PROVE  /\ s \o ms \in Seq(Message)
           /\ \A k \in DOMAIN s : k \in DOMAIN (s \o ms) /\ (s \o ms)[k] = s[k]
           /\ \A k \in DOMAIN ms : \E j \in DOMAIN (s \o ms) : (s \o ms)[j] = ms[k]
           /\ \A k \in DOMAIN (s \o ms) :
                 k \in DOMAIN s \/ \E j \in DOMAIN ms : (s \o ms)[k] = ms[j]
<1>1. /\ DOMAIN s = 1 .. Len(s) /\ DOMAIN ms = 1 .. Len(ms)
      /\ DOMAIN (s \o ms) = 1 .. Len(s) + Len(ms)
      /\ Len(s) \in Nat /\ Len(ms) \in Nat
      /\ s \o ms \in Seq(Message)
  OBVIOUS
<1>2. ASSUME NEW k \in 1 .. Len(ms)
      PROVE  Len(s) + k \in DOMAIN (s \o ms) /\ (s \o ms)[Len(s) + k] = ms[k]
  BY <1>1
<1>3. ASSUME NEW k \in DOMAIN (s \o ms), k \notin DOMAIN s
      PROVE  k - Len(s) \in DOMAIN ms /\ (s \o ms)[k] = ms[k - Len(s)]
  BY <1>1, <1>3
<1>4. \A k \in DOMAIN s : k \in DOMAIN (s \o ms) /\ (s \o ms)[k] = s[k]
  BY <1>1
<1> QED
  BY <1>1, <1>2, <1>3, <1>4

\* Time runs forward, in the gate as under the card.
LEMMA TimeGrows ==
    ASSUME GateInv, [GateNext]_gateVars
    PROVE  now \in Nat /\ now' \in Nat /\ now <= now'
<1>1. now \in Nat /\ now' \in Nat
  BY GateStep DEF GateInv, GateTypeOK
<1>2. now' = now \/ now' = now + 1
  BY DEF GateNext, Begin, BeginBatch, Call, TaskStep, Prepare, PrepareRefused, Answer, Panic,
         Drop, Deny, Status, Take, InvalidateForLock, Tick, store, gateVars
<1> QED
  BY <1>1, <1>2

\* What agreed with the gate agrees still while the gate goes on asking.
LEMMA AgreesStill ==
    ASSUME StillAsked, now \in Nat, now' \in Nat, now <= now',
           NEW s \in MaybeSnapshot, Agrees(s, Hydrated, now)
    PROVE  Agrees(s, Hydrated', now')
<1>1. s.expires_at \in Nat
  BY DEF MaybeSnapshot, Snapshots, NoSnapshot
<1> QED
  BY <1>1 DEF Agrees, StillAsked

\* Reads are snapshots.
LEMMA ReadsAreSnapshots ==
    ASSUME NEW m \in Message, IsRead(m)
    PROVE  m.snapshot \in MaybeSnapshot
BY DEF Message, IsRead, Requested, Authorized, DenyRefused

\* A step that announces nothing lets the gate go on asking and shows nothing new.
LEMMA StillInformed ==
    ASSUME CardInv, NEW ms \in Seq(Message), inbox' = inbox \o ms,
           StillAsked, now \in Nat, now' \in Nat, now <= now',
           \A k \in DOMAIN ms : ~IsRead(ms[k]),
           \A t \in Tasks : reply[t] = "authorized" => reply'[t] = "authorized",
           Deciding(overlay') => Deciding(overlay) /\ overlay'.snapshot = overlay.snapshot
    PROVE  Informed'
<1>1. inbox \in Seq(Message) /\ overlay.snapshot \in MaybeSnapshot
  BY DEF CardInv, CardTypeOK
<1>2. /\ \A k \in DOMAIN inbox : k \in DOMAIN inbox' /\ inbox'[k] = inbox[k]
      /\ \A k \in DOMAIN inbox' : k \in DOMAIN inbox \/ \E j \in DOMAIN ms : inbox'[k] = ms[j]
  BY <1>1, SentParts
<1>3. \A k \in DOMAIN inbox' : IsRead(inbox'[k]) => k \in DOMAIN inbox /\ inbox'[k] = inbox[k]
  BY <1>2
<1>4. CASE Stirred
  BY <1>2, <1>4 DEF Stirred, Informed
<1>5. CASE LastReadAgrees
  <2>1. PICK k \in DOMAIN inbox :
          /\ IsRead(inbox[k]) /\ Agrees(inbox[k].snapshot, Hydrated, now)
          /\ \A j \in DOMAIN inbox : j > k => ~IsRead(inbox[j])
    BY <1>5 DEF LastReadAgrees
  <2>2. inbox[k] \in Message
    BY <1>1
  <2>3. Agrees(inbox[k].snapshot, Hydrated', now')
    BY <2>1, <2>2, ReadsAreSnapshots, AgreesStill
  <2>4. k \in DOMAIN inbox' /\ inbox'[k] = inbox[k]
    BY <1>2
  <2>5. \A j \in DOMAIN inbox' : j > k => ~IsRead(inbox'[j])
    BY <1>3, <2>1
  <2> QED
    BY <2>1, <2>3, <2>4, <2>5 DEF LastReadAgrees, Informed
<1>6. CASE CardAgrees
  <2>1. \A k \in DOMAIN inbox' : ~IsRead(inbox'[k])
    BY <1>3, <1>6 DEF CardAgrees
  <2>2. Deciding(overlay') => Agrees(overlay'.snapshot, Hydrated', now')
    BY <1>1, <1>6, AgreesStill DEF CardAgrees
  <2> QED
    BY <2>1, <2>2 DEF CardAgrees, Informed
<1> QED
  BY <1>4, <1>5, <1>6 DEF CardInv, Informed

\* What all steps but a delivery have in common.
LEMMA CardKept ==
    ASSUME CardInv, [OverlayNext]_overlayVars,
           NEW ms \in Seq(Message), inbox' = inbox \o ms,
           \A k \in DOMAIN ms : IsRead(ms[k]) => IsOf(ms[k].snapshot, next_id, next_batch_id),
           overlay' \in [stage : Stages, snapshot : MaybeSnapshot, nowMs : Nat],
           overlay'.snapshot \in {overlay.snapshot, NoSnapshot},
           Deciding(overlay') => Deciding(overlay) /\ overlay'.snapshot = overlay.snapshot,
           reply' \in [Tasks -> Failures \cup {"authorized"}], RepliesAreDropping',
           \/ \E k \in DOMAIN ms : Rereads(ms[k])
           \/ \E t \in Tasks : reply'[t] = "authorized"
           \/ /\ SlotsKept /\ \A k \in DOMAIN ms : ~IsRead(ms[k])
              /\ \A t \in Tasks : reply[t] = "authorized" => reply'[t] = "authorized"
    PROVE  CardInv'
<1>1. [GateNext]_gateVars
  BY CardStepIsGateStep
<1>2. /\ GateInv' /\ BatchInv' /\ IdsAreGiven'
      /\ next_id \in Nat /\ next_id' \in Nat /\ next_id <= next_id'
      /\ next_batch_id \in Nat /\ next_batch_id' \in Nat /\ next_batch_id <= next_batch_id'
      /\ now \in Nat /\ now' \in Nat /\ now <= now'
  BY <1>1, GateStep, BatchStaysTogether, GivenStep, TimeGrows DEF CardInv
<1>3. /\ inbox \in Seq(Message) /\ inbox' \in Seq(Message)
      /\ \A k \in DOMAIN inbox : k \in DOMAIN inbox' /\ inbox'[k] = inbox[k]
      /\ \A k \in DOMAIN ms : \E j \in DOMAIN inbox' : inbox'[j] = ms[k]
      /\ \A k \in DOMAIN inbox' : k \in DOMAIN inbox \/ \E j \in DOMAIN ms : inbox'[k] = ms[j]
  <2>1. inbox \in Seq(Message)
    BY DEF CardInv, CardTypeOK
  <2> QED
    BY <2>1, SentParts
<1>4. CardTypeOK'
  BY <1>3 DEF CardTypeOK
<1>5. SnapshotsAreOfTheGate'
  <2>1. ASSUME NEW s, IsOf(s, next_id, next_batch_id)
        PROVE  IsOf(s, next_id', next_batch_id')
    BY <1>2, <2>1 DEF IsOf
  <2>2. IsOf(overlay'.snapshot, next_id', next_batch_id')
    BY <2>1 DEF CardInv, SnapshotsAreOfTheGate, IsOf
  <2>3. ASSUME NEW k \in DOMAIN inbox', inbox'[k].type = "snapshot"
        PROVE  IsOf(inbox'[k].snapshot, next_id', next_batch_id')
    <3>1. IsOf(inbox'[k].snapshot, next_id, next_batch_id)
      BY <1>3, <2>3 DEF CardInv, SnapshotsAreOfTheGate, IsRead
    <3> QED
      BY <2>1, <3>1
  <2> QED
    BY <2>2, <2>3 DEF SnapshotsAreOfTheGate
<1>6. DecidesOnPending'
  BY DEF CardInv, DecidesOnPending
<1>7. Informed'
  <2>1. CASE \E k \in DOMAIN ms : Rereads(ms[k])
    BY <1>3, <2>1 DEF Informed, Stirred
  <2>2. CASE \E t \in Tasks : reply'[t] = "authorized"
    BY <2>2 DEF Informed, Stirred
  <2>3. CASE /\ SlotsKept /\ \A k \in DOMAIN ms : ~IsRead(ms[k])
             /\ \A t \in Tasks : reply[t] = "authorized" => reply'[t] = "authorized"
    <3>1. StillAsked
      BY <1>2, <2>3, KeptIsAsked DEF CardInv
    <3> QED
      BY <1>2, <2>3, <3>1, StillInformed
  <2> QED
    BY <2>1, <2>2, <2>3
<1> QED
  BY <1>2, <1>4, <1>5, <1>6, <1>7 DEF CardInv

-----------------------------------------------------------------------------
(* The steps, one by one.                                                  *)

LEMMA Messages ==
    /\ Requested \in Message /\ Rereads(Requested) /\ ~IsRead(Requested)
    /\ DenyRefused \in Message /\ Rereads(DenyRefused) /\ ~IsRead(DenyRefused)
    /\ Authorized \in Message /\ Rereads(Authorized) /\ ~IsRead(Authorized)
    /\ \A ids \in SUBSET Nat, yes \in BOOLEAN :
          Decided_(ids, yes) \in Message /\ Rereads(Decided_(ids, yes))
             /\ ~IsRead(Decided_(ids, yes))
    /\ \A kind \in Failures : Refused(kind) \in Message /\ ~IsRead(Refused(kind))
    /\ \A s \in MaybeSnapshot : Read(s) \in Message /\ Read(s).snapshot = s
BY DEF Message, Requested, DenyRefused, Authorized, Decided_, Refused, Read, Rereads, IsRead

\* The requests a command ends and speaks of.
LEMMA ToldMessages ==
    ASSUME GateInv
    PROVE  /\ LiveIds \subseteq Nat
           /\ Told(LiveIds, FALSE) \in Seq(Message)
           /\ \A k \in DOMAIN Told(LiveIds, FALSE) : Rereads(Told(LiveIds, FALSE)[k])
                                                     /\ ~IsRead(Told(LiveIds, FALSE)[k])
           /\ LiveIds # {} => 1 \in DOMAIN Told(LiveIds, FALSE)
<1>1. \A e \in Stored : e.id \in Nat
  <2>1. current # None => current.id \in Nat
    BY DEF GateInv, GateTypeOK, Entry
  <2>2. batch # None => \A i \in DOMAIN batch.entries : batch.entries[i] \in Entry
    BY DEF GateInv, GateTypeOK, Batch
  <2> QED
    BY <2>1, <2>2 DEF Stored, Steps, Entry
<1>2. LiveIds \subseteq Nat
  BY <1>1 DEF LiveIds
<1>3. \/ Told(LiveIds, FALSE) = <<>> /\ LiveIds = {}
      \/ Told(LiveIds, FALSE) = << Decided_(LiveIds, FALSE) >> /\ LiveIds # {}
  BY DEF Told
<1>4. Decided_(LiveIds, FALSE) \in Message /\ Rereads(Decided_(LiveIds, FALSE))
      /\ ~IsRead(Decided_(LiveIds, FALSE))
  BY <1>2, Messages
<1>5. CASE Told(LiveIds, FALSE) = <<>> /\ LiveIds = {}
  <2>1. <<>> \in Seq(Message) /\ DOMAIN <<>> = {}
    OBVIOUS
  <2>2. Told(LiveIds, FALSE) \in Seq(Message) /\ DOMAIN Told(LiveIds, FALSE) = {}
    BY <1>5, <2>1, Zenon
  <2> QED
    BY <1>2, <1>5, <2>2
<1>6. CASE Told(LiveIds, FALSE) = << Decided_(LiveIds, FALSE) >> /\ LiveIds # {}
  <2> DEFINE m == Decided_(LiveIds, FALSE)
  <2>1. m \in Message /\ Rereads(m) /\ ~IsRead(m)
    BY <1>4
  <2> HIDE DEF m
  <2>2. <<m>> \in Seq(Message) /\ DOMAIN <<m>> = {1} /\ <<m>>[1] = m
    BY <2>1
  <2>3. Told(LiveIds, FALSE) = <<m>>
    BY <1>6 DEF m
  <2> QED
    BY <1>2, <1>6, <2>1, <2>2, <2>3
<1> QED
  BY <1>3, <1>5, <1>6

\* A step that leaves the card alone and only speaks of what it did.
LEMMA CardOnlyHears ==
    ASSUME CardInv, [OverlayNext]_overlayVars, UNCHANGED <<overlay, reply, task>>,
           NEW ms \in Seq(Message), inbox' = inbox \o ms, \A k \in DOMAIN ms : ~IsRead(ms[k]),
           SlotsKept \/ \E k \in DOMAIN ms : Rereads(ms[k])
    PROVE  CardInv'
<1>1. overlay' \in [stage : Stages, snapshot : MaybeSnapshot, nowMs : Nat]
  BY DEF CardInv, CardTypeOK
<1>2. reply' \in [Tasks -> Failures \cup {"authorized"}] /\ RepliesAreDropping'
  BY DEF CardInv, CardTypeOK, RepliesAreDropping
<1> QED
  BY <1>1, <1>2, CardKept DEF CardInv, Deciding

LEMMA NothingSent ==
    ASSUME CardInv
    PROVE  <<>> \in Seq(Message) /\ inbox = inbox \o <<>> /\ DOMAIN <<>> = {}
<1>1. inbox \in Seq(Message)
  BY DEF CardInv, CardTypeOK
<1> QED
  BY <1>1, ConcatEmptySeq

LEMMA BeginningHeard ==
    ASSUME CardInv, [OverlayNext]_overlayVars,
           approval_begin \/ \E n \in BatchSizes : approval_begin_batch(n)
    PROVE  CardInv'
<1> DEFINE told == Told(LiveIds, FALSE)
           ms == told \o <<Requested>>
<1>1. told \in Seq(Message) /\ <<Requested>> \in Seq(Message) /\ inbox \in Seq(Message)
  <2>1. Requested \in Message
    BY Messages
  <2>2. <<Requested>> \in Seq(Message)
    BY <2>1
  <2> QED
    BY <2>2, ToldMessages DEF CardInv, CardTypeOK
<1>2. /\ inbox' = (inbox \o told) \o <<Requested>>
      /\ UNCHANGED <<overlay, reply, task>>
  BY DEF approval_begin, approval_begin_batch, Begin, BeginBatch
<1>3. \A k \in DOMAIN told : ~IsRead(told[k])
  BY ToldMessages DEF CardInv
<1> HIDE DEF told
<1>4. inbox' = inbox \o ms
  BY <1>1, <1>2, ConcatAssociative
<1>5. /\ ms \in Seq(Message)
      /\ \E j \in DOMAIN ms : ms[j] = Requested
      /\ \A k \in DOMAIN ms : ~IsRead(ms[k])
  <2>1. DOMAIN <<Requested>> = {1} /\ <<Requested>>[1] = Requested
    OBVIOUS
  <2>2. /\ ms \in Seq(Message)
        /\ \A k \in DOMAIN told : ms[k] = told[k]
        /\ \A k \in DOMAIN <<Requested>> : \E j \in DOMAIN ms : ms[j] = <<Requested>>[k]
        /\ \A k \in DOMAIN ms : k \in DOMAIN told \/ \E j \in DOMAIN <<Requested>> :
                                                        ms[k] = <<Requested>>[j]
    BY <1>1, SentParts
  <2> HIDE DEF ms
  <2> QED
    BY <1>3, <2>1, <2>2, Messages
<1> HIDE DEF ms
<1> QED
  BY <1>2, <1>4, <1>5, Messages, CardOnlyHears

LEMMA LockHeard ==
    ASSUME CardInv, [OverlayNext]_overlayVars, Locks
    PROVE  CardInv'
<1> DEFINE told == Told(LiveIds, FALSE)
<1>1. /\ inbox' = inbox \o told /\ InvalidateForLock
      /\ UNCHANGED <<overlay, reply, task>>
  BY DEF Locks, InvalidateForLock
<1>2. /\ told \in Seq(Message) /\ \A k \in DOMAIN told : Rereads(told[k]) /\ ~IsRead(told[k])
      /\ LiveIds # {} => 1 \in DOMAIN told
  BY ToldMessages DEF CardInv
<1>3. SlotsKept \/ \E k \in DOMAIN told : Rereads(told[k])
  BY <1>1, <1>2, LockKeeps DEF CardInv
<1> HIDE DEF told
<1> QED
  BY <1>1, <1>2, <1>3, CardOnlyHears

LEMMA ElsewhereHeard ==
    ASSUME CardInv, [OverlayNext]_overlayVars, Elsewhere
    PROVE  CardInv'
<1>1. UNCHANGED <<overlay, inbox, reply, task>>
  BY DEF Elsewhere, Tick, Status, Take
<1>2. SlotsKept
  BY SameSlots, CallKeeps DEF Elsewhere, Tick, store, CardInv
<1> QED
  BY <1>1, <1>2, NothingSent, CardOnlyHears

\* One message is a sequence of messages.
LEMMA OneMessage ==
    ASSUME NEW m \in Message
    PROVE  <<m>> \in Seq(Message) /\ DOMAIN <<m>> = {1} /\ <<m>>[1] = m
OBVIOUS

LEMMA TwoMessages ==
    ASSUME NEW m \in Message, NEW n \in Message
    PROVE  <<m, n>> \in Seq(Message) /\ DOMAIN <<m, n>> = {1, 2}
           /\ <<m, n>>[1] = m /\ <<m, n>>[2] = n
OBVIOUS

\* A step of a prompt that leaves the card alone and reports nothing yet.
LEMMA PromptOnlyMoves ==
    ASSUME CardInv, [OverlayNext]_overlayVars, UNCHANGED overlay,
           NEW ms \in Seq(Message), inbox' = inbox \o ms, \A k \in DOMAIN ms : ~IsRead(ms[k]),
           NEW t \in Tasks, \A u \in Tasks : u # t => task'[u] = task[u] /\ reply'[u] = reply[u],
           reply' \in [Tasks -> Failures \cup {"authorized"}],
           reply'[t] = "authorized" => task'[t].pc = "dropping",
           \/ \E k \in DOMAIN ms : Rereads(ms[k])
           \/ reply'[t] = "authorized"
           \/ SlotsKept /\ reply[t] # "authorized"
    PROVE  CardInv'
<1>1. overlay' \in [stage : Stages, snapshot : MaybeSnapshot, nowMs : Nat]
  BY DEF CardInv, CardTypeOK
<1>2. RepliesAreDropping'
  BY DEF CardInv, RepliesAreDropping
<1>3. \/ \E k \in DOMAIN ms : Rereads(ms[k])
      \/ \E u \in Tasks : reply'[u] = "authorized"
      \/ /\ SlotsKept /\ \A k \in DOMAIN ms : ~IsRead(ms[k])
         /\ \A u \in Tasks : reply[u] = "authorized" => reply'[u] = "authorized"
  OBVIOUS
<1> QED
  BY <1>1, <1>2, <1>3, CardKept DEF CardInv, Deciding

LEMMA PromptHeard ==
    ASSUME CardInv, [OverlayNext]_overlayVars, NEW t \in Tasks, Prompts(t)
    PROVE  CardInv'
<1>1. /\ task \in [Tasks -> Task] /\ reply \in [Tasks -> Failures \cup {"authorized"}]
      /\ inbox \in Seq(Message) /\ GateInv /\ BatchInv
      /\ reply[t] = "authorized" => task[t].pc = "dropping"
  BY DEF CardInv, CardTypeOK, GateInv, GateTypeOK, RepliesAreDropping
<1>2. CASE Prepare(t) /\ UNCHANGED <<overlay, inbox, reply>>
  <2>1. /\ \A u \in Tasks : u # t => task'[u] = task[u]
        /\ task[t].pc = "spawned"
    BY <1>1, <1>2 DEF Prepare, Opened
  <2> QED
    BY <1>1, <1>2, <2>1, PromptKeeps, NothingSent, PromptOnlyMoves
<1>3. CASE PrepareRefused(t) /\ UNCHANGED <<overlay, reply>>
           /\ \E kind \in {"expired", "failed"} : inbox' = Append(inbox, Refused(kind))
  <2>1. /\ \A u \in Tasks : u # t => task'[u] = task[u]
        /\ task[t].pc = "spawned"
    BY <1>1, <1>3 DEF PrepareRefused
  <2>2. PICK kind \in {"expired", "failed"} : inbox' = Append(inbox, Refused(kind))
    BY <1>3
  <2>3. Refused(kind) \in Message /\ ~IsRead(Refused(kind))
    BY Messages DEF Failures
  <2>4. inbox' = inbox \o <<Refused(kind)>>
    BY <1>1, <2>2, <2>3, AppendIsConcat
  <2>5. <<Refused(kind)>> \in Seq(Message)
        /\ \A k \in DOMAIN <<Refused(kind)>> : ~IsRead(<<Refused(kind)>>[k])
    BY <2>3, OneMessage
  <2> QED
    BY <1>1, <1>3, <2>1, <2>4, <2>5, PromptKeeps, PromptOnlyMoves
<1>4. ASSUME NEW failure \in {"cancelled", "failed"}, NEW approved \in BOOLEAN,
             Answer(t, approved), UNCHANGED <<overlay, inbox>>,
             reply' = [reply EXCEPT ![t] = Outcome(t, approved, failure)]
      PROVE  CardInv'
  <2>1. /\ \A u \in Tasks : u # t => task'[u] = task[u]
        /\ task[t].pc = "prompt" /\ task'[t].pc = "dropping"
    BY <1>1, <1>4 DEF Answer, Task
  <2>2. Outcome(t, approved, failure) \in Failures \cup {"authorized"}
    BY DEF Outcome, Failures
  <2>3. /\ reply' \in [Tasks -> Failures \cup {"authorized"}]
        /\ \A u \in Tasks : u # t => reply'[u] = reply[u]
        /\ reply'[t] = Outcome(t, approved, failure)
    BY <1>1, <1>4, <2>2
  <2>4. reply'[t] = "authorized" \/ SlotsKept
    BY <1>1, <1>4, <2>3, AnswerKeeps
  <2> QED
    BY <1>1, <1>4, <2>1, <2>3, <2>4, NothingSent, PromptOnlyMoves
<1>5. CASE Panic(t) /\ reply' = [reply EXCEPT ![t] = "failed"] /\ UNCHANGED <<overlay, inbox>>
  <2>1. /\ \A u \in Tasks : u # t => task'[u] = task[u] /\ reply'[u] = reply[u]
        /\ task[t].pc = "prompt" /\ reply'[t] = "failed"
        /\ reply' \in [Tasks -> Failures \cup {"authorized"}]
    BY <1>1, <1>5 DEF Panic, Failures
  <2> QED
    BY <1>1, <1>5, <2>1, PromptKeeps, NothingSent, PromptOnlyMoves
<1> QED
  BY <1>2, <1>3, <1>4, <1>5 DEF Prompts

\* The command's return announces what it reports as authorised.
LEMMA AuthorizeHeard ==
    ASSUME CardInv, [OverlayNext]_overlayVars, NEW t \in Tasks, approval_authorize(t)
    PROVE  CardInv'
<1>1. /\ task \in [Tasks -> Task] /\ reply \in [Tasks -> Failures \cup {"authorized"}]
      /\ inbox \in Seq(Message) /\ GateInv
  BY DEF CardInv, CardTypeOK, GateInv, GateTypeOK
<1>2. /\ \A u \in Tasks : u # t => task'[u] = task[u] /\ reply'[u] = reply[u]
      /\ reply'[t] = "none" /\ reply' \in [Tasks -> Failures \cup {"authorized"}]
      /\ Drop(t) /\ UNCHANGED overlay
  BY <1>1 DEF approval_authorize, Drop, Failures
<1>3. /\ task[t].shown \in SUBSET Nat
      /\ "notPending" \in Failures
  BY <1>1 DEF Task, Failures
<1> DEFINE told == Decided_(task[t].shown, TRUE)
           last == Refused("notPending")
           late == Refused(reply[t])
<1>4. told \in Message /\ Rereads(told) /\ ~IsRead(told)
      /\ last \in Message /\ ~IsRead(last) /\ Authorized \in Message /\ ~IsRead(Authorized)
  BY <1>3, Messages
<1>5. /\ reply[t] # "authorized" => inbox' = inbox \o <<late>>
      /\ reply[t] = "authorized" =>
            inbox' = inbox \o <<told, Authorized>> \/ inbox' = inbox \o <<told, last>>
  BY DEF approval_authorize
<1>6. reply[t] # "authorized" => late \in Message /\ ~IsRead(late)
  BY <1>1, Messages
<1> HIDE DEF told, last, late
<1>7. CASE reply[t] # "authorized"
  <2>1. <<late>> \in Seq(Message) /\ \A k \in DOMAIN <<late>> : ~IsRead(<<late>>[k])
    BY <1>6, <1>7, OneMessage
  <2> QED
    BY <1>2, <1>5, <1>7, <2>1, PromptKeeps, PromptOnlyMoves DEF CardInv
<1>8. ASSUME NEW m \in {Authorized, last}, inbox' = inbox \o <<told, m>>
      PROVE  CardInv'
  <2>1. /\ <<told, m>> \in Seq(Message)
        /\ \A k \in DOMAIN <<told, m>> : ~IsRead(<<told, m>>[k])
        /\ \E k \in DOMAIN <<told, m>> : Rereads(<<told, m>>[k])
    BY <1>4, TwoMessages
  <2> QED
    BY <1>2, <1>8, <2>1, PromptOnlyMoves
<1> QED
  BY <1>5, <1>7, <1>8

\* The card's own moves: approving, denying, its timer and its dwell.
LEMMA ApproveHeard ==
    ASSUME CardInv, [OverlayNext]_overlayVars, NEW t \in Tasks, onApprove(t)
    PROVE  CardInv'
<1>1. /\ overlay \in [stage : Stages, snapshot : MaybeSnapshot, nowMs : Nat]
      /\ task \in [Tasks -> Task] /\ reply \in [Tasks -> Failures \cup {"authorized"}]
      /\ GateInv /\ \A u \in Tasks : reply[u] = "authorized" => task[u].pc = "dropping"
  BY DEF CardInv, CardTypeOK, GateInv, GateTypeOK, RepliesAreDropping
<1>2. /\ overlay' \in [stage : Stages, snapshot : MaybeSnapshot, nowMs : Nat]
      /\ overlay'.snapshot = overlay.snapshot /\ Deciding(overlay)
  BY <1>1 DEF onApprove, canApprove, Deciding, Stages
<1>3. UNCHANGED <<inbox, reply, current, batch>>
  BY DEF onApprove, Call, store
<1>4. RepliesAreDropping'
  <2>1. task[t].pc = "idle" /\ \A u \in Tasks : u # t => task'[u] = task[u]
    BY <1>1 DEF onApprove, Call
  <2> QED
    BY <1>1, <1>3, <2>1 DEF RepliesAreDropping
<1> QED
  BY <1>1, <1>2, <1>3, <1>4, SameSlots, NothingSent, CardKept

LEMMA TimerHeard ==
    ASSUME CardInv, [OverlayNext]_overlayVars, Ticks \/ Dismisses \/ UNCHANGED overlayVars
    PROVE  CardInv'
<1>1. /\ overlay \in [stage : Stages, snapshot : MaybeSnapshot, nowMs : Nat]
      /\ reply \in [Tasks -> Failures \cup {"authorized"}]
      /\ GateInv /\ now \in Nat /\ RepliesAreDropping
  BY DEF CardInv, CardTypeOK, GateInv, GateTypeOK
<1>2. UNCHANGED <<inbox, reply, current, batch, task>>
  BY DEF Ticks, Dismisses, overlayVars, gateVars
<1>3. RepliesAreDropping'
  BY <1>1, <1>2 DEF RepliesAreDropping
<1>4. CASE Ticks
  <2>1. /\ overlay' \in [stage : Stages, snapshot : MaybeSnapshot, nowMs : Nat]
        /\ overlay'.snapshot = overlay.snapshot /\ Deciding(overlay)
    BY <1>1, <1>4 DEF Ticks, Stages
  <2> QED
    BY <1>1, <1>2, <1>3, <2>1, SameSlots, NothingSent, CardKept
<1>5. CASE Dismisses
  <2>1. /\ overlay' \in [stage : Stages, snapshot : MaybeSnapshot, nowMs : Nat]
        /\ overlay'.snapshot = NoSnapshot /\ ~Deciding(overlay')
    BY <1>5 DEF Dismisses, HIDDEN, Stages, MaybeSnapshot, Deciding
  <2> QED
    BY <1>1, <1>2, <1>3, <2>1, SameSlots, NothingSent, CardKept
<1>6. CASE UNCHANGED overlayVars
  <2>1. UNCHANGED overlay
    BY <1>6 DEF overlayVars
  <2> QED
    BY <1>1, <1>2, <1>3, <2>1, SameSlots, NothingSent, CardKept DEF Deciding
<1> QED
  BY <1>4, <1>5, <1>6

\* A denial is announced, and a refused one makes the card read.
LEMMA DenyHeard ==
    ASSUME CardInv, [OverlayNext]_overlayVars, onDeny
    PROVE  CardInv'
<1>1. /\ overlay \in [stage : Stages, snapshot : MaybeSnapshot, nowMs : Nat]
      /\ reply \in [Tasks -> Failures \cup {"authorized"}]
      /\ GateInv /\ RepliesAreDropping
      /\ overlay.snapshot \in Snapshots /\ IsOf(overlay.snapshot, next_id, next_batch_id)
  BY ShownIsGiven DEF onDeny, CardInv, CardTypeOK, SnapshotsAreOfTheGate
<1>2. /\ overlay' \in [stage : Stages, snapshot : MaybeSnapshot, nowMs : Nat]
      /\ overlay'.snapshot = overlay.snapshot /\ ~Deciding(overlay')
  BY <1>1 DEF onDeny, Stages, Deciding
<1>3. UNCHANGED <<reply, task>>
  BY DEF onDeny, Deny, gateVars
<1>4. RepliesAreDropping'
  BY <1>1, <1>3 DEF RepliesAreDropping
<1> DEFINE denied == [overlay.snapshot EXCEPT !.state = "denied"]
<1>5. denied \in Snapshots /\ denied.kind = overlay.snapshot.kind /\ denied.id = overlay.snapshot.id
  BY <1>1 DEF Snapshots, ApprovalState
<1>6. IsOf(denied, next_id, next_batch_id)
  <2>1. overlay.snapshot # NoSnapshot
    BY <1>1 DEF Snapshots, NoSnapshot, Kinds
  <2> QED
    BY <1>1, <1>5, <2>1 DEF IsOf
<1>7. Read(denied) \in Message /\ Read(denied).snapshot = denied
  BY <1>5, Messages DEF MaybeSnapshot
<1>8. \/ inbox' = inbox \o <<DenyRefused>>
      \/ \E ids \in SUBSET Nat : inbox' = inbox \o <<Decided_(ids, FALSE), Read(denied)>>
  <2>1. PICK id, ids :
          /\ ids = IF InBatch(id) THEN { e.id : e \in Steps } ELSE {id}
          /\ \/ inbox' = inbox \o <<DenyRefused>>
             \/ Denies(id) /\ inbox' = inbox \o <<Decided_(ids, FALSE), Read(denied)>>
    <3> DEFINE i == CHOOSE i \in overlay.snapshot.ids : \A j \in overlay.snapshot.ids : i <= j
               is == IF InBatch(i) THEN { e.id : e \in Steps } ELSE {i}
    <3>1. \/ inbox' = inbox \o <<DenyRefused>>
          \/ Denies(i) /\ inbox' = inbox \o <<Decided_(is, FALSE), Read(denied)>>
      BY DEF onDeny
    <3> HIDE DEF i
    <3> QED
      BY <3>1
  <2>2. Denies(id) => ids \in SUBSET Nat
    <3>1. current # None => current.id \in Nat
      BY <1>1 DEF GateInv, GateTypeOK, Entry
    <3>2. batch # None => \A i \in DOMAIN batch.entries : batch.entries[i] \in Entry
      BY <1>1 DEF GateInv, GateTypeOK, Batch
    <3>3. \A e \in Steps : e.id \in Nat
      BY <3>2 DEF Steps, Entry
    <3> QED
      BY <2>1, <3>1, <3>3 DEF Denies, InCurrent
  <2> QED
    BY <2>1, <2>2
<1> HIDE DEF denied
<1>9. CASE inbox' = inbox \o <<DenyRefused>>
  <2>1. /\ <<DenyRefused>> \in Seq(Message)
        /\ \A k \in DOMAIN <<DenyRefused>> : ~IsRead(<<DenyRefused>>[k])
        /\ \E k \in DOMAIN <<DenyRefused>> : Rereads(<<DenyRefused>>[k])
    BY Messages, OneMessage
  <2> QED
    BY <1>1, <1>2, <1>3, <1>4, <1>9, <2>1, CardKept
<1>10. ASSUME NEW ids \in SUBSET Nat, inbox' = inbox \o <<Decided_(ids, FALSE), Read(denied)>>
       PROVE  CardInv'
  <2> DEFINE told == Decided_(ids, FALSE)
             ms == <<told, Read(denied)>>
  <2>1. told \in Message /\ Rereads(told) /\ ~IsRead(told)
    BY Messages
  <2> HIDE DEF told
  <2>2. ms \in Seq(Message) /\ DOMAIN ms = {1, 2} /\ ms[1] = told /\ ms[2] = Read(denied)
    BY <1>7, <2>1, TwoMessages
  <2>3. inbox' = inbox \o ms
    BY <1>10 DEF told
  <2> HIDE DEF ms
  <2>4. /\ \E k \in DOMAIN ms : Rereads(ms[k])
        /\ \A k \in DOMAIN ms : IsRead(ms[k]) => IsOf(ms[k].snapshot, next_id, next_batch_id)
    BY <1>6, <1>7, <2>1, <2>2
  <2> QED
    BY <1>1, <1>2, <1>3, <1>4, <2>2, <2>3, <2>4, CardKept
<1> QED
  BY <1>8, <1>9, <1>10

-----------------------------------------------------------------------------
(* Deliveries.                                                             *)

LEMMA SnapshotShown ==
    ASSUME overlay \in [stage : Stages, snapshot : MaybeSnapshot, nowMs : Nat], now \in Nat,
           NEW s \in MaybeSnapshot
    PROVE  /\ OnSnapshot(overlay, s) \in [stage : Stages, snapshot : MaybeSnapshot, nowMs : Nat]
           /\ OnSnapshot(overlay, s).snapshot \in {overlay.snapshot, s, NoSnapshot}
           /\ Deciding(OnSnapshot(overlay, s)) =>
                 OnSnapshot(overlay, s).snapshot = s /\ s.state = "pending"
<1>1. CASE s = NoSnapshot
  <2>1. OnSnapshot(overlay, s) = IF isResultStage(overlay.stage) THEN overlay ELSE HIDDEN
    BY <1>1 DEF OnSnapshot
  <2>2. /\ HIDDEN \in [stage : Stages, snapshot : MaybeSnapshot, nowMs : Nat]
        /\ HIDDEN.snapshot = NoSnapshot /\ ~Deciding(HIDDEN)
    BY DEF HIDDEN, Stages, MaybeSnapshot, Deciding
  <2>3. isResultStage(overlay.stage) => ~Deciding(overlay)
    BY DEF isResultStage, Deciding
  <2> QED
    BY <2>1, <2>2, <2>3
<1>2. CASE s # NoSnapshot
  <2>1. s \in Snapshots /\ s.state \in ApprovalState
    BY <1>2 DEF MaybeSnapshot, Snapshots
  <2>2. OnSnapshot(overlay, s) = fromSnapshot(s)
    BY <1>2 DEF OnSnapshot
  <2>3. s.state # "pending" => terminalStageOf(s.state) \in {"sent", "denied", "expired"}
    BY <2>1 DEF terminalStageOf, ApprovalState, Live
  <2> QED
    BY <2>1, <2>2, <2>3 DEF fromSnapshot, Stages, Deciding
<1> QED
  BY <1>1, <1>2

LEMMA ResultShown ==
    ASSUME overlay \in [stage : Stages, snapshot : MaybeSnapshot, nowMs : Nat],
           NEW ids, NEW yes, NEW kind,
           NEW o \in {OnResult(overlay, ids, yes), OnAuthorizeOk(overlay),
                      OnAuthorizeFailed(overlay, kind), overlay}
    PROVE  /\ o \in [stage : Stages, snapshot : MaybeSnapshot, nowMs : Nat]
           /\ o.snapshot = overlay.snapshot
           /\ Deciding(o) => Deciding(overlay)
<1>1. o = overlay \/ \E stage \in Stages : o = [overlay EXCEPT !.stage = stage]
                                           /\ (stage = "pending" => Deciding(overlay))
                                           /\ stage # "authorizing"
  BY DEF OnResult, OnAuthorizeOk, OnAuthorizeFailed, Stages, Deciding
<1> QED
  BY <1>1 DEF Deciding

\* What is delivered, and what is left.
LEMMA HeadAndTail ==
    ASSUME inbox \in Seq(Message), inbox # <<>>
    PROVE  /\ Head(inbox) = inbox[1] /\ Head(inbox) \in Message /\ 1 \in DOMAIN inbox
           /\ Tail(inbox) \in Seq(Message)
           /\ \A k \in DOMAIN Tail(inbox) : k + 1 \in DOMAIN inbox /\ Tail(inbox)[k] = inbox[k + 1]
           /\ \A k \in DOMAIN inbox : k # 1 => k - 1 \in DOMAIN Tail(inbox)
           /\ DOMAIN inbox \subseteq Nat /\ DOMAIN Tail(inbox) \subseteq Nat
<1>1. Len(inbox) \in Nat /\ Len(inbox) > 0 /\ DOMAIN inbox = 1 .. Len(inbox)
  OBVIOUS
<1>2. /\ Tail(inbox) \in Seq(Message) /\ Len(Tail(inbox)) = Len(inbox) - 1
      /\ \A k \in 1 .. Len(inbox) - 1 : Tail(inbox)[k] = inbox[k + 1]
  BY <1>1
<1>3. DOMAIN Tail(inbox) = 1 .. Len(inbox) - 1
  BY <1>2
<1>4. Head(inbox) = inbox[1] /\ inbox[1] \in Message
  BY <1>1
<1> QED
  BY <1>1, <1>2, <1>3, <1>4

\* What a delivery makes of the card.
LEMMA CardAfter ==
    ASSUME CardInv, Delivered
    PROVE  /\ overlay' \in [stage : Stages, snapshot : MaybeSnapshot, nowMs : Nat]
           /\ IsOf(overlay'.snapshot, next_id, next_batch_id)
           /\ Deciding(overlay') => overlay'.snapshot.state = "pending"
           /\ ~IsRead(Head(inbox)) => /\ overlay'.snapshot = overlay.snapshot
                                      /\ Deciding(overlay') => Deciding(overlay)
           /\ IsRead(Head(inbox)) /\ Deciding(overlay') =>
                 overlay'.snapshot = Head(inbox).snapshot
<1>1. /\ overlay \in [stage : Stages, snapshot : MaybeSnapshot, nowMs : Nat]
      /\ inbox \in Seq(Message) /\ inbox # <<>> /\ now \in Nat
      /\ DecidesOnPending /\ SnapshotsAreOfTheGate
  BY DEF CardInv, CardTypeOK, GateInv, GateTypeOK, Delivered
<1> DEFINE m == Head(inbox)
<1>2. m \in Message /\ m = inbox[1] /\ 1 \in DOMAIN inbox
  BY <1>1, HeadAndTail
<1>3. IsOf(NoSnapshot, next_id, next_batch_id)
  BY DEF IsOf
<1>4. overlay' = CASE m.type = "snapshot"        -> OnSnapshot(overlay, m.snapshot)
                   [] m.type = "approval_result" -> OnResult(overlay, m.ids, m.approved)
                   [] m.type = "authorized"      -> OnAuthorizeOk(overlay)
                   [] m.type = "refused"         -> OnAuthorizeFailed(overlay, m.kind)
                   [] OTHER                      -> overlay
  BY DEF Delivered
<1>5. CASE IsRead(m)
  <2>1. overlay' = OnSnapshot(overlay, m.snapshot)
    BY <1>4, <1>5 DEF IsRead
  <2>2. m.snapshot \in MaybeSnapshot /\ IsOf(m.snapshot, next_id, next_batch_id)
    BY <1>1, <1>2, <1>5, ReadsAreSnapshots DEF SnapshotsAreOfTheGate, IsRead
  <2> HIDE DEF m
  <2>3. IsOf(overlay.snapshot, next_id, next_batch_id)
    BY <1>1 DEF SnapshotsAreOfTheGate
  <2> QED
    BY <1>1, <1>3, <1>5, <2>1, <2>2, <2>3, SnapshotShown DEF m
<1>6. CASE ~IsRead(m)
  <2>1. overlay' \in {OnResult(overlay, m.ids, m.approved), OnAuthorizeOk(overlay),
                      OnAuthorizeFailed(overlay, m.kind), overlay}
    BY <1>4, <1>6 DEF IsRead
  <2> HIDE DEF m
  <2>2. /\ overlay' \in [stage : Stages, snapshot : MaybeSnapshot, nowMs : Nat]
        /\ overlay'.snapshot = overlay.snapshot
        /\ Deciding(overlay') => Deciding(overlay)
    BY <1>1, <2>1, ResultShown
  <2> QED
    BY <1>1, <1>6, <2>2 DEF DecidesOnPending, SnapshotsAreOfTheGate, m
<1> QED
  BY <1>5, <1>6

\* What a read answers is a snapshot of what has been begun.
LEMMA AnswerIsGiven ==
    ASSUME CardInv
    PROVE  /\ Pending \in MaybeSnapshot /\ IsOf(Pending, next_id, next_batch_id)
           /\ Pending.state = "pending" => Pending = Hydrated
<1>1. AnswerShape /\ IdsAreGiven
  BY Answered DEF CardInv
<1>2. Hydrated \in MaybeSnapshot /\ IsOf(Hydrated, next_id, next_batch_id)
  BY <1>1 DEF AnswerShape, IdsAreGiven, IsOf, MaybeSnapshot
<1>3. Pending = Hydrated \/ Pending = NoSnapshot
  BY DEF Pending
<1> QED
  BY <1>2, <1>3 DEF IsOf, MaybeSnapshot, NoSnapshot

\* A delivery that makes the card read puts the gate's answer last.
LEMMA RereadHeard ==
    ASSUME CardInv, Delivered, Rereads(Head(inbox)), StillAsked,
           now \in Nat, now' \in Nat, now <= now'
    PROVE  /\ inbox' \in Seq(Message)
           /\ \A k \in DOMAIN inbox' : IsRead(inbox'[k]) =>
                 IsOf(inbox'[k].snapshot, next_id, next_batch_id)
           /\ LastReadAgrees'
<1> DEFINE rest == Tail(inbox)
<1>1. /\ inbox \in Seq(Message) /\ inbox # <<>>
      /\ \A k \in DOMAIN inbox : IsRead(inbox[k]) => IsOf(inbox[k].snapshot, next_id, next_batch_id)
  BY DEF CardInv, CardTypeOK, Delivered, SnapshotsAreOfTheGate, IsRead
<1>2. /\ rest \in Seq(Message)
      /\ \A k \in DOMAIN rest : k + 1 \in DOMAIN inbox /\ rest[k] = inbox[k + 1]
  BY <1>1, HeadAndTail
<1>3. inbox' = Append(rest, Read(Pending))
  BY DEF Delivered
<1>4. /\ Read(Pending) \in Message /\ Read(Pending).snapshot = Pending /\ IsRead(Read(Pending))
      /\ IsOf(Pending, next_id, next_batch_id)
  BY AnswerIsGiven, Messages DEF IsRead, Read
<1> HIDE DEF rest
<1> DEFINE last == Len(rest) + 1
<1>5. /\ inbox' \in Seq(Message) /\ DOMAIN inbox' = 1 .. last /\ last \in DOMAIN inbox'
      /\ inbox'[last] = Read(Pending)
      /\ \A k \in DOMAIN inbox' : k # last => k \in DOMAIN rest /\ inbox'[k] = rest[k]
      /\ \A k \in DOMAIN inbox' : ~(k > last)
  BY <1>2, <1>3, <1>4
<1>6. \A k \in DOMAIN inbox' :
         IsRead(inbox'[k]) => IsOf(inbox'[k].snapshot, next_id, next_batch_id)
  BY <1>1, <1>2, <1>4, <1>5
<1>7. Agrees(Pending, Hydrated', now')
  BY AnswerIsGiven DEF StillAsked, Agrees
<1> HIDE DEF last
<1> QED
  BY <1>4, <1>5, <1>6, <1>7 DEF LastReadAgrees

\* Any other delivery shows at most what was the last read.
LEMMA OtherHeard ==
    ASSUME CardInv, Delivered, ~Rereads(Head(inbox))
    PROVE  /\ inbox' \in Seq(Message) /\ UNCHANGED gateVars
           /\ \A k \in DOMAIN inbox' : IsRead(inbox'[k]) =>
                 IsOf(inbox'[k].snapshot, next_id, next_batch_id)
           /\ Informed'
<1>1. /\ inbox \in Seq(Message) /\ inbox # <<>>
      /\ \A k \in DOMAIN inbox : IsRead(inbox[k]) => IsOf(inbox[k].snapshot, next_id, next_batch_id)
  BY DEF CardInv, CardTypeOK, Delivered, SnapshotsAreOfTheGate, IsRead
<1>2. inbox' = Tail(inbox) /\ UNCHANGED <<gateVars, reply>>
  BY DEF Delivered
<1>3. /\ Head(inbox) = inbox[1] /\ 1 \in DOMAIN inbox
      /\ inbox' \in Seq(Message)
      /\ \A k \in DOMAIN inbox' : k + 1 \in DOMAIN inbox /\ inbox'[k] = inbox[k + 1]
      /\ \A k \in DOMAIN inbox : k # 1 => k - 1 \in DOMAIN inbox'
      /\ DOMAIN inbox \subseteq Nat /\ DOMAIN inbox' \subseteq Nat
  BY <1>1, <1>2, HeadAndTail
<1>4. \A k \in DOMAIN inbox : k # 1 => k - 1 \in DOMAIN inbox' /\ inbox'[k - 1] = inbox[k]
  <2> SUFFICES ASSUME NEW k \in DOMAIN inbox, k # 1
               PROVE  k - 1 \in DOMAIN inbox' /\ inbox'[k - 1] = inbox[k]
    OBVIOUS
  <2>1. k \in Nat /\ (k - 1) + 1 = k
    BY <1>3
  <2> QED
    BY <1>3, <2>1
<1>5. Hydrated' = Hydrated /\ now' = now
  BY <1>2 DEF Hydrated, snapshot_of_batch, snapshot_of_entry, batch_state, Looked, IsDue, gateVars
<1>6.ASSUME Stirred
      PROVE  Informed'
  <2>1. CASE \E t \in Tasks : reply[t] = "authorized"
    BY <1>2, <2>1 DEF Stirred, Informed
  <2>2. CASE \E k \in DOMAIN inbox : Rereads(inbox[k])
    <3>1. PICK k \in DOMAIN inbox : Rereads(inbox[k]) /\ k # 1
      BY <1>3, <2>2
    <3> QED
      BY <1>4, <3>1 DEF Stirred, Informed
  <2> QED
    BY <1>6, <2>1, <2>2 DEF Stirred
<1>7.ASSUME LastReadAgrees
      PROVE  Informed'
  <2>1. PICK k \in DOMAIN inbox :
          /\ IsRead(inbox[k]) /\ Agrees(inbox[k].snapshot, Hydrated, now)
          /\ \A j \in DOMAIN inbox : j > k => ~IsRead(inbox[j])
    BY <1>7 DEF LastReadAgrees
  <2>2. k \in Nat
    BY <1>3
  <2>3. CASE k = 1
    <3>1. \A j \in DOMAIN inbox' : ~IsRead(inbox'[j])
      <4> SUFFICES ASSUME NEW j \in DOMAIN inbox' PROVE ~IsRead(inbox[j + 1])
        BY <1>3
      <4>1. \A i \in DOMAIN inbox : i # 1 => i > 1
        BY <1>1
      <4>2. j + 1 \in DOMAIN inbox /\ j + 1 # 1
        BY <1>3
      <4> QED
        BY <2>1, <2>3, <4>1, <4>2
    <3>2. IsRead(Head(inbox)) /\ Agrees(Head(inbox).snapshot, Hydrated', now')
      BY <1>3, <1>5, <2>1, <2>3
    <3> QED
      BY <3>1, <3>2, CardAfter DEF CardAgrees, Informed
  <2>4. CASE k # 1
    <3>1. k - 1 \in DOMAIN inbox' /\ inbox'[k - 1] = inbox[k]
      BY <1>4, <2>4
    <3>2. \A j \in DOMAIN inbox' : j > k - 1 => ~IsRead(inbox'[j])
      <4> SUFFICES ASSUME NEW j \in DOMAIN inbox', j > k - 1 PROVE ~IsRead(inbox[j + 1])
        BY <1>3
      <4>1. j \in Nat /\ j + 1 > k /\ j + 1 \in DOMAIN inbox
        BY <1>3, <2>2
      <4> QED
        BY <2>1, <4>1
    <3>3. Agrees(inbox'[k - 1].snapshot, Hydrated', now') /\ IsRead(inbox'[k - 1])
      BY <1>5, <2>1, <3>1
    <3> QED
      BY <3>1, <3>2, <3>3 DEF LastReadAgrees, Informed
  <2> QED
    BY <2>3, <2>4
<1>8.ASSUME CardAgrees
      PROVE  Informed'
  <2>1. \A k \in DOMAIN inbox' : ~IsRead(inbox'[k])
    BY <1>3, <1>8 DEF CardAgrees
  <2>2. ~IsRead(Head(inbox))
    BY <1>3, <1>8 DEF CardAgrees
  <2>3. Deciding(overlay') => Agrees(overlay'.snapshot, Hydrated', now')
    BY <1>5, <1>8, <2>2, CardAfter DEF CardAgrees
  <2> QED
    BY <2>1, <2>3 DEF CardAgrees, Informed
<1> QED
  BY <1>1, <1>2, <1>3, <1>6, <1>7, <1>8 DEF CardInv, Informed

LEMMA DeliveryHeard ==
    ASSUME CardInv, [OverlayNext]_overlayVars, Delivered
    PROVE  CardInv'
<1>1. [GateNext]_gateVars
  BY CardStepIsGateStep
<1>2. /\ GateInv' /\ BatchInv' /\ IdsAreGiven'
      /\ next_id \in Nat /\ next_id' \in Nat /\ next_id <= next_id'
      /\ next_batch_id \in Nat /\ next_batch_id' \in Nat /\ next_batch_id <= next_batch_id'
      /\ now \in Nat /\ now' \in Nat /\ now <= now'
  BY <1>1, GateStep, BatchStaysTogether, GivenStep, TimeGrows DEF CardInv
<1>3. UNCHANGED <<reply, task>>
  BY DEF Delivered, Looks, gateVars
<1>4. /\ inbox' \in Seq(Message) /\ Informed'
      /\ \A k \in DOMAIN inbox' : IsRead(inbox'[k]) =>
            IsOf(inbox'[k].snapshot, next_id, next_batch_id)
  <2>1. CASE Rereads(Head(inbox))
    <3>1. SlotsKept
      BY <2>1, LookIsStatus DEF Delivered
    <3>2. StillAsked
      BY <1>2, <3>1, KeptIsAsked DEF CardInv
    <3> QED
      BY <1>2, <2>1, <3>2, RereadHeard DEF Informed
  <2>2. CASE ~Rereads(Head(inbox))
    BY <2>2, OtherHeard
  <2> QED
    BY <2>1, <2>2
<1>5. CardTypeOK' /\ RepliesAreDropping' /\ DecidesOnPending'
  BY <1>3, <1>4, CardAfter DEF CardInv, CardTypeOK, RepliesAreDropping, DecidesOnPending
<1>6. SnapshotsAreOfTheGate'
  <2>1. ASSUME NEW s, IsOf(s, next_id, next_batch_id)
        PROVE  IsOf(s, next_id', next_batch_id')
    BY <1>2, <2>1 DEF IsOf
  <2> QED
    BY <1>4, <2>1, CardAfter DEF SnapshotsAreOfTheGate, IsRead
<1> QED
  BY <1>2, <1>4, <1>5, <1>6 DEF CardInv

LEMMA CardStep ==
    ASSUME CardInv, [OverlayNext]_overlayVars
    PROVE  CardInv'
BY BeginningHeard, LockHeard, ElsewhereHeard, PromptHeard, AuthorizeHeard, ApproveHeard,
   DenyHeard, TimerHeard, DeliveryHeard DEF OverlayNext

LEMMA CardStart == OverlayInit => CardInv
<1> SUFFICES ASSUME OverlayInit PROVE CardInv
  OBVIOUS
<1>1. GateInv
  BY GateStart DEF OverlayInit
<1>2. BatchInv /\ IdsAreGiven
  BY DEF OverlayInit, GateInit, BatchInv, BatchMovesTogether, IdsAreGiven
<1>3. /\ overlay = HIDDEN /\ inbox = <<>> /\ reply = [t \in Tasks |-> "none"]
      /\ HIDDEN.snapshot = NoSnapshot /\ ~Deciding(HIDDEN)
  BY DEF OverlayInit, HIDDEN, Deciding
<1>4. HIDDEN \in [stage : Stages, snapshot : MaybeSnapshot, nowMs : Nat]
  BY DEF HIDDEN, Stages, MaybeSnapshot
<1>5. <<>> \in Seq(Message) /\ DOMAIN <<>> = {}
  OBVIOUS
<1>6. inbox \in Seq(Message) /\ DOMAIN inbox = {}
  BY <1>3, <1>5, Zenon
<1>7. CardTypeOK /\ RepliesAreDropping /\ DecidesOnPending
  BY <1>3, <1>4, <1>6 DEF CardTypeOK, RepliesAreDropping, DecidesOnPending, Failures
<1>8. SnapshotsAreOfTheGate /\ CardAgrees
  BY <1>3, <1>6 DEF SnapshotsAreOfTheGate, CardAgrees, IsOf
<1> QED
  BY <1>1, <1>2, <1>7, <1>8 DEF CardInv, Informed

\* What the card believes of the gate is true, out of time, or about to be read again, in
\* every state of card, queue and gate.
THEOREM CardInvariant == OverlaySpec => []CardInv
BY CardStart, CardStep, PTL DEF OverlaySpec

\* The card uses the gate as the gate allows: every behaviour of card and gate is one of
\* the gate, and what is proved of the gate holds under the card.
THEOREM CardImplementsGate == OverlaySpec => GateSpec
<1>1. OverlayInit => GateInit
  BY DEF OverlayInit
<1>2. CardInv /\ [OverlayNext]_overlayVars => [GateNext]_gateVars
  BY CardStepIsGateStep
<1> QED
  BY <1>1, <1>2, CardInvariant, PTL DEF OverlaySpec, GateSpec

\* When nothing is on its way, a card that offers the decision shows the request the gate
\* is holding, and the gate is still waiting for it (usePendingApproval.ts:57-86).
THEOREM CardTellsTheTruth == OverlaySpec => []QuietCardIsTrue
<1>1. CardInv => QuietCardIsTrue
  <2> SUFFICES ASSUME CardInv, CardIsQuiet, overlay.stage = "pending", ~TimedOut(overlay, now)
               PROVE  Pending.state = "pending" /\ Pending.ids = overlay.snapshot.ids
    BY DEF QuietCardIsTrue
  <2>1. DOMAIN <<>> = {}
    OBVIOUS
  <2>2. DOMAIN inbox = {}
    BY <2>1, Zenon DEF CardIsQuiet
  <2>3. ~Stirred
    BY <2>2 DEF CardIsQuiet, CardInv, RepliesAreDropping, Stirred
  <2>4. Deciding(overlay) /\ CardAgrees
    BY <2>2, <2>3 DEF CardInv, Informed, LastReadAgrees, Deciding
  <2>5. Hydrated.state = "pending" /\ Hydrated.ids = overlay.snapshot.ids
    BY <2>4 DEF CardInv, DecidesOnPending, CardAgrees, Agrees, TimedOut
  <2> QED
    BY <2>5 DEF Pending, Live
<1> QED
  BY <1>1, CardInvariant, PTL

=============================================================================
