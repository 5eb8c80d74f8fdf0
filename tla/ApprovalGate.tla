---------------------------- MODULE ApprovalGate ----------------------------
(***************************************************************************)
(* The pending-approval store and the Touch ID prompts that answer it,     *)
(* app/src-tauri/src/approval.rs.  The store sits behind one mutex and     *)
(* every method takes it once, so a method is one action.  A prompt is     *)
(* not: authorize_with and authorize_batch take the mutex to prepare, let  *)
(* go of it while the human decides, take it again to record the answer,   *)
(* and once more when the in-flight guard is dropped.                      *)
(*                                                                         *)
(* A request is its id: the unsigned XDR, its hash, the summary and the    *)
(* wording are left out, and so are the requests validate_request refuses, *)
(* which change nothing.  WalletOnly requests are left out too: only       *)
(* begin_wallet_only makes them and nothing calls it.  Each method reads   *)
(* the clock just before it locks; here it reads it while it holds the     *)
(* lock.                                                                   *)
(***************************************************************************)
EXTENDS Integers, Sequences

CONSTANTS
    Tasks,          \* threads of the blocking pool that can run a prompt
    BatchSizes,     \* the numbers of steps of a batch, 1 .. MAX_BATCH_ITEMS in the code
    APPROVAL_TTL,
    MaxRequests,    \* bound on the requests ever begun
    MaxTime,        \* bound on the clock
    None

Live == {"pending", "authorized"}
ApprovalState == Live \cup {"denied", "expired", "consumed"}
Entry == [id : Nat, state : ApprovalState, expires_at : Nat, in_flight : BOOLEAN]
Batch == [id : Nat, entries : Seq(Entry), expires_at : Nat, in_flight : BOOLEAN]
Kinds == {"single", "batch"}

ASSUME GateAssumption ==
    /\ BatchSizes \subseteq Nat \ {0}
    /\ APPROVAL_TTL \in Nat /\ MaxRequests \in Nat /\ MaxTime \in Nat
    /\ None \notin Entry /\ None \notin Batch

VARIABLES
    next_id,        \* StoreInner
    next_batch_id,
    current,        \* the single slot, or None
    batch,          \* the batch slot, or None
    task,           \* what each blocking-pool thread is doing, and for whom
    now,            \* the monotonic clock
    consented,      \* history: the requests whose prompt a human approved
    released        \* history: the requests taken by the signer, in order

store == <<next_id, next_batch_id, current, batch>>
gateVars == <<next_id, next_batch_id, current, batch, task, now, consented, released>>

Idle == [pc |-> "idle", kind |-> "single", id |-> 0, shown |-> {}]
Task == [pc : {"idle", "spawned", "prompt", "dropping"}, kind : Kinds,
         id : Nat, shown : SUBSET Nat]

\* Shape of the state: StoreInner, Entry and Batch (approval.rs:368-382, 541-546).
GateTypeOK ==
    /\ next_id \in Nat /\ next_batch_id \in Nat
    /\ current \in Entry \cup {None}
    /\ batch \in Batch \cup {None}
    /\ task \in [Tasks -> Task]
    /\ now \in Nat
    /\ consented \subseteq Nat
    /\ released \in Seq(Nat)

GateInit ==
    /\ next_id = 0 /\ next_batch_id = 0
    /\ current = None /\ batch = None
    /\ task = [t \in Tasks |-> Idle]
    /\ now = 0
    /\ consented = {} /\ released = <<>>

-----------------------------------------------------------------------------
(* Reading the store.                                                      *)

IsDue(e) == now >= e.expires_at

\* Every request in the store, whichever slot holds it.
Steps == IF batch = None THEN {} ELSE {batch.entries[i] : i \in DOMAIN batch.entries}
Stored == (IF current = None THEN {} ELSE {current}) \cup Steps

InCurrent(id) == current # None /\ current.id = id
InBatch(id) == \E e \in Steps : e.id = id

AllPending(b) == \A i \in DOMAIN b.entries : b.entries[i].state = "pending"

Fresh(id) == [id |-> id, state |-> "pending", expires_at |-> now + APPROVAL_TTL,
              in_flight |-> FALSE]

\* The batch with the state s[i] for its step i, and with one state for all.
WithStates(b, s) ==
    [b EXCEPT !.entries = [i \in DOMAIN b.entries |-> [b.entries[i] EXCEPT !.state = s[i]]]]
WithState(b, s) == WithStates(b, [i \in DOMAIN b.entries |-> s])

-----------------------------------------------------------------------------
(* Registering requests.  take_live empties both slots.                    *)

Begin ==
    /\ next_id < MaxRequests
    /\ next_id' = next_id + 1
    /\ current' = Fresh(next_id + 1)
    /\ batch' = None
    /\ UNCHANGED <<next_batch_id, task, now, consented, released>>

BeginBatch(n) ==
    /\ next_id + n <= MaxRequests
    /\ next_id' = next_id + n
    /\ next_batch_id' = next_batch_id + 1
    /\ current' = None
    /\ batch' = [id |-> next_batch_id + 1, entries |-> [i \in 1 .. n |-> Fresh(next_id + i)],
                 expires_at |-> now + APPROVAL_TTL, in_flight |-> FALSE]
    /\ UNCHANGED <<task, now, consented, released>>

-----------------------------------------------------------------------------
(* The prompt.                                                             *)

\* approval_authorize hands authorize_with to the pool; the id is the caller's.
Call(t, kind, id) ==
    /\ task[t].pc = "idle"
    /\ task' = [task EXCEPT ![t] = [Idle EXCEPT !.pc = "spawned", !.kind = kind, !.id = id]]
    /\ UNCHANGED <<store, now, consented, released>>

SingleSlot(t) == task[t].kind = "single" /\ InCurrent(task[t].id)
BatchSlot(t) == task[t].kind = "batch" /\ batch # None /\ batch.id = task[t].id

\* The prompt opens: its requests are pending, in time, and not prompted for yet.
OpensSingle(t) ==
    /\ SingleSlot(t)
    /\ current.state = "pending" /\ ~IsDue(current) /\ ~current.in_flight
OpensBatch(t) ==
    /\ BatchSlot(t)
    /\ ~IsDue(batch) /\ AllPending(batch) /\ ~batch.in_flight

Opened(t, ids) == task' = [task EXCEPT ![t].pc = "prompt", ![t].shown = ids]

Prepare(t) ==
    /\ task[t].pc = "spawned"
    /\ \/ /\ OpensSingle(t)
          /\ current' = [current EXCEPT !.in_flight = TRUE]
          /\ Opened(t, {current.id})
          /\ UNCHANGED batch
       \/ /\ OpensBatch(t)
          /\ batch' = [batch EXCEPT !.in_flight = TRUE]
          /\ Opened(t, {e.id : e \in Steps})
          /\ UNCHANGED current
    /\ UNCHANGED <<next_id, next_batch_id, now, consented, released>>

\* A prompt that may not open writes down what it found to be over: a single
\* request that was pending, a batch whatever its steps had become.
PrepareRefused(t) ==
    /\ task[t].pc = "spawned"
    /\ ~OpensSingle(t) /\ ~OpensBatch(t)
    /\ current' = IF SingleSlot(t) /\ current.state = "pending" /\ IsDue(current)
                  THEN [current EXCEPT !.state = "expired"] ELSE current
    /\ batch' = IF BatchSlot(t) /\ IsDue(batch) THEN WithState(batch, "expired") ELSE batch
    /\ task' = [task EXCEPT ![t] = Idle]
    /\ UNCHANGED <<next_id, next_batch_id, now, consented, released>>

\* What the answer makes of a single request, and of the steps of a batch.
Decided(e, approved) ==
    IF e.state = "expired" \/ IsDue(e) THEN "expired"
    ELSE IF e.state = "pending" /\ approved THEN "authorized" ELSE e.state

DecidedBatch(b, approved) ==
    IF IsDue(b) THEN WithState(b, "expired")
    ELSE IF AllPending(b) /\ approved THEN WithState(b, "authorized") ELSE b

\* Faulty variant: the answer goes to whatever the single slot holds by now.
AnswersSingleUnmatched(t) == task[t].kind = "single" /\ current # None

\* The answer is recorded in the slot only if the slot still holds the request.
AnswersSingle(t) == SingleSlot(t)

\* The human answers, or the prompt is cancelled, fails or times out: then
\* finish_authorize or finish_authorize_batch.
Answer(t, approved) ==
    /\ task[t].pc = "prompt"
    /\ current' = IF AnswersSingle(t)
                  THEN [current EXCEPT !.in_flight = FALSE, !.state = Decided(current, approved)]
                  ELSE current
    /\ batch' = IF BatchSlot(t)
                THEN [DecidedBatch(batch, approved) EXCEPT !.in_flight = FALSE]
                ELSE batch
    /\ consented' = IF approved THEN consented \cup task[t].shown ELSE consented
    /\ task' = [task EXCEPT ![t].pc = "dropping"]
    /\ UNCHANGED <<next_id, next_batch_id, now, released>>

\* The authenticator panics: nothing is recorded and the stack unwinds.
Panic(t) ==
    /\ task[t].pc = "prompt"
    /\ task' = [task EXCEPT ![t].pc = "dropping"]
    /\ UNCHANGED <<store, now, consented, released>>

\* Faulty variant: the guard clears nothing when it is dropped.
LatchKept(slot) == slot

\* The slot after the guard is dropped.
LatchAfterDrop(slot) == [slot EXCEPT !.in_flight = FALSE]

\* The in-flight guard is dropped and the thread goes back to the pool.
Drop(t) ==
    /\ task[t].pc = "dropping"
    /\ current' = IF SingleSlot(t) THEN LatchAfterDrop(current) ELSE current
    /\ batch' = IF BatchSlot(t) THEN LatchAfterDrop(batch) ELSE batch
    /\ task' = [task EXCEPT ![t] = Idle]
    /\ UNCHANGED <<next_id, next_batch_id, now, consented, released>>

-----------------------------------------------------------------------------
(* Denying, reading, taking.                                               *)

\* Faulty variant: only the step that was named is denied.
DeniedBatchStepOnly(b, id) ==
    WithStates(b, [i \in DOMAIN b.entries |->
                      IF b.entries[i].id = id THEN "denied" ELSE b.entries[i].state])

\* Denying a step denies the batch.
DeniedBatch(b, id) == WithState(b, "denied")

DenyBatch(id) ==
    /\ InBatch(id)
    /\ batch' = IF IsDue(batch) THEN WithState(batch, "expired")
                ELSE IF AllPending(batch) THEN DeniedBatch(batch, id) ELSE batch
    /\ UNCHANGED current

DenySingle(id) ==
    /\ ~InBatch(id)
    /\ InCurrent(id)
    /\ \/ /\ current.state = "expired" \/ IsDue(current)
          /\ current' = [current EXCEPT !.state = "expired"]
       \/ /\ current.state = "pending" /\ ~IsDue(current)
          /\ current' = [current EXCEPT !.state = "denied", !.in_flight = FALSE]
    /\ UNCHANGED batch

Deny(id) ==
    /\ DenyBatch(id) \/ DenySingle(id)
    /\ UNCHANGED <<next_id, next_batch_id, task, now, consented, released>>

\* What a look at a request makes of it: expire_if_due.
Looked(e) == IF e.state \in Live /\ IsDue(e) THEN "expired" ELSE e.state

\* status; snapshot_of and current normalise the single slot in the same way.
Status(id) ==
    /\ current' = IF InCurrent(id) THEN [current EXCEPT !.state = Looked(current)] ELSE current
    /\ batch' = IF ~InCurrent(id) /\ InBatch(id)
                THEN WithStates(batch, [i \in DOMAIN batch.entries |->
                         IF batch.entries[i].id = id THEN Looked(batch.entries[i])
                                                     ELSE batch.entries[i].state])
                ELSE batch
    /\ UNCHANGED <<next_id, next_batch_id, task, now, consented, released>>

CanRelease(id) == \E e \in Stored : e.id = id /\ e.state = "authorized" /\ ~IsDue(e)

\* Faulty variant: the request is handed out and stays authorised.
TakenAndKept(e) == IF e.state = "expired" \/ IsDue(e) THEN "expired" ELSE e.state

\* What taking a request makes of it.
Taken(e) ==
    IF e.state = "expired" \/ IsDue(e) THEN "expired"
    ELSE IF e.state = "authorized" THEN "consumed" ELSE e.state

\* take_authorized, the only exit of the gate.
Take(id) ==
    /\ current' = IF InCurrent(id) THEN [current EXCEPT !.state = Taken(current)] ELSE current
    /\ batch' = IF ~InCurrent(id) /\ InBatch(id)
                THEN WithStates(batch, [i \in DOMAIN batch.entries |->
                         IF batch.entries[i].id = id THEN Taken(batch.entries[i])
                                                     ELSE batch.entries[i].state])
                ELSE batch
    /\ released' = IF CanRelease(id) THEN Append(released, id) ELSE released
    /\ UNCHANGED <<next_id, next_batch_id, task, now, consented>>

\* Faulty variant: what was authorised already survives the lock.
LockedPendingOnly(e) ==
    IF e.state = "pending" THEN [e EXCEPT !.state = "denied", !.in_flight = FALSE] ELSE e

\* What the wallet's lock makes of a request.
Locked(e) ==
    IF e.state \in Live THEN [e EXCEPT !.state = "denied", !.in_flight = FALSE] ELSE e

InvalidateForLock ==
    /\ current' = IF current = None THEN None ELSE Locked(current)
    /\ batch' = IF batch = None THEN None
                ELSE [batch EXCEPT !.entries =
                        [i \in DOMAIN batch.entries |-> Locked(batch.entries[i])]]
    /\ UNCHANGED <<next_id, next_batch_id, task, now, consented, released>>

-----------------------------------------------------------------------------

Tick ==
    /\ now < MaxTime
    /\ now' = now + 1
    /\ UNCHANGED <<store, task, consented, released>>

Known == 1 .. next_id
TaskStep(t) ==
    \/ Prepare(t) \/ PrepareRefused(t)
    \/ \E approved \in BOOLEAN : Answer(t, approved)
    \/ Panic(t)
    \/ Drop(t)

GateNext ==
    \/ Begin
    \/ \E n \in BatchSizes : BeginBatch(n)
    \/ \E t \in Tasks : \/ \E id \in Known : Call(t, "single", id)
                        \/ \E id \in 1 .. next_batch_id : Call(t, "batch", id)
                        \/ TaskStep(t)
    \/ \E id \in Known : Deny(id) \/ Status(id) \/ Take(id)
    \/ InvalidateForLock
    \/ Tick

GateSpec == GateInit /\ [][GateNext]_gateVars

\* A thread runs, and authenticate returns: it waits at most AUTH_TIMEOUT.
GateFairSpec == GateSpec /\ \A t \in Tasks : WF_gateVars(TaskStep(t))

-----------------------------------------------------------------------------
(* Properties.                                                             *)

\* Nothing leaves the gate that a human did not approve on a prompt shown for
\* that very request (approval.rs:3-9): an answer that comes late may find
\* another request in the slot, or a batch that has moved on.
ReleaseNeedsConsent == \A i \in DOMAIN released : released[i] \in consented

\* A request is released once (approval.rs:1131-1136), however often it is
\* taken, prompted for, denied or looked at in between.
ReleasedOnce ==
    \A i, j \in DOMAIN released : released[i] = released[j] => i = j

LiveRequest(id) == \E e \in Stored : e.id = id /\ e.state \in Live

\* A request that was denied, expired, released or superseded is never pending or
\* authorised again, whatever prompt is still open for it (approval.rs:826-857,
\* 976-1013 re-read the state after the prompt).
DeadStaysDead ==
    [][\A id \in Known : ~LiveRequest(id) => ~LiveRequest(id)']_gateVars

\* Until a batch's time is up one decision covers all of its steps: no step is
\* still to be decided when another has been (approval.rs:1014-1018).
BatchMovesTogether ==
    batch # None /\ ~IsDue(batch) =>
        \/ AllPending(batch)
        \/ \A i \in DOMAIN batch.entries : batch.entries[i].state # "pending"

\* No request is left Busy for ever (approval.rs:548-551, 571-572): the latch of
\* the single slot and that of the batch always come off, a panic included.
LatchComesOff ==
    /\ (current # None /\ current.in_flight) ~> (current = None \/ ~current.in_flight)
    /\ (batch # None /\ batch.in_flight) ~> (batch = None \/ ~batch.in_flight)

\* approval.rs:375-377: the latch is there "so a second caller cannot open a second
\* prompt for the same request".
OnePromptPerRequest ==
    \A t, u \in Tasks :
        /\ task[t].pc = "prompt" /\ task[u].pc = "prompt"
        /\ task[t].kind = task[u].kind /\ task[t].id = task[u].id
        => t = u
=============================================================================
