-------------------------- MODULE ApprovalOverlay --------------------------
(***************************************************************************)
(* The approval card in the notch (app/src/notch/approval, lib/approval)   *)
(* on top of the gate it asks, ApprovalGate.                               *)
(*                                                                         *)
(* The card keeps a snapshot it read from the gate and a stage of its own. *)
(* It reads again when the gate announces a request or a decision, and     *)
(* answers of its own commands move it too; all of these reach the webview *)
(* through one queue in the order in which they were sent, and find the    *)
(* card wherever it has gone in the meantime.  A read is served at once    *)
(* and its answer queued.  The events of one command travel as one.        *)
(***************************************************************************)
EXTENDS ApprovalGate

CONSTANT MaxInbox   \* bound on what may be on its way when more is sent

VARIABLES
    overlay,   \* OverlayState: the stage, the snapshot and the time last seen
    inbox,     \* what is on its way to the webview
    reply      \* what the prompt of each thread has come to

cardVars == <<overlay, inbox>>
overlayVars == <<gateVars, overlay, inbox, reply>>

NoSnapshot == [kind |-> "none", id |-> 0, ids |-> {}, state |-> "none", expires_at |-> 0]

\* initialOverlayState, HIDDEN.
HIDDEN == [stage |-> "hidden", snapshot |-> NoSnapshot, nowMs |-> 0]

OverlayInit == GateInit /\ overlay = HIDDEN /\ inbox = <<>>
               /\ reply = [t \in Tasks |-> "none"]

-----------------------------------------------------------------------------
(* What the gate answers and announces.                                    *)

\* A batch is pending until its time is up or any of its steps is decided.
batch_state(b) ==
    LET states == { b.entries[i].state : i \in DOMAIN b.entries }
    IN IF "expired" \in states \/ IsDue(b) THEN "expired"
       ELSE IF "denied" \in states THEN "denied"
       ELSE IF states = {"authorized"} THEN "authorized"
       ELSE IF "consumed" \in states THEN "consumed"
       ELSE "pending"

snapshot_of_entry(e) ==
    [kind |-> "single", id |-> e.id, ids |-> {e.id}, state |-> Looked(e),
     expires_at |-> e.expires_at]

snapshot_of_batch(b) ==
    [kind |-> "batch", id |-> b.id, ids |-> { b.entries[i].id : i \in DOMAIN b.entries },
     state |-> batch_state(b), expires_at |-> b.expires_at]

\* The single slot is looked at only when there is no batch.
Hydrated == IF batch # None THEN snapshot_of_batch(batch)
            ELSE IF current # None THEN snapshot_of_entry(current) ELSE NoSnapshot

\* ApprovalStore::current: nothing unless it is live.
Pending == IF Hydrated.state \in Live THEN Hydrated ELSE NoSnapshot

Requested          == [type |-> "approval_request"]
Decided_(ids, yes) == [type |-> "approval_result", ids |-> ids, approved |-> yes]
Read(s)            == [type |-> "snapshot", snapshot |-> s]
Authorized         == [type |-> "authorized"]
Refused(kind)      == [type |-> "refused", kind |-> kind]
DenyRefused        == [type |-> "deny_refused"]

\* Bound.
Room == Len(inbox) <= MaxInbox

LiveIds == { e.id : e \in { x \in Stored : x.state \in Live } }
Told(ids, yes) == IF ids = {} THEN <<>> ELSE << Decided_(ids, yes) >>

approval_begin ==
    /\ Begin /\ Room
    /\ inbox' = inbox \o Told(LiveIds, FALSE) \o <<Requested>>
    /\ UNCHANGED <<overlay, reply>>

approval_begin_batch(n) ==
    /\ BeginBatch(n) /\ Room
    /\ inbox' = inbox \o Told(LiveIds, FALSE) \o <<Requested>>
    /\ UNCHANGED <<overlay, reply>>

\* The lock denies what is live and says so.
Locks ==
    /\ InvalidateForLock /\ Room
    /\ inbox' = inbox \o Told(LiveIds, FALSE)
    /\ UNCHANGED <<overlay, reply>>

\* How a prompt ends for its caller, read off the slot as the answer finds it: a prompt
\* that was not approved reports its own failure whatever became of the request.
Outcome(t, approved, failure) ==
    LET slot  == IF task[t].kind = "single" THEN SingleSlot(t) ELSE BatchSlot(t)
        state == IF ~slot THEN "gone" ELSE Hydrated.state
    IN CASE ~approved                          -> failure
         [] approved /\ state = "pending"      -> "authorized"
         [] approved /\ state = "expired"      -> "expired"
         [] approved /\ state \notin {"pending", "expired"} -> "notPending"

Prompts(t) ==
    \/ /\ Prepare(t) /\ UNCHANGED <<overlay, inbox, reply>>
    \/ /\ PrepareRefused(t) /\ Room
       /\ inbox' = Append(inbox, Refused(
             IF (SingleSlot(t) /\ current.state = "pending" /\ IsDue(current))
                \/ (BatchSlot(t) /\ IsDue(batch)) THEN "expired" ELSE "failed"))
       /\ UNCHANGED <<overlay, reply>>
    \/ \E failure \in {"cancelled", "failed"}, approved \in BOOLEAN :
          /\ Answer(t, approved)
          /\ reply' = [reply EXCEPT ![t] = Outcome(t, approved, failure)]
          /\ UNCHANGED <<overlay, inbox>>
    \/ /\ Panic(t)
       /\ reply' = [reply EXCEPT ![t] = "failed"]
       /\ UNCHANGED <<overlay, inbox>>

\* The command returns: the decision is announced and the request read once more; one
\* that has been replaced since is reported as no longer pending.
approval_authorize(t) ==
    /\ Drop(t) /\ Room
    /\ inbox' = inbox \o
          IF reply[t] # "authorized" THEN << Refused(reply[t]) >>
          ELSE IF task[t].kind = "batch" \/ SingleSlot(t)
               THEN << Decided_(task[t].shown, TRUE), Authorized >>
               ELSE << Decided_(task[t].shown, TRUE), Refused("notPending") >>
    /\ reply' = [reply EXCEPT ![t] = "none"]
    /\ UNCHANGED overlay

-----------------------------------------------------------------------------
(* reduceOverlay.                                                          *)

isResultStage(stage) == stage \in {"sent", "denied", "expired", "failed"}
Deciding(s)          == s.stage \in {"pending", "authorizing"}
TimedOut(s, at)      == at >= s.snapshot.expires_at

canApprove(s) == s.stage = "pending" /\ ~TimedOut(s, s.nowMs)

terminalStageOf(state) ==
    CASE state \in {"authorized", "consumed"} -> "sent"
      [] state = "denied"                     -> "denied"
      [] state = "expired"                    -> "expired"

fromSnapshot(s) ==
    [stage |-> IF s.state # "pending" THEN terminalStageOf(s.state)
               ELSE IF now >= s.expires_at THEN "expired" ELSE "pending",
     snapshot |-> s, nowMs |-> now]

\* Nothing to show clears the card, but not the result it is showing.
OnSnapshot(s, snapshot) ==
    IF snapshot = NoSnapshot THEN IF isResultStage(s.stage) THEN s ELSE HIDDEN
    ELSE fromSnapshot(snapshot)

OnAuthorizeOk(s) == IF s.snapshot = NoSnapshot THEN s ELSE [s EXCEPT !.stage = "sent"]

\* Only a cancelled prompt may be tried again.
OnAuthorizeFailed(s, kind) ==
    IF s.stage # "authorizing" THEN s
    ELSE IF kind = "cancelled"
    THEN [s EXCEPT !.stage = IF TimedOut(s, s.nowMs) THEN "expired" ELSE "pending"]
    ELSE [s EXCEPT !.stage = IF kind = "expired" THEN "expired" ELSE "failed"]

\* A decision is for this card only if it is about its request; a batch has no hash.
OnResult(s, ids, approved) ==
    IF s.snapshot.kind # "single" \/ s.snapshot.id \notin ids THEN s
    ELSE [s EXCEPT !.stage = IF approved THEN "sent" ELSE "denied"]

-----------------------------------------------------------------------------
(* usePendingApproval and the card.                                        *)

\* approval_current looks at the single slot and so lets it expire.
Looks == /\ current' = IF batch = None /\ current # None
                       THEN [current EXCEPT !.state = Looked(current)] ELSE current
         /\ UNCHANGED <<next_id, next_batch_id, batch, task, now, consented, released>>

\* Faulty variant: a decision is not followed by a read.
ReadsOnRequestOnly(m) == m.type \in {"approval_request", "deny_refused"}

\* What makes the card read the gate again.
Rereads(m) == m.type \in {"approval_request", "approval_result", "authorized", "deny_refused"}

Delivered ==
    /\ inbox # <<>>
    /\ LET m == Head(inbox) IN
       /\ overlay' = CASE m.type = "snapshot"        -> OnSnapshot(overlay, m.snapshot)
                       [] m.type = "approval_result" -> OnResult(overlay, m.ids, m.approved)
                       [] m.type = "authorized"      -> OnAuthorizeOk(overlay)
                       [] m.type = "refused"         -> OnAuthorizeFailed(overlay, m.kind)
                       [] OTHER                      -> overlay
       /\ IF Rereads(m)
          THEN Looks /\ inbox' = Append(Tail(inbox), Read(Pending))
          ELSE UNCHANGED gateVars /\ inbox' = Tail(inbox)
    /\ UNCHANGED reply

\* The card is approved for what it shows.
onApprove(t) ==
    /\ canApprove(overlay)
    /\ Call(t, overlay.snapshot.kind, overlay.snapshot.id)
    /\ overlay' = [overlay EXCEPT !.stage = "authorizing"]
    /\ UNCHANGED <<inbox, reply>>

Denies(id) == \/ InBatch(id) /\ ~IsDue(batch) /\ AllPending(batch)
              \/ ~InBatch(id) /\ InCurrent(id) /\ current.state = "pending" /\ ~IsDue(current)

\* A refused denial may still find out that the time is up.
Lapses(id) == \/ InBatch(id)
              \/ InCurrent(id) /\ (current.state = "expired" \/ IsDue(current))

\* Escape or Deny, while a prompt is open too; a batch is denied through its first step.
onDeny ==
    /\ Deciding(overlay) /\ Room
    /\ LET id    == CHOOSE i \in overlay.snapshot.ids : \A j \in overlay.snapshot.ids : i <= j
           ids   == IF InBatch(id) THEN { e.id : e \in Steps } ELSE {id}
       IN /\ IF Denies(id) \/ Lapses(id) THEN Deny(id) ELSE UNCHANGED gateVars
          /\ inbox' = inbox \o
                IF Denies(id)
                THEN << Decided_(ids, FALSE), Read([overlay.snapshot EXCEPT !.state = "denied"]) >>
                ELSE << DenyRefused >>
    /\ overlay' = [overlay EXCEPT !.stage = "denied"]
    /\ UNCHANGED reply

\* The one-second timer.
Ticks ==
    /\ Deciding(overlay) /\ overlay.nowMs # now
    /\ overlay' = [overlay EXCEPT !.nowMs = now,
                                  !.stage = IF TimedOut(overlay, now) THEN "expired" ELSE @]
    /\ UNCHANGED <<gateVars, inbox, reply>>

\* A result has been shown for RESULT_DWELL_MS.
Dismisses ==
    /\ isResultStage(overlay.stage)
    /\ overlay' = HIDDEN
    /\ UNCHANGED <<gateVars, inbox, reply>>

\* The rest of the application: the approver polls, the wallet takes, time passes.
Elsewhere ==
    /\ Tick \/ \E id \in Known : Status(id) \/ Take(id)
    /\ UNCHANGED <<overlay, inbox, reply>>

OverlayNext ==
    \/ approval_begin
    \/ \E n \in BatchSizes : approval_begin_batch(n)
    \/ Locks
    \/ \E t \in Tasks : Prompts(t) \/ approval_authorize(t) \/ onApprove(t)
    \/ Delivered
    \/ onDeny
    \/ Ticks
    \/ Dismisses
    \/ Elsewhere

OverlaySpec == OverlayInit /\ [][OverlayNext]_overlayVars

-----------------------------------------------------------------------------
(* Properties.                                                             *)

CardIsQuiet == inbox = <<>> /\ \A t \in Tasks : task[t].pc = "idle"

\* When nothing is on its way, a card that offers the decision shows the request the gate
\* is holding, and the gate is still waiting for it (usePendingApproval.ts:57-86).
QuietCardIsTrue ==
    CardIsQuiet /\ overlay.stage = "pending" /\ ~TimedOut(overlay, now) =>
        Pending.state = "pending" /\ Pending.ids = overlay.snapshot.ids

=============================================================================
