------------------------- MODULE ApprovalGateProofs -------------------------
(***************************************************************************)
(* What leaves the approval gate, for any number of threads, requests and  *)
(* batch sizes and any time to live: only what a human approved, and once. *)
(*                                                                         *)
(* ReleaseNeedsConsent and ReleasedOnce are not inductive.  GateInv adds   *)
(* what the code relies on: the two slots are never both taken, ids are    *)
(* fresh, an open prompt shows every request its answer can reach, and a   *)
(* request that was released is no longer live.  Every operation but begin *)
(* and begin_batch keeps each slot's requests and at most ends them        *)
(* (SlotsEvolve); most of the argument is made once, from that.            *)
(*                                                                         *)
(* BatchMovesTogether, at the end, needs that the steps of a batch fall    *)
(* due with it: BatchInv.                                                  *)
(***************************************************************************)
EXTENDS ApprovalGate, TLAPS

Approved == {"authorized", "consumed"}

\* The answer of an open prompt reaches only requests the prompt showed.
PromptsShow ==
    \A t \in Tasks : task[t].pc = "prompt" =>
        /\ task[t].kind = "single" => task[t].id \in task[t].shown
        /\ task[t].kind = "batch" =>
              /\ task[t].id <= next_batch_id
              /\ batch # None /\ batch.id = task[t].id =>
                    \A i \in DOMAIN batch.entries : batch.entries[i].id \in task[t].shown

OneSlot == current = None \/ batch = None

IdsAreKnown ==
    /\ current # None => current.id <= next_id
    /\ batch # None => /\ batch.id <= next_batch_id
                       /\ \A i \in DOMAIN batch.entries : batch.entries[i].id <= next_id

StepsAreDistinct ==
    batch # None => \A i, j \in DOMAIN batch.entries :
                        batch.entries[i].id = batch.entries[j].id => i = j

ApprovedIsConsented ==
    /\ current # None /\ current.state \in Approved => current.id \in consented
    /\ batch # None => \A i \in DOMAIN batch.entries :
           batch.entries[i].state \in Approved => batch.entries[i].id \in consented

ReleasedIsOver ==
    \A k \in DOMAIN released : released[k] <= next_id /\ ~LiveRequest(released[k])

StoreInv == OneSlot /\ IdsAreKnown /\ StepsAreDistinct /\ ApprovedIsConsented
ExitInv == ReleasedIsOver /\ ReleaseNeedsConsent /\ ReleasedOnce
GateInv == GateTypeOK /\ StoreInv /\ PromptsShow /\ ExitInv

-----------------------------------------------------------------------------
(* What one operation may make of a request and of a batch.                *)

EntryEvolves(e, f, consent) ==
    /\ f.id = e.id
    /\ f.state \in Live => e.state \in Live
    /\ f.state \in Approved => e.state \in Approved \/ e.id \in consent

BatchEvolves(b, c, consent) ==
    /\ c.id = b.id
    /\ DOMAIN c.entries = DOMAIN b.entries
    /\ \A i \in DOMAIN b.entries : EntryEvolves(b.entries[i], c.entries[i], consent)

SlotsEvolve(c, b, consent) ==
    /\ c \in Entry \cup {None} /\ b \in Batch \cup {None}
    /\ c = None <=> current = None
    /\ b = None <=> batch = None
    /\ current # None => EntryEvolves(current, c, consent)
    /\ batch # None => BatchEvolves(batch, b, consent)

\* A step of a batch keeps its place among the stored requests.
LEMMA StepsByIndex ==
    ASSUME GateTypeOK
    PROVE  \A id : LiveRequest(id) <=>
               \/ current # None /\ current.id = id /\ current.state \in Live
               \/ batch # None /\ \E i \in DOMAIN batch.entries :
                      batch.entries[i].id = id /\ batch.entries[i].state \in Live
  BY DEF GateTypeOK, LiveRequest, Stored, Steps

\* Entries rewritten one by one are a batch still.
LEMMA EntriesMapped ==
    ASSUME NEW b \in Batch, NEW f, DOMAIN f = DOMAIN b.entries,
           f = [i \in DOMAIN f |-> f[i]],
           \A i \in DOMAIN b.entries : f[i] \in Entry
    PROVE  /\ [b EXCEPT !.entries = f] \in Batch
           /\ [b EXCEPT !.entries = f].id = b.id
           /\ [b EXCEPT !.entries = f].expires_at = b.expires_at
           /\ [b EXCEPT !.entries = f].entries = f
  <1>1. b.entries \in Seq(Entry) BY DEF Batch
  <1>2. DOMAIN f = 1 .. Len(b.entries) BY <1>1
  <1>3. f \in [1 .. Len(b.entries) -> Entry] BY <1>1, <1>2
  <1>4. f \in Seq(Entry) BY <1>1, <1>3
  <1> QED BY <1>4 DEF Batch

\* New states for the steps of a batch.
LEMMA StatesMapped ==
    ASSUME NEW b \in Batch, NEW s, DOMAIN s = DOMAIN b.entries,
           \A i \in DOMAIN b.entries : s[i] \in ApprovalState
    PROVE  /\ WithStates(b, s) \in Batch
           /\ WithStates(b, s).id = b.id
           /\ WithStates(b, s).expires_at = b.expires_at
           /\ DOMAIN WithStates(b, s).entries = DOMAIN b.entries
           /\ \A i \in DOMAIN b.entries :
                 /\ WithStates(b, s).entries[i].id = b.entries[i].id
                 /\ WithStates(b, s).entries[i].state = s[i]
  <1> DEFINE f == [i \in DOMAIN b.entries |-> [b.entries[i] EXCEPT !.state = s[i]]]
  <1>1. \A i \in DOMAIN b.entries : b.entries[i] \in Entry BY DEF Batch
  <1>2. \A i \in DOMAIN b.entries : f[i] \in Entry BY <1>1 DEF Entry
  <1>3. DOMAIN f = DOMAIN b.entries OBVIOUS
  <1>4. f = [i \in DOMAIN f |-> f[i]] BY <1>3
  <1>5. \A i \in DOMAIN b.entries : f[i].id = b.entries[i].id /\ f[i].state = s[i]
    BY <1>1 DEF Entry
  <1>6. WithStates(b, s) = [b EXCEPT !.entries = f] BY DEF WithStates
  <1> HIDE DEF f
  <1> QED BY <1>2, <1>3, <1>4, <1>5, <1>6, EntriesMapped

\* One state for all of them.
LEMMA StateMapped ==
    ASSUME NEW b \in Batch, NEW s \in ApprovalState
    PROVE  /\ WithState(b, s) \in Batch
           /\ WithState(b, s).id = b.id
           /\ WithState(b, s).expires_at = b.expires_at
           /\ DOMAIN WithState(b, s).entries = DOMAIN b.entries
           /\ \A i \in DOMAIN b.entries :
                 /\ WithState(b, s).entries[i].id = b.entries[i].id
                 /\ WithState(b, s).entries[i].state = s
  <1> DEFINE g == [i \in DOMAIN b.entries |-> s]
  <1>1. DOMAIN g = DOMAIN b.entries /\ \A i \in DOMAIN b.entries : g[i] = s OBVIOUS
  <1>2. WithState(b, s) = WithStates(b, g) BY DEF WithState
  <1> HIDE DEF g
  <1> QED BY <1>1, <1>2, StatesMapped

-----------------------------------------------------------------------------
(* What follows whenever the slots evolve.                                 *)

\* A request that is over stays over.
LEMMA OverStaysOver ==
    ASSUME GateTypeOK, GateTypeOK', SlotsEvolve(current', batch', consented')
    PROVE  \A id : ~LiveRequest(id) => ~LiveRequest(id)'
<1> SUFFICES ASSUME NEW id, LiveRequest(id)'
             PROVE  LiveRequest(id)
  OBVIOUS
<1>1. \/ current' # None /\ current'.id = id /\ current'.state \in Live
      \/ batch' # None /\ \E i \in DOMAIN batch'.entries :
             batch'.entries[i].id = id /\ batch'.entries[i].state \in Live
  BY DEF GateTypeOK, LiveRequest, Stored, Steps
<1>2. CASE current' # None /\ current'.id = id /\ current'.state \in Live
  BY <1>2, StepsByIndex DEF SlotsEvolve, EntryEvolves
<1>3. CASE batch' # None /\ \E i \in DOMAIN batch'.entries :
               batch'.entries[i].id = id /\ batch'.entries[i].state \in Live
  <2>1. PICK i \in DOMAIN batch'.entries :
            batch'.entries[i].id = id /\ batch'.entries[i].state \in Live
    BY <1>3
  <2>2. batch # None /\ i \in DOMAIN batch.entries
    BY <1>3 DEF SlotsEvolve, BatchEvolves
  <2>3. batch.entries[i].id = id /\ batch.entries[i].state \in Live
    BY <2>1, <2>2 DEF SlotsEvolve, BatchEvolves, EntryEvolves
  <2> QED
    BY <2>2, <2>3, StepsByIndex
<1> QED
  BY <1>1, <1>2, <1>3

\* What GateInv says of the slots is kept.
LEMMA StoreInvKept ==
    ASSUME GateTypeOK, StoreInv, SlotsEvolve(current', batch', consented'),
           consented \subseteq consented', UNCHANGED <<next_id, next_batch_id>>
    PROVE  StoreInv'
<1>1. OneSlot'
  BY DEF StoreInv, OneSlot, SlotsEvolve
<1>2. IdsAreKnown'
  BY DEF StoreInv, IdsAreKnown, SlotsEvolve, BatchEvolves, EntryEvolves
<1>3. StepsAreDistinct'
  BY DEF StoreInv, StepsAreDistinct, SlotsEvolve, BatchEvolves, EntryEvolves
<1>4. ApprovedIsConsented'
  BY DEF StoreInv, ApprovedIsConsented, SlotsEvolve, BatchEvolves, EntryEvolves
<1> QED
  BY <1>1, <1>2, <1>3, <1>4 DEF StoreInv

\* An open prompt shows what it showed.
LEMMA PromptsShowKept ==
    ASSUME GateTypeOK, PromptsShow, SlotsEvolve(current', batch', consented'),
           UNCHANGED next_batch_id, task' \in [Tasks -> Task],
           \A t \in Tasks : task'[t].pc = "prompt" => task'[t] = task[t]
    PROVE  PromptsShow'
<1> SUFFICES ASSUME NEW t \in Tasks, task'[t].pc = "prompt"
             PROVE  /\ task'[t].kind = "single" => task'[t].id \in task'[t].shown
                    /\ task'[t].kind = "batch" =>
                          /\ task'[t].id <= next_batch_id'
                          /\ batch' # None /\ batch'.id = task'[t].id =>
                                \A i \in DOMAIN batch'.entries :
                                    batch'.entries[i].id \in task'[t].shown
  BY DEF PromptsShow
<1>1. task'[t] = task[t]
  OBVIOUS
<1> QED
  BY <1>1 DEF PromptsShow, SlotsEvolve, BatchEvolves, EntryEvolves

\* What was released stays released, once, and over.
LEMMA ExitInvKept ==
    ASSUME GateTypeOK, GateTypeOK', ExitInv, SlotsEvolve(current', batch', consented'),
           consented \subseteq consented', next_id' = next_id, UNCHANGED released
    PROVE  ExitInv'
<1>1. ReleasedIsOver'
  BY OverStaysOver DEF ExitInv, ReleasedIsOver
<1>2. ReleaseNeedsConsent' /\ ReleasedOnce'
  BY DEF ExitInv, ReleaseNeedsConsent, ReleasedOnce
<1> QED
  BY <1>1, <1>2 DEF ExitInv

-----------------------------------------------------------------------------
(* The operations, one by one: the types they keep and how slots evolve.   *)

\* Slots an operation leaves alone evolve.
LEMMA Unchanged ==
    ASSUME GateTypeOK, UNCHANGED <<current, batch>>
    PROVE  SlotsEvolve(current', batch', consented')
BY DEF GateTypeOK, SlotsEvolve, EntryEvolves, BatchEvolves

\* A prompt opens, or is refused.
LEMMA PrepareEvolves ==
    ASSUME GateTypeOK, NEW t \in Tasks, Prepare(t) \/ PrepareRefused(t)
    PROVE  SlotsEvolve(current', batch', consented')
<1>1. CASE Prepare(t)
  <2>1. CASE OpensSingle(t) /\ current' = [current EXCEPT !.in_flight = TRUE] /\ UNCHANGED batch
    BY <2>1, GateAssumption DEF GateTypeOK, OpensSingle, SingleSlot, InCurrent, SlotsEvolve, EntryEvolves,
                BatchEvolves, Entry
  <2>2. CASE OpensBatch(t) /\ batch' = [batch EXCEPT !.in_flight = TRUE] /\ UNCHANGED current
    BY <2>2, GateAssumption DEF GateTypeOK, OpensBatch, BatchSlot, SlotsEvolve, EntryEvolves,
                BatchEvolves, Batch
  <2> QED
    BY <1>1, <2>1, <2>2 DEF Prepare
<1>2. CASE PrepareRefused(t)
  <2>1. current' \in Entry \cup {None} /\ (current' = None <=> current = None)
    BY <1>2, GateAssumption DEF PrepareRefused, GateTypeOK, SingleSlot, InCurrent, Entry, ApprovalState
  <2>2. current # None => EntryEvolves(current, current', consented')
    BY <1>2 DEF PrepareRefused, GateTypeOK, EntryEvolves, Entry, Live, Approved
  <2>3. /\ batch' \in Batch \cup {None} /\ (batch' = None <=> batch = None)
        /\ batch # None => BatchEvolves(batch, batch', consented')
    <3>1. CASE BatchSlot(t) /\ IsDue(batch)
      <4>1. batch \in Batch /\ "expired" \in ApprovalState /\ batch' = WithState(batch, "expired")
        BY <1>2, <3>1 DEF PrepareRefused, GateTypeOK, BatchSlot, ApprovalState
      <4> QED
        BY <4>1, StateMapped, GateAssumption DEF BatchEvolves, EntryEvolves, Live, Approved
    <3>2. CASE ~(BatchSlot(t) /\ IsDue(batch))
      BY <1>2, <3>2 DEF PrepareRefused, GateTypeOK, BatchEvolves, EntryEvolves
    <3> QED
      BY <3>1, <3>2
  <2> QED
    BY <2>1, <2>2, <2>3 DEF SlotsEvolve
<1> QED
  BY <1>1, <1>2

\* The answer authorises only what its prompt showed.
LEMMA AnswerEvolves ==
    ASSUME GateTypeOK, PromptsShow, NEW t \in Tasks, NEW approved \in BOOLEAN, Answer(t, approved)
    PROVE  SlotsEvolve(current', batch', consented')
<1>1. approved => task[t].shown \subseteq consented'
  BY DEF Answer
<1>2. /\ current' \in Entry \cup {None} /\ (current' = None <=> current = None)
      /\ current # None => EntryEvolves(current, current', consented')
  <2>1. CASE AnswersSingle(t)
    <3>1. current \in Entry /\ current.id = task[t].id /\ task[t].id \in task[t].shown
      BY <2>1 DEF Answer, AnswersSingle, SingleSlot, InCurrent, GateTypeOK, PromptsShow
    <3>2. current' = [current EXCEPT !.in_flight = FALSE, !.state = Decided(current, approved)]
      BY <2>1 DEF Answer
    <3>3. Decided(current, approved) \in ApprovalState
      BY <3>1 DEF Decided, Entry, ApprovalState, Live
    <3>4. /\ current' \in Entry /\ current'.id = current.id
          /\ current'.state = Decided(current, approved)
      BY <3>1, <3>2, <3>3 DEF Entry
    <3> QED
      BY <1>1, <3>1, <3>4, GateAssumption DEF EntryEvolves, Decided, Live, Approved
  <2>2. CASE ~AnswersSingle(t)
    BY <2>2 DEF Answer, GateTypeOK, EntryEvolves
  <2> QED
    BY <2>1, <2>2
<1>3. /\ batch' \in Batch \cup {None} /\ (batch' = None <=> batch = None)
      /\ batch # None => BatchEvolves(batch, batch', consented')
  <2>1. CASE BatchSlot(t)
    <3>1. batch \in Batch /\ batch # None /\ batch.id = task[t].id
      BY <2>1 DEF BatchSlot, GateTypeOK
    <3>2. \A i \in DOMAIN batch.entries : batch.entries[i].id \in task[t].shown
      BY <2>1, <3>1 DEF Answer, BatchSlot, PromptsShow
    <3> DEFINE b == DecidedBatch(batch, approved)
    <3>3. b \in Batch /\ BatchEvolves(batch, b, consented')
      <4>1. CASE IsDue(batch)
        BY <3>1, <4>1, StateMapped
        DEF DecidedBatch, BatchEvolves, EntryEvolves, ApprovalState, Live, Approved
      <4>2. CASE ~IsDue(batch) /\ AllPending(batch) /\ approved
        BY <1>1, <3>1, <3>2, <4>2, StateMapped
        DEF DecidedBatch, AllPending, BatchEvolves, EntryEvolves, ApprovalState, Live, Approved
      <4>3. CASE ~IsDue(batch) /\ ~(AllPending(batch) /\ approved)
        BY <3>1, <4>3 DEF DecidedBatch, BatchEvolves, EntryEvolves
      <4> QED
        BY <4>1, <4>2, <4>3
    <3>4. batch' = [b EXCEPT !.in_flight = FALSE]
      BY <2>1 DEF Answer
    <3> HIDE DEF b
    <3>5. batch' \in Batch /\ batch'.id = b.id /\ batch'.entries = b.entries
      BY <3>3, <3>4 DEF Batch
    <3> QED
      BY <3>1, <3>3, <3>5, GateAssumption DEF BatchEvolves
  <2>2. CASE ~BatchSlot(t)
    BY <2>2 DEF Answer, GateTypeOK, BatchEvolves, EntryEvolves
  <2> QED
    BY <2>1, <2>2
<1> QED
  BY <1>2, <1>3 DEF SlotsEvolve

\* Dropping the guard touches latches only.
LEMMA DropEvolves ==
    ASSUME GateTypeOK, NEW t \in Tasks, Drop(t)
    PROVE  SlotsEvolve(current', batch', consented')
<1>1. /\ current' \in Entry \cup {None} /\ (current' = None <=> current = None)
      /\ current # None => EntryEvolves(current, current', consented')
  BY GateAssumption
  DEF Drop, SingleSlot, InCurrent, LatchAfterDrop, GateTypeOK, EntryEvolves, Entry
<1>2. /\ batch' \in Batch \cup {None} /\ (batch' = None <=> batch = None)
      /\ batch # None => BatchEvolves(batch, batch', consented')
  BY GateAssumption
  DEF Drop, BatchSlot, LatchAfterDrop, GateTypeOK, BatchEvolves, EntryEvolves, Batch
<1> QED
  BY <1>1, <1>2 DEF SlotsEvolve

\* Denying only ends requests.
LEMMA DenyEvolves ==
    ASSUME GateTypeOK, NEW id, Deny(id)
    PROVE  SlotsEvolve(current', batch', consented')
<1>1. CASE DenyBatch(id)
  <2>1. batch \in Batch /\ batch # None
    BY <1>1 DEF DenyBatch, InBatch, Steps, GateTypeOK
  <2>2. batch' \in {WithState(batch, "expired"), WithState(batch, "denied"), batch}
    BY <1>1 DEF DenyBatch, DeniedBatch
  <2>3. batch' \in Batch /\ BatchEvolves(batch, batch', consented')
    <3>1. CASE batch' = batch
      BY <2>1, <3>1 DEF BatchEvolves, EntryEvolves
    <3>2. ASSUME NEW s \in {"expired", "denied"}, batch' = WithState(batch, s)
          PROVE  batch' \in Batch /\ BatchEvolves(batch, batch', consented')
      <4>1. s \in ApprovalState /\ s \notin Live /\ s \notin Approved
        BY DEF ApprovalState, Live, Approved
      <4> QED
        BY <2>1, <3>2, <4>1, StateMapped DEF BatchEvolves, EntryEvolves
    <3> QED
      BY <2>2, <3>1, <3>2
  <2> QED
    BY <1>1, <2>1, <2>3, GateAssumption DEF DenyBatch, SlotsEvolve, GateTypeOK, EntryEvolves
<1>2. CASE DenySingle(id)
  <2>1. current \in Entry /\ current # None
    BY <1>2 DEF DenySingle, InCurrent, GateTypeOK
  <2>2. /\ current' \in Entry /\ current'.id = current.id
        /\ current'.state \in {"expired", "denied"}
    BY <1>2, <2>1 DEF DenySingle, Entry, ApprovalState
  <2> QED
    BY <1>2, <2>1, <2>2, GateAssumption
    DEF DenySingle, SlotsEvolve, GateTypeOK, EntryEvolves, BatchEvolves, Live, Approved
<1> QED
  BY <1>1, <1>2 DEF Deny

\* Looking ends what is due and changes nothing else.
LEMMA StatusEvolves ==
    ASSUME GateTypeOK, NEW id, Status(id)
    PROVE  SlotsEvolve(current', batch', consented')
<1>1. ASSUME NEW e \in Entry
      PROVE  /\ Looked(e) \in ApprovalState
             /\ Looked(e) \in Live => e.state \in Live
             /\ Looked(e) \in Approved => e.state \in Approved
  BY DEF Looked, Entry, ApprovalState, Live, Approved
<1>2. /\ current' \in Entry \cup {None} /\ (current' = None <=> current = None)
      /\ current # None => EntryEvolves(current, current', consented')
  <2>1. CASE InCurrent(id)
    <3>1. current \in Entry /\ current' = [current EXCEPT !.state = Looked(current)]
      BY <2>1 DEF Status, InCurrent, GateTypeOK
    <3>2. current' \in Entry /\ current'.id = current.id /\ current'.state = Looked(current)
      BY <1>1, <3>1 DEF Entry
    <3> QED
      BY <1>1, <2>1, <3>1, <3>2, GateAssumption DEF EntryEvolves, InCurrent
  <2>2. CASE ~InCurrent(id)
    BY <2>2 DEF Status, GateTypeOK, EntryEvolves
  <2> QED
    BY <2>1, <2>2
<1>3. /\ batch' \in Batch \cup {None} /\ (batch' = None <=> batch = None)
      /\ batch # None => BatchEvolves(batch, batch', consented')
  <2>1. CASE ~InCurrent(id) /\ InBatch(id)
    <3> DEFINE f == [i \in DOMAIN batch.entries |->
                        IF batch.entries[i].id = id THEN Looked(batch.entries[i])
                                                    ELSE batch.entries[i].state]
    <3>1. batch \in Batch /\ batch # None
      BY <2>1 DEF InBatch, Steps, GateTypeOK
    <3>2. \A i \in DOMAIN batch.entries : batch.entries[i] \in Entry
      BY <3>1 DEF Batch
    <3>3. \A i \in DOMAIN batch.entries :
             /\ f[i] \in ApprovalState
             /\ f[i] \in Live => batch.entries[i].state \in Live
             /\ f[i] \in Approved => batch.entries[i].state \in Approved
      BY <1>1, <3>2 DEF Entry
    <3>4. DOMAIN f = DOMAIN batch.entries /\ batch' = WithStates(batch, f)
      BY <2>1 DEF Status
    <3> HIDE DEF f
    <3> QED
      BY <3>1, <3>3, <3>4, StatesMapped, GateAssumption DEF BatchEvolves, EntryEvolves
  <2>2. CASE ~(~InCurrent(id) /\ InBatch(id))
    BY <2>2 DEF Status, GateTypeOK, BatchEvolves, EntryEvolves
  <2> QED
    BY <2>1, <2>2
<1> QED
  BY <1>2, <1>3 DEF SlotsEvolve

\* Taking uses a request up or finds it over.
LEMMA TakeEvolves ==
    ASSUME GateTypeOK, NEW id, Take(id)
    PROVE  SlotsEvolve(current', batch', consented')
<1>1. ASSUME NEW e \in Entry
      PROVE  /\ Taken(e) \in ApprovalState
             /\ Taken(e) \in Live => e.state \in Live
             /\ Taken(e) \in Approved => e.state \in Approved
  BY DEF Taken, Entry, ApprovalState, Live, Approved
<1>2. /\ current' \in Entry \cup {None} /\ (current' = None <=> current = None)
      /\ current # None => EntryEvolves(current, current', consented')
  <2>1. CASE InCurrent(id)
    <3>1. current \in Entry /\ current' = [current EXCEPT !.state = Taken(current)]
      BY <2>1 DEF Take, InCurrent, GateTypeOK
    <3>2. current' \in Entry /\ current'.id = current.id /\ current'.state = Taken(current)
      BY <1>1, <3>1 DEF Entry
    <3> QED
      BY <1>1, <2>1, <3>1, <3>2, GateAssumption DEF EntryEvolves, InCurrent
  <2>2. CASE ~InCurrent(id)
    BY <2>2 DEF Take, GateTypeOK, EntryEvolves
  <2> QED
    BY <2>1, <2>2
<1>3. /\ batch' \in Batch \cup {None} /\ (batch' = None <=> batch = None)
      /\ batch # None => BatchEvolves(batch, batch', consented')
  <2>1. CASE ~InCurrent(id) /\ InBatch(id)
    <3> DEFINE f == [i \in DOMAIN batch.entries |->
                        IF batch.entries[i].id = id THEN Taken(batch.entries[i])
                                                    ELSE batch.entries[i].state]
    <3>1. batch \in Batch /\ batch # None
      BY <2>1 DEF InBatch, Steps, GateTypeOK
    <3>2. \A i \in DOMAIN batch.entries : batch.entries[i] \in Entry
      BY <3>1 DEF Batch
    <3>3. \A i \in DOMAIN batch.entries :
             /\ f[i] \in ApprovalState
             /\ f[i] \in Live => batch.entries[i].state \in Live
             /\ f[i] \in Approved => batch.entries[i].state \in Approved
      BY <1>1, <3>2 DEF Entry
    <3>4. DOMAIN f = DOMAIN batch.entries /\ batch' = WithStates(batch, f)
      BY <2>1 DEF Take
    <3> HIDE DEF f
    <3> QED
      BY <3>1, <3>3, <3>4, StatesMapped, GateAssumption DEF BatchEvolves, EntryEvolves
  <2>2. CASE ~(~InCurrent(id) /\ InBatch(id))
    BY <2>2 DEF Take, GateTypeOK, BatchEvolves, EntryEvolves
  <2> QED
    BY <2>1, <2>2
<1> QED
  BY <1>2, <1>3 DEF SlotsEvolve

\* The lock ends what is live.
LEMMA LockEvolves ==
    ASSUME GateTypeOK, InvalidateForLock
    PROVE  SlotsEvolve(current', batch', consented')
<1>1. ASSUME NEW e \in Entry
      PROVE  /\ Locked(e) \in Entry /\ EntryEvolves(e, Locked(e), consented')
             /\ Locked(e).state \notin Live
  BY DEF Locked, Entry, EntryEvolves, ApprovalState, Live, Approved
<1>2. CASE batch = None
  BY <1>1, <1>2, GateAssumption DEF InvalidateForLock, SlotsEvolve, GateTypeOK
<1>3. CASE batch # None
  <2> DEFINE f == [i \in DOMAIN batch.entries |-> Locked(batch.entries[i])]
  <2>1. batch \in Batch /\ \A i \in DOMAIN batch.entries : batch.entries[i] \in Entry
    BY <1>3 DEF GateTypeOK, Batch
  <2>2. \A i \in DOMAIN batch.entries : f[i] \in Entry /\ f[i] = Locked(batch.entries[i])
    BY <1>1, <2>1
  <2>3. DOMAIN f = DOMAIN batch.entries /\ f = [i \in DOMAIN f |-> f[i]]
    OBVIOUS
  <2>4. batch' = [batch EXCEPT !.entries = f]
    BY <1>3 DEF InvalidateForLock
  <2> HIDE DEF f
  <2>5. batch' \in Batch /\ batch'.id = batch.id /\ batch'.entries = f
    BY <2>1, <2>2, <2>3, <2>4, EntriesMapped
  <2>6. BatchEvolves(batch, batch', consented')
    BY <1>1, <2>1, <2>2, <2>3, <2>5 DEF BatchEvolves
  <2> QED
    BY <1>1, <1>3, <2>5, <2>6, GateAssumption DEF InvalidateForLock, SlotsEvolve, GateTypeOK
<1> QED
  BY <1>2, <1>3

-----------------------------------------------------------------------------
(* Every step preserves GateInv.                                           *)

\* A step that registers, prompts for and releases nothing.
LEMMA QuietStep ==
    ASSUME GateInv, SlotsEvolve(current', batch', consented'), task' \in [Tasks -> Task],
           UNCHANGED <<next_id, next_batch_id, released>>, now' \in Nat,
           consented \subseteq consented', consented' \subseteq Nat,
           \A t \in Tasks : task'[t].pc = "prompt" => task'[t] = task[t]
    PROVE  GateInv'
<1>1. GateTypeOK'
  BY DEF GateInv, GateTypeOK, SlotsEvolve
<1>2. StoreInv'
  BY StoreInvKept DEF GateInv
<1>3. PromptsShow'
  BY PromptsShowKept DEF GateInv
<1>4. ExitInv'
  BY <1>1, ExitInvKept DEF GateInv
<1> QED
  BY <1>1, <1>2, <1>3, <1>4 DEF GateInv

\* A prompt opens on what its slot holds.
LEMMA PrepareStep ==
    ASSUME GateInv, NEW t \in Tasks, Prepare(t)
    PROVE  GateInv'
<1>1. SlotsEvolve(current', batch', consented')
  BY PrepareEvolves DEF GateInv
<1>2. UNCHANGED <<next_id, next_batch_id, now, consented, released>>
  BY DEF Prepare
<1>3. PICK ids \in SUBSET Nat : Opened(t, ids) /\
        \/ OpensSingle(t) /\ ids = {current.id} /\ UNCHANGED batch
        \/ OpensBatch(t) /\ ids = {e.id : e \in Steps} /\ UNCHANGED current
  <2>1. CASE OpensSingle(t) /\ Opened(t, {current.id}) /\ UNCHANGED batch
    <3>1. {current.id} \in SUBSET Nat
      BY <2>1 DEF OpensSingle, SingleSlot, InCurrent, GateInv, GateTypeOK, Entry
    <3> QED
      BY <2>1, <3>1
  <2>2. CASE OpensBatch(t) /\ Opened(t, {e.id : e \in Steps}) /\ UNCHANGED current
    <3>1. batch \in Batch /\ batch # None
      BY <2>2 DEF OpensBatch, BatchSlot, GateInv, GateTypeOK
    <3>2. \A i \in DOMAIN batch.entries : batch.entries[i] \in Entry
      BY <3>1 DEF Batch
    <3>3. {e.id : e \in Steps} \in SUBSET Nat
      BY <3>1, <3>2 DEF Steps, Entry
    <3> QED
      BY <2>2, <3>3
  <2> QED
    BY <2>1, <2>2 DEF Prepare
<1>4. task' \in [Tasks -> Task]
  BY <1>3 DEF GateInv, GateTypeOK, Opened, Task
<1>5. GateTypeOK'
  BY <1>1, <1>2, <1>4 DEF GateInv, GateTypeOK, SlotsEvolve
<1>6. StoreInv' /\ ExitInv'
  BY <1>1, <1>2, <1>5, StoreInvKept, ExitInvKept DEF GateInv
<1>7. PromptsShow'
  <2> SUFFICES ASSUME NEW u \in Tasks, task'[u].pc = "prompt"
               PROVE  /\ task'[u].kind = "single" => task'[u].id \in task'[u].shown
                      /\ task'[u].kind = "batch" =>
                            /\ task'[u].id <= next_batch_id'
                            /\ batch' # None /\ batch'.id = task'[u].id =>
                                  \A i \in DOMAIN batch'.entries :
                                      batch'.entries[i].id \in task'[u].shown
    BY DEF PromptsShow
  <2>1. CASE u # t
    <3>1. task'[u] = task[u]
      BY <1>3, <2>1 DEF Opened, GateInv, GateTypeOK
    <3> QED
      BY <1>1, <1>2, <3>1 DEF GateInv, PromptsShow, SlotsEvolve, BatchEvolves, EntryEvolves
  <2>2. CASE u = t /\ OpensSingle(t) /\ ids = {current.id}
    BY <1>3, <2>2 DEF Opened, OpensSingle, SingleSlot, InCurrent, GateInv, GateTypeOK, Task
  <2>3. CASE u = t /\ OpensBatch(t) /\ ids = {e.id : e \in Steps}
    <3>1. /\ task'[u].kind = "batch" /\ task'[u].id = task[t].id /\ task'[u].shown = ids
      BY <1>3, <2>3 DEF Opened, OpensBatch, BatchSlot, GateInv, GateTypeOK, Task
    <3>2. batch # None /\ batch.id = task[t].id
      BY <2>3 DEF OpensBatch, BatchSlot
    <3>3. task'[u].id <= next_batch_id'
      BY <1>2, <3>1, <3>2 DEF GateInv, StoreInv, IdsAreKnown
    <3>4. \A i \in DOMAIN batch.entries : batch.entries[i].id \in ids
      BY <2>3, <3>2 DEF Steps
    <3> QED
      BY <1>1, <3>1, <3>2, <3>3, <3>4 DEF SlotsEvolve, BatchEvolves, EntryEvolves
  <2> QED
    BY <1>3, <2>1, <2>2, <2>3
<1> QED
  BY <1>5, <1>6, <1>7 DEF GateInv

\* What is taken was live until now, and is over from now on.
LEMMA TakeStep ==
    ASSUME GateInv, NEW id \in Known, Take(id)
    PROVE  GateInv'
<1>1. SlotsEvolve(current', batch', consented')
  BY TakeEvolves DEF GateInv
<1>2. UNCHANGED <<next_id, next_batch_id, task, now, consented>>
  BY DEF Take
<1>3. GateTypeOK'
  <2>1. released' \in Seq(Nat)
    BY DEF Take, GateInv, GateTypeOK, Known
  <2> QED
    BY <1>1, <1>2, <2>1 DEF GateInv, GateTypeOK, SlotsEvolve
<1>4. StoreInv' /\ PromptsShow'
  BY <1>1, <1>2, <1>3, StoreInvKept, PromptsShowKept DEF GateInv, GateTypeOK
<1>5. CASE ~CanRelease(id)
  BY <1>1, <1>2, <1>3, <1>4, <1>5, ExitInvKept DEF Take, GateInv
<1>6. CASE CanRelease(id)
  <2>1. released' = Append(released, id) /\ released \in Seq(Nat) /\ id \in Nat
    BY <1>6 DEF Take, Known, GateInv, GateTypeOK
  <2>2. PICK e \in Stored : e.id = id /\ e.state = "authorized" /\ ~IsDue(e)
    BY <1>6 DEF CanRelease
  <2>3. LiveRequest(id)
    BY <2>2 DEF LiveRequest, Live
  <2>4. id \in consented
    BY <2>2 DEF Stored, Steps, GateInv, StoreInv, ApprovedIsConsented, Approved
  <2>5. ~LiveRequest(id)'
    <3>1. CASE e = current /\ current # None
      <4>1. InCurrent(id) /\ batch = None /\ Taken(current) = "consumed" /\ current \in Entry
        BY <2>2, <3>1
        DEF InCurrent, GateInv, GateTypeOK, StoreInv, OneSlot, Taken
      <4>2. current' # None /\ batch' = None /\ current'.state = "consumed"
        BY <1>1, <4>1 DEF Take, SlotsEvolve, InCurrent, Entry
      <4> QED
        BY <4>2 DEF LiveRequest, Stored, Steps, Live
    <3>2. CASE e \in Steps
      <4>1. batch \in Batch /\ batch # None /\ current = None
        BY <3>2 DEF Steps, GateInv, GateTypeOK, StoreInv, OneSlot
      <4>2. PICK i \in DOMAIN batch.entries : e = batch.entries[i]
        BY <3>2, <4>1 DEF Steps
      <4>3. ~InCurrent(id) /\ InBatch(id)
        BY <2>2, <3>2, <4>1 DEF InCurrent, InBatch
      <4> DEFINE f == [j \in DOMAIN batch.entries |->
                          IF batch.entries[j].id = id THEN Taken(batch.entries[j])
                                                      ELSE batch.entries[j].state]
      <4>4. \A j \in DOMAIN batch.entries : f[j] \in ApprovalState
        <5>1. \A j \in DOMAIN batch.entries : batch.entries[j] \in Entry
          BY <4>1 DEF Batch
        <5>2. \A x \in Entry : Taken(x) \in ApprovalState /\ x.state \in ApprovalState
          BY DEF Taken, Entry, ApprovalState
        <5> QED
          BY <5>1, <5>2
      <4>5. batch' = WithStates(batch, f) /\ DOMAIN f = DOMAIN batch.entries
        BY <4>3 DEF Take
      <4>6. f[i] = "consumed"
        BY <2>2, <4>2 DEF Taken
      <4> HIDE DEF f
      <4>7. \A j \in DOMAIN batch'.entries :
               /\ j \in DOMAIN batch.entries /\ batch'.entries[j].id = batch.entries[j].id
               /\ batch'.entries[j].state = f[j]
        BY <4>1, <4>4, <4>5, StatesMapped
      <4>8. \A j \in DOMAIN batch.entries : batch.entries[j].id = id => j = i
        BY <2>2, <4>1, <4>2 DEF GateInv, StoreInv, StepsAreDistinct
      <4>9. current' = None /\ batch' # None
        BY <1>1, <4>1 DEF SlotsEvolve
      <4>10. ASSUME NEW j \in DOMAIN batch'.entries, batch'.entries[j].id = id
             PROVE  batch'.entries[j].state = "consumed"
        BY <4>6, <4>7, <4>8, <4>10
      <4> QED
        BY <4>9, <4>10 DEF LiveRequest, Stored, Steps, Live
    <3> QED
      BY <2>2, <3>1, <3>2 DEF Stored
  <2>6. \A k \in DOMAIN released : released[k] # id
    BY <2>3 DEF GateInv, ExitInv, ReleasedIsOver
  <2>7. \A i : ~LiveRequest(i) => ~LiveRequest(i)'
    BY <1>1, <1>3, OverStaysOver DEF GateInv
  <2>8. /\ DOMAIN released' = DOMAIN released \cup {Len(released) + 1}
        /\ \A k \in DOMAIN released : released'[k] = released[k]
        /\ released'[Len(released) + 1] = id
    BY <2>1
  <2>9. ReleasedIsOver'
    <3>1. \A k \in DOMAIN released : released[k] <= next_id /\ ~LiveRequest(released[k])
      BY DEF GateInv, ExitInv, ReleasedIsOver
    <3>2. id <= next_id
      BY DEF Known, GateInv, GateTypeOK
    <3> QED
      BY <1>2, <2>5, <2>7, <2>8, <3>1, <3>2 DEF ReleasedIsOver
  <2>10. ReleaseNeedsConsent' /\ ReleasedOnce'
    BY <1>2, <2>4, <2>6, <2>8 DEF GateInv, ExitInv, ReleaseNeedsConsent, ReleasedOnce
  <2> QED
    BY <1>3, <1>4, <2>9, <2>10 DEF GateInv, ExitInv
<1> QED
  BY <1>5, <1>6

\* A new request has a new id, and no prompt open on anything else can answer it.
LEMMA BeginStep ==
    ASSUME GateInv, Begin
    PROVE  GateInv'
<1>1. /\ next_id' = next_id + 1 /\ current' = Fresh(next_id + 1) /\ batch' = None
      /\ UNCHANGED <<next_batch_id, task, now, consented, released>>
  BY DEF Begin
<1>2. next_id \in Nat /\ now + APPROVAL_TTL \in Nat
  BY GateAssumption DEF GateInv, GateTypeOK
<1>3. current' \in Entry /\ current'.id = next_id + 1 /\ current'.state = "pending"
  BY <1>1, <1>2 DEF Fresh, Entry, ApprovalState, Live
<1>4. GateTypeOK'
  BY <1>1, <1>2, <1>3 DEF GateInv, GateTypeOK
<1>5. StoreInv'
  BY <1>1, <1>2, <1>3
  DEF StoreInv, OneSlot, IdsAreKnown, StepsAreDistinct, ApprovedIsConsented, Approved
<1>6. PromptsShow'
  BY <1>1 DEF GateInv, PromptsShow
<1>7. ReleasedIsOver'
  <2>1. \A k \in DOMAIN released : released[k] \in Nat /\ released[k] <= next_id
    BY DEF GateInv, GateTypeOK, ExitInv, ReleasedIsOver
  <2>2. \A id : LiveRequest(id)' => id = next_id + 1
    BY <1>1, <1>3 DEF LiveRequest, Stored, Steps
  <2> QED
    BY <1>1, <1>2, <2>1, <2>2 DEF ReleasedIsOver
<1>8. ReleaseNeedsConsent' /\ ReleasedOnce'
  BY <1>1 DEF GateInv, ExitInv, ReleaseNeedsConsent, ReleasedOnce
<1> QED
  BY <1>4, <1>5, <1>6, <1>7, <1>8 DEF GateInv, ExitInv

\* The same for a batch, which has a new id of its own as well.
LEMMA BeginBatchStep ==
    ASSUME GateInv, NEW n \in BatchSizes, BeginBatch(n)
    PROVE  GateInv'
<1> DEFINE es == [i \in 1 .. n |-> Fresh(next_id + i)]
<1>1. /\ next_id' = next_id + n /\ next_batch_id' = next_batch_id + 1 /\ current' = None
      /\ batch' = [id |-> next_batch_id + 1, entries |-> es,
                    expires_at |-> now + APPROVAL_TTL, in_flight |-> FALSE]
      /\ UNCHANGED <<task, now, consented, released>>
  BY DEF BeginBatch
<1>2. /\ n \in Nat /\ next_id \in Nat /\ next_batch_id \in Nat
      /\ now \in Nat /\ APPROVAL_TTL \in Nat
  BY GateAssumption DEF GateInv, GateTypeOK
<1>3. \A i \in 1 .. n : /\ es[i] \in Entry
                        /\ es[i].id = next_id + i /\ es[i].state = "pending"
  BY <1>2 DEF Fresh, Entry, ApprovalState, Live
<1>4. DOMAIN es = 1 .. n /\ es = [i \in 1 .. n |-> es[i]]
  OBVIOUS
<1> HIDE DEF es
<1>5. es \in Seq(Entry)
  <2>1. es \in [1 .. n -> Entry]
    BY <1>3, <1>4
  <2> QED
    BY <1>2, <2>1
<1>6. /\ batch' \in Batch /\ batch' # None
      /\ batch'.id = next_batch_id + 1 /\ batch'.entries = es
  <2>1. next_batch_id + 1 \in Nat /\ now + APPROVAL_TTL \in Nat
    BY <1>2
  <2>2. batch' \in Batch
    BY <1>1, <1>5, <2>1 DEF Batch
  <2> QED
    BY <1>1, <2>2, GateAssumption
<1>7. GateTypeOK'
  BY <1>1, <1>2, <1>6 DEF GateInv, GateTypeOK
<1>8. StoreInv'
  <2>1. OneSlot' /\ StepsAreDistinct'
    BY <1>1, <1>2, <1>3, <1>4, <1>6 DEF OneSlot, StepsAreDistinct
  <2>2. IdsAreKnown' /\ ApprovedIsConsented'
    BY <1>1, <1>2, <1>3, <1>4, <1>6 DEF IdsAreKnown, ApprovedIsConsented, Approved
  <2> QED
    BY <2>1, <2>2 DEF StoreInv
<1>9. PromptsShow'
  <2>1. \A t \in Tasks : task[t].id \in Nat
    BY DEF GateInv, GateTypeOK, Task
  <2> QED
    BY <1>1, <1>2, <1>6, <2>1 DEF GateInv, PromptsShow
<1>10. ReleasedIsOver'
  <2>1. \A k \in DOMAIN released : released[k] \in Nat /\ released[k] <= next_id
    BY DEF GateInv, GateTypeOK, ExitInv, ReleasedIsOver
  <2>2. \A id : LiveRequest(id)' => \E i \in 1 .. n : id = next_id + i
    BY <1>1, <1>3, <1>4, <1>6 DEF LiveRequest, Stored, Steps
  <2>3. \A k \in DOMAIN released : \A i \in 1 .. n : released[k] # next_id + i
    BY <1>2, <2>1
  <2> QED
    BY <1>1, <1>2, <2>1, <2>2, <2>3 DEF ReleasedIsOver
<1>11. ReleaseNeedsConsent' /\ ReleasedOnce'
  BY <1>1 DEF GateInv, ExitInv, ReleaseNeedsConsent, ReleasedOnce
<1> QED
  BY <1>7, <1>8, <1>9, <1>10, <1>11 DEF GateInv, ExitInv

\* Every step, and what it does to the requests there were.
LEMMA GateStep ==
    ASSUME GateInv, [GateNext]_gateVars
    PROVE  /\ GateInv'
           /\ \A id \in Known : ~LiveRequest(id) => ~LiveRequest(id)'
<1> USE DEF GateInv
<1>1. ASSUME SlotsEvolve(current', batch', consented'), GateTypeOK'
      PROVE  \A id \in Known : ~LiveRequest(id) => ~LiveRequest(id)'
  BY <1>1, OverStaysOver
<1>2. CASE Begin
  <2>1. GateInv' /\ next_id \in Nat
    BY <1>2, BeginStep DEF GateTypeOK
  <2>2. \A id : LiveRequest(id)' => id = next_id + 1
    BY <1>2 DEF Begin, LiveRequest, Stored, Steps, Fresh
  <2> QED
    BY <2>1, <2>2 DEF Known
<1>3. ASSUME NEW n \in BatchSizes, BeginBatch(n)
      PROVE  /\ GateInv'
             /\ \A id \in Known : ~LiveRequest(id) => ~LiveRequest(id)'
  <2>1. GateInv' /\ next_id \in Nat
    BY <1>3, BeginBatchStep DEF GateTypeOK
  <2>2. \A id : LiveRequest(id)' => \E i \in 1 .. n : id = next_id + i
    BY <1>3 DEF BeginBatch, LiveRequest, Stored, Steps, Fresh
  <2>3. n \in Nat
    BY GateAssumption
  <2> QED
    BY <2>1, <2>2, <2>3 DEF Known
<1>4. ASSUME NEW t \in Tasks, NEW kind \in Kinds, NEW id \in Nat, Call(t, kind, id)
      PROVE  /\ GateInv' /\ SlotsEvolve(current', batch', consented')
  <2>1. /\ UNCHANGED <<store, now, consented, released>> /\ task' \in [Tasks -> Task]
        /\ \A u \in Tasks : task'[u].pc = "prompt" => task'[u] = task[u]
    BY <1>4 DEF Call, GateTypeOK, Task, Idle
  <2> QED
    BY <2>1, Unchanged, QuietStep DEF store, GateTypeOK
<1>5. ASSUME NEW t \in Tasks, TaskStep(t)
      PROVE  /\ GateInv' /\ SlotsEvolve(current', batch', consented')
  <2>1. CASE Prepare(t)
    BY <2>1, PrepareStep, PrepareEvolves
  <2>2. CASE PrepareRefused(t)
    <3>1. /\ UNCHANGED <<next_id, next_batch_id, now, consented, released>>
          /\ task' \in [Tasks -> Task]
          /\ \A u \in Tasks : task'[u].pc = "prompt" => task'[u] = task[u]
      BY <2>2 DEF PrepareRefused, GateTypeOK, Task, Idle, Kinds
    <3> QED
      BY <2>2, <3>1, PrepareEvolves, QuietStep DEF GateTypeOK
  <2>3. ASSUME NEW approved \in BOOLEAN, Answer(t, approved)
        PROVE  GateInv' /\ SlotsEvolve(current', batch', consented')
    <3>1. /\ UNCHANGED <<next_id, next_batch_id, now, released>>
          /\ task' \in [Tasks -> Task]
          /\ \A u \in Tasks : task'[u].pc = "prompt" => task'[u] = task[u]
      BY <2>3 DEF Answer, GateTypeOK, Task
    <3>2. consented \subseteq consented' /\ consented' \subseteq Nat
      BY <2>3 DEF Answer, GateTypeOK, Task
    <3> QED
      BY <2>3, <3>1, <3>2, AnswerEvolves, QuietStep DEF GateTypeOK
  <2>4. CASE Panic(t)
    <3>1. /\ UNCHANGED <<store, now, consented, released>>
          /\ task' \in [Tasks -> Task]
          /\ \A u \in Tasks : task'[u].pc = "prompt" => task'[u] = task[u]
      BY <2>4 DEF Panic, GateTypeOK, Task
    <3> QED
      BY <3>1, Unchanged, QuietStep DEF store, GateTypeOK
  <2>5. CASE Drop(t)
    <3>1. /\ UNCHANGED <<next_id, next_batch_id, now, consented, released>>
          /\ task' \in [Tasks -> Task]
          /\ \A u \in Tasks : task'[u].pc = "prompt" => task'[u] = task[u]
      BY <2>5 DEF Drop, GateTypeOK, Task, Idle, Kinds
    <3> QED
      BY <2>5, <3>1, DropEvolves, QuietStep DEF GateTypeOK
  <2> QED
    BY <1>5, <2>1, <2>2, <2>3, <2>4, <2>5 DEF TaskStep
<1>6. ASSUME NEW id \in Known, Deny(id) \/ Status(id)
      PROVE  GateInv' /\ SlotsEvolve(current', batch', consented')
  <2>1. SlotsEvolve(current', batch', consented')
    BY <1>6, DenyEvolves, StatusEvolves
  <2>2. UNCHANGED <<next_id, next_batch_id, task, now, consented, released>>
    BY <1>6 DEF Deny, Status
  <2> QED
    BY <2>1, <2>2, QuietStep DEF GateTypeOK
<1>7. ASSUME NEW id \in Known, Take(id)
      PROVE  GateInv' /\ SlotsEvolve(current', batch', consented')
  BY <1>7, TakeStep, TakeEvolves
<1>8. CASE InvalidateForLock
  <2>1. SlotsEvolve(current', batch', consented')
    BY <1>8, LockEvolves
  <2>2. UNCHANGED <<next_id, next_batch_id, task, now, consented, released>>
    BY <1>8 DEF InvalidateForLock
  <2> QED
    BY <1>1, <2>1, <2>2, QuietStep DEF GateTypeOK
<1>9. CASE Tick \/ UNCHANGED gateVars
  <2>1. UNCHANGED <<store, task, consented, released>> /\ now' \in Nat
    BY <1>9 DEF Tick, gateVars, store, GateTypeOK
  <2>2. SlotsEvolve(current', batch', consented')
    BY <2>1, Unchanged DEF store
  <2> QED
    BY <1>1, <2>1, <2>2, QuietStep DEF store, GateTypeOK
<1>10. Known \subseteq Nat /\ 1 .. next_batch_id \subseteq Nat /\ Kinds = {"single", "batch"}
  BY DEF Known, Kinds, GateTypeOK
<1> QED
  BY <1>1, <1>2, <1>3, <1>4, <1>5, <1>6, <1>7, <1>8, <1>9, <1>10 DEF GateNext

-----------------------------------------------------------------------------

\* The store starts empty.
LEMMA GateStart == GateInit => GateInv
BY DEF GateInit, GateInv, GateTypeOK, StoreInv, OneSlot, IdsAreKnown, StepsAreDistinct,
       ApprovedIsConsented, PromptsShow, ExitInv, ReleasedIsOver, ReleaseNeedsConsent,
       ReleasedOnce, Task, Idle, Kinds

\* The invariant holds in every state of the gate.
THEOREM GateInvariant == GateSpec => []GateInv
<1>1. GateInv /\ [GateNext]_gateVars => GateInv'
  BY GateStep
<1> QED
  BY <1>1, GateStart, PTL DEF GateSpec

\* The store's shape is kept (approval.rs:368-382, 541-546).
THEOREM GateTypeCorrect == GateSpec => []GateTypeOK
<1>1. GateInv => GateTypeOK
  BY DEF GateInv
<1> QED
  BY <1>1, GateInvariant, PTL

\* Nothing leaves the gate without a human's approval of that very request.
THEOREM ReleaseIsConsented == GateSpec => []ReleaseNeedsConsent
<1>1. GateInv => ReleaseNeedsConsent
  BY DEF GateInv, ExitInv
<1> QED
  BY <1>1, GateInvariant, PTL

\* No request leaves the gate twice.
THEOREM ReleaseIsOnce == GateSpec => []ReleasedOnce
<1>1. GateInv => ReleasedOnce
  BY DEF GateInv, ExitInv
<1> QED
  BY <1>1, GateInvariant, PTL

\* Denied, expired, released and superseded requests never come back.
THEOREM OverIsFinal == GateSpec => DeadStaysDead
<1>1. GateInv /\ [GateNext]_gateVars
        => [\A id \in Known : ~LiveRequest(id) => ~LiveRequest(id)']_gateVars
  BY GateStep
<1> QED
  BY <1>1, GateInvariant, PTL DEF GateSpec, DeadStaysDead

-----------------------------------------------------------------------------
(* One decision covers a batch.                                             *)

\* The steps of a batch fall due with it; while it is not due they move together.
BatchInv ==
    /\ BatchMovesTogether
    /\ batch # None => \A i \in DOMAIN batch.entries :
                           batch.entries[i].expires_at = batch.expires_at

SameDeadlines(b, c) ==
    /\ DOMAIN c.entries = DOMAIN b.entries /\ c.expires_at = b.expires_at
    /\ \A i \in DOMAIN b.entries : c.entries[i].expires_at = b.entries[i].expires_at

MovesAlike(b, c) ==
    \/ \A i \in DOMAIN b.entries : c.entries[i].state = "pending" <=> b.entries[i].state = "pending"
    \/ \A i \in DOMAIN b.entries : c.entries[i].state # "pending"

\* New states leave the deadlines alone.
LEMMA DeadlinesKept ==
    ASSUME NEW b \in Batch, NEW s, DOMAIN s = DOMAIN b.entries,
           \A i \in DOMAIN b.entries : s[i] \in ApprovalState
    PROVE  SameDeadlines(b, WithStates(b, s))
<1> DEFINE f == [i \in DOMAIN b.entries |-> [b.entries[i] EXCEPT !.state = s[i]]]
<1>1. \A i \in DOMAIN b.entries : b.entries[i] \in Entry
  BY DEF Batch
<1>2. \A i \in DOMAIN b.entries : f[i] \in Entry /\ f[i].expires_at = b.entries[i].expires_at
  BY <1>1 DEF Entry
<1>3. DOMAIN f = DOMAIN b.entries /\ f = [i \in DOMAIN f |-> f[i]]
  OBVIOUS
<1>4. WithStates(b, s) = [b EXCEPT !.entries = f]
  BY DEF WithStates
<1> HIDE DEF f
<1> QED
  BY <1>2, <1>3, <1>4, EntriesMapped DEF SameDeadlines

LEMMA AllMoveAlike ==
    ASSUME NEW b \in Batch, NEW s \in ApprovalState, s # "pending"
    PROVE  SameDeadlines(b, WithState(b, s)) /\ MovesAlike(b, WithState(b, s))
<1> DEFINE g == [i \in DOMAIN b.entries |-> s]
<1>1. DOMAIN g = DOMAIN b.entries /\ \A i \in DOMAIN b.entries : g[i] = s
  OBVIOUS
<1>2. WithState(b, s) = WithStates(b, g)
  BY DEF WithState
<1> HIDE DEF g
<1>3. SameDeadlines(b, WithState(b, s))
  BY <1>1, <1>2, DeadlinesKept
<1> QED
  BY <1>3, StateMapped DEF MovesAlike

\* The latch is no part of a step.
LEMMA LatchMovesNothing ==
    ASSUME NEW b \in Batch, NEW c \in Batch, NEW latch \in BOOLEAN,
           SameDeadlines(b, c), IsDue(b) \/ MovesAlike(b, c)
    PROVE  /\ SameDeadlines(b, [c EXCEPT !.in_flight = latch])
           /\ IsDue(b) \/ MovesAlike(b, [c EXCEPT !.in_flight = latch])
<1>1. /\ [c EXCEPT !.in_flight = latch].entries = c.entries
      /\ [c EXCEPT !.in_flight = latch].expires_at = c.expires_at
  BY DEF Batch
<1> QED
  BY <1>1 DEF SameDeadlines, MovesAlike

LEMMA BatchKept ==
    ASSUME GateTypeOK, GateTypeOK', BatchInv, now <= now', batch # None, batch' # None,
           SameDeadlines(batch, batch'), IsDue(batch) \/ MovesAlike(batch, batch')
    PROVE  BatchInv'
<1>1. /\ batch.expires_at \in Nat /\ now \in Nat /\ now' \in Nat
      /\ batch'.expires_at = batch.expires_at /\ DOMAIN batch'.entries = DOMAIN batch.entries
  BY DEF GateTypeOK, Batch, SameDeadlines
<1>2. \A i \in DOMAIN batch'.entries : batch'.entries[i].expires_at = batch'.expires_at
  BY <1>1 DEF BatchInv, SameDeadlines
<1>3. CASE now >= batch.expires_at
  <2>1. now' >= batch'.expires_at
    BY <1>1, <1>3
  <2> QED
    BY <1>2, <2>1 DEF BatchInv, BatchMovesTogether, IsDue
<1>4. CASE ~(now >= batch.expires_at)
  <2>1. \/ \A i \in DOMAIN batch.entries : batch.entries[i].state = "pending"
        \/ \A i \in DOMAIN batch.entries : batch.entries[i].state # "pending"
    BY <1>4 DEF BatchInv, BatchMovesTogether, IsDue, AllPending
  <2>2. MovesAlike(batch, batch')
    BY <1>4 DEF IsDue
  <2>3. \/ \A i \in DOMAIN batch'.entries : batch'.entries[i].state = "pending"
        \/ \A i \in DOMAIN batch'.entries : batch'.entries[i].state # "pending"
    BY <1>1, <2>1, <2>2 DEF MovesAlike
  <2> QED
    BY <1>2, <2>3 DEF BatchInv, BatchMovesTogether, AllPending
<1> QED
  BY <1>3, <1>4

\* A batch that nothing happens to, or that a whole decision reaches.
LEMMA NothingMoves ==
    ASSUME NEW b
    PROVE  SameDeadlines(b, b) /\ MovesAlike(b, b)
BY DEF SameDeadlines, MovesAlike

\* An answer decides all steps or none.
LEMMA AnswerMovesAlike ==
    ASSUME NEW b \in Batch, NEW approved \in BOOLEAN
    PROVE  /\ DecidedBatch(b, approved) \in Batch
           /\ SameDeadlines(b, DecidedBatch(b, approved))
           /\ MovesAlike(b, DecidedBatch(b, approved))
BY AllMoveAlike, NothingMoves, StateMapped DEF DecidedBatch, ApprovalState, Live

\* Looking at a step, or taking it, moves no pending step of a batch that is not due.
LEMMA StepMovesAlike ==
    ASSUME NEW b \in Batch, NEW s, DOMAIN s = DOMAIN b.entries,
           \A i \in DOMAIN b.entries : b.entries[i].expires_at = b.expires_at,
           \A i \in DOMAIN b.entries :
               s[i] \in {b.entries[i].state, Looked(b.entries[i]), Taken(b.entries[i])}
    PROVE  /\ SameDeadlines(b, WithStates(b, s))
           /\ IsDue(b) \/ MovesAlike(b, WithStates(b, s))
<1>1. \A i \in DOMAIN b.entries : b.entries[i] \in Entry
  BY DEF Batch
<1>2. ASSUME NEW e \in Entry
      PROVE  /\ {e.state, Looked(e), Taken(e)} \subseteq ApprovalState
             /\ ~IsDue(e) => /\ Looked(e) = "pending" <=> e.state = "pending"
                             /\ Taken(e) = "pending" <=> e.state = "pending"
  BY DEF Entry, Looked, Taken, ApprovalState, Live
<1>3. \A i \in DOMAIN b.entries : s[i] \in ApprovalState
  BY <1>1, <1>2
<1>4. ASSUME ~IsDue(b), NEW i \in DOMAIN b.entries
      PROVE  s[i] = "pending" <=> b.entries[i].state = "pending"
  <2>1. ~IsDue(b.entries[i])
    BY <1>4 DEF IsDue
  <2> QED
    BY <1>1, <1>2, <2>1
<1> QED
  BY <1>3, <1>4, DeadlinesKept, StatesMapped DEF MovesAlike

\* What one step makes of the batch, unless it begins another one or drops it.
BatchStepKept ==
    batch # None /\ batch' # None =>
        SameDeadlines(batch, batch') /\ (IsDue(batch) \/ MovesAlike(batch, batch'))

LEMMA TaskMovesAlike ==
    ASSUME GateTypeOK, NEW t \in Tasks, TaskStep(t)
    PROVE  BatchStepKept
<1> SUFFICES ASSUME batch # None, batch' # None
             PROVE  SameDeadlines(batch, batch') /\ (IsDue(batch) \/ MovesAlike(batch, batch'))
  BY DEF BatchStepKept
<1>1. batch \in Batch
  BY DEF GateTypeOK
<1>2. CASE UNCHANGED batch
  BY <1>2, NothingMoves
<1>3. CASE Prepare(t)
  <2>1. batch' = batch \/ batch' = [batch EXCEPT !.in_flight = TRUE]
    BY <1>3 DEF Prepare
  <2> QED
    BY <1>1, <2>1, NothingMoves, LatchMovesNothing
<1>4. CASE PrepareRefused(t)
  <2>1. batch' = batch \/ batch' = WithState(batch, "expired")
    BY <1>4 DEF PrepareRefused
  <2> QED
    BY <1>1, <2>1, NothingMoves, AllMoveAlike DEF ApprovalState
<1>5. ASSUME NEW approved \in BOOLEAN, Answer(t, approved)
      PROVE  SameDeadlines(batch, batch') /\ (IsDue(batch) \/ MovesAlike(batch, batch'))
  <2>1. batch' = batch \/ batch' = [DecidedBatch(batch, approved) EXCEPT !.in_flight = FALSE]
    BY <1>5 DEF Answer
  <2> QED
    BY <1>1, <2>1, NothingMoves, AnswerMovesAlike, LatchMovesNothing
<1>6. CASE Drop(t)
  <2>1. batch' = batch \/ batch' = [batch EXCEPT !.in_flight = FALSE]
    BY <1>6 DEF Drop, LatchAfterDrop
  <2> QED
    BY <1>1, <2>1, NothingMoves, LatchMovesNothing
<1> QED
  BY <1>2, <1>3, <1>4, <1>5, <1>6 DEF TaskStep, Panic, store

LEMMA CallMovesAlike ==
    ASSUME GateTypeOK, BatchInv, NEW id, Deny(id) \/ Status(id) \/ Take(id)
    PROVE  BatchStepKept
<1> SUFFICES ASSUME batch # None, batch' # None
             PROVE  SameDeadlines(batch, batch') /\ (IsDue(batch) \/ MovesAlike(batch, batch'))
  BY DEF BatchStepKept
<1>1. /\ batch \in Batch
      /\ \A i \in DOMAIN batch.entries : batch.entries[i].expires_at = batch.expires_at
  BY DEF GateTypeOK, BatchInv
<1>2. CASE UNCHANGED batch
  BY <1>2, NothingMoves
<1>3. CASE Deny(id)
  <2>1. \/ batch' = batch
        \/ batch' = WithState(batch, "expired")
        \/ batch' = WithState(batch, "denied")
    BY <1>3 DEF Deny, DenyBatch, DenySingle, DeniedBatch
  <2> QED
    BY <1>1, <2>1, NothingMoves, AllMoveAlike DEF ApprovalState
<1>4. CASE Status(id)
  <2> DEFINE s == [i \in DOMAIN batch.entries |->
                     IF batch.entries[i].id = id THEN Looked(batch.entries[i])
                                                 ELSE batch.entries[i].state]
  <2>1. batch' = batch \/ batch' = WithStates(batch, s)
    BY <1>4 DEF Status
  <2>2. DOMAIN s = DOMAIN batch.entries /\ \A i \in DOMAIN batch.entries :
          s[i] \in {batch.entries[i].state, Looked(batch.entries[i]), Taken(batch.entries[i])}
    OBVIOUS
  <2> HIDE DEF s
  <2> QED
    BY <1>1, <2>1, <2>2, NothingMoves, StepMovesAlike
<1>5. CASE Take(id)
  <2> DEFINE s == [i \in DOMAIN batch.entries |->
                     IF batch.entries[i].id = id THEN Taken(batch.entries[i])
                                                 ELSE batch.entries[i].state]
  <2>1. batch' = batch \/ batch' = WithStates(batch, s)
    BY <1>5 DEF Take
  <2>2. DOMAIN s = DOMAIN batch.entries /\ \A i \in DOMAIN batch.entries :
          s[i] \in {batch.entries[i].state, Looked(batch.entries[i]), Taken(batch.entries[i])}
    OBVIOUS
  <2> HIDE DEF s
  <2> QED
    BY <1>1, <2>1, <2>2, NothingMoves, StepMovesAlike
<1> QED
  BY <1>3, <1>4, <1>5

LEMMA LockMovesAlike ==
    ASSUME GateTypeOK, InvalidateForLock
    PROVE  BatchStepKept
<1> SUFFICES ASSUME batch # None
             PROVE  SameDeadlines(batch, batch') /\ MovesAlike(batch, batch')
  BY DEF BatchStepKept
<1> DEFINE f == [i \in DOMAIN batch.entries |-> Locked(batch.entries[i])]
<1>1. batch \in Batch /\ \A i \in DOMAIN batch.entries : batch.entries[i] \in Entry
  BY DEF GateTypeOK, Batch
<1>2. ASSUME NEW e \in Entry
      PROVE  Locked(e) \in Entry /\ Locked(e).expires_at = e.expires_at
             /\ Locked(e).state # "pending"
  BY DEF Locked, Entry, ApprovalState, Live
<1>3. /\ DOMAIN f = DOMAIN batch.entries /\ f = [i \in DOMAIN f |-> f[i]]
      /\ \A i \in DOMAIN batch.entries : f[i] = Locked(batch.entries[i])
  OBVIOUS
<1>4. batch' = [batch EXCEPT !.entries = f]
  BY DEF InvalidateForLock
<1> HIDE DEF f
<1>5. /\ batch'.entries = f /\ batch'.expires_at = batch.expires_at
  BY <1>1, <1>2, <1>3, <1>4, EntriesMapped
<1> QED
  BY <1>1, <1>2, <1>3, <1>5 DEF SameDeadlines, MovesAlike

LEMMA BatchStaysTogether == GateInv /\ BatchInv /\ [GateNext]_gateVars => BatchInv'
<1> SUFFICES ASSUME GateInv, BatchInv, [GateNext]_gateVars PROVE BatchInv'
  OBVIOUS
<1>1. GateTypeOK /\ GateTypeOK'
  BY GateStep DEF GateInv
<1>2. CASE batch' = None
  BY <1>2 DEF BatchInv, BatchMovesTogether
<1>3. ASSUME NEW n \in BatchSizes, BeginBatch(n)
      PROVE  BatchInv'
  <2>1. /\ batch'.entries = [i \in 1 .. n |-> Fresh(next_id + i)]
        /\ batch'.expires_at = now + APPROVAL_TTL
    BY <1>3 DEF BeginBatch
  <2>2. \A i \in DOMAIN batch'.entries :
          batch'.entries[i].state = "pending" /\ batch'.entries[i].expires_at = batch'.expires_at
    BY <2>1 DEF Fresh
  <2> QED
    BY <2>2 DEF BatchInv, BatchMovesTogether, AllPending
<1>4. ASSUME BatchStepKept, batch' # None, batch # None, now <= now'
      PROVE  BatchInv'
  BY <1>1, <1>4, BatchKept DEF BatchStepKept
<1>5. ASSUME UNCHANGED batch
      PROVE  BatchStepKept /\ (batch = None => batch' = None)
  BY <1>5, NothingMoves DEF BatchStepKept
<1>6. now \in Nat /\ (now' = now => now <= now')
  BY <1>1 DEF GateTypeOK
<1>7. ASSUME NEW t \in Tasks, NEW kind, NEW id, Call(t, kind, id)
      PROVE  BatchInv'
  BY <1>2, <1>4, <1>5, <1>6, <1>7 DEF Call, store
<1>8. ASSUME NEW t \in Tasks, TaskStep(t)
      PROVE  BatchInv'
  <2>1. now' = now /\ (batch = None => batch' = None)
    BY <1>8, GateStep, PrepareEvolves, AnswerEvolves, DropEvolves
    DEF TaskStep, Prepare, PrepareRefused, Answer, Panic, Drop, BatchSlot, OpensBatch, store
  <2> QED
    BY <1>1, <1>2, <1>4, <1>6, <1>8, <2>1, TaskMovesAlike
<1>9. ASSUME NEW id \in Known, Deny(id) \/ Status(id) \/ Take(id)
      PROVE  BatchInv'
  <2>1. now' = now /\ (batch = None => batch' = None)
    BY <1>9 DEF Deny, DenyBatch, DenySingle, Status, Take, InBatch, Steps
  <2> QED
    BY <1>1, <1>2, <1>4, <1>6, <1>9, <2>1, CallMovesAlike
<1>10. CASE InvalidateForLock
  <2>1. now' = now /\ (batch = None => batch' = None)
    BY <1>10 DEF InvalidateForLock
  <2> QED
    BY <1>1, <1>2, <1>4, <1>6, <1>10, <2>1, LockMovesAlike
<1>11. CASE Tick \/ UNCHANGED gateVars
  <2>1. UNCHANGED batch /\ now <= now'
    BY <1>6, <1>11 DEF Tick, gateVars, store
  <2> QED
    BY <1>2, <1>4, <1>5, <2>1
<1>12. CASE Begin
  BY <1>2, <1>12 DEF Begin
<1> QED
  BY <1>3, <1>7, <1>8, <1>9, <1>10, <1>11, <1>12 DEF GateNext

\* Until a batch's time is up one decision covers all of its steps, however prompts,
\* denials, looks, takes and locks interleave (approval.rs:1014-1018).
THEOREM BatchesMoveTogether == GateSpec => []BatchMovesTogether
<1>1. GateInit => BatchInv
  BY DEF GateInit, BatchInv, BatchMovesTogether
<1>2. BatchInv => BatchMovesTogether
  BY DEF BatchInv
<1> QED
  BY <1>1, <1>2, BatchStaysTogether, GateInvariant, PTL DEF GateSpec
=============================================================================
