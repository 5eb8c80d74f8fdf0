--------------------------- MODULE WebviewProofs ---------------------------
(***************************************************************************)
(* Payments, the shell, the set-up and the lesson of the webview, for any  *)
(* number of runs, turns, executions, native calls, proposals and key      *)
(* presses and any behaviour of the gate, the network, the agent, the      *)
(* speech backend, the cursor and the user.                                *)
(*                                                                         *)
(* A plan of transactions lands in order.  What has to be known of a run:  *)
(* the steps before its present one have landed, and nothing beyond its    *)
(* present step was ever handed over.                                      *)
(*                                                                         *)
(* A spoken payment is not superseded while it is pending.  What has to be *)
(* known of a turn: its stage is one of the stages, and the generation of  *)
(* agent turns is only counted up by a transcript that is admitted.        *)
(*                                                                         *)
(* The window ends up as the shell on screen, which stays closed once it   *)
(* was dismissed.  What has to be known of the window: the last request on *)
(* its way is for what the sources of the shell ask for now; with none on  *)
(* its way the window is there, and so is the shell unless it has yet to   *)
(* be applied; and a frame that is still too large has its commit due or   *)
(* on its way.                                                             *)
(*                                                                         *)
(* Automatic payments are armed last and do not outlive the consent.  What *)
(* has to be known of a set-up: its next number is at most one ahead of    *)
(* the account, and where it is the next one nothing came in between, so   *)
(* that the consent stands and the steps before are in force.              *)
(*                                                                         *)
(* The lesson of the double tap is passed only where the product was       *)
(* triggered.  What has to be known of the two recognisers: the product's  *)
(* has seen the gesture, or it follows every attempt that the page's does, *)
(* so that the page accepts nothing the product does not.                  *)
(***************************************************************************)
EXTENDS TxPipeline, VoiceTurn, NotchShell, GuardSetup, ShortcutLessons, FiniteSetTheorems, TLAPS

\* Every run has a step.
Shaped == DOMAIN run = Runs /\ \A r \in Runs : "step" \in DOMAIN run[r]

\* The steps before the present one of a run have landed.
LandedBefore(r) ==
    /\ run[r].step \in Nat \ {0}
    /\ \A k \in 1 .. run[r].step - 1 :
          \E earlier \in landed : earlier.run = r /\ earlier.step = k

\* A transaction was handed over at a step its run has reached.
Reached(tx) == tx.run \in Runs /\ tx.step \in Nat /\ tx.step <= run[tx.run].step

PlanInv ==
    /\ Shaped
    /\ \A r \in Runs : LandedBefore(r)
    /\ \A tx \in network \cup landed : Reached(tx)

-----------------------------------------------------------------------------
(* What a step makes of the runs, and of the transactions.                  *)

SameSteps == \A q \in Runs : run'[q].step = run[q].step

\* The owner's transaction of r's present step landed, and r goes on to the next.
GoesOn(r) ==
    /\ \E tx \in landed : tx.run = r /\ tx.step = run[r].step
    /\ run'[r].step = run[r].step + 1
    /\ \A q \in Runs \ {r} : run'[q].step = run[q].step

\* Nothing is handed over but the present step of a run.
Handed ==
    /\ landed \subseteq landed'
    /\ \A tx \in network' \cup landed' :
          \/ tx \in network \cup landed
          \/ \E r \in Runs : tx.run = r /\ tx.step = run[r].step

LEMMA PlaceChanges ==
    ASSUME Shaped, NEW r \in Runs, NEW at, Goes(r, at)
    PROVE  Shaped' /\ SameSteps
<1>1. run' = [run EXCEPT ![r] = [run[r] EXCEPT !.at = at]]
  BY DEF Goes
<1>2. /\ "step" \in DOMAIN [run[r] EXCEPT !.at = at]
      /\ [run[r] EXCEPT !.at = at].step = run[r].step
  BY DEF Shaped
<1> QED
  BY <1>1, <1>2 DEF Shaped, SameSteps

LEMMA RunChanges ==
    ASSUME Shaped, NEW r \in Runs, NEW after, "step" \in DOMAIN after,
           run' = [run EXCEPT ![r] = after]
    PROVE  /\ Shaped'
           /\ run'[r].step = after.step
           /\ \A q \in Runs \ {r} : run'[q].step = run[q].step
BY DEF Shaped

LEMMA RunIsOver ==
    ASSUME Shaped, NEW r \in Runs, NEW outcome, Ends(r, outcome)
    PROVE  Shaped' /\ SameSteps
<1> DEFINE after == [at |-> "over", step |-> run[r].step, id |-> 0, seq |-> 0]
<1>1. run' = [run EXCEPT ![r] = after]
  BY DEF Ends
<1>2. "step" \in DOMAIN after /\ after.step = run[r].step
  OBVIOUS
<1> HIDE DEF after
<1>3. Shaped' /\ run'[r].step = run[r].step /\ \A q \in Runs \ {r} : run'[q].step = run[q].step
  BY <1>1, <1>2, RunChanges
<1> QED
  BY <1>3 DEF SameSteps

\* A step ends: the run is over, or goes on because this one landed.
LEMMA StepOver ==
    ASSUME Shaped, NEW r \in Runs, NEW outcome, StepEnds(r, outcome),
           outcome = "submitted" => \E tx \in landed : tx.run = r /\ tx.step = run[r].step
    PROVE  Shaped' /\ (SameSteps \/ GoesOn(r))
<1>1. CASE outcome = "submitted" /\ run[r].step < Length(r)
  <2>1. run' = [run EXCEPT ![r] = [Resting EXCEPT !.at = "build", !.step = run[r].step + 1]]
    BY <1>1 DEF StepEnds
  <2> DEFINE after == [Resting EXCEPT !.at = "build", !.step = run[r].step + 1]
  <2>2. "step" \in DOMAIN after
    BY DEF Resting
  <2>3. after.step = run[r].step + 1
    BY DEF Resting
  <2> HIDE DEF after
  <2>4. Shaped' /\ run'[r].step = run[r].step + 1
        /\ \A q \in Runs \ {r} : run'[q].step = run[q].step
    BY <2>1, <2>2, <2>3, RunChanges DEF after
  <2>5. \E tx \in landed : tx.run = r /\ tx.step = run[r].step
    BY <1>1
  <2>6. GoesOn(r)
    BY <2>4, <2>5 DEF GoesOn
  <2> QED
    BY <2>4, <2>6
<1>2. CASE ~(outcome = "submitted" /\ run[r].step < Length(r))
  BY <1>2, RunIsOver DEF StepEnds
<1> QED
  BY <1>1, <1>2

-----------------------------------------------------------------------------
(* The steps.                                                               *)

\* Every step of a run keeps its place or goes on past a transaction that landed.
LEMMA RunStepSteps ==
    ASSUME Shaped, NEW r \in Runs, RunStep(r)
    PROVE  Shaped' /\ (SameSteps \/ GoesOn(r))
<1>1. CASE \/ Starts(r) \/ NotUnattended(r) \/ UnattendedFails(r) \/ SigningFails(r)
           \/ BuildFails(r) \/ BeginFails(r) \/ PollAnswers(r) \/ WaitTimesOut(r)
           \/ UnattendedLanded(r)
           \/ \E arrives \in BOOLEAN : SendsUnattended(r, arrives) \/ SignsAndSends(r, arrives)
  <2>1. (\E at : Goes(r, at)) \/ (\E outcome : Ends(r, outcome))
    BY <1>1 DEF Starts, NotUnattended, UnattendedFails, SigningFails, BuildFails, BeginFails,
       PollAnswers, WaitTimesOut, UnattendedLanded, SendsUnattended, SignsAndSends
  <2> QED
    BY <2>1, PlaceChanges, RunIsOver
<1>2. CASE ReadsContacts(r) \/ Builds(r) \/ Begins(r)
  <2>1. \/ \E at : Goes(r, at)
        \/ \E at, id : run' = [run EXCEPT ![r].at = at, ![r].id = id]
        \/ \E at, seq : run' = [run EXCEPT ![r].at = at, ![r].seq = seq]
    BY <1>2 DEF ReadsContacts, Builds, Begins
  <2>2. ASSUME NEW at, NEW id, run' = [run EXCEPT ![r].at = at, ![r].id = id]
        PROVE  Shaped' /\ SameSteps
    <3> DEFINE after == [[run[r] EXCEPT !.at = at] EXCEPT !.id = id]
    <3>1. run' = [run EXCEPT ![r] = after]
      BY <2>2
    <3>2. "step" \in DOMAIN after /\ after.step = run[r].step
      BY DEF Shaped
    <3> HIDE DEF after
    <3>3. Shaped' /\ run'[r].step = run[r].step
          /\ \A q \in Runs \ {r} : run'[q].step = run[q].step
      BY <3>1, <3>2, RunChanges
    <3> QED
      BY <3>3 DEF SameSteps
  <2>3. ASSUME NEW at, NEW seq, run' = [run EXCEPT ![r].at = at, ![r].seq = seq]
        PROVE  Shaped' /\ SameSteps
    <3> DEFINE after == [[run[r] EXCEPT !.at = at] EXCEPT !.seq = seq]
    <3>1. run' = [run EXCEPT ![r] = after]
      BY <2>3
    <3>2. "step" \in DOMAIN after /\ after.step = run[r].step
      BY DEF Shaped
    <3> HIDE DEF after
    <3>3. Shaped' /\ run'[r].step = run[r].step
          /\ \A q \in Runs \ {r} : run'[q].step = run[q].step
      BY <3>1, <3>2, RunChanges
    <3> QED
      BY <3>3 DEF SameSteps
  <2> QED
    BY <2>1, <2>2, <2>3, PlaceChanges
<1>3. CASE SubmitAnswers(r)
  <2>1. \E tx \in landed : tx.run = r /\ tx.step = run[r].step
    BY <1>3 DEF SubmitAnswers, Tx
  <2> QED
    BY <1>3, <2>1, StepOver DEF SubmitAnswers
<1>4. CASE SubmitFails(r)
  BY <1>4, StepOver DEF SubmitFails
<1> QED
  BY <1>1, <1>2, <1>3, <1>4 DEF RunStep

LEMMA RunStepHands ==
    ASSUME NEW r \in Runs, RunStep(r)
    PROVE  Handed
<1>1. CASE UNCHANGED <<network, landed>>
  BY <1>1 DEF Handed
<1>2. ASSUME NEW arrives \in BOOLEAN, SendsUnattended(r, arrives) \/ SignsAndSends(r, arrives)
      PROVE  Handed
  <2>1. PICK via : network' = network \/ network' = network \cup {Tx(r, via)}
    BY <1>2 DEF SendsUnattended, SignsAndSends
  <2>2. Tx(r, via).run = r /\ Tx(r, via).step = run[r].step
    BY DEF Tx
  <2>3. landed' = landed
    BY <1>2 DEF SendsUnattended, SignsAndSends
  <2> QED
    BY <2>1, <2>2, <2>3 DEF Handed
<1> QED
  BY <1>1, <1>2 DEF RunStep, Starts, NotUnattended, UnattendedLanded, UnattendedFails,
     ReadsContacts, Builds, BuildFails, Begins, BeginFails, PollAnswers, WaitTimesOut,
     SigningFails, SubmitAnswers, SubmitFails

\* A promise that settles moves the runs that wait for it, each at its own step.
LEMMA ConfiguredKeeps ==
    ASSUME Shaped, NEW promise, NEW ok \in BOOLEAN, Configured(promise, ok)
    PROVE  Shaped' /\ SameSteps
<1> DEFINE promised == {r \in Runs : run[r].at = "configuring" /\ run[r].id = promise}
           after(r) == IF r \notin promised THEN run[r]
                       ELSE [run[r] EXCEPT !.at = IF ok THEN "build" ELSE "over", !.id = 0]
<1>1. run' = [r \in Runs |-> after(r)]
  BY DEF Configured
<1>2. ASSUME NEW r \in Runs
      PROVE  "step" \in DOMAIN after(r) /\ after(r).step = run[r].step
  <2>1. CASE r \notin promised
    BY <2>1 DEF Shaped
  <2>2. CASE r \in promised
    <3> DEFINE place == IF ok THEN "build" ELSE "over"
    <3>1. after(r) = [[run[r] EXCEPT !.at = place] EXCEPT !.id = 0]
      BY <2>2
    <3> HIDE DEF place, after
    <3> QED
      BY <3>1 DEF Shaped
  <2> QED
    BY <2>1, <2>2
<1> HIDE DEF after
<1> QED
  BY <1>1, <1>2 DEF Shaped, SameSteps

LEMMA PipelineEffect ==
    ASSUME Shaped, [PipelineNext]_pipelineVars
    PROVE  Shaped' /\ Handed /\ (SameSteps \/ \E r \in Runs : GoesOn(r))
<1>1. CASE UNCHANGED <<run, network, landed>>
  BY <1>1 DEF Shaped, Handed, SameSteps
<1>2. ASSUME NEW r \in Runs, RunStep(r)
      PROVE  Shaped' /\ Handed /\ (SameSteps \/ GoesOn(r))
  BY <1>2, RunStepSteps, RunStepHands
<1>3. CASE SomethingConfigured
  <2>1. UNCHANGED <<network, landed>>
    BY <1>3 DEF SomethingConfigured, Configured
  <2> QED
    BY <1>3, <2>1, ConfiguredKeeps DEF SomethingConfigured, Handed
<1>4. ASSUME NEW tx \in network, Lands(tx)
      PROVE  Shaped' /\ Handed /\ SameSteps
  BY <1>4 DEF Lands, Shaped, Handed, SameSteps
<1> QED
  BY <1>1, <1>2, <1>3, <1>4 DEF PipelineNext, ContactsChange, Decision, pipelineVars

LEMMA PlanStep == PlanInv /\ [PipelineNext]_pipelineVars => PlanInv'
<1> SUFFICES ASSUME PlanInv, [PipelineNext]_pipelineVars PROVE PlanInv'
  OBVIOUS
<1>1. Shaped' /\ Handed /\ (SameSteps \/ \E r \in Runs : GoesOn(r))
  BY PipelineEffect DEF PlanInv
<1>2. \A q \in Runs : run[q].step \in Nat \ {0}
  BY DEF PlanInv, LandedBefore
<1>3. \A q \in Runs : run'[q].step = run[q].step \/ run'[q].step = run[q].step + 1
  BY <1>1 DEF SameSteps, GoesOn
<1>4. ASSUME NEW q \in Runs
      PROVE  LandedBefore(q)'
  <2>1. run[q].step \in Nat \ {0} /\ landed \subseteq landed'
    BY <1>1, <1>2 DEF Handed
  <2>2. \A k \in 1 .. run[q].step - 1 :
          \E earlier \in landed : earlier.run = q /\ earlier.step = k
    BY DEF PlanInv, LandedBefore
  <2>3. CASE run'[q].step = run[q].step
    BY <2>1, <2>2, <2>3 DEF LandedBefore
  <2>4. CASE run'[q].step # run[q].step
    <3>1. GoesOn(q)
      BY <1>1, <2>4 DEF SameSteps, GoesOn
    <3>2. /\ run'[q].step = run[q].step + 1
          /\ \E tx \in landed : tx.run = q /\ tx.step = run[q].step
      BY <3>1 DEF GoesOn
    <3>3. \A k \in 1 .. run'[q].step - 1 : k \in 1 .. run[q].step - 1 \/ k = run[q].step
      BY <2>1, <3>2
    <3>4. \A k \in 1 .. run'[q].step - 1 :
            \E earlier \in landed' : earlier.run = q /\ earlier.step = k
      BY <2>1, <2>2, <3>2, <3>3
    <3>5. run'[q].step \in Nat \ {0}
      BY <2>1, <3>2
    <3> QED
      BY <3>4, <3>5 DEF LandedBefore
  <2> QED
    BY <2>3, <2>4
<1>5. ASSUME NEW tx \in network' \cup landed'
      PROVE  Reached(tx)'
  <2>1. tx.run \in Runs /\ tx.step \in Nat /\ tx.step <= run[tx.run].step
    BY <1>1, <1>2 DEF Handed, PlanInv, Reached
  <2> QED
    BY <1>2, <1>3, <2>1 DEF Reached
<1> QED
  BY <1>1, <1>4, <1>5 DEF PlanInv

LEMMA PlanStart == PipelineInit => PlanInv
<1> SUFFICES ASSUME PipelineInit PROVE PlanInv
  OBVIOUS
<1>1. run = [r \in Runs |-> [at |-> "idle", step |-> 1, id |-> 0, seq |-> 0]]
  BY DEF PipelineInit, Resting
<1>2. Shaped /\ \A r \in Runs : run[r].step = 1
  BY <1>1 DEF Shaped
<1>3. \A r \in Runs : LandedBefore(r)
  BY <1>2 DEF LandedBefore
<1> QED
  BY <1>2, <1>3 DEF PipelineInit, PlanInv

\* What landed of a plan is a prefix of it, whatever was superseded, refused, lost or
\* late: an arming transaction never lands before the limits (runTxSequence).
THEOREM PlansStayInOrder == PipelineSpec => []PlansLandInOrder
<1>1. PlanInv => PlansLandInOrder
  <2> SUFFICES ASSUME PlanInv, NEW tx \in landed, NEW k \in 1 .. tx.step - 1
               PROVE  \E earlier \in landed : earlier.run = tx.run /\ earlier.step = k
    BY DEF PlansLandInOrder
  <2>1. tx.run \in Runs /\ tx.step \in Nat /\ tx.step <= run[tx.run].step
    BY DEF PlanInv, Reached
  <2>2. LandedBefore(tx.run)
    BY <2>1 DEF PlanInv
  <2>3. k \in 1 .. run[tx.run].step - 1
    BY <2>1, <2>2 DEF LandedBefore
  <2> QED
    BY <2>2, <2>3 DEF LandedBefore
<1> QED
  BY <1>1, PlanStart, PlanStep, PTL DEF PipelineSpec
-----------------------------------------------------------------------------
(* The spoken turn.                                                         *)

Stages   == {"null"} \cup ActiveStages \cup Terminal
Sessions == [id : Nat, stage : Stages, notice : BOOLEAN]

\* The session shown, the recorder and the newest agent turn.
CaptureStates == {"recording", "ready", "transcribing", "idle", "error"}

TurnType ==
    /\ turn \in Sessions
    /\ mic = [state |-> mic.state, due |-> mic.due] /\ mic.state \in CaptureStates
    /\ flow = [generation |-> flow.generation, inFlight |-> flow.inFlight]

\* What the session may become while a payment is pending: itself, with another stage or
\* with the notice, or a failure that is shown.
Outlasts(s, t) == s.stage \in PaymentStages => t.id = s.id \/ t.stage = "error"

Passes(s, t) == t \in Sessions /\ Outlasts(s, t)

LEMMA ReducerPasses ==
    ASSUME NEW s \in Sessions
    PROVE  /\ Passes(s, s)
           /\ Passes(s, Failed(s))
           /\ Passes(s, Thinks(s))
           /\ Passes(s, SpeechStarted(s))
           /\ Passes(s, SpeechFinished(s))
           /\ s.stage \in Terminal => Passes(s, Settled(s))
           /\ \A stage \in PaymentStages : Passes(s, Advanced(s, stage))
<1>1. Passes(s, s)
  BY DEF Passes, Outlasts
<1>2. Passes(s, Failed(s))
  BY DEF Passes, Outlasts, Failed, Sessions, Stages, Terminal, ActiveStages, PaymentStages
<1>3. \A t \in Sessions, stage \in Stages :
         [t EXCEPT !.stage = stage] \in Sessions /\ [t EXCEPT !.stage = stage].id = t.id
  BY DEF Sessions
<1>4. Passes(s, Thinks(s)) /\ Passes(s, SpeechFinished(s))
  BY <1>3 DEF Passes, Outlasts, Thinks, SpeechFinished, Stages, Terminal, ActiveStages
<1>5. \A stage \in Stages :
         /\ [s EXCEPT !.stage = stage, !.notice = FALSE] \in Sessions
         /\ [s EXCEPT !.stage = stage, !.notice = FALSE].id = s.id
  BY DEF Sessions
<1>6. Passes(s, SpeechStarted(s))
  BY <1>5 DEF Passes, Outlasts, SpeechStarted, Stages, ActiveStages
<1>7. s.stage \in Terminal => Passes(s, Settled(s))
  BY DEF Passes, Outlasts, Settled, NoTurn, Sessions, Stages, Terminal, PaymentStages
<1>8. \A stage \in PaymentStages : Passes(s, Advanced(s, stage))
  BY <1>5 DEF Passes, Outlasts, Advanced, Stages, ActiveStages, PaymentStages
<1> QED
  BY <1>1, <1>2, <1>4, <1>6, <1>7, <1>8

LEMMA CapturePasses ==
    ASSUME NEW s \in Sessions, NEW state \in CaptureStates
    PROVE  Passes(s, Captured(s, state))
<1>1. CASE s.stage \in PaymentStages
  BY <1>1 DEF Passes, Outlasts, Captured, Sessions
<1>2. CASE s.stage \notin PaymentStages
  <2>1. Fresh(s) \in Sessions
    BY DEF Fresh, Sessions, Stages, ActiveStages
  <2>2. Captured(s, state) \in {s, Fresh(s), Failed(s), Thinks(s)}
    BY <1>2 DEF Captured, CaptureStates
  <2>3. Captured(s, state) \in Sessions
    BY <2>1, <2>2, ReducerPasses DEF Passes
  <2> QED
    BY <1>2, <2>3 DEF Passes, Outlasts
<1> QED
  BY <1>1, <1>2

\* A step of the turn: the session passes, and the generation is counted up only when no
\* payment is pending.
Counted ==
    /\ flow' = [generation |-> flow'.generation, inFlight |-> flow'.inFlight]
    /\ turn.stage \in PaymentStages => flow'.generation = flow.generation

TurnPasses == Passes(turn, turn') /\ Counted

LEMMA TurnStepPasses ==
    ASSUME TurnType, [TurnNext]_turnVars
    PROVE  TurnPasses
<1>1. turn \in Sessions
  BY DEF TurnType
<1>2. flow' = flow => Counted
  BY DEF TurnType, Counted
<1>3. CASE Subscribes \/ ConnectFails \/ UNCHANGED turnVars
  BY <1>1, <1>2, <1>3, ReducerPasses DEF Subscribes, ConnectFails, turnVars, TurnPasses
<1>4. ASSUME NEW b \in BOOLEAN, Connects(b)
      PROVE  TurnPasses
  <2>1. CASE b
    BY <1>1, <1>2, <1>4, <2>1, ReducerPasses DEF Connects, TurnPasses
  <2>2. CASE ~b
    BY <1>1, <1>2, <1>4, <2>2, CapturePasses DEF Connects, TurnPasses, TurnType
  <2> QED
    BY <2>1, <2>2
<1>5. ASSUME NEW state \in CaptureStates, CaptureStatus(state)
      PROVE  TurnPasses
  BY <1>1, <1>2, <1>5, CapturePasses, ReducerPasses DEF CaptureStatus, TurnPasses
<1>6. CASE Timers
  BY <1>1, <1>2, <1>6, ReducerPasses
     DEF Timers, DwellEnds, StageTimesOut, TurnTimesOut, Dispatch, TurnPasses
<1>7. ASSUME NEW t \in Texts, Transcript(t)
      PROVE  TurnPasses
  <2>1. turn' = turn
    BY <1>7 DEF Transcript
  <2>2. Counted
    <3>1. CASE flow' = flow
      BY <1>2, <3>1
    <3>2. CASE /\ turn.stage \notin PaymentStages
               /\ flow' = [generation |-> flow.generation + 1, inFlight |-> t]
      BY <3>2 DEF Counted
    <3> QED
      BY <1>7, <3>1, <3>2 DEF Transcript, Admits
  <2> QED
    BY <1>1, <2>1, <2>2, ReducerPasses DEF TurnPasses
<1>8. ASSUME NEW r \in runs,
             \/ AgentThinking(r) \/ AgentFails(r) \/ AgentIntends(r)
             \/ \E words \in BOOLEAN : AgentAnswers(r, words)
      PROVE  TurnPasses
  <2>1. turn' \in {turn, Failed(turn), Thinks(turn)}
    BY <1>8 DEF AgentThinking, AgentFails, AgentIntends, AgentAnswers
  <2>2. flow' = flow \/ flow' = [flow EXCEPT !.inFlight = NoText]
    BY <1>8 DEF AgentThinking, AgentFails, AgentIntends, AgentAnswers, RunOver
  <2>3. Counted
    BY <1>2, <2>2 DEF TurnType, Counted
  <2> QED
    BY <1>1, <2>1, <2>3, ReducerPasses DEF TurnPasses
<1>9. ASSUME NEW g \in gates, NEW block \in BOOLEAN, WalletGate(g, block)
       PROVE  TurnPasses
  BY <1>1, <1>2, <1>9, ReducerPasses DEF WalletGate, TurnPasses
<1>10. ASSUME NEW x \in execs, ExecutionStage(x)
       PROVE  TurnPasses
  <2>1. StageAfter[x.at] \in PaymentStages
    BY <1>10 DEF ExecutionStage, StageAfter, PaymentStages
  <2> QED
    BY <1>1, <1>2, <1>10, <2>1, ReducerPasses DEF ExecutionStage, TurnPasses
<1>11. ASSUME NEW x \in execs,
              ExecutionSubmitted(x) \/ \E spoken \in BOOLEAN : ExecutionFails(x, spoken)
       PROVE  TurnPasses
  BY <1>1, <1>2, <1>11, ReducerPasses DEF ExecutionSubmitted, ExecutionFails, TurnPasses
<1>12. CASE PlaybackStarts \/ PlaybackEnds \/ SpeechFails
  BY <1>1, <1>2, <1>12, ReducerPasses
     DEF PlaybackStarts, PlaybackEnds, SpeechFails, TurnPasses
<1> QED
  BY <1>3, <1>4, <1>5, <1>6, <1>7, <1>8, <1>9, <1>10, <1>11, <1>12 DEF TurnNext, CaptureStates

LEMMA MicKeepsState ==
    ASSUME TurnType, [TurnNext]_turnVars
    PROVE  mic' = [state |-> mic'.state, due |-> mic'.due] /\ mic'.state \in CaptureStates
<1>1. ASSUME NEW state \in CaptureStates, CaptureStatus(state)
      PROVE  mic'.state = state /\ mic' = [state |-> mic'.state, due |-> mic'.due]
  BY <1>1 DEF CaptureStatus
<1>2. ASSUME NEW t \in Texts, Transcript(t)
      PROVE  mic'.state = mic.state /\ mic' = [state |-> mic'.state, due |-> mic'.due]
  BY <1>2 DEF Transcript, TurnType
<1>3. CASE mic' = mic
  BY <1>3 DEF TurnType
<1>4. CASE /\ ~ \E state \in CaptureStates : CaptureStatus(state)
           /\ ~ \E t \in Texts : Transcript(t)
  <2>1. mic' = mic
    BY <1>4 DEF TurnNext, turnVars, CaptureStates, Timers, Subscribes, ConnectFails, Connects,
       DwellEnds, StageTimesOut, TurnTimesOut, Dispatch, AgentThinking, AgentFails,
       AgentIntends, AgentAnswers, WalletGate, ExecutionStage, ExecutionSubmitted,
       ExecutionFails, PlaybackStarts, PlaybackEnds, SpeechFails
  <2> QED
    BY <1>3, <2>1
<1> QED
  BY <1>1, <1>2, <1>4 DEF TurnType

\* The turn session, the recorder and the flow keep their shape.
THEOREM TurnTypeCorrect == TurnSpec => []TurnType
<1>1. TurnInit => TurnType
  BY DEF TurnInit, TurnType, NoTurn, NoFlow, Sessions, Stages, CaptureStates
<1>2. TurnType /\ [TurnNext]_turnVars => TurnType'
  BY TurnStepPasses, MicKeepsState DEF TurnPasses, Passes, Counted, TurnType
<1> QED
  BY <1>1, <1>2, PTL DEF TurnSpec

\* Until its stage ends by a stage of its own, by playback or by a failure, no press of the
\* hotkey opens a turn over a pending payment and no transcript starts an agent turn
\* (turnSession.ts:182-187, App.tsx:178-185).
THEOREM PaymentsOutlastTheHotkey == TurnSpec => PaymentIsNotSuperseded
<1>1. TurnType /\ [TurnNext]_turnVars =>
         [turn.stage \in PaymentStages =>
             /\ turn'.id = turn.id \/ turn'.stage = "error"
             /\ flow'.generation = flow.generation]_turnVars
  BY TurnStepPasses DEF TurnPasses, Passes, Outlasts, Counted
<1> QED
  BY <1>1, TurnTypeCorrect, PTL DEF TurnSpec, PaymentIsNotSuperseded

-----------------------------------------------------------------------------
(* The shell and its window.                                               *)

Shells   == {"collapsed", "compact", "prompt", "panel"}
NativeCalls ==
    [call : {"request", "commit"}, arg : Shells] \cup [call : {"pin"}, arg : BOOLEAN]

ShellTypeCorrect ==
    /\ hotkey \in {"collapsed", "prompt"} /\ applied \in Shells
    /\ native \in [active : Shells, frame : Shells, pinned : BOOLEAN, focused : BOOLEAN]
    /\ calls \in Seq(NativeCalls)

\* A request is among the calls s, and the last one there asks for t.
Asks(s) == \E i \in DOMAIN s : s[i].call = "request"
LastAsks(s, t) ==
    \A i \in DOMAIN s :
        s[i].call = "request" /\ (\A j \in DOMAIN s : j > i => s[j].call # "request")
        => s[i].arg = t

\* A commit of the state t is among the calls s.
WillCommit(s, t) == \E i \in DOMAIN s : s[i] = NativeCall("commit", t)

WindowFollows ==
    /\ LastAsks(calls, Target)
    /\ Asks(calls) \/ forced \/ native.active = Target
    /\ waiting \/ (applied = Target /\ ~Asks(calls))

FrameFollows == forced \/ waiting \/ due \/ native.frame = native.active
                \/ WillCommit(calls, applied)

DismissedIsLatched == gone \/ (latch /\ ~hover /\ timer = "off")

ShellInv == ShellTypeCorrect /\ WindowFollows /\ FrameFollows /\ DismissedIsLatched

\* The shell asked for is one of the four.
LEMMA TargetIsAShell == ShellTypeCorrect => Target \in Shells
  BY DEF ShellTypeCorrect, Shells, Target

\* A call that is not a request, told last, changes nothing of what is asked for.
LEMMA TellingAPin ==
    ASSUME NEW s \in Seq(NativeCalls), NEW c \in NativeCalls, c.call # "request"
    PROVE  /\ Append(s, c) \in Seq(NativeCalls)
           /\ Asks(Append(s, c)) <=> Asks(s)
           /\ \A t : LastAsks(s, t) => LastAsks(Append(s, c), t)
           /\ \A t : WillCommit(s, t) => WillCommit(Append(s, c), t)
  <1> DEFINE a == Append(s, c)
  <1>1. /\ a \in Seq(NativeCalls) /\ Len(a) = Len(s) + 1 /\ Len(s) \in Nat
        /\ \A i \in 1 .. Len(s) : a[i] = s[i]
        /\ a[Len(s) + 1] = c
        /\ DOMAIN s = 1 .. Len(s) /\ DOMAIN a = 1 .. Len(s) + 1
    OBVIOUS
  <1> HIDE DEF a
  <1>2. Asks(a) <=> Asks(s)
    BY <1>1 DEF Asks
  <1>3. ASSUME NEW t, LastAsks(s, t)  PROVE LastAsks(a, t)
    BY <1>1, <1>3 DEF LastAsks
  <1>4. ASSUME NEW t, WillCommit(s, t)  PROVE WillCommit(a, t)
    BY <1>1, <1>4 DEF WillCommit
  <1> QED BY <1>1, <1>2, <1>3, <1>4 DEF a

\* A request told last is the last one.
LEMMA TellingARequest ==
    ASSUME NEW s \in Seq(NativeCalls), NEW t \in Shells
    PROVE  /\ Append(s, NativeCall("request", t)) \in Seq(NativeCalls)
           /\ Asks(Append(s, NativeCall("request", t)))
           /\ LastAsks(Append(s, NativeCall("request", t)), t)
  <1> DEFINE c == NativeCall("request", t)
             a == Append(s, c)
  <1>1. c \in NativeCalls /\ c.call = "request" /\ c.arg = t
    BY DEF NativeCall, NativeCalls
  <1>2. /\ a \in Seq(NativeCalls) /\ Len(s) \in Nat
        /\ a[Len(s) + 1] = c /\ DOMAIN a = 1 .. Len(s) + 1
    BY <1>1
  <1> HIDE DEF a, c
  <1>3. Asks(a)
    BY <1>1, <1>2 DEF Asks
  <1>4. LastAsks(a, t)
    BY <1>1, <1>2 DEF LastAsks
  <1> QED BY <1>2, <1>3, <1>4 DEF a, c

\* A step with its effects leaves the window on its way to what is asked for now, if it
\* leaves the window alone or is the watchdog's.
LEMMA EffectsKeepTheWindow ==
    ASSUME ShellTypeCorrect, WindowFollows, FrameFollows, Effects,
           hotkey' \in {"collapsed", "prompt"},
           Pinned' \in BOOLEAN,
           native' \in [active : Shells, frame : Shells, pinned : BOOLEAN, focused : BOOLEAN],
           \/ forced'
           \/ /\ forced' = forced
              /\ native'.active = native.active /\ native'.frame = native.frame
    PROVE  ShellTypeCorrect' /\ WindowFollows' /\ FrameFollows'
  <1> DEFINE pin  == NativeCall("pin", Pinned')
             told == IF Pinned' # Pinned THEN Append(calls, pin) ELSE calls
  <1>0. Target' \in Shells /\ Target \in Shells
    BY TargetIsAShell DEF Target, Shells
  <1>1. /\ calls \in Seq(NativeCalls) /\ UNCHANGED <<applied, due>> /\ applied \in Shells
        /\ waiting' = (waiting \/ Target' # Target)
    BY DEF ShellTypeCorrect, Effects
  <1>2. /\ told \in Seq(NativeCalls)
        /\ Asks(told) <=> Asks(calls)
        /\ \A t : LastAsks(calls, t) => LastAsks(told, t)
        /\ \A t : WillCommit(calls, t) => WillCommit(told, t)
    <2>1. pin \in NativeCalls /\ pin.call # "request"
      BY DEF NativeCall, NativeCalls
    <2> QED BY <1>1, <2>1, TellingAPin
  <1>3. calls' = IF Target' # Target THEN Append(told, NativeCall("request", Target')) ELSE told
    <2> DEFINE asked == NativeCall("request", Target')
    <2>1. pin \in NativeCalls /\ asked \in NativeCalls
      BY <1>0 DEF NativeCall, NativeCalls
    <2>2. calls' = calls \o (IF Pinned' # Pinned THEN <<pin>> ELSE <<>>)
                         \o (IF Target' # Target THEN <<asked>> ELSE <<>>)
      BY DEF Effects
    <2> HIDE DEF asked, pin
    <2>3. told = calls \o (IF Pinned' # Pinned THEN <<pin>> ELSE <<>>)
      <3>1. CASE Pinned' # Pinned
        BY <1>1, <2>1, <3>1
      <3>2. CASE Pinned' = Pinned
        BY <1>1, <3>2
      <3> QED BY <3>1, <3>2
    <2> HIDE DEF told
    <2>4. calls' = told \o (IF Target' # Target THEN <<asked>> ELSE <<>>)
      BY <2>2, <2>3
    <2> QED BY <1>2, <2>1, <2>4 DEF asked
  <1> HIDE DEF told, pin
  <1>4. CASE Target' # Target
    <2>1. /\ calls' \in Seq(NativeCalls) /\ Asks(calls') /\ LastAsks(calls', Target')
      BY <1>0, <1>2, <1>3, <1>4, TellingARequest
    <2>2. waiting'
      BY <1>1, <1>4
    <2> QED BY <1>1, <2>1, <2>2 DEF ShellTypeCorrect, WindowFollows, FrameFollows
  <1>5. CASE Target' = Target
    <2>1. calls' = told /\ (waiting' <=> waiting)
      BY <1>1, <1>3, <1>5
    <2>2. /\ LastAsks(calls', Target')
          /\ waiting' \/ (applied' = Target' /\ ~Asks(calls'))
          /\ Asks(calls') \/ forced' \/ native'.active = Target'
      BY <1>1, <1>2, <1>5, <2>1 DEF WindowFollows
    <2>3. FrameFollows'
      BY <1>1, <1>2, <2>1 DEF FrameFollows
    <2> QED BY <1>1, <1>2, <2>1, <2>2, <2>3 DEF ShellTypeCorrect, WindowFollows
  <1> QED BY <1>4, <1>5

\* A call that is served: what is left, and what it was.
LEMMA ServingACall ==
    ASSUME NEW s \in Seq(NativeCalls), s # <<>>
    PROVE  /\ Tail(s) \in Seq(NativeCalls) /\ Head(s) \in NativeCalls
           /\ \A t : LastAsks(s, t) => LastAsks(Tail(s), t)
           /\ Asks(Tail(s)) => Asks(s)
           /\ Asks(s) => Asks(Tail(s)) \/ Head(s).call = "request"
           /\ \A t : LastAsks(s, t) /\ Head(s).call = "request" /\ ~Asks(Tail(s))
                     => Head(s).arg = t
           /\ \A t : WillCommit(s, t) => WillCommit(Tail(s), t) \/ Head(s) = NativeCall("commit", t)
  <1> DEFINE rest == Tail(s)
             c == Head(s)
  <1>1. /\ rest \in Seq(NativeCalls) /\ c \in NativeCalls /\ c = s[1]
        /\ Len(s) \in Nat \ {0} /\ DOMAIN s = 1 .. Len(s) /\ DOMAIN rest = 1 .. Len(s) - 1
        /\ \A i \in 1 .. Len(s) - 1 : rest[i] = s[i + 1]
    OBVIOUS
  <1> HIDE DEF rest, c
  <1>2. /\ \A i \in DOMAIN s : i > 1 => i - 1 \in DOMAIN rest /\ rest[i - 1] = s[i]
        /\ 1 \in DOMAIN s /\ \A i \in DOMAIN s : i # 1 => i > 1
    BY <1>1
  <1>3. ASSUME NEW t, LastAsks(s, t)  PROVE LastAsks(rest, t)
    <2> SUFFICES ASSUME NEW i \in DOMAIN rest, rest[i].call = "request",
                        \A j \in DOMAIN rest : j > i => rest[j].call # "request"
                 PROVE  rest[i].arg = t
      BY DEF LastAsks
    <2>1. i + 1 \in DOMAIN s /\ s[i + 1].call = "request"
      BY <1>1
    <2>2. ASSUME NEW j \in DOMAIN s, j > i + 1  PROVE s[j].call # "request"
      <3>1. j \in Nat /\ i \in Nat /\ j - 1 > i /\ j > 1
        BY <1>1, <2>2
      <3> QED BY <1>2, <2>2, <3>1
    <2> QED BY <1>1, <1>3, <2>1, <2>2 DEF LastAsks
  <1>4. Asks(rest) => Asks(s)
    BY <1>1 DEF Asks
  <1>5. ASSUME Asks(s)  PROVE Asks(rest) \/ c.call = "request"
    <2>1. PICK i \in DOMAIN s : s[i].call = "request"
      BY <1>5 DEF Asks
    <2> QED BY <1>1, <1>2, <2>1 DEF Asks
  <1>6. ASSUME NEW t, LastAsks(s, t), c.call = "request", ~Asks(rest)  PROVE c.arg = t
    <2>1. \A j \in DOMAIN s : j > 1 => s[j].call # "request"
      BY <1>1, <1>2, <1>6 DEF Asks
    <2> QED BY <1>1, <1>6, <2>1 DEF LastAsks
  <1>7. ASSUME NEW t, WillCommit(s, t)  PROVE WillCommit(rest, t) \/ c = NativeCall("commit", t)
    BY <1>1, <1>2, <1>7 DEF WillCommit
  <1> QED BY <1>1, <1>3, <1>4, <1>5, <1>6, <1>7 DEF rest, c

\* The effects of a step of the sources, which leaves the window alone.
LEMMA SourcesStep ==
    ASSUME ShellInv, Effects,
           hotkey' \in {"collapsed", "prompt"},
           native' = [native EXCEPT !.focused = native'.focused],
           native'.focused \in BOOLEAN, forced' = forced,
           DismissedIsLatched'
    PROVE  ShellInv'
  <1>1. /\ native' \in [active : Shells, frame : Shells, pinned : BOOLEAN, focused : BOOLEAN]
        /\ native'.active = native.active /\ native'.frame = native.frame
    BY DEF ShellInv, ShellTypeCorrect
  <1>2. Pinned' \in BOOLEAN
    BY DEF Pinned
  <1>3. ShellTypeCorrect' /\ WindowFollows' /\ FrameFollows'
    BY <1>1, <1>2, EffectsKeepTheWindow DEF ShellInv
  <1> QED BY <1>3 DEF ShellInv

LEMMA ShellStep == ShellInv /\ [ShellNext]_shellVars => ShellInv'
  <1> SUFFICES ASSUME ShellInv, [ShellNext]_shellVars  PROVE ShellInv'
    OBVIOUS
  <1> USE DEF ShellInv
  <1>0. ASSUME native' = native
        PROVE  /\ native' = [native EXCEPT !.focused = native'.focused]
               /\ native'.focused \in BOOLEAN
    BY <1>0 DEF ShellTypeCorrect
  <1>1. ASSUME Effects, native' = native, forced' = forced,
               hotkey' \in {"collapsed", "prompt"}, DismissedIsLatched'
        PROVE  ShellInv'
    BY <1>0, <1>1, SourcesStep
  <1> DEFINE Simple == /\ Effects /\ native' = native /\ forced' = forced
                       /\ hotkey' \in {"collapsed", "prompt"} /\ DismissedIsLatched'
  <1>2. CASE TimerFires
    <2>1. Simple BY <1>2 DEF TimerFires, Native, ShellTypeCorrect, DismissedIsLatched
    <2> QED BY <1>1, <2>1
  <1>3. CASE Taps
    <2>1. Simple BY <1>3 DEF Taps, releaseHover, Native, DismissedIsLatched
    <2> QED BY <1>1, <2>1
  <1>4. CASE ClosesPanel
    <2>1. Simple BY <1>4 DEF ClosesPanel, dismiss, releaseHover, Native, DismissedIsLatched
    <2> QED BY <1>1, <2>1
  <1>5. CASE Blurs
    <2>1. /\ Effects /\ forced' = forced /\ hotkey' \in {"collapsed", "prompt"}
      BY <1>5 DEF Blurs, dismiss, ShellTypeCorrect
    <2>2. /\ native' = [native EXCEPT !.focused = native'.focused]
          /\ native'.focused \in BOOLEAN
      BY <1>5 DEF Blurs, ShellTypeCorrect
    <2>3. DismissedIsLatched'
      BY <1>5 DEF Blurs, dismiss, releaseHover, DismissedIsLatched
    <2> QED BY <2>1, <2>2, <2>3, SourcesStep
  <1>6. CASE HoldsPanel
    <2>1. Simple BY <1>6 DEF HoldsPanel, Native, ShellTypeCorrect, DismissedIsLatched
    <2> QED BY <1>1, <2>1
  <1>7. ASSUME NEW c \in Cursors, Moves(c)  PROVE ShellInv'
    <2>1. DismissedIsLatched'
      BY <1>7 DEF Moves, HoverEdge, DismissedIsLatched
    <2>2. Simple BY <1>7, <2>1 DEF Moves, ShellTypeCorrect
    <2> QED BY <1>1, <2>2
  <1>8. ASSUME NEW c \in Cursors, MovesUnseen(c)  PROVE ShellInv'
    BY <1>8 DEF MovesUnseen, shellSources, ShellTypeCorrect, WindowFollows, FrameFollows,
                DismissedIsLatched, Target, Pinned
  <1>9. ASSUME NEW v, VoiceTurn(v)  PROVE ShellInv'
    <2>1. Simple BY <1>9 DEF VoiceTurn, Native, ShellTypeCorrect, DismissedIsLatched
    <2> QED BY <1>1, <2>1
  <1>10. CASE CardAppears
    <2>1. Simple BY <1>10 DEF CardAppears, Native, ShellTypeCorrect, DismissedIsLatched
    <2> QED BY <1>1, <2>1
  <1>11. ASSUME NEW to, CardMovesOn(to)  PROVE ShellInv'
    <2>1. Simple BY <1>11 DEF CardMovesOn, Native, ShellTypeCorrect, DismissedIsLatched
    <2> QED BY <1>1, <2>1
  <1>12. CASE Escapes
    <2>1. DismissedIsLatched'
      BY <1>12 DEF Escapes, dismiss, releaseHover, DismissedIsLatched
    <2>2. Simple BY <1>12, <2>1 DEF Escapes, dismiss, Native, ShellTypeCorrect
    <2> QED BY <1>1, <2>2
  <1>13. CASE PressesDeny
    <2>1. Simple BY <1>13 DEF PressesDeny, Native, ShellTypeCorrect, DismissedIsLatched
    <2> QED BY <1>1, <2>1
  <1>14. CASE Serves
    <2> DEFINE c == Head(calls)
    <2>0. /\ calls \in Seq(NativeCalls) /\ calls # <<>> /\ calls' = Tail(calls)
          /\ forced' = (forced /\ c.call # "request")
          /\ UNCHANGED <<shellSources, applied, waiting, due, gone>>
      BY <1>14 DEF Serves, ShellTypeCorrect
    <2>1. Target' = Target /\ DismissedIsLatched' /\ hotkey' = hotkey
      BY <2>0 DEF shellSources, Target, Pinned, DismissedIsLatched
    <2>2. /\ calls' \in Seq(NativeCalls) /\ c \in NativeCalls
          /\ LastAsks(calls', Target) /\ (Asks(calls') => Asks(calls))
          /\ Asks(calls) => Asks(calls') \/ c.call = "request"
          /\ c.call = "request" /\ ~Asks(calls') => c.arg = Target
          /\ WillCommit(calls, applied)
             => WillCommit(calls', applied) \/ c = NativeCall("commit", applied)
      BY <2>0, ServingACall DEF WindowFollows
    <2>3. /\ c.call = "request" => Asks(calls)
      BY <2>0 DEF Asks
    <2>4. CASE c.call = "request"
      <3>1. c.arg \in Shells
        BY <2>2, <2>4 DEF NativeCalls
      <3>2. native' = [native EXCEPT !.active = c.arg, !.frame = grow_union(@, c.arg),
                                     !.focused = c.arg = "prompt"]
        BY <1>14, <2>4 DEF Serves, shell_request_state
      <3>3. grow_union(native.frame, c.arg) \in Shells
        BY <3>1 DEF grow_union, ShellTypeCorrect
      <3>4. ShellTypeCorrect'
        BY <2>0, <2>1, <2>2, <3>1, <3>2, <3>3 DEF ShellTypeCorrect
      <3>5. native'.active = c.arg
        BY <3>2 DEF ShellTypeCorrect
      <3>6. WindowFollows'
        BY <2>0, <2>1, <2>2, <2>4, <3>5 DEF WindowFollows
      <3>7. FrameFollows'
        BY <2>0, <2>3, <2>4 DEF FrameFollows, WindowFollows
      <3> QED BY <2>1, <3>4, <3>6, <3>7
    <2>5. CASE c.call = "commit"
      <3>1. c.arg \in Shells
        BY <2>2, <2>5 DEF NativeCalls
      <3>2. native' = [native EXCEPT !.frame = IF native.active = c.arg THEN c.arg ELSE @]
        BY <1>14, <2>5 DEF Serves, shell_commit_state
      <3>3. ShellTypeCorrect'
        BY <2>0, <2>1, <2>2, <3>1, <3>2 DEF ShellTypeCorrect
      <3>4. /\ native'.active = native.active
            /\ native'.frame = IF native.active = c.arg THEN c.arg ELSE native.frame
        BY <3>2 DEF ShellTypeCorrect
      <3>5. WindowFollows'
        BY <2>0, <2>1, <2>2, <2>5, <3>4 DEF WindowFollows
      <3>6. ASSUME c = NativeCall("commit", applied), ~forced, ~waiting
            PROVE  native'.frame = native'.active
        <4>1. c.arg = applied
          BY <3>6 DEF NativeCall
        <4>2. native.active = applied
          BY <3>6 DEF WindowFollows
        <4> QED BY <3>4, <4>1, <4>2
      <3>7. FrameFollows'
        BY <2>0, <2>2, <2>5, <3>4, <3>6 DEF FrameFollows
      <3> QED BY <2>1, <3>3, <3>5, <3>7
    <2>6. CASE c.call = "pin"
      <3>1. c.arg \in BOOLEAN
        BY <2>2, <2>6 DEF NativeCalls
      <3>2. native' = [native EXCEPT !.pinned = c.arg]
        BY <1>14, <2>6 DEF Serves
      <3>3. ShellTypeCorrect'
        BY <2>0, <2>1, <2>2, <3>1, <3>2 DEF ShellTypeCorrect
      <3>4. native'.active = native.active /\ native'.frame = native.frame
        BY <3>2 DEF ShellTypeCorrect
      <3>5. WindowFollows'
        BY <2>0, <2>1, <2>2, <2>6, <3>4 DEF WindowFollows
      <3>6. c # NativeCall("commit", applied)
        BY <2>6 DEF NativeCall
      <3>7. FrameFollows'
        BY <2>0, <2>2, <2>6, <3>4, <3>6 DEF FrameFollows
      <3> QED BY <2>1, <3>3, <3>5, <3>7
    <2>7. c.call \in {"request", "commit", "pin"}
      BY <2>2 DEF NativeCalls
    <2> QED BY <2>4, <2>5, <2>6, <2>7
  <1>15. CASE Applies
    <2>1. /\ applied' = Target /\ ~waiting' /\ due' /\ ~Asks(calls)
          /\ UNCHANGED <<calls, native, forced, gone, hover, timer, latch, hotkey>>
          /\ Target' = Target
      BY <1>15 DEF Applies, Native, shellSources, Asks, Target, Pinned
    <2>2. Target \in Shells
      BY TargetIsAShell
    <2>3. ShellTypeCorrect'
      BY <2>1, <2>2 DEF ShellTypeCorrect
    <2>4. WindowFollows'
      BY <2>1 DEF WindowFollows
    <2> QED BY <2>1, <2>3, <2>4 DEF FrameFollows, DismissedIsLatched
  <1>16. CASE Commits
    <2> DEFINE c == NativeCall("commit", applied)
    <2>1. /\ calls' = Append(calls, c)
          /\ UNCHANGED <<applied, waiting, native, forced, gone, hover, timer, latch, hotkey>>
          /\ Target' = Target
      BY <1>16 DEF Commits, Native, shellSources, Target, Pinned
    <2>2. c \in NativeCalls /\ c.call # "request" /\ calls \in Seq(NativeCalls)
      BY DEF NativeCall, NativeCalls, ShellTypeCorrect
    <2> HIDE DEF c
    <2>3. /\ calls' \in Seq(NativeCalls) /\ (Asks(calls') <=> Asks(calls))
          /\ LastAsks(calls', Target)
      BY <2>1, <2>2, TellingAPin DEF WindowFollows
    <2>4. WillCommit(calls', applied')
      <3>1. Len(calls) + 1 \in DOMAIN calls' /\ calls'[Len(calls) + 1] = c
        BY <2>1, <2>2
      <3> QED BY <2>1, <3>1 DEF WillCommit, c
    <2>5. ShellTypeCorrect'
      BY <2>1, <2>3 DEF ShellTypeCorrect
    <2>6. WindowFollows'
      BY <2>1, <2>3 DEF WindowFollows
    <2> QED BY <2>1, <2>4, <2>5, <2>6 DEF FrameFollows, DismissedIsLatched
  <1>17. CASE shell_request_keyboard
    <2>1. /\ UNCHANGED <<calls, applied, waiting, due, forced, gone, hover, timer, latch, hotkey>>
          /\ Target' = Target
      BY <1>17 DEF shell_request_keyboard, shellSources, Target, Pinned
    <2>2. /\ native' \in [active : Shells, frame : Shells, pinned : BOOLEAN, focused : BOOLEAN]
          /\ native'.active = native.active /\ native'.frame = native.frame
      BY <1>17 DEF shell_request_keyboard, ShellTypeCorrect
    <2>3. ShellTypeCorrect'
      BY <2>1, <2>2 DEF ShellTypeCorrect
    <2>4. WindowFollows'
      BY <2>1, <2>2 DEF WindowFollows
    <2> QED BY <2>1, <2>2, <2>3, <2>4 DEF FrameFollows, DismissedIsLatched
  <1>18. CASE ForcesCollapse
    <2>1. /\ Effects /\ forced' /\ gone' /\ hotkey' \in {"collapsed", "prompt"}
      BY <1>18 DEF ForcesCollapse, ShellTypeCorrect
    <2>2. native' \in [active : Shells, frame : Shells, pinned : BOOLEAN, focused : BOOLEAN]
      BY <1>18 DEF ForcesCollapse, Shells
    <2>3. Pinned' \in BOOLEAN
      BY DEF Pinned
    <2>4. ShellTypeCorrect' /\ WindowFollows' /\ FrameFollows'
      BY <2>1, <2>2, <2>3, EffectsKeepTheWindow
    <2> QED BY <2>1, <2>4 DEF DismissedIsLatched
  <1>19. CASE UNCHANGED shellVars
    BY <1>19 DEF shellVars, shellSources, ShellTypeCorrect, WindowFollows, FrameFollows,
                 DismissedIsLatched, Target, Pinned
  <1> QED
    BY <1>2, <1>3, <1>4, <1>5, <1>6, <1>7, <1>8, <1>9, <1>10, <1>11, <1>12, <1>13, <1>14,
       <1>15, <1>16, <1>17, <1>18, <1>19 DEF ShellNext

\* The shell starts as the resting one, with nothing on its way.
LEMMA ShellStarts == ShellInit => ShellInv
  BY DEF ShellInit, ShellInv, ShellTypeCorrect, Shells, WindowFollows, FrameFollows,
         DismissedIsLatched, LastAsks, Asks, Target, Pinned

\* What is known of the shell and its window holds in every state, however many calls are
\* under way and in whatever order they, the timers, the cursor and the watchdog come.
THEOREM ShellInvariant == ShellSpec => []ShellInv
  BY ShellStarts, ShellStep, PTL DEF ShellSpec

\* When nothing is under way the window is in the state that is on screen and no larger,
\* and a dismissed shell does not open again by hovering before the cursor has left
\* (notch.rs:1404-1442, useShellState.ts:124-144).
THEOREM TheShellSettles == ShellSpec => []ShellIsSettled
  <1>1. ShellInv => ShellIsSettled
    <2> SUFFICES ASSUME ShellInv  PROVE ShellIsSettled
      OBVIOUS
    <2>1. DismissedStaysClosed
      BY DEF ShellInv, DismissedIsLatched, DismissedStaysClosed
    <2>2. ASSUME calls = <<>>  PROVE ~Asks(calls) /\ ~WillCommit(calls, applied)
      BY <2>2 DEF Asks, WillCommit
    <2>3. WindowMatches
      BY <2>2 DEF ShellInv, WindowFollows, FrameFollows, WindowMatches, ShellIsQuiet
    <2> QED BY <2>1, <2>3 DEF ShellIsSettled
  <1> QED BY <1>1, ShellInvariant, PTL

-----------------------------------------------------------------------------
(* Setting up automatic payments.                                           *)

Kinds    == {"approve", "set_rule", "set_executor", "revoke_executor", "set_alias"}
Planned  == {"numbering", "asking", "signing", "submitted", "landed"}
Unplanned == {"idle", "executor", "reading", "done", "failed", "unsupported"}
SetRules == [auto_approve_limit : Nat, per_tx_limit : Nat, daily_limit : Nat,
             known_recipients_only : BOOLEAN]
Guards   == [rule : SetRules \cup {NotSet}, executor : {NotSet, "agent"}, allowance : Nat,
             book : Nat, ruleBy : Setups \cup {NotSet}, armedBy : Setups \cup {NotSet},
             fundedBy : Setups \cup {NotSet}]
SetupPlans ==
    [at : Planned \cup Unplanned, ask : Proposals \cup {NotSet}, steps : Seq(Kinds),
     told : SUBSET Kinds, base : Nat, next : Nat \ {0}, consented : BOOLEAN]
Afloats  == [setup : Setups, kind : Kinds, ask : Proposals, number : Nat]

\* Proposals name a mode and natural limits, and the contacts are finitely many.
SetupConstants ==
    /\ Proposals \subseteq [mode : {"always_ask", "auto_under_limit"}, limit : Nat, perTx : Nat,
                            daily : Nat, known : BOOLEAN]
    /\ IsFiniteSet(Contacts) /\ Largest \in Nat

SetupTyped ==
    /\ guardOf \in Guards
    /\ sequence \in [last : Nat, others : Nat]
    /\ setup \in [Setups -> SetupPlans]
    /\ afloat \subseteq Afloats

\* A plan says what it does, arms last, and does nothing after it disarms.
PlanIsOrdered(steps, told) ==
    \A i \in DOMAIN steps :
        /\ steps[i] \in told
        /\ steps[i] = "revoke_executor" => i = Len(steps)
        /\ steps[i] = "set_executor" =>
              \E j, k \in 1 .. i - 1 : steps[j] = "approve" /\ steps[k] = "set_rule"

KeepsAPlan(plan) ==
    /\ plan.at \in Planned =>
          plan.ask \in Proposals /\ plan.next \in DOMAIN plan.steps
          /\ PlanIsOrdered(plan.steps, plan.told)
    /\ plan.at \in Unplanned => plan.steps = <<>>
    /\ plan.at \in {"idle", "executor", "reading", "numbering", "asking"} => plan.next = 1
    /\ plan.at \in {"executor", "reading"} => plan.ask \in Proposals

\* What the first steps of a plan do to the rule and the allowance is in force.
InForce(s, steps, n) ==
    \A i \in 1 .. n : /\ steps[i] = "approve" => guardOf.fundedBy = s
                      /\ steps[i] = "set_rule" => guardOf.ruleBy = s

\* No number is ahead of the account by more than one; and where nothing came in between,
\* the consent stands and the steps before are in force.
NumbersAreSpent(s, plan) ==
    /\ plan.at = "asking" => plan.base <= sequence.last
    /\ plan.at \in {"signing", "submitted"} =>
          /\ plan.base + plan.next <= sequence.last + 1
          /\ plan.base + plan.next = sequence.last + 1 =>
                plan.consented /\ InForce(s, plan.steps, plan.next - 1)
    /\ plan.at = "landed" =>
          /\ plan.base + plan.next <= sequence.last
          /\ plan.base + plan.next = sequence.last /\ plan.next # Len(plan.steps) =>
                plan.consented /\ InForce(s, plan.steps, plan.next)

\* A transaction afloat is the present step of the setup that waits for it, or what a setup
\* that gave up has left; one that may still land has its consent and what must precede it.
FloatsRightly(tx, plan) ==
    /\ plan.at \in {"submitted", "failed"}
    /\ plan.at = "submitted" =>
          /\ tx.number = plan.base + plan.next /\ tx.ask = plan.ask
          /\ tx.kind = plan.steps[plan.next]
    /\ tx.number <= sequence.last + 1
    /\ tx.number = sequence.last + 1 =>
          /\ plan.consented
          /\ tx.kind = "set_executor" =>
                guardOf.fundedBy = tx.setup /\ guardOf.ruleBy = tx.setup

SetupInv ==
    /\ SetupTyped
    /\ \A s \in Setups : KeepsAPlan(setup[s]) /\ NumbersAreSpent(s, setup[s])
    /\ \A tx \in afloat : FloatsRightly(tx, setup[tx.setup])
    /\ guardOf.executor # NotSet => guardOf.armedBy \in Setups /\ setup[guardOf.armedBy].consented

LEMMA NoPlanIsAPlan ==
    NoPlan \in SetupPlans /\ NoPlan.at = "idle" /\ NoPlan.steps = <<>> /\ NoPlan.next = 1
<1>1. <<>> \in Seq(Kinds)
  OBVIOUS
<1> QED
  BY <1>1 DEF NoPlan, SetupPlans, Planned, Unplanned

LEMMA SetupBegins == SetupInit => SetupInv
<1> SUFFICES ASSUME SetupInit  PROVE SetupInv
  OBVIOUS
<1>2. NoPlan \in SetupPlans /\ NoPlan.at = "idle" /\ NoPlan.steps = <<>> /\ NoPlan.next = 1
  BY NoPlanIsAPlan
<1>3. NoOne \in Guards
  BY DEF NoOne, Guards
<1> QED
  BY <1>2, <1>3 DEF SetupInit, SetupInv, SetupTyped, KeepsAPlan, NumbersAreSpent, NoOne,
     Planned, Unplanned

\* A setup takes a step of its own.
LEMMA SetupGoesOn ==
    ASSUME SetupInv, NEW s \in Setups, NEW new \in SetupPlans, setup' = [setup EXCEPT ![s] = new],
           UNCHANGED <<guardOf, sequence, afloat>>,
           KeepsAPlan(new), NumbersAreSpent(s, new), setup[s].consented => new.consented,
           \/ setup[s].at \notin {"submitted", "failed"}
           \/ setup[s].at = "submitted" /\ new.at = "failed"
    PROVE  SetupInv'
<1>1. /\ setup' \in [Setups -> SetupPlans] /\ setup'[s] = new
      /\ \A u \in Setups \ {s} : setup'[u] = setup[u]
      /\ \A u \in Setups : setup[u].consented => setup'[u].consented
  BY DEF SetupInv, SetupTyped
<1>2. ASSUME NEW u \in Setups  PROVE NumbersAreSpent(u, setup[u])' /\ KeepsAPlan(setup[u])'
  <2>1. NumbersAreSpent(u, setup'[u]) /\ KeepsAPlan(setup'[u])
    BY <1>1 DEF SetupInv
  <2> QED
    BY <2>1 DEF NumbersAreSpent, InForce, KeepsAPlan
<1>3. ASSUME NEW tx \in afloat  PROVE FloatsRightly(tx, setup[tx.setup])'
  <2>1. tx.setup \in Setups /\ FloatsRightly(tx, setup[tx.setup])
    BY DEF SetupInv, SetupTyped, Afloats
  <2>2. CASE tx.setup # s
    BY <1>1, <2>1, <2>2 DEF FloatsRightly
  <2>3. CASE tx.setup = s
    BY <1>1, <2>1, <2>3 DEF FloatsRightly
  <2> QED
    BY <2>2, <2>3
<1> QED
  BY <1>1, <1>2, <1>3 DEF SetupInv, SetupTyped

LEMMA Concluding ==
    ASSUME SetupInv, NEW s \in Setups, NEW how \in {"done", "failed", "unsupported"},
           Concludes(s, how), UNCHANGED <<guardOf, sequence, afloat>>,
           \/ setup[s].at \notin {"submitted", "failed"}
           \/ setup[s].at = "submitted" /\ how = "failed"
    PROVE  SetupInv'
<1> DEFINE new == [NoPlan EXCEPT !.at = how, !.consented = setup[s].consented]
<1>1. setup[s].consented \in BOOLEAN
  BY DEF SetupInv, SetupTyped, SetupPlans
<1>2. /\ new \in SetupPlans /\ new.at = how /\ new.steps = <<>>
      /\ new.consented = setup[s].consented /\ how \in Unplanned
  BY <1>1, NoPlanIsAPlan DEF SetupPlans, Planned, Unplanned
<1>3. setup' = [setup EXCEPT ![s] = new]
  BY DEF Concludes
<1> HIDE DEF new
<1>4. KeepsAPlan(new) /\ NumbersAreSpent(s, new)
  BY <1>2 DEF KeepsAPlan, NumbersAreSpent, Planned, Unplanned
<1> QED
  BY <1>2, <1>3, <1>4, SetupGoesOn

LEMMA Proposing ==
    ASSUME SetupConstants, SetupInv, NEW s \in Setups, NEW p \in Proposals, Proposes(s, p)
    PROVE  SetupInv'
<1> DEFINE new == [setup[s] EXCEPT !.at = "executor", !.ask = p]
<1>1. setup[s] \in SetupPlans /\ setup[s].at = "idle" /\ KeepsAPlan(setup[s])
  BY DEF Proposes, SetupInv, SetupTyped
<1>2. /\ new \in SetupPlans /\ new.at = "executor" /\ new.ask = p
      /\ new.steps = setup[s].steps /\ new.next = setup[s].next
      /\ new.consented = setup[s].consented
  BY <1>1 DEF SetupPlans, Planned, Unplanned
<1>3. setup' = [setup EXCEPT ![s] = new] /\ UNCHANGED <<guardOf, sequence, afloat>>
  BY DEF Proposes, SetupInv, SetupTyped
<1> HIDE DEF new
<1>4. KeepsAPlan(new) /\ NumbersAreSpent(s, new)
  BY <1>1, <1>2 DEF KeepsAPlan, NumbersAreSpent, Planned, Unplanned
<1> QED
  BY <1>1, <1>2, <1>3, <1>4, SetupGoesOn

LEMMA MakingAKey ==
    ASSUME SetupInv, NEW s \in Setups, MakesKey(s)
    PROVE  SetupInv'
<1> DEFINE new == [setup[s] EXCEPT !.at = "reading"]
<1>1. setup[s] \in SetupPlans /\ setup[s].at = "executor" /\ KeepsAPlan(setup[s])
  BY DEF MakesKey, SetupInv, SetupTyped
<1>2. /\ new \in SetupPlans /\ new.at = "reading" /\ new.ask = setup[s].ask
      /\ new.steps = setup[s].steps /\ new.next = setup[s].next
      /\ new.consented = setup[s].consented
  BY <1>1 DEF SetupPlans, Planned, Unplanned
<1>3. setup' = [setup EXCEPT ![s] = new] /\ UNCHANGED <<guardOf, sequence, afloat>>
  BY <1>1 DEF MakesKey, Advances, SetupInv, SetupTyped
<1> HIDE DEF new
<1>4. KeepsAPlan(new) /\ NumbersAreSpent(s, new)
  BY <1>1, <1>2 DEF KeepsAPlan, NumbersAreSpent, Planned, Unplanned
<1> QED
  BY <1>1, <1>2, <1>3, <1>4, SetupGoesOn

\* Whatever is built does only what was read back, arms last and disarms alone.
LEMMA PlansAreOrdered ==
    ASSUME SetupConstants, NEW p \in Proposals, NEW state, NEW known \in SUBSET Contacts,
           NEW plan, plan = buildSetupSteps(p, state, known)
    PROVE  /\ plan.steps \in Seq(Kinds)
           /\ PlanIsOrdered(plan.steps, PlanKinds(p, known))
           /\ PlanKinds(p, known) \in SUBSET Kinds
<1> DEFINE r == PlanLimits(p)
           built == IF isArmed(state) THEN planTighten(r, state) ELSE planEnable(r, "agent")
           aliases == IF p.known THEN planSetAliases(known) ELSE <<>>
           told == PlanKinds(p, known)
<1>1. PlanKinds(p, known) \in SUBSET Kinds
  BY DEF PlanKinds, Kinds
<1>2. CASE p.mode = "always_ask"
  <2>1. plan.steps = <<"revoke_executor">> /\ told = {"revoke_executor"}
    BY <1>2 DEF buildSetupSteps, planDisable, buildDisableAutoPay, PlanKinds
  <2> QED
    BY <1>1, <2>1 DEF PlanIsOrdered, Kinds
<1>3. CASE p.mode # "always_ask"
  <2>1. plan.steps = built.steps \o aliases
    BY <1>3 DEF buildSetupSteps
  <2>2. /\ {"approve", "set_rule", "set_executor"} \subseteq told
        /\ p.known /\ known # {} => "set_alias" \in told
    BY <1>3 DEF PlanKinds
  <2>3. \/ built.steps = <<>>
        \/ built.steps = <<"set_rule">>
        \/ built.steps = <<"approve", "set_rule", "set_executor">>
    BY DEF planTighten, planEnable, buildTightenRule, buildEnableAutoPay
  <2>4. /\ aliases \in Seq({"set_alias"})
        /\ aliases # <<>> => "set_alias" \in told
    <3>1. Cardinality(known) \in Nat /\ (known = {} => Cardinality(known) = 0)
      BY FS_Subset, FS_CardinalityType, FS_EmptySet DEF SetupConstants
    <3>2. planSetAliases(known) \in Seq({"set_alias"})
      BY <3>1 DEF planSetAliases
    <3>3. known = {} => planSetAliases(known) = <<>>
      BY <3>1 DEF planSetAliases
    <3> QED
      BY <2>2, <3>2, <3>3
  <2> HIDE DEF built, aliases, told
  <2>5. built.steps \in Seq(Kinds) /\ aliases \in Seq(Kinds)
    <3>1. /\ <<>> \in Seq(Kinds) /\ <<"set_rule">> \in Seq(Kinds)
          /\ <<"approve", "set_rule", "set_executor">> \in Seq(Kinds)
      BY DEF Kinds
    <3>2. Seq({"set_alias"}) \subseteq Seq(Kinds)
      BY DEF Kinds
    <3> QED
      BY <2>3, <2>4, <3>1, <3>2
  <2>6. \A i \in DOMAIN plan.steps :
           \/ i \in DOMAIN built.steps /\ plan.steps[i] = built.steps[i]
           \/ plan.steps[i] = "set_alias" /\ aliases # <<>>
    BY <2>1, <2>4, <2>5
  <2>7. \A j \in DOMAIN built.steps : plan.steps[j] = built.steps[j]
    BY <2>1, <2>5
  <2>8. PlanIsOrdered(plan.steps, told)
    <3>1. CASE built.steps = <<>> \/ built.steps = <<"set_rule">>
      BY <2>2, <2>4, <2>6, <3>1 DEF PlanIsOrdered
    <3>2. CASE built.steps = <<"approve", "set_rule", "set_executor">>
      <4>1. plan.steps[1] = "approve" /\ plan.steps[2] = "set_rule"
        BY <2>7, <3>2
      <4>2. \A i \in DOMAIN plan.steps :
               /\ plan.steps[i] \in told /\ plan.steps[i] # "revoke_executor"
               /\ plan.steps[i] = "set_executor" => i = 3
        BY <2>2, <2>4, <2>6, <3>2
      <4>3. 1 \in 1 .. 3 - 1 /\ 2 \in 1 .. 3 - 1
        OBVIOUS
      <4> QED
        BY <4>1, <4>2, <4>3 DEF PlanIsOrdered
    <3> QED
      BY <2>3, <3>1, <3>2
  <2> QED
    BY <1>1, <2>1, <2>5, <2>8 DEF told
<1> QED
  BY <1>2, <1>3

LEMMA ReadingTheGuard ==
    ASSUME SetupConstants, SetupInv, NEW s \in Setups, NEW known \in {Contacts, {}},
           ReadsGuard(s, known)
    PROVE  SetupInv'
<1> DEFINE p    == setup[s].ask
           plan == buildSetupSteps(p, guardOf, known)
           new  == [setup[s] EXCEPT !.at = "numbering", !.steps = plan.steps,
                                    !.told = PlanKinds(p, known)]
<1>1. /\ setup[s] \in SetupPlans /\ setup[s].at = "reading" /\ p \in Proposals
      /\ setup[s].next = 1 /\ UNCHANGED <<guardOf, sequence, afloat>>
  BY DEF ReadsGuard, SetupInv, SetupTyped, KeepsAPlan
<1>2. CASE ~ (plan.ok /\ plan.steps # <<>>)
  <2>1. Concludes(s, "failed")
    BY <1>2 DEF ReadsGuard
  <2> QED
    BY <1>1, <2>1, Concluding
<1>3. CASE plan.ok /\ plan.steps # <<>>
  <2>1. /\ plan.steps \in Seq(Kinds) /\ PlanIsOrdered(plan.steps, PlanKinds(p, known))
        /\ PlanKinds(p, known) \in SUBSET Kinds
    BY <1>1, PlansAreOrdered
  <2>2. setup' = [setup EXCEPT ![s] = new]
    BY <1>1, <1>3 DEF ReadsGuard, SetupInv, SetupTyped
  <2> HIDE DEF plan
  <2>3. /\ new \in SetupPlans /\ new.at = "numbering" /\ new.steps = plan.steps /\ new.ask = p
        /\ new.next = 1 /\ new.consented = setup[s].consented
        /\ new.told = PlanKinds(p, known)
    BY <1>1, <2>1 DEF SetupPlans, Planned
  <2> HIDE DEF new
  <2>4. 1 \in DOMAIN plan.steps
    BY <1>3, <2>1
  <2>5. KeepsAPlan(new) /\ NumbersAreSpent(s, new)
    BY <1>1, <2>1, <2>3, <2>4 DEF KeepsAPlan, NumbersAreSpent, Unplanned
  <2> QED
    BY <1>1, <2>2, <2>3, <2>5, SetupGoesOn
<1> QED
  BY <1>2, <1>3

LEMMA ReadingTheAccount ==
    ASSUME SetupInv, NEW s \in Setups, ReadsAccount(s)
    PROVE  SetupInv'
<1> DEFINE new == [setup[s] EXCEPT !.at = "asking", !.base = sequence.last]
<1>1. /\ setup[s] \in SetupPlans /\ setup[s].at = "numbering" /\ KeepsAPlan(setup[s])
      /\ sequence.last \in Nat /\ UNCHANGED <<guardOf, sequence, afloat>>
  BY DEF ReadsAccount, SetupInv, SetupTyped
<1>2. /\ new \in SetupPlans /\ new.at = "asking" /\ new.ask = setup[s].ask
      /\ new.steps = setup[s].steps /\ new.next = setup[s].next
      /\ new.told = setup[s].told /\ new.base = sequence.last
      /\ new.consented = setup[s].consented
  BY <1>1 DEF SetupPlans, Planned
<1>3. setup' = [setup EXCEPT ![s] = new]
  BY DEF ReadsAccount, SetupInv, SetupTyped
<1> HIDE DEF new
<1>4. KeepsAPlan(new) /\ NumbersAreSpent(s, new)
  BY <1>1, <1>2 DEF KeepsAPlan, NumbersAreSpent, Planned, Unplanned
<1> QED
  BY <1>1, <1>2, <1>3, <1>4, SetupGoesOn

LEMMA Consenting ==
    ASSUME SetupInv, NEW s \in Setups, Consents(s)
    PROVE  SetupInv'
<1> DEFINE new == [setup[s] EXCEPT !.at = "signing", !.consented = TRUE]
<1>1. /\ setup[s] \in SetupPlans /\ setup[s].at = "asking" /\ KeepsAPlan(setup[s])
      /\ setup[s].base <= sequence.last /\ setup[s].base \in Nat /\ sequence.last \in Nat
      /\ setup[s].next = 1 /\ UNCHANGED <<guardOf, sequence, afloat>>
  BY DEF Consents, SetupInv, SetupTyped, NumbersAreSpent, KeepsAPlan, SetupPlans
<1>2. /\ new \in SetupPlans /\ new.at = "signing" /\ new.ask = setup[s].ask
      /\ new.steps = setup[s].steps /\ new.next = 1 /\ new.consented
      /\ new.told = setup[s].told /\ new.base = setup[s].base
  BY <1>1 DEF SetupPlans, Planned
<1>3. setup' = [setup EXCEPT ![s] = new]
  BY DEF Consents, SetupInv, SetupTyped
<1> HIDE DEF new
<1>4. KeepsAPlan(new) /\ NumbersAreSpent(s, new)
  BY <1>1, <1>2 DEF KeepsAPlan, NumbersAreSpent, InForce, Planned, Unplanned
<1> QED
  BY <1>1, <1>2, <1>3, <1>4, SetupGoesOn

LEMMA HearingOfSuccess ==
    ASSUME SetupInv, NEW s \in Setups, HearsOfSuccess(s)
    PROVE  SetupInv'
<1> DEFINE old == setup[s]
           new == [old EXCEPT !.at = "signing", !.next = old.next + 1]
<1>1. /\ old \in SetupPlans /\ old.at = "landed" /\ KeepsAPlan(old) /\ NumbersAreSpent(s, old)
      /\ old.next \in Nat \ {0} /\ old.base \in Nat /\ old.steps \in Seq(Kinds)
      /\ sequence.last \in Nat /\ UNCHANGED <<guardOf, sequence, afloat>>
  BY DEF HearsOfSuccess, SetupInv, SetupTyped, SetupPlans
<1>2. CASE ~ (old.next < Len(old.steps))
  <2>1. Concludes(s, "done")
    BY <1>2 DEF HearsOfSuccess
  <2> QED
    BY <1>1, <2>1, Concluding
<1>3. CASE old.next < Len(old.steps)
  <2>1. setup' = [setup EXCEPT ![s] = new]
    BY <1>3 DEF HearsOfSuccess, SetupInv, SetupTyped
  <2> HIDE DEF old
  <2>2. /\ old.next + 1 \in Nat \ {0} /\ old.next + 1 \in DOMAIN old.steps
        /\ old.base + (old.next + 1) = (old.base + old.next) + 1 /\ (old.next + 1) - 1 = old.next
    BY <1>1, <1>3
  <2>3. /\ new \in SetupPlans /\ new.at = "signing" /\ new.ask = old.ask
        /\ new.steps = old.steps /\ new.next = old.next + 1 /\ new.consented = old.consented
        /\ new.told = old.told /\ new.base = old.base
    BY <1>1, <2>2 DEF SetupPlans, Planned
  <2> HIDE DEF new
  <2>4. KeepsAPlan(new)
    BY <1>1, <2>2, <2>3 DEF KeepsAPlan, Planned, Unplanned
  <2>5. NumbersAreSpent(s, new)
    BY <1>1, <1>3, <2>2, <2>3 DEF NumbersAreSpent
  <2> QED
    BY <1>1, <2>1, <2>3, <2>4, <2>5, SetupGoesOn DEF old
<1> QED
  BY <1>2, <1>3

\* The step handed over is the setup's only transaction under way.
LEMMA HandingOver ==
    ASSUME SetupInv, NEW s \in Setups, HandsStepOver(s)
    PROVE  SetupInv'
<1> DEFINE old == setup[s]
           new == [old EXCEPT !.at = "submitted"]
           mine == [setup |-> s, kind |-> old.steps[old.next], ask |-> old.ask,
                    number |-> old.base + old.next]
<1>1. /\ old \in SetupPlans /\ old.at = "signing" /\ KeepsAPlan(old) /\ NumbersAreSpent(s, old)
      /\ old.next \in Nat \ {0} /\ old.base \in Nat /\ old.steps \in Seq(Kinds)
      /\ sequence.last \in Nat /\ UNCHANGED <<guardOf, sequence>>
  BY DEF HandsStepOver, SetupInv, SetupTyped, SetupPlans
<1>2. setup' = [setup EXCEPT ![s] = new] /\ afloat' = afloat \cup {mine}
  BY DEF HandsStepOver, Advances, NumberOf, SetupInv, SetupTyped
<1> HIDE DEF old
<1>3. old.ask \in Proposals /\ old.next \in DOMAIN old.steps
  BY <1>1 DEF KeepsAPlan, Planned
<1>4. old.base + old.next \in Nat /\ old.steps[old.next] \in Kinds
  BY <1>1, <1>3
<1>5. /\ mine \in Afloats /\ mine.setup = s /\ mine.kind = old.steps[old.next]
      /\ mine.ask = old.ask /\ mine.number = old.base + old.next
  BY <1>3, <1>4 DEF Afloats
<1>6. /\ new \in SetupPlans /\ new.at = "submitted" /\ new.ask = old.ask
      /\ new.steps = old.steps /\ new.next = old.next /\ new.consented = old.consented
      /\ new.told = old.told /\ new.base = old.base
  BY <1>1 DEF SetupPlans, Planned
<1> HIDE DEF new, mine
<1>7. /\ setup' \in [Setups -> SetupPlans] /\ setup'[s] = new
      /\ \A u \in Setups \ {s} : setup'[u] = setup[u]
      /\ \A u \in Setups : setup[u].consented => setup'[u].consented
  BY <1>2, <1>6 DEF SetupInv, SetupTyped, old
<1>8. KeepsAPlan(new) /\ NumbersAreSpent(s, new)
  BY <1>1, <1>6 DEF KeepsAPlan, NumbersAreSpent, Planned, Unplanned
<1>9. ASSUME NEW u \in Setups  PROVE NumbersAreSpent(u, setup[u])' /\ KeepsAPlan(setup[u])'
  <2>1. NumbersAreSpent(u, setup'[u]) /\ KeepsAPlan(setup'[u])
    BY <1>7, <1>8 DEF SetupInv
  <2> QED
    BY <1>1, <2>1 DEF NumbersAreSpent, InForce, KeepsAPlan
<1>10. FloatsRightly(mine, new)
  <2>1. ASSUME mine.number = sequence.last + 1, mine.kind = "set_executor"
        PROVE  guardOf.fundedBy = s /\ guardOf.ruleBy = s
    <3>1. PICK j, k \in 1 .. old.next - 1 :
                 old.steps[j] = "approve" /\ old.steps[k] = "set_rule"
      BY <1>1, <1>3, <1>5, <2>1 DEF KeepsAPlan, PlanIsOrdered, Planned
    <3> QED
      BY <1>1, <1>5, <2>1, <3>1 DEF NumbersAreSpent, InForce
  <2>2. mine.number <= sequence.last + 1 /\ (mine.number = sequence.last + 1 => new.consented)
    BY <1>1, <1>5, <1>6 DEF NumbersAreSpent
  <2> QED
    BY <1>5, <1>6, <2>1, <2>2 DEF FloatsRightly
<1>11. ASSUME NEW tx \in afloat'  PROVE FloatsRightly(tx, setup[tx.setup])'
  <2>1. CASE tx = mine
    BY <1>1, <1>5, <1>7, <1>10, <2>1 DEF FloatsRightly
  <2>2. CASE tx # mine
    <3>1. tx \in afloat /\ tx.setup \in Setups /\ FloatsRightly(tx, setup[tx.setup])
      BY <1>2, <2>2 DEF SetupInv, SetupTyped, Afloats
    <3>2. tx.setup # s
      BY <1>1, <3>1 DEF FloatsRightly, old
    <3> QED
      BY <1>1, <1>7, <3>1, <3>2 DEF FloatsRightly
  <2> QED
    BY <2>1, <2>2
<1>12. SetupTyped'
  BY <1>1, <1>2, <1>5, <1>7 DEF SetupInv, SetupTyped
<1>13. (guardOf.executor # NotSet => guardOf.armedBy \in Setups /\ setup[guardOf.armedBy].consented)'
  BY <1>1, <1>7 DEF SetupInv
<1> QED
  BY <1>9, <1>11, <1>12, <1>13 DEF SetupInv

LEMMA Sinking ==
    ASSUME SetupInv, NEW tx \in afloat, Sinks(tx)
    PROVE  SetupInv'
<1>1. afloat' \subseteq afloat /\ UNCHANGED <<guardOf, sequence, setup>>
  BY DEF Sinks
<1> QED
  BY <1>1 DEF SetupInv, SetupTyped, KeepsAPlan, NumbersAreSpent, InForce, FloatsRightly

\* What comes in between takes the number everyone was waiting to use.
LEMMA LateNumbersAreSpent ==
    ASSUME NEW s \in Setups, NEW plan \in SetupPlans, NumbersAreSpent(s, plan),
           sequence.last \in Nat, sequence'.last = sequence.last + 1,
           NEW other \in SetupPlans, other.at = plan.at, other.base = plan.base,
           other.next = plan.next
    PROVE  /\ other.at = "asking" => other.base <= sequence'.last
           /\ other.at \in {"signing", "submitted"} => other.base + other.next < sequence'.last + 1
           /\ other.at = "landed" => other.base + other.next < sequence'.last
<1>1. plan.base \in Nat /\ plan.next \in Nat
  BY DEF SetupPlans
<1> QED
  BY <1>1 DEF NumbersAreSpent

LEMMA OwnerTransacting ==
    ASSUME SetupInv, OwnerTransacts
    PROVE  SetupInv'
<1>1. /\ sequence' = [last |-> sequence.last + 1, others |-> sequence.others + 1]
      /\ sequence.last \in Nat /\ sequence.others \in Nat
      /\ UNCHANGED <<guardOf, afloat, setup>> /\ setup \in [Setups -> SetupPlans]
  BY DEF OwnerTransacts, SetupInv, SetupTyped
<1>2. sequence'.last = sequence.last + 1 /\ sequence' \in [last : Nat, others : Nat]
  BY <1>1
<1>3. ASSUME NEW u \in Setups  PROVE NumbersAreSpent(u, setup[u])' /\ KeepsAPlan(setup[u])'
  <2>1. setup[u] \in SetupPlans /\ NumbersAreSpent(u, setup[u]) /\ KeepsAPlan(setup[u])
    BY <1>1 DEF SetupInv
  <2>2. /\ setup[u].at = "asking" => setup[u].base <= sequence'.last
        /\ setup[u].at \in {"signing", "submitted"} =>
              setup[u].base + setup[u].next < sequence'.last + 1
        /\ setup[u].at = "landed" => setup[u].base + setup[u].next < sequence'.last
    BY <1>1, <1>2, <2>1, LateNumbersAreSpent
  <2>3. setup[u].base + setup[u].next \in Nat /\ sequence'.last \in Nat
    BY <1>2, <2>1 DEF SetupPlans
  <2> QED
    BY <1>1, <2>1, <2>2, <2>3 DEF NumbersAreSpent, KeepsAPlan
<1>4. ASSUME NEW tx \in afloat  PROVE FloatsRightly(tx, setup[tx.setup])'
  <2>1. tx.number \in Nat /\ FloatsRightly(tx, setup[tx.setup])
    BY DEF SetupInv, SetupTyped, Afloats
  <2> QED
    BY <1>1, <1>2, <2>1 DEF FloatsRightly
<1> QED
  BY <1>1, <1>2, <1>3, <1>4 DEF SetupInv, SetupTyped

LEMMA LimitsAreARule ==
    ASSUME SetupConstants, NEW p \in Proposals
    PROVE  PlanLimits(p) \in SetRules /\ AllowanceFor(PlanLimits(p)) \in Nat
<1>1. p.limit \in Nat /\ p.perTx \in Nat /\ p.daily \in Nat /\ p.known \in BOOLEAN
  BY DEF SetupConstants
<1>2. /\ Unless0(p.perTx, p.limit * DEFAULT_PER_TX_MULTIPLIER) \in Nat
      /\ Unless0(p.daily, p.limit * DEFAULT_DAILY_MULTIPLIER) \in Nat
  BY <1>1 DEF Unless0, DEFAULT_PER_TX_MULTIPLIER, DEFAULT_DAILY_MULTIPLIER
<1> QED
  BY <1>1, <1>2 DEF PlanLimits, Rule, SetRules, AllowanceFor

\* What a transaction leaves of who set what.
LEMMA WhatATransactionDoes ==
    ASSUME SetupConstants, guardOf \in Guards, NEW tx \in Afloats, guardOf' = Applied(tx)
    PROVE  /\ guardOf' \in Guards
           /\ guardOf'.fundedBy = IF tx.kind = "approve" THEN tx.setup ELSE guardOf.fundedBy
           /\ guardOf'.ruleBy = IF tx.kind = "set_rule" THEN tx.setup ELSE guardOf.ruleBy
           /\ tx.kind = "set_executor" => guardOf'.armedBy = tx.setup
           /\ tx.kind = "revoke_executor" => guardOf'.executor = NotSet
           /\ tx.kind \notin {"set_executor", "revoke_executor"} =>
                 guardOf'.executor = guardOf.executor /\ guardOf'.armedBy = guardOf.armedBy
<1>1. tx.setup \in Setups /\ tx.ask \in Proposals /\ tx.kind \in Kinds
  BY DEF Afloats
<1>2. CASE tx.kind = "approve"
  <2> DEFINE n == IF tx.ask.mode = "always_ask" THEN 0 ELSE AllowanceFor(PlanLimits(tx.ask))
  <2>1. n \in Nat
    BY <1>1, LimitsAreARule
  <2>2. guardOf' = [guardOf EXCEPT !.fundedBy = tx.setup, !.allowance = n]
    BY <1>2 DEF Applied, Approved
  <2> HIDE DEF n
  <2> QED
    BY <1>1, <1>2, <2>1, <2>2 DEF Guards
<1>3. CASE tx.kind = "set_rule"
  <2> DEFINE r == PlanLimits(tx.ask)
  <2>1. r \in SetRules
    BY <1>1, LimitsAreARule
  <2>2. guardOf' = [guardOf EXCEPT !.rule = r, !.ruleBy = tx.setup]
    BY <1>3 DEF Applied
  <2> HIDE DEF r
  <2> QED
    BY <1>1, <1>3, <2>1, <2>2 DEF Guards
<1>4. CASE tx.kind = "set_executor"
  BY <1>1, <1>4 DEF Applied, Guards
<1>5. CASE tx.kind = "revoke_executor"
  BY <1>1, <1>5 DEF Applied, Guards
<1>6. CASE tx.kind = "set_alias"
  BY <1>1, <1>6 DEF Applied, Guards
<1> QED
  BY <1>1, <1>2, <1>3, <1>4, <1>5, <1>6 DEF Kinds

\* What landing leaves of each setup.
LEMMA WhoHearsOfALanding ==
    ASSUME setup \in [Setups -> SetupPlans], NEW tx \in Afloats, TransactionLands(tx), NEW u \in Setups
    PROVE  /\ setup'[u] \in SetupPlans
           /\ setup'[u].at = IF u = tx.setup /\ setup[u].at = "submitted" THEN "landed"
                             ELSE setup[u].at
           /\ setup'[u].consented = IF tx.kind = "revoke_executor" THEN FALSE
                                    ELSE setup[u].consented
           /\ setup'[u].ask = setup[u].ask /\ setup'[u].steps = setup[u].steps
           /\ setup'[u].told = setup[u].told /\ setup'[u].base = setup[u].base
           /\ setup'[u].next = setup[u].next
<1> DEFINE heard == IF u = tx.setup /\ setup[u].at = "submitted"
                    THEN [setup[u] EXCEPT !.at = "landed"] ELSE setup[u]
<1>1. setup'[u] = IF tx.kind = "revoke_executor" THEN [heard EXCEPT !.consented = FALSE] ELSE heard
  BY DEF TransactionLands
<1>2. /\ heard \in SetupPlans
      /\ heard.at = IF u = tx.setup /\ setup[u].at = "submitted" THEN "landed" ELSE setup[u].at
      /\ heard.consented = setup[u].consented
      /\ heard.ask = setup[u].ask /\ heard.steps = setup[u].steps
      /\ heard.told = setup[u].told /\ heard.base = setup[u].base
      /\ heard.next = setup[u].next
  BY DEF SetupPlans, Planned
<1> HIDE DEF heard
<1> QED
  BY <1>1, <1>2 DEF SetupPlans

\* A landing is heard of by the setup that waits for it, and is too late for any other.
LEMMA Landing ==
    ASSUME SetupConstants, SetupInv, NEW tx \in afloat, TransactionLands(tx)
    PROVE  SetupInv'
<1> DEFINE owner == tx.setup
<1>1. /\ tx \in Afloats /\ owner \in Setups /\ tx.number = sequence.last + 1
      /\ afloat' = afloat \ {tx} /\ guardOf' = Applied(tx)
      /\ sequence' = [sequence EXCEPT !.last = sequence.last + 1]
      /\ setup \in [Setups -> SetupPlans] /\ DOMAIN setup' = Setups
  BY DEF TransactionLands, SetupInv, SetupTyped, Afloats
<1>2. /\ sequence' \in [last : Nat, others : Nat] /\ sequence'.last = sequence.last + 1
      /\ sequence.last \in Nat
  BY <1>1 DEF SetupInv, SetupTyped
<1>3. /\ guardOf' \in Guards
      /\ guardOf'.fundedBy = IF tx.kind = "approve" THEN owner ELSE guardOf.fundedBy
      /\ guardOf'.ruleBy = IF tx.kind = "set_rule" THEN owner ELSE guardOf.ruleBy
      /\ tx.kind = "set_executor" => guardOf'.armedBy = owner
      /\ tx.kind = "revoke_executor" => guardOf'.executor = NotSet
      /\ tx.kind \notin {"set_executor", "revoke_executor"} =>
            guardOf'.executor = guardOf.executor /\ guardOf'.armedBy = guardOf.armedBy
  BY <1>1, WhatATransactionDoes DEF SetupInv, SetupTyped
<1>4. \A u \in Setups :
         /\ setup'[u] \in SetupPlans
         /\ setup'[u].at = IF u = owner /\ setup[u].at = "submitted" THEN "landed"
                           ELSE setup[u].at
         /\ setup'[u].consented = IF tx.kind = "revoke_executor" THEN FALSE
                                  ELSE setup[u].consented
         /\ setup'[u].ask = setup[u].ask /\ setup'[u].steps = setup[u].steps
         /\ setup'[u].told = setup[u].told /\ setup'[u].base = setup[u].base
         /\ setup'[u].next = setup[u].next
  BY <1>1, WhoHearsOfALanding
<1>5. FloatsRightly(tx, setup[owner]) /\ setup[owner].consented
  BY <1>1 DEF SetupInv, FloatsRightly
<1>6. ASSUME NEW u \in Setups  PROVE KeepsAPlan(setup[u])'
  <2>1. KeepsAPlan(setup[u])
    BY DEF SetupInv
  <2> QED
    BY <1>4, <2>1 DEF KeepsAPlan, Planned, Unplanned
<1>7. ASSUME NEW u \in Setups, setup'[u].at = setup[u].at  PROVE NumbersAreSpent(u, setup[u])'
  <2>1. setup[u] \in SetupPlans /\ setup'[u] \in SetupPlans /\ NumbersAreSpent(u, setup[u])
    BY <1>1, <1>4 DEF SetupInv
  <2>2. /\ setup'[u].at = "asking" => setup'[u].base <= sequence'.last
        /\ setup'[u].at \in {"signing", "submitted"} =>
              setup'[u].base + setup'[u].next < sequence'.last + 1
        /\ setup'[u].at = "landed" => setup'[u].base + setup'[u].next < sequence'.last
    BY <1>2, <1>4, <1>7, <2>1, LateNumbersAreSpent
  <2>3. setup'[u].base + setup'[u].next \in Nat /\ sequence'.last \in Nat
    BY <1>2, <2>1 DEF SetupPlans
  <2> QED
    BY <2>2, <2>3 DEF NumbersAreSpent
<1>8. ASSUME setup[owner].at = "submitted"  PROVE NumbersAreSpent(owner, setup[owner])'
  <2> DEFINE plan == setup[owner]
  <2>1. /\ plan.base + plan.next = sequence.last + 1 /\ tx.kind = plan.steps[plan.next]
        /\ plan.next \in Nat \ {0} /\ plan.next \in DOMAIN plan.steps
        /\ PlanIsOrdered(plan.steps, plan.told) /\ InForce(owner, plan.steps, plan.next - 1)
    BY <1>1, <1>5, <1>8 DEF SetupInv, FloatsRightly, KeepsAPlan, Planned, NumbersAreSpent, SetupPlans
  <2>2. plan.next # Len(plan.steps) => tx.kind # "revoke_executor"
    BY <2>1 DEF PlanIsOrdered
  <2>3. ASSUME NEW i \in 1 .. plan.next
        PROVE  /\ plan.steps[i] = "approve" => guardOf'.fundedBy = owner
               /\ plan.steps[i] = "set_rule" => guardOf'.ruleBy = owner
    <3>1. CASE i = plan.next
      BY <1>3, <2>1, <3>1
    <3>2. CASE i # plan.next
      <4>1. i \in 1 .. plan.next - 1
        BY <2>1, <3>2
      <4> QED
        BY <1>3, <2>1, <4>1 DEF InForce
    <3> QED
      BY <3>1, <3>2
  <2>4. /\ setup'[owner].at = "landed"
        /\ setup'[owner].base + setup'[owner].next = sequence'.last
        /\ setup'[owner].next # Len(setup'[owner].steps) => setup'[owner].consented
    BY <1>1, <1>2, <1>4, <1>5, <1>8, <2>1, <2>2
  <2> HIDE DEF plan
  <2>5. \A i \in 1 .. setup'[owner].next :
           /\ setup'[owner].steps[i] = "approve" => guardOf'.fundedBy = owner
           /\ setup'[owner].steps[i] = "set_rule" => guardOf'.ruleBy = owner
    BY <1>1, <1>4, <2>3 DEF plan
  <2> QED
    BY <1>2, <2>4, <2>5 DEF NumbersAreSpent, InForce
<1>9. ASSUME NEW other \in afloat, other # tx  PROVE FloatsRightly(other, setup[other.setup])'
  <2>1. /\ other \in Afloats /\ other.setup \in Setups /\ other.number \in Nat
        /\ FloatsRightly(other, setup[other.setup])
    BY DEF SetupInv, SetupTyped, Afloats
  <2>2. ASSUME other.setup = owner, setup[owner].at = "submitted"  PROVE FALSE
    <3>1. /\ other.kind = tx.kind /\ other.ask = tx.ask /\ other.number = tx.number
          /\ other.setup = tx.setup
      BY <1>5, <2>1, <2>2 DEF FloatsRightly
    <3>2. /\ other = [setup |-> other.setup, kind |-> other.kind, ask |-> other.ask,
                      number |-> other.number]
          /\ tx = [setup |-> tx.setup, kind |-> tx.kind, ask |-> tx.ask, number |-> tx.number]
      BY <1>1, <2>1 DEF Afloats
    <3> QED
      BY <1>9, <3>1, <3>2
  <2>3. setup'[other.setup].at = setup[other.setup].at
    BY <1>4, <2>1, <2>2
  <2>4. other.number <= sequence'.last /\ sequence'.last \in Nat
    BY <1>2, <2>1 DEF FloatsRightly
  <2>5. LET plan == setup'[other.setup] IN
        /\ plan.at \in {"submitted", "failed"}
        /\ plan.at = "submitted" => /\ other.number = plan.base + plan.next
                                    /\ other.ask = plan.ask
                                    /\ other.kind = plan.steps[plan.next]
    BY <1>4, <2>1, <2>3 DEF FloatsRightly
  <2> QED
    BY <2>1, <2>4, <2>5 DEF FloatsRightly
<1>10. (guardOf.executor # NotSet => guardOf.armedBy \in Setups /\ setup[guardOf.armedBy].consented)'
  <2>1. CASE tx.kind = "set_executor"
    BY <1>1, <1>3, <1>4, <1>5, <2>1
  <2>2. CASE tx.kind = "revoke_executor"
    BY <1>3, <2>2
  <2>3. CASE tx.kind \notin {"set_executor", "revoke_executor"}
    BY <1>3, <1>4, <2>3 DEF SetupInv
  <2> QED
    BY <2>1, <2>2, <2>3
<1>11. SetupTyped'
  <2>1. setup' \in [Setups -> SetupPlans]
    BY <1>1, <1>4 DEF TransactionLands
  <2> QED
    BY <1>1, <1>2, <1>3, <2>1 DEF SetupInv, SetupTyped
<1>12. \A u \in Setups : NumbersAreSpent(u, setup[u])'
  BY <1>4, <1>7, <1>8
<1> QED
  BY <1>1, <1>6, <1>9, <1>10, <1>11, <1>12 DEF SetupInv

LEMMA SetupSteps ==
    ASSUME SetupConstants, SetupInv, [SetupNext]_setupVars
    PROVE  SetupInv'
<1>1. ASSUME NEW s \in Setups, SetupStep(s)  PROVE SetupInv'
  <2>1. ASSUME NEW p \in Proposals, Proposes(s, p)  PROVE SetupInv'
    BY <2>1, Proposing
  <2>2. ASSUME NEW how \in {"unsupported", "failed"}, CannotHoldKeys(s, how)  PROVE SetupInv'
    BY <2>2, Concluding DEF CannotHoldKeys
  <2>3. ASSUME NEW known \in {Contacts, {}}, ReadsGuard(s, known)  PROVE SetupInv'
    BY <2>3, ReadingTheGuard
  <2>4. CASE GivesUp(s)
    BY <2>4, Concluding DEF GivesUp
  <2>5. CASE CannotSign(s)
    BY <2>5, Concluding DEF CannotSign
  <2>6. CASE HearsOfFailure(s)
    BY <2>6, Concluding DEF HearsOfFailure
  <2> QED
    BY <1>1, <2>1, <2>2, <2>3, <2>4, <2>5, <2>6, MakingAKey, ReadingTheAccount, Consenting,
       HandingOver, HearingOfSuccess DEF SetupStep
<1>2. ASSUME NEW tx \in afloat, TransactionLands(tx) \/ Sinks(tx)  PROVE SetupInv'
  BY <1>2, Landing, Sinking
<1>3. CASE UNCHANGED setupVars
  BY <1>3 DEF setupVars, SetupInv, SetupTyped, KeepsAPlan, NumbersAreSpent, InForce, FloatsRightly
<1> QED
  BY <1>1, <1>2, <1>3, OwnerTransacting DEF SetupNext

\* Every reachable state of the set-up satisfies its invariant: a number is used at most one
\* ahead of the account, and what may still land was agreed to since the last revocation.
THEOREM SetupInvariant ==
    ASSUME SetupConstants
    PROVE  SetupSpec => []SetupInv
<1>1. SetupInv /\ [SetupNext]_setupVars => SetupInv'
  BY SetupSteps
<1> QED
  BY <1>1, SetupBegins, PTL DEF SetupSpec

\* An agent is registered by what has set the allowance and the rule just before.
LEMMA ArmsLast ==
    ASSUME SetupConstants, SetupInv, [SetupNext]_setupVars,
           guardOf'.executor # guardOf.executor, guardOf'.executor # NotSet
    PROVE  guardOf.ruleBy = guardOf'.armedBy /\ guardOf.fundedBy = guardOf'.armedBy
<1>1. PICK tx \in afloat : TransactionLands(tx)
  BY DEF SetupNext, setupVars, SetupStep, Proposes, CannotHoldKeys, MakesKey, ReadsGuard, GivesUp,
     ReadsAccount, Consents, HandsStepOver, CannotSign, HearsOfFailure, HearsOfSuccess, Sinks,
     OwnerTransacts
<1>2. tx \in Afloats /\ guardOf' = Applied(tx) /\ tx.number = sequence.last + 1
      /\ FloatsRightly(tx, setup[tx.setup]) /\ guardOf \in Guards
  BY <1>1 DEF TransactionLands, SetupInv, SetupTyped
<1>3. tx.kind = "set_executor" /\ guardOf'.armedBy = tx.setup
  BY <1>2, WhatATransactionDoes
<1> QED
  BY <1>2, <1>3 DEF FloatsRightly

LEMMA RoutersAgree == ASSUME SetupConstants, SetupInv  PROVE RoutesAgree
<1> SUFFICES ASSUME guardOf.rule # NotSet, NEW amount \in 0 .. Largest, NEW spent \in 0 .. Largest,
                    NEW known \in BOOLEAN
             PROVE  LET route   == decideAutoPayRoute(guardOf, spent, amount, known)
                        guarded == resolveApprovalRoute(
                                       profileFromChain(guardOf.rule, guardOf.executor),
                                       chooseGuardedRoute(guardOf, amount, known))
                    IN  /\ route = "auto" => /\ ContractTakes(guardOf, spent, amount, known)
                                             /\ guarded = "pay_executor"
                        /\ guarded = "pay_executor" /\ route = "owner"
                           => spent + amount > guardOf.rule.daily_limit
  BY DEF RoutesAgree
<1>1. guardOf.rule \in SetRules /\ amount \in Nat /\ spent \in Nat
  BY DEF SetupInv, SetupTyped, Guards, SetupConstants
<1>2. /\ guardOf.rule.auto_approve_limit \in Nat /\ guardOf.rule.per_tx_limit \in Nat
      /\ guardOf.rule.daily_limit \in Nat /\ guardOf.rule.known_recipients_only \in BOOLEAN
  BY <1>1 DEF SetRules
<1> QED
  BY <1>1, <1>2 DEF decideAutoPayRoute, resolveApprovalRoute, profileFromChain, chooseGuardedRoute,
     ContractTakes, isArmed

\* Setting up keeps the owner's consent, for any proposals under way at once, any other
\* transactions of the owner in between and any fate of what was handed over.
THEOREM SetupNeedsConsent ==
    ASSUME SetupConstants
    PROVE  SetupSpec => SetupKeepsConsent
<1>1. SetupInv => SignsNoMoreThanThePlanSays /\ OffMeansOff /\ RoutesAgree
  <2> SUFFICES ASSUME SetupInv  PROVE SignsNoMoreThanThePlanSays /\ OffMeansOff
    BY RoutersAgree
  <2>1. SignsNoMoreThanThePlanSays
    <3>1. \A s \in Setups : setup[s].at \in Planned \cup Unplanned /\ KeepsAPlan(setup[s])
      BY DEF SetupInv, SetupTyped, SetupPlans
    <3> QED
      BY <3>1 DEF SignsNoMoreThanThePlanSays, KeepsAPlan, PlanIsOrdered
  <2> QED
    BY <2>1 DEF SetupInv, OffMeansOff
<1>2. SetupInv /\ [SetupNext]_setupVars =>
         [guardOf'.executor # guardOf.executor /\ guardOf'.executor # NotSet
          => guardOf.ruleBy = guardOf'.armedBy /\ guardOf.fundedBy = guardOf'.armedBy]_setupVars
  BY ArmsLast
<1>3. SetupSpec => []SetupInv
  BY SetupInvariant
<1> QED
  BY <1>1, <1>2, <1>3, PTL DEF SetupSpec, SetupKeepsConsent, ArmedLast

-----------------------------------------------------------------------------
(* The lesson of the double tap.                                           *)

Ages == {Never} \cup 0 .. Old

TapStates == [pressedAt : Ages, lastReleaseAt : Ages, poisoned : BOOLEAN]
CtrlTaps == [control_down : BOOLEAN, press_started : Ages, first_tap_release : Ages,
             awaiting_second : BOOLEAN, contaminated : BOOLEAN]

\* What the product's machine knows of the keys, pressed are those that are down.
Watches(m, pressed) ==
    /\ m \in CtrlTaps
    /\ m.control_down <=> Control(pressed)
    /\ Foreign(pressed) => m.contaminated
    /\ m.contaminated => m.control_down \/ Foreign(pressed)

\* The page's attempt is one the product's machine is following too.
Follows(s, m) ==
    /\ s.pressedAt # Never =>
         /\ m.control_down /\ ~m.contaminated /\ m.press_started = s.pressedAt
         /\ s.lastReleaseAt # Never => m.awaiting_second
    /\ s.pressedAt = Never /\ s.lastReleaseAt # Never =>
         ~m.control_down /\ ~m.contaminated /\ m.first_tap_release = s.lastReleaseAt

TapInv ==
    /\ keys \subseteq Controls \cup OtherKeys
    /\ tap \in TapStates /\ Watches(ctrlTap, keys)
    /\ ~focused => tap.pressedAt = Never /\ tap.lastReleaseAt = Never
    /\ lesson = "type-prompt" =>
         /\ worked \in BOOLEAN
         /\ worked \/ Follows(tap, ctrlTap)
         /\ passed => worked

LEMMA AgesGrow ==
    ASSUME NEW age \in Ages
    PROVE  Older(age) \in Ages /\ (Older(age) = Never <=> age = Never)
BY LessonAssumption DEF Ages, Older, Never

\* The product's machine keeps watching the modifiers.
LEMMA WatchesModifiers ==
    ASSUME NEW m, NEW before, NEW k \in Modifiers, NEW pressed, Watches(m, before)
    PROVE  Watches(on_modifiers(m, pressed).state, pressed)
<1> DEFINE next == on_modifiers(m, pressed).state
<1>1. CASE Foreign(pressed)
  <2>1. next = [control_down |-> Control(pressed), press_started |-> Never,
                first_tap_release |-> Never, awaiting_second |-> FALSE, contaminated |-> TRUE]
    BY <1>1 DEF on_modifiers, FreshCtrlTap
  <2>2. Control(pressed) \in BOOLEAN
    BY DEF Control
  <2> QED
    BY <1>1, <2>1, <2>2 DEF Watches, CtrlTaps, Ages
<1>2. CASE ~Foreign(pressed) /\ (Control(pressed) <=> m.control_down)
  <2>0. Control(pressed) = m.control_down
    BY <1>2 DEF Control, Watches, CtrlTaps
  <2>1. next = IF Control(pressed) THEN m ELSE [m EXCEPT !.contaminated = FALSE]
    BY <1>2, <2>0, Zenon DEF on_modifiers
  <2>2. CASE Control(pressed)
    BY <1>2, <2>1, <2>2 DEF Watches
  <2>3. CASE ~Control(pressed)
    <3>1. next = [m EXCEPT !.contaminated = FALSE]
      BY <2>1, <2>3
    <3> HIDE DEF next
    <3>2. next = [control_down |-> m.control_down, press_started |-> m.press_started,
                  first_tap_release |-> m.first_tap_release,
                  awaiting_second |-> m.awaiting_second, contaminated |-> FALSE]
      BY <3>1 DEF Watches, CtrlTaps
    <3>3. next \in CtrlTaps /\ ~next.contaminated /\ next.control_down = m.control_down
      BY <3>2 DEF Watches, CtrlTaps
    <3>4. Watches(next, pressed)
      BY <1>2, <2>3, <3>3 DEF Watches
    <3> QED
      BY <3>4 DEF next
  <2> QED
    BY <2>2, <2>3
<1>3. CASE ~Foreign(pressed) /\ Control(pressed) /\ ~m.control_down
  <2> DEFINE near == m.first_tap_release \in 0 .. TAP_GAP
             again == IF near THEN m.first_tap_release ELSE Never
  <2>1. next = IF m.contaminated
               THEN [m EXCEPT !.control_down = TRUE, !.press_started = Never]
               ELSE [control_down |-> TRUE, press_started |-> 0, awaiting_second |-> near,
                     first_tap_release |-> again, contaminated |-> FALSE]
    BY <1>3 DEF on_modifiers
  <2>2. near \in BOOLEAN /\ again \in Ages /\ 0 \in Ages /\ Never \in Ages
    BY LessonAssumption DEF Watches, CtrlTaps, Ages
  <2> HIDE DEF near, again
  <2>3. CASE m.contaminated
    <3>1. next = [control_down |-> TRUE, press_started |-> Never,
                  first_tap_release |-> m.first_tap_release,
                  awaiting_second |-> m.awaiting_second, contaminated |-> m.contaminated]
      BY <2>1, <2>3 DEF Watches, CtrlTaps
    <3> HIDE DEF next
    <3>2. next \in CtrlTaps /\ next.control_down
      BY <2>2, <3>1 DEF CtrlTaps, Watches
    <3>3. Watches(next, pressed)
      BY <1>3, <3>2 DEF Watches
    <3> QED
      BY <3>3 DEF next
  <2>4. CASE ~m.contaminated
    <3>1. next = [control_down |-> TRUE, press_started |-> 0, awaiting_second |-> near,
                  first_tap_release |-> again, contaminated |-> FALSE]
      BY <2>1, <2>4
    <3> HIDE DEF next
    <3>2. next \in CtrlTaps /\ next.control_down
      BY <2>2, <3>1 DEF CtrlTaps, Watches
    <3>3. Watches(next, pressed)
      BY <1>3, <3>2 DEF Watches
    <3> QED
      BY <3>3 DEF next
  <2> QED
    BY <2>3, <2>4
<1>4. CASE ~Foreign(pressed) /\ ~Control(pressed) /\ m.control_down
  <2> DEFINE first == IF (~m.contaminated /\ m.press_started \in 0 .. MAX_TAP_HOLD)
                         /\ ~m.awaiting_second THEN 0 ELSE Never
  <2>1. next = [FreshCtrlTap EXCEPT !.first_tap_release = first]
    BY <1>4 DEF on_modifiers
  <2>2. first \in Ages /\ Never \in Ages
    BY LessonAssumption DEF Ages
  <2> HIDE DEF first
  <2>3. next = [control_down |-> FALSE, press_started |-> Never, first_tap_release |-> first,
                awaiting_second |-> FALSE, contaminated |-> FALSE]
    BY <2>1 DEF FreshCtrlTap
  <2> HIDE DEF next
  <2>4. next \in CtrlTaps /\ ~next.control_down /\ ~next.contaminated
    BY <2>2, <2>3 DEF CtrlTaps
  <2>5. Watches(next, pressed)
    BY <1>4, <2>4 DEF Watches
  <2> QED
    BY <2>5 DEF next
<1> QED
  BY <1>1, <1>2, <1>3, <1>4 DEF Watches, CtrlTaps, Control

\* A letter matters to it while Control is down only.
LEMMA WatchesLetters ==
    ASSUME NEW m, NEW pressed, Watches(m, pressed)
    PROVE  Watches(on_key_press(m), pressed)
<1>1. CASE m.control_down
  <2>1. on_key_press(m) = [control_down |-> TRUE, press_started |-> Never,
                           first_tap_release |-> Never, awaiting_second |-> FALSE,
                           contaminated |-> TRUE]
    BY <1>1 DEF on_key_press, FreshCtrlTap
  <2> QED
    BY <1>1, <2>1 DEF Watches, CtrlTaps, Ages
<1>2. CASE ~m.control_down
  BY <1>2 DEF on_key_press
<1> QED
  BY <1>1, <1>2

\* The page's state stays what it is.
LEMMA TapStays ==
    ASSUME NEW s, s \in TapStates
    PROVE  /\ INITIAL_TAP \in TapStates /\ Poisoned \in TapStates /\ ControlDown(s) \in TapStates
           /\ ControlUp(s).state \in TapStates
<1>1. INITIAL_TAP \in TapStates /\ Poisoned \in TapStates
  BY DEF TapStates, INITIAL_TAP, Poisoned, Ages
<1>2. ControlDown(s) \in TapStates
  BY LessonAssumption DEF TapStates, ControlDown, Ages
<1>3. ControlUp(s).state \in {INITIAL_TAP, [INITIAL_TAP EXCEPT !.lastReleaseAt = 0]}
  BY DEF ControlUp
<1>4. [INITIAL_TAP EXCEPT !.lastReleaseAt = 0] \in TapStates
  <2>1. 0 \in Ages
    BY LessonAssumption DEF Ages
  <2>2. INITIAL_TAP \in TapStates
    BY <1>1
  <2> QED
    BY <2>1, <2>2 DEF TapStates
<1> QED
  BY <1>1, <1>2, <1>3, <1>4

\* Control goes down: the page begins an attempt only when the product's machine does.
LEMMA FollowsDown ==
    ASSUME NEW s, s \in TapStates, NEW m, NEW before, NEW pressed, Watches(m, before), Follows(s, m),
           ~Control(before), Control(pressed), ~Foreign(before), ~Foreign(pressed)
    PROVE  Follows(ControlDown(s), on_modifiers(m, pressed).state)
<1> DEFINE next == on_modifiers(m, pressed).state
           near == m.first_tap_release \in 0 .. TAP_GAP
           again == IF near THEN m.first_tap_release ELSE Never
           kept == IF s.lastReleaseAt \in 0 .. TAP_GAP THEN s.lastReleaseAt ELSE Never
<1>1. ~m.control_down /\ ~m.contaminated
  BY DEF Watches
<1>2. next = [control_down |-> TRUE, press_started |-> 0, awaiting_second |-> near,
              first_tap_release |-> again, contaminated |-> FALSE]
  BY <1>1 DEF on_modifiers
<1>3. ControlDown(s) = [pressedAt |-> 0, poisoned |-> FALSE, lastReleaseAt |-> kept]
  BY DEF ControlDown
<1>4. s.pressedAt = Never
  BY <1>1 DEF Follows
<1>5. kept # Never => near
  BY <1>4 DEF Follows
<1> HIDE DEF kept, near, again
<1> HIDE DEF next
<1>6. next.control_down /\ ~next.contaminated /\ next.press_started = 0
      /\ (near => next.awaiting_second)
  BY <1>2
<1>7. Follows(ControlDown(s), next)
  BY <1>3, <1>5, <1>6 DEF Follows, Never
<1> QED
  BY <1>7 DEF next

\* Control goes up: a pair of taps the page accepts, and one only the product's machine
\* knows of, are accepted by that machine; a first tap of both is followed by both.
LEMMA FollowsUp ==
    ASSUME NEW s, s \in TapStates, NEW m, NEW before, NEW pressed, Watches(m, before), Follows(s, m),
           Control(before), ~Control(pressed), ~Foreign(pressed)
    PROVE  /\ ControlUp(s).fired => on_modifiers(m, pressed).fired
           /\ \/ on_modifiers(m, pressed).fired
              \/ Follows(ControlUp(s).state, on_modifiers(m, pressed).state)
<1> DEFINE short == ~m.contaminated /\ m.press_started \in 0 .. MAX_TAP_HOLD
           first == IF short /\ ~m.awaiting_second THEN 0 ELSE Never
           out   == on_modifiers(m, pressed)
           brief == ~ (s.poisoned \/ s.pressedAt = Never \/ s.pressedAt > MAX_TAP_HOLD)
<1>1. m.control_down
  BY DEF Watches
<1>2. out = [state |-> [FreshCtrlTap EXCEPT !.first_tap_release = first],
             fired |-> short /\ m.awaiting_second]
  BY <1>1 DEF on_modifiers
<1>3. brief => short /\ (s.lastReleaseAt # Never => m.awaiting_second)
  BY LessonAssumption DEF Follows, TapStates, Ages, Never
<1> HIDE DEF short
<1> DEFINE fires == short /\ m.awaiting_second
<1> HIDE DEF out, first, fires
<1>8. out = [state |-> [FreshCtrlTap EXCEPT !.first_tap_release = first], fired |-> fires]
  BY <1>2 DEF fires
<1>9. out.state = [FreshCtrlTap EXCEPT !.first_tap_release = first]
  BY <1>8
<1>10. out.fired <=> short /\ m.awaiting_second
  <2>1. out.fired = fires
    BY <1>8, Zenon
  <2> QED
    BY <2>1, Zenon DEF fires
<1>4. /\ out.state.first_tap_release = first /\ ~out.state.control_down
      /\ ~out.state.contaminated /\ (out.fired <=> short /\ m.awaiting_second)
  BY <1>9, <1>10 DEF FreshCtrlTap
<1> HIDE DEF brief
<1>5. CASE brief /\ s.lastReleaseAt # Never
  BY <1>3, <1>4, <1>5 DEF out
<1>6. CASE brief /\ s.lastReleaseAt = Never
  <2>1. ControlUp(s) = [state |-> [INITIAL_TAP EXCEPT !.lastReleaseAt = 0], fired |-> FALSE]
    BY <1>6 DEF ControlUp, brief
  <2>2. ControlUp(s).state.pressedAt = Never /\ ControlUp(s).state.lastReleaseAt = 0
        /\ ~ControlUp(s).fired
    BY <2>1 DEF INITIAL_TAP
  <2>3. out.fired \/ out.state.first_tap_release = 0
    BY <1>3, <1>4, <1>6 DEF first
  <2>4. out.fired \/ Follows(ControlUp(s).state, out.state)
    BY <1>4, <2>2, <2>3 DEF Follows
  <2> QED
    BY <2>2, <2>4 DEF out
<1>7. CASE ~brief
  <2>1. ControlUp(s) = [state |-> INITIAL_TAP, fired |-> FALSE]
    BY <1>7 DEF ControlUp, brief
  <2>2. ControlUp(s).state.pressedAt = Never /\ ControlUp(s).state.lastReleaseAt = Never
        /\ ~ControlUp(s).fired
    BY <2>1 DEF INITIAL_TAP
  <2>3. Follows(ControlUp(s).state, out.state)
    BY <2>2 DEF Follows
  <2> QED
    BY <2>2, <2>3 DEF out
<1> QED
  BY <1>5, <1>6, <1>7

\* The keyboard has a single Control key: of two, the second's release reaches the page as
\* a press (ArrivesAsDown), which begins an attempt the product's machine knows nothing of.
OneControl == \A c, d \in Controls : c = d

\* What a key that goes up or down changes of the modifiers pressed.
LEMMA KeysHeld ==
    ASSUME OneControl, NEW before, before \subseteq Controls \cup OtherKeys,
           NEW k \in Controls \cup OtherKeys, NEW down \in BOOLEAN, (k \in before) # down,
           NEW pressed, pressed = IF down THEN before \cup {k} ELSE before \ {k}
    PROVE  /\ pressed \subseteq Controls \cup OtherKeys
           /\ k \in Controls => /\ Control(pressed) <=> down
                                /\ Control(before) <=> ~down
                                /\ Foreign(pressed) <=> Foreign(before)
           /\ k \notin Controls => (Control(pressed) <=> Control(before))
           /\ k \notin Modifiers => (Foreign(pressed) <=> Foreign(before))
           /\ k \in Modifiers \ Controls => Foreign(before) \/ Foreign(pressed)
<1>1. CASE down
  <2>1. k \notin before /\ pressed = before \cup {k}
    BY <1>1
  <2> QED
    BY <1>1, <2>1, LessonAssumption DEF OneControl, Control, Foreign, Modifiers
<1>2. CASE ~down
  <2>1. k \in before /\ pressed = before \ {k}
    BY <1>2
  <2> QED
    BY <1>2, <2>1, LessonAssumption DEF OneControl, Control, Foreign, Modifiers
<1> QED
  BY <1>1, <1>2

\* A key is heard by both sides.
LEMMA BothHear ==
    ASSUME OneControl, TapInv, ~passed,
           NEW k \in Controls \cup OtherKeys, NEW down \in BOOLEAN, KeyChanges(k, down)
    PROVE  TapInv'
<1> DEFINE pressed == IF down THEN keys \cup {k} ELSE keys \ {k}
           seen == ArrivesAsDown(k, down, pressed)
<1>1. /\ keys' = pressed /\ (k \in keys) # down
      /\ ProductHears(k, down, pressed) /\ focused' = focused /\ lesson' = lesson
  BY DEF KeyChanges
<1>2. lesson = "type-prompt" => /\ TapProbeHears(k, seen, pressed)
                                /\ worked' = (worked \/ DoubleTapped(k, pressed))
  BY DEF KeyChanges
<1>3. lesson # "type-prompt" => tap' = tap
  BY DEF KeyChanges
<1>4. seen = IF k \in Controls THEN Control(pressed) ELSE down
  BY DEF ArrivesAsDown
<1> HIDE DEF pressed, seen
<1>5. /\ pressed \subseteq Controls \cup OtherKeys
      /\ k \in Controls => /\ Control(pressed) <=> down
                           /\ Control(keys) <=> ~down
                           /\ Foreign(pressed) <=> Foreign(keys)
      /\ k \notin Controls => (Control(pressed) <=> Control(keys))
      /\ k \notin Modifiers => (Foreign(pressed) <=> Foreign(keys))
      /\ k \in Modifiers \ Controls => Foreign(keys) \/ Foreign(pressed)
  <2>1. pressed = IF down THEN keys \cup {k} ELSE keys \ {k}
    BY DEF pressed
  <2>2. keys \subseteq Controls \cup OtherKeys
    BY DEF TapInv
  <2> QED
    BY <1>1, <2>1, <2>2, KeysHeld
<1>6. Watches(ctrlTap', pressed)
  <2>1. CASE k \in Modifiers
    <3>1. ctrlTap' = on_modifiers(ctrlTap, pressed).state
      BY <1>1, <2>1 DEF ProductHears
    <3> QED
      BY <2>1, <3>1, WatchesModifiers DEF TapInv
  <2>2. CASE k \notin Modifiers
    <3>1. ctrlTap' = IF down THEN on_key_press(ctrlTap) ELSE ctrlTap
      BY <1>1, <2>2 DEF ProductHears
    <3>2. k \notin Controls
      BY <2>2 DEF Modifiers
    <3>3. Watches(ctrlTap, pressed)
      BY <1>5, <2>2, <3>2 DEF TapInv, Watches
    <3> QED
      BY <3>1, <3>3, WatchesLetters
  <2> QED
    BY <2>1, <2>2
<1>7. ASSUME lesson # "type-prompt"
      PROVE  TapInv'
  BY <1>1, <1>3, <1>5, <1>6, <1>7 DEF TapInv
<1>8. ASSUME lesson = "type-prompt", ~focused
      PROVE  TapInv'
  <2>1. tap' = tap /\ passed' = passed
    BY <1>2, <1>8 DEF TapProbeHears
  <2>2. Follows(tap, ctrlTap')
    BY <1>8 DEF TapInv, Follows
  <2>3. worked' \in BOOLEAN
    BY <1>2, <1>8
  <2> QED
    BY <1>1, <1>5, <1>6, <1>8, <2>1, <2>2, <2>3 DEF TapInv
<1>9. ASSUME lesson = "type-prompt", focused
      PROVE  TapInv'
  <2> DEFINE r == tapReducer(tap, k, seen, pressed)
  <2>1. tap' = r.state /\ passed' = r.fired
    BY <1>2, <1>9 DEF TapProbeHears, Watching
  <2>2. /\ r.state \in TapStates
        /\ r.fired => worked'
        /\ worked' \/ Follows(r.state, ctrlTap')
    <3>1. CASE Foreign(pressed)
      <4>1. r = [state |-> Poisoned, fired |-> FALSE]
        BY <3>1 DEF tapReducer
      <4>2. r.state = Poisoned /\ ~r.fired
        BY <4>1
      <4>3. Follows(Poisoned, ctrlTap')
        BY DEF Follows, Poisoned, INITIAL_TAP
      <4>4. Poisoned \in TapStates
        BY TapStays DEF TapInv
      <4> QED
        BY <4>2, <4>3, <4>4
    <3>2. CASE ~Foreign(pressed) /\ k \in Controls /\ down
      <4>1. r = [state |-> ControlDown(tap), fired |-> FALSE]
        BY <1>4, <1>5, <3>2 DEF tapReducer
      <4>2. r.state = ControlDown(tap) /\ ~r.fired
        BY <4>1
      <4>3. ctrlTap' = on_modifiers(ctrlTap, pressed).state
        BY <1>1, <3>2 DEF ProductHears, Modifiers
      <4>4. worked \/ Follows(ControlDown(tap), ctrlTap')
        BY <1>5, <1>9, <3>2, <4>3, FollowsDown DEF TapInv
      <4>5. ControlDown(tap) \in TapStates
        BY TapStays DEF TapInv
      <4> QED
        BY <1>2, <1>9, <4>2, <4>4, <4>5
    <3>3. CASE ~Foreign(pressed) /\ k \in Controls /\ ~down
      <4>1. r = ControlUp(tap)
        BY <1>4, <1>5, <3>3 DEF tapReducer
      <4>2. ctrlTap' = on_modifiers(ctrlTap, pressed).state /\ k \in Modifiers
        BY <1>1, <3>3 DEF ProductHears, Modifiers
      <4>3. worked' <=> worked \/ on_modifiers(ctrlTap, pressed).fired
        BY <1>2, <1>9, <4>2 DEF DoubleTapped
      <4>4. \/ worked
            \/ /\ ControlUp(tap).fired => on_modifiers(ctrlTap, pressed).fired
               /\ \/ on_modifiers(ctrlTap, pressed).fired
                  \/ Follows(ControlUp(tap).state, on_modifiers(ctrlTap, pressed).state)
        BY <1>5, <1>9, <3>3, FollowsUp DEF TapInv
      <4>5. ControlUp(tap).state \in TapStates
        BY TapStays DEF TapInv
      <4> QED
        BY <4>1, <4>2, <4>3, <4>4, <4>5
    <3>4. CASE ~Foreign(pressed) /\ k \notin Controls /\ down
      <4>1. r = [state |-> Poisoned, fired |-> FALSE]
        BY <1>4, <3>4 DEF tapReducer
      <4>2. r.state = Poisoned /\ ~r.fired
        BY <4>1
      <4>3. Follows(Poisoned, ctrlTap')
        BY DEF Follows, Poisoned, INITIAL_TAP
      <4>4. Poisoned \in TapStates
        BY TapStays DEF TapInv
      <4> QED
        BY <4>2, <4>3, <4>4
    <3>5. CASE ~Foreign(pressed) /\ k \notin Controls /\ ~down
      <4>1. r = [state |-> tap, fired |-> FALSE]
        BY <1>4, <3>5 DEF tapReducer
      <4>2. r.state = tap /\ ~r.fired
        BY <4>1
      <4>3. worked \/ Follows(tap, ctrlTap')
        <5>1. CASE k \in Modifiers
          <6>1. ctrlTap.contaminated
            BY <1>5, <3>5, <5>1 DEF TapInv, Watches
          <6> QED
            BY <1>9, <6>1 DEF TapInv, Follows
        <5>2. CASE k \notin Modifiers
          <6>1. ctrlTap' = ctrlTap
            BY <1>1, <3>5, <5>2 DEF ProductHears
          <6> QED
            BY <1>9, <6>1 DEF TapInv
        <5> QED
          BY <5>1, <5>2
      <4> QED
        BY <1>2, <1>9, <4>2, <4>3 DEF TapInv
    <3> QED
      BY <3>1, <3>2, <3>3, <3>4, <3>5
  <2>3. worked' \in BOOLEAN
    BY <1>2, <1>9
  <2> HIDE DEF r
  <2> QED
    BY <1>1, <1>5, <1>6, <1>9, <2>1, <2>2, <2>3 DEF TapInv
<1> QED
  BY <1>7, <1>8, <1>9

\* Both sides read one clock.
LEMMA BothAge ==
    ASSUME TapInv, ~passed, TimePasses
    PROVE  TapInv'
<1> DEFINE s == [tap EXCEPT !.pressedAt = Older(@), !.lastReleaseAt = Older(@)]
           m == [ctrlTap EXCEPT !.press_started = Older(@), !.first_tap_release = Older(@)]
<1>1. /\ tap' = s /\ ctrlTap' = m
      /\ worked' = (worked \/ (lesson = "push-to-talk" /\ holdLatch'.active))
      /\ UNCHANGED <<keys, focused, lesson, passed>>
  BY DEF TimePasses
<1>2. tap \in TapStates /\ ctrlTap \in CtrlTaps
  BY DEF TapInv, Watches
<1>3. /\ Older(tap.pressedAt) \in Ages /\ Older(tap.lastReleaseAt) \in Ages
      /\ Older(ctrlTap.press_started) \in Ages /\ Older(ctrlTap.first_tap_release) \in Ages
      /\ Older(tap.pressedAt) = Never <=> tap.pressedAt = Never
      /\ Older(tap.lastReleaseAt) = Never <=> tap.lastReleaseAt = Never
  BY <1>2, AgesGrow DEF TapStates, CtrlTaps
<1>4. /\ s.pressedAt = Older(tap.pressedAt) /\ s.lastReleaseAt = Older(tap.lastReleaseAt)
      /\ s \in TapStates
  BY <1>2, <1>3 DEF TapStates
<1>5. /\ m.press_started = Older(ctrlTap.press_started)
      /\ m.first_tap_release = Older(ctrlTap.first_tap_release)
      /\ m.control_down = ctrlTap.control_down /\ m.awaiting_second = ctrlTap.awaiting_second
      /\ m.contaminated = ctrlTap.contaminated /\ m \in CtrlTaps
  BY <1>2, <1>3 DEF CtrlTaps
<1> HIDE DEF s, m
<1>6. Watches(m, keys)
  BY <1>5 DEF TapInv, Watches
<1>7. Follows(tap, ctrlTap) => Follows(s, m)
  BY <1>3, <1>4, <1>5 DEF Follows
<1>8. ~focused => s.pressedAt = Never /\ s.lastReleaseAt = Never
  BY <1>3, <1>4 DEF TapInv
<1> QED
  BY <1>1, <1>4, <1>6, <1>7, <1>8 DEF TapInv

\* The page's machine never accepts what the product's has not.
THEOREM TapLessonTeaches ==
    ASSUME OneControl
    PROVE  LessonSpec => []TapLessonTeachesTheGesture
<1>1. LessonInit => TapInv
  BY LessonAssumption DEF LessonInit, TapInv, INITIAL_TAP, FreshCtrlTap, TapStates, CtrlTaps,
     Watches, Ages, Control, Foreign
<1>2. TapInv /\ [LessonNext]_lessonVars => TapInv'
  <2> SUFFICES ASSUME TapInv, [LessonNext]_lessonVars
               PROVE  TapInv'
    OBVIOUS
  <2>1. ASSUME NEW k \in Controls \cup OtherKeys, NEW down \in BOOLEAN, KeyChanges(k, down), ~passed
        PROVE  TapInv'
    BY <2>1, BothHear
  <2>2. ASSUME TimePasses, ~passed
        PROVE  TapInv'
    BY <2>2, BothAge
  <2>3. ASSUME NEW which, LessonOpens(which), ~passed
        PROVE  TapInv'
    <3>1. INITIAL_TAP \in TapStates /\ Follows(INITIAL_TAP, ctrlTap)
          /\ INITIAL_TAP.pressedAt = Never /\ INITIAL_TAP.lastReleaseAt = Never
      BY TapStays DEF TapInv, Follows, INITIAL_TAP
    <3> QED
      BY <2>3, <3>1 DEF LessonOpens, TapInv
  <2>4. ASSUME LosesFocus, ~passed
        PROVE  TapInv'
    <3>1. INITIAL_TAP \in TapStates /\ Follows(INITIAL_TAP, ctrlTap)
          /\ INITIAL_TAP.pressedAt = Never /\ INITIAL_TAP.lastReleaseAt = Never
      BY TapStays DEF TapInv, Follows, INITIAL_TAP
    <3> QED
      BY <2>4, <3>1 DEF LosesFocus, TapInv
  <2>5. CASE Focuses
    BY <2>5 DEF Focuses, TapInv
  <2>6. CASE UNCHANGED lessonVars
    BY <2>6 DEF lessonVars, TapInv
  <2> QED
    BY <2>1, <2>2, <2>3, <2>4, <2>5, <2>6 DEF LessonNext
<1>3. TapInv => TapLessonTeachesTheGesture
  BY DEF TapInv, TapLessonTeachesTheGesture
<1> QED
  BY <1>1, <1>2, <1>3, PTL DEF LessonSpec

=============================================================================
