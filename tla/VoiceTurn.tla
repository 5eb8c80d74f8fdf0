------------------------------ MODULE VoiceTurn ------------------------------
(***************************************************************************)
(* A spoken turn in the notch (app/src/App.tsx with lib/turnSession.ts,    *)
(* lib/turnFlow.ts, lib/agent.ts and lib/speech.ts): from the hotkey over  *)
(* the transcript, the agent and the execution to the sentence spoken.     *)
(*                                                                         *)
(* Every promise of the code is a set of things still under way; each may  *)
(* come back at any moment.  Timers are left out: a watchdog or a dwell    *)
(* that is armed may fire.  Labels, languages and the turn log are left    *)
(* out.  The microphone and the speech backend are external.               *)
(***************************************************************************)
EXTENDS Naturals, FiniteSets

CONSTANTS Texts,        \* transcripts; a blank one is never admitted
          Blank,
          MaxTakes,     \* hotkey presses
          MaxRuns       \* agent turns

VARIABLES
    link,       \* the subscription to the Rust core
    mic,        \* the capture state, and the take whose transcript is still due
    turn,       \* the turn session; its id is 0 when there is none
    flow,       \* TurnFlow: the newest generation and the text in flight
    runs,       \* agent turns under way
    gates,      \* decisions of the wallet gate under way
    execs,      \* executions under way
    said,       \* the speech queue: what is spoken, whether it is heard, what waits
    take,       \* history: hotkey presses so far
    bound       \* history: the take whose press opened the session shown

turnVars == <<link, mic, turn, flow, runs, gates, execs, said, take, bound>>

NoTurn  == [id |-> 0, stage |-> "null", notice |-> FALSE]
NoWords == [turnId |-> 0, took |-> 0]      \* no utterance
NoText  == "no text"
NoFlow  == [generation |-> 0, inFlight |-> NoText]
Silence == [now |-> NoWords, busy |-> FALSE, heard |-> FALSE, next |-> NoWords, more |-> FALSE]

PaymentStages == {"awaiting_approval", "signing", "submitting"}
Terminal      == {"done", "error"}
ActiveStages  == {"listening", "thinking", "speaking"} \cup PaymentStages

TurnInit ==
    /\ link = "down" /\ mic = [state |-> "idle", due |-> 0]
    /\ turn = NoTurn /\ flow = NoFlow
    /\ runs = {} /\ gates = {} /\ execs = {}
    /\ said = Silence
    /\ take = 0 /\ bound = 0

-----------------------------------------------------------------------------
(* The reducer: what one signal does to the session s.                     *)

Fresh(s)  == [id |-> s.id + 1, stage |-> "listening", notice |-> FALSE]

Failed(s) == IF s.stage \in Terminal THEN s
             ELSE [id |-> s.id + 1, stage |-> "error", notice |-> FALSE]

Thinks(s) == IF s.stage = "listening" THEN [s EXCEPT !.stage = "thinking"] ELSE s

\* Faulty variant: a take supersedes a payment.
CapturedOverPayment(s, state) ==
    CASE state = "recording" -> Fresh(s)
      [] state = "error"     -> Failed(s)
      [] state = "idle"      -> s
      [] OTHER               -> Thinks(s)

Captured(s, state) ==
    IF s.stage \in PaymentStages
    THEN IF state = "recording" THEN [s EXCEPT !.notice = TRUE] ELSE s
    ELSE CASE state = "recording"                -> Fresh(s)
           [] state = "error"                    -> Failed(s)
           [] state \in {"ready", "transcribing"} -> Thinks(s)
           [] state = "idle"                     -> s

Advanced(s, stage) ==
    IF \/ stage = "awaiting_approval" /\ s.stage \in {"thinking", "speaking"}
       \/ stage = "signing" /\ s.stage = "awaiting_approval"
       \/ stage = "submitting" /\ s.stage = "signing"
    THEN [s EXCEPT !.stage = stage, !.notice = FALSE] ELSE s

SpeechStarted(s) ==
    IF s.stage \in {"thinking", "submitting"}
    THEN [s EXCEPT !.stage = "speaking", !.notice = FALSE] ELSE s

SpeechFinished(s) == IF s.stage = "speaking" THEN [s EXCEPT !.stage = "done"] ELSE s

\* Faulty variant: only a failure has a dwell that ends.
SettledAfterError(s) == IF s.stage = "error" THEN NoTurn ELSE s

Settled(s) == IF s.stage \in Terminal THEN NoTurn ELSE s

IsCurrentTurn(turnId) == turnId # 0 /\ turn.id = turnId

-----------------------------------------------------------------------------
(* The subscription, the microphone and the session's own timers.          *)

\* connect: subscribe, then read the snapshot; a failure unsubscribes and retries.
Subscribes == link \in {"down", "error"} /\ link' = "listening"
              /\ UNCHANGED <<mic, turn, flow, runs, gates, execs, said, take, bound>>

\* The snapshot is folded in only when no live event came first.
Connects(receivedStatus) ==
    /\ link = "listening" /\ link' = "up"
    /\ turn' = IF receivedStatus THEN turn ELSE Captured(turn, mic.state)
    /\ bound' = IF turn'.id # turn.id THEN take ELSE bound
    /\ UNCHANGED <<mic, flow, runs, gates, execs, said, take>>

ConnectFails == link = "listening" /\ link' = "error"
                /\ UNCHANGED <<mic, turn, flow, runs, gates, execs, said, take, bound>>

\* The recorder goes from state to state; the last transcription leaves a
\* transcript to be delivered.
MicSteps == {<<"idle", "recording">>, <<"error", "recording">>, <<"recording", "ready">>,
             <<"recording", "error">>, <<"ready", "transcribing">>, <<"ready", "recording">>,
             <<"transcribing", "recording">>, <<"transcribing", "idle">>,
             <<"transcribing", "error">>}

CaptureStatus(state) ==
    /\ <<mic.state, state>> \in MicSteps
    /\ state = "recording" => take < MaxTakes
    /\ take' = IF state = "recording" THEN take + 1 ELSE take
    /\ mic' = [state |-> state, due |-> IF state = "idle" THEN take ELSE mic.due]
    /\ IF link \in {"listening", "up"}
       THEN /\ turn' = Captured(turn, state)
            /\ bound' = IF turn'.id # turn.id THEN take' ELSE bound
       ELSE UNCHANGED <<turn, bound>>
    /\ UNCHANGED <<link, flow, runs, gates, execs, said>>

Dispatch(s) == turn' = s /\ UNCHANGED <<link, mic, flow, runs, gates, execs, said, take, bound>>

\* The dwell of a terminal stage ends.
DwellEnds == turn.stage \in Terminal /\ Dispatch(Settled(turn))

\* The ceiling of a stage, for the stages that do not end by themselves.
StageTimesOut ==
    /\ turn.stage \in {"thinking", "speaking"} \cup PaymentStages
    /\ Dispatch(Failed(turn))

\* The ceiling of the whole turn.
TurnTimesOut == turn.stage \in ActiveStages /\ Dispatch(Failed(turn))

-----------------------------------------------------------------------------
(* The agent turn.                                                         *)

\* A blank transcript or the one in flight is ignored; anything else supersedes.
Admits(text) ==
    /\ turn.stage \notin PaymentStages
    /\ text \notin {Blank, flow.inFlight}

\* runFromTranscript, up to its first await.
Transcript(text) ==
    /\ mic.due # 0 /\ mic' = [mic EXCEPT !.due = 0]
    /\ IF link \in {"listening", "up"} /\ Admits(text)
       THEN /\ flow.generation < MaxRuns
            /\ flow' = [generation |-> flow.generation + 1, inFlight |-> text]
            /\ runs' = runs \cup {[generation |-> flow.generation + 1, asked |-> FALSE]}
       ELSE UNCHANGED <<flow, runs>>
    /\ UNCHANGED <<link, turn, gates, execs, said, take, bound>>

IsCurrent(r) == r.generation = flow.generation

\* The agent core takes the transcript.
AgentThinking(r) ==
    /\ r \in runs /\ ~r.asked
    /\ runs' = (runs \ {r}) \cup {[r EXCEPT !.asked = TRUE]}
    /\ turn' = IF IsCurrent(r) THEN Thinks(turn) ELSE turn
    /\ UNCHANGED <<link, mic, flow, gates, execs, said, take, bound>>

\* settle clears the text in flight, unless a newer turn was admitted.
RunOver(r) ==
    /\ runs' = runs \ {r}
    /\ flow' = IF IsCurrent(r) THEN [flow EXCEPT !.inFlight = NoText] ELSE flow

\* One utterance is spoken and one waits; a newer one takes its place.
Enqueued(utterance) ==
    IF said.busy THEN [said EXCEPT !.next = utterance, !.more = TRUE]
    ELSE [said EXCEPT !.now = utterance, !.busy = TRUE, !.heard = FALSE]

Words(turnId) == [turnId |-> turnId, took |-> bound]

AgentFails(r) ==
    /\ r \in runs /\ r.asked /\ RunOver(r)
    /\ turn' = IF IsCurrent(r) THEN Failed(turn) ELSE turn
    /\ UNCHANGED <<link, mic, gates, execs, said, take, bound>>

\* A conversational turn, with or without a page to open; it may have no words.
AgentAnswers(r, words) ==
    /\ r \in runs /\ r.asked /\ RunOver(r)
    /\ said' = IF IsCurrent(r) /\ words THEN Enqueued(Words(turn.id)) ELSE said
    /\ UNCHANGED <<link, mic, turn, gates, execs, take, bound>>

\* An intent is bound to the session shown now; the wallet gate is asked first.
AgentIntends(r) ==
    /\ r \in runs /\ r.asked /\ RunOver(r)
    /\ gates' = IF IsCurrent(r) THEN gates \cup {[turnId |-> turn.id, took |-> bound]} ELSE gates
    /\ UNCHANGED <<link, mic, turn, execs, said, take, bound>>

\* The gate's promise resolves: blocked, or executeApprovedIntent begins.
WalletGate(g, block) ==
    /\ g \in gates /\ gates' = gates \ {g}
    /\ IF ~IsCurrentTurn(g.turnId)
       THEN UNCHANGED <<turn, execs, said>>
       ELSE IF block
       THEN turn' = Failed(turn) /\ said' = Enqueued([NoWords EXCEPT !.took = bound])
            /\ UNCHANGED execs
       ELSE /\ execs' = execs \cup {[turnId |-> g.turnId, took |-> g.took, at |-> "building"]}
            /\ UNCHANGED <<turn, said>>
    /\ UNCHANGED <<link, mic, flow, runs, take, bound>>

-----------------------------------------------------------------------------
(* The execution of an intent.                                             *)

StageAfter == [building |-> "awaiting_approval", awaiting_approval |-> "signing",
               signing |-> "submitting"]

\* onStage
ExecutionStage(x) ==
    /\ x \in execs /\ x.at \in DOMAIN StageAfter
    /\ execs' = (execs \ {x}) \cup {[x EXCEPT !.at = StageAfter[x.at]]}
    /\ turn' = IF IsCurrentTurn(x.turnId) THEN Advanced(turn, StageAfter[x.at]) ELSE turn
    /\ UNCHANGED <<link, mic, flow, runs, gates, said, take, bound>>

\* A transaction that reached the network is announced whatever is shown.
ExecutionSubmitted(x) ==
    /\ x \in execs /\ x.at = "submitting" /\ execs' = execs \ {x}
    /\ said' = Enqueued([turnId |-> x.turnId, took |-> x.took])
    /\ UNCHANGED <<link, mic, turn, flow, runs, gates, take, bound>>

\* A refusal, a timeout or a failure at any stage; spoken is false when the seam threw.
ExecutionFails(x, spoken) ==
    /\ x \in execs /\ execs' = execs \ {x}
    /\ IF IsCurrentTurn(x.turnId)
       THEN /\ turn' = Failed(turn)
            /\ said' = IF spoken THEN Enqueued([NoWords EXCEPT !.took = x.took]) ELSE said
       ELSE UNCHANGED <<turn, said>>
    /\ UNCHANGED <<link, mic, flow, runs, gates, take, bound>>

-----------------------------------------------------------------------------
(* Speech.                                                                 *)

PlaybackStarts ==
    /\ said.busy /\ ~said.heard /\ said' = [said EXCEPT !.heard = TRUE]
    /\ turn' = IF link \in {"listening", "up"} THEN SpeechStarted(turn) ELSE turn
    /\ UNCHANGED <<link, mic, flow, runs, gates, execs, take, bound>>

\* The queue goes on with what waits.
Drained == [now |-> said.next, busy |-> said.more, heard |-> FALSE,
            next |-> NoWords, more |-> FALSE]

PlaybackEnds ==
    /\ said.busy /\ said.heard /\ said' = Drained
    /\ turn' = IF link \in {"listening", "up"} THEN SpeechFinished(turn) ELSE turn
    /\ UNCHANGED <<link, mic, flow, runs, gates, execs, take, bound>>

\* No audio: the failure settles the turn that asked for it.
SpeechFails ==
    /\ said.busy /\ ~said.heard /\ said' = Drained
    /\ turn' = IF IsCurrentTurn(said.now.turnId) THEN Failed(turn) ELSE turn
    /\ UNCHANGED <<link, mic, flow, runs, gates, execs, take, bound>>

-----------------------------------------------------------------------------
Timers == DwellEnds \/ StageTimesOut \/ TurnTimesOut

TurnNext ==
    \/ Subscribes \/ ConnectFails
    \/ \E b \in BOOLEAN : Connects(b)
    \/ \E s \in {"recording", "ready", "transcribing", "idle", "error"} : CaptureStatus(s)
    \/ Timers
    \/ \E t \in Texts : Transcript(t)
    \/ \E r \in runs :
          \/ AgentThinking(r) \/ AgentFails(r) \/ AgentIntends(r)
          \/ \E words \in BOOLEAN : AgentAnswers(r, words)
    \/ \E g \in gates, block \in BOOLEAN : WalletGate(g, block)
    \/ \E x \in execs :
          \/ ExecutionStage(x) \/ ExecutionSubmitted(x)
          \/ \E spoken \in BOOLEAN : ExecutionFails(x, spoken)
    \/ PlaybackStarts \/ PlaybackEnds \/ SpeechFails

TurnSpec == TurnInit /\ [][TurnNext]_turnVars

\* The timers of the webview run.
TurnFairSpec == TurnSpec /\ WF_turnVars(DwellEnds) /\ WF_turnVars(TurnTimesOut)

-----------------------------------------------------------------------------
(* What must hold.                                                         *)

\* A pending payment is not hidden: until its stage ends by a stage of its own,
\* by playback or by a failure, no press of the hotkey opens a turn over it and no
\* transcript starts an agent turn (turnSession.ts:182-187, App.tsx:178-185).
PaymentIsNotSuperseded ==
    [][turn.stage \in PaymentStages =>
          /\ turn'.id = turn.id \/ turn'.stage = "error"
          /\ flow'.generation = flow.generation]_turnVars

\* The notch does not stay open for ever, whatever the agent, the wallet, the
\* network and the speech backend do (turnSession.ts:344-350).
EveryTurnEnds == turn.stage # "null" ~> turn.stage = "null"

=============================================================================
