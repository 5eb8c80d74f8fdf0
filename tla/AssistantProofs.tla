--------------------------- MODULE AssistantProofs ---------------------------
(***************************************************************************)
(* What the assistant does for its owner beside moving value: the agent's  *)
(* turns (AgentTurn), the advice it draws from past payments (Suggest) and *)
(* the history it shows (TurnHistory).  The three share no variable and    *)
(* are proved about one after the other.                                   *)
(*                                                                         *)
(* The agent, for any number of turns, any calls the model may make, any   *)
(* tools a remote server may list and any interleaving of the turns.       *)
(* A proposal stands for one call.  What has to be known of a turn that    *)
(* gathers: as long as it has nothing to ask, the calls it went past that  *)
(* ask for value to move are as many as its proposals, none or one; and a  *)
(* tool that runs is not one of them.  A question shown to the model is    *)
(* recent.  What has to be known of the dialogue: its pending question was *)
(* left by a turn that has begun, and a turn that has begun keeps the time *)
(* of its beginning.  A remote tool only reads.  What has to be known of   *)
(* the registry: every tool in it was listed by the server and passed the  *)
(* filter; and the list being read holds nothing but what the server lists.*)
(*                                                                         *)
(* The advice is computed afresh from the history it is given, so that its *)
(* invariant is a type; what the theorem rests on is what the statistics   *)
(* return of any sample: a rank's value is one of the sample, the median   *)
(* lies between its extremes, and a percentile bounds what is above it.    *)
(*                                                                         *)
(* The history is true of three things at once.  What has to be known of   *)
(* the log: a turn whose transaction is known was submitted and nothing    *)
(* acts on it any more, so that no late answer calls it off.  Of the       *)
(* ledger: the records of a transaction go one way.  Of the page: its rows *)
(* tell of the log and of the ledger as they were, and every payment from  *)
(* the cursor to the newest one read is told, unless an older reading's    *)
(* page joined.                                                            *)
(***************************************************************************)
EXTENDS AgentTurn, Suggest, TurnHistory, FiniteSetTheorems, TLAPS

-----------------------------------------------------------------------------
(* The agent's turns.                                                       *)

Steps     == {"idle", "asking", "calling", "running", "ended", "failed"}
Slots     == {"sell_route", "sell_price", "rule_asset"}
Questions == Slots \cup {Absent, "repeat"}

\* What the calls that ask for value to move are read as.
Proposals == {toIntent(call) : call \in {c \in Calls : NeedsApproval(c.tool)}}

Runs == [step : Steps, cancels : BOOLEAN, at : Nat, sees : Questions, calls : Seq(Calls),
         next : Nat \ {0}, intents : Seq(Proposals), opens : Nat, asks : Questions,
         answer : Questions \cup {"spoken", "one at a time", "proposal", "text"}]

HoldsAQuestion(d) ==
    "pending" \in DOMAIN d /\ d.pending \in [question : Questions, expiresAt : Nat]

TypeInv ==
    /\ turn \in [Turns -> Runs]
    /\ agentClock \in Nat
    /\ HoldsAQuestion(dialog)

\* The calls of an answer that ask for value to move, those before the n-th, and what
\* one proposal has to do with them.
Moving(calls) == {i \in DOMAIN calls : NeedsApproval(calls[i].tool) /\ ~toNavigationFor(calls[i])}
MovingBefore(calls, n) == {i \in Moving(calls) : i < n}
StandsFor(intents, moving, calls) ==
    \E i \in moving : moving = {i} /\ toIntent(calls[i]) = intents[1]

\* With nothing to ask, the proposals gathered are those of the calls gone past.
Gathered(run) ==
    /\ run.step \in {"calling", "running"} /\ run.asks = Absent =>
          LET passed == MovingBefore(run.calls, run.next)
          IN  /\ Len(run.intents) = 0 => passed = {}
              /\ Len(run.intents) = 1 => StandsFor(run.intents, passed, run.calls)
    /\ run.step = "asking" =>
          run.next = 1 /\ run.intents = <<>> /\ run.asks = Absent /\ run.answer = Absent
    /\ run.step \in {"calling", "running"} => run.answer \in {Absent, "spoken"}
    /\ run.step = "running" =>
          run.next \in DOMAIN run.calls /\ ~NeedsApproval(run.calls[run.next].tool)
    /\ run.step = "ended" /\ run.answer = "proposal" =>
          StandsFor(run.intents, Moving(run.calls), run.calls) /\ run.asks = Absent

\* The question the dialogue holds was left by a turn that has begun.
QuestionHasATurn ==
    dialog.pending.question # Absent =>
        \E u \in Turns : turn[u].step # "idle" /\ dialog.pending.expiresAt = turn[u].at + DIALOG_TTL

\* Everything the server lists, and the part of it the filter lets in.
Listed   == UNION {{Served[p][i] : i \in DOMAIN Served[p]} : p \in DOMAIN Served}
Readable == {tool \in Listed : mcpToolReadOnly(tool)}

OnlyReads ==
    /\ listing \in [step : {"off", "reading", "done"}, page : Nat, tools : Seq(Listed)]
    /\ listing.step = "off" => listing.page = 0
    /\ listing.step = "reading" => listing.page < Len(Served)
    /\ \A name \in DOMAIN registry : registry[name] \in Readable
    /\ \A name \in remoteCalls : \E tool \in Readable : tool.name = name

\* A time to live, answers of some length, and pages that are lists of tools.
AgentConstants ==
    DIALOG_TTL \in Nat /\ MaxCalls \in Nat /\ Served \in Seq(Seq(Listed))

TurnsInv == /\ TypeInv
            /\ \A t \in Turns : Gathered(turn[t])
            /\ QuestionHasATurn /\ QuestionsGrowOld

AgentInv == TurnsInv /\ OnlyReads

-----------------------------------------------------------------------------
(* What arguments become.                                                   *)

\* A proposal, or a refusal that may ask for one slot.
Reading(result) == \/ result.is = "intent"
                   \/ result.is = "bad" /\ result.question \in Slots \cup {Absent}

\* What a refusal, a question and a proposal are read as.
LEMMA PlainReadings ==
    /\ \A kind, asset, amount : Reading(Proposed(kind, asset, amount))
    /\ Reading(bad)
    /\ \A question \in Slots : Reading(Asks(question))
BY DEF Reading, Proposed, bad, Asks

\* A payment, a ramp, a trade, a rule or an order is read as one of these three.
LEMMA PaymentReads == ASSUME NEW input  PROVE Reading(parseSendPayment(input))
<1> DEFINE known == normalizeRecipient(input.recipient)
           proposed == Proposed("send", normalizeAsset(input.asset), input.amount)
           to == IF known # Absent THEN known ELSE input.recipient
<1>1. Reading([proposed EXCEPT !.to = to])
  BY DEF Reading, Proposed
<1> QED
  BY <1>1, PlainReadings DEF parseSendPayment

\* Deposits and withdrawals as well.
LEMMA RampsRead ==
    ASSUME NEW input
    PROVE  Reading(parseDeposit(input)) /\ Reading(parseWithdraw(input))
BY PlainReadings DEF parseDeposit, parseWithdraw

\* Offers and what is done about them as well.
LEMMA TradesRead ==
    ASSUME NEW input
    PROVE  /\ Reading(parseSellAsset(input)) /\ Reading(parseBuyAsset(input))
           /\ Reading(parseP2pOffer(input)) /\ Reading(parseP2pAccept(input))
           /\ Reading(parseP2pConfirm(input))
<1>1. "sell_route" \in Slots /\ "sell_price" \in Slots
  BY DEF Slots
<1>2. Reading(parseSellAsset(input))
  BY <1>1, PlainReadings DEF parseSellAsset
<1>3. Reading(parseBuyAsset(input))
  BY <1>1, PlainReadings DEF parseBuyAsset
<1> QED
  BY <1>2, <1>3, PlainReadings DEF parseP2pOffer, parseP2pAccept, parseP2pConfirm

\* Rules and standing orders as well.
LEMMA RulesAndOrdersRead ==
    ASSUME NEW input
    PROVE  /\ Reading(parseSetApprovalRule(input)) /\ Reading(parseSchedulePayment(input))
           /\ Reading(parseCancelSchedule(input))
<1>1. "rule_asset" \in Slots
  BY DEF Slots
<1>2. Reading(parseSetApprovalRule(input))
  BY <1>1, PlainReadings DEF parseSetApprovalRule
<1> QED
  BY <1>2, PlainReadings DEF parseSchedulePayment, parseCancelSchedule

GatedTools == {"send_payment", "deposit", "withdraw", "schedule_payment", "cancel_schedule",
               "p2p_offer", "p2p_accept", "p2p_confirm", "set_approval_rule", "sell_asset",
               "buy_asset"}

\* What asks for value to move is one of these tools.
LEMMA GatedToolsAreThese == ASSUME NEW name, NeedsApproval(name)  PROVE name \in GatedTools
<1>1. PICK tool \in createDefaultRegistry : tool.name = name /\ tool.approval
  BY DEF NeedsApproval
<1> QED
  BY <1>1 DEF GatedTools, createDefaultRegistry, sendPaymentTool, getBalanceTool, navigateTool,
     depositTool, withdrawTool, schedulePaymentTool, cancelScheduleTool, p2pOfferTool,
     p2pAcceptTool, p2pConfirmTool, setApprovalRuleTool, sellAssetTool, buyAssetTool,
     saveContactTool, listContactsTool, deleteContactTool

\* So every such call is read as a refusal, a question or a proposal.
LEMMA CallsAreRead == ASSUME NEW call, NeedsApproval(call.tool)  PROVE Reading(toIntent(call))
<1>1. call.tool \in GatedTools
  BY GatedToolsAreThese
<1> QED
  BY <1>1, PaymentReads, RampsRead, TradesRead, RulesAndOrdersRead DEF toIntent, GatedTools

-----------------------------------------------------------------------------
(* What a turn gathers.                                                     *)

LEMMA QuietIsARun == Quiet \in Runs /\ Quiet.step = "idle"
<1>1. <<>> \in Seq(Calls) /\ <<>> \in Seq(Proposals)
  OBVIOUS
<1> QED
  BY <1>1 DEF Quiet, Runs, Steps, Questions, Slots, Absent

\* A turn that fails is a turn still.
LEMMA FailedIsARun ==
    ASSUME NEW old \in Runs
    PROVE  Failed(old) \in Runs /\ Failed(old).step = "failed" /\ Failed(old).at = old.at
<1>1. old.at \in Nat /\ "failed" \in Steps
  BY DEF Runs, Steps
<1>2. /\ Failed(old) = [Quiet EXCEPT !.step = "failed", !.at = old.at]
      /\ Failed(old) \in Runs
  BY <1>1, QuietIsARun DEF Failed, Runs
<1> QED
  BY <1>2, QuietIsARun DEF Runs

\* When one turn changes into a turn, all are turns.
LEMMA OneTurnChanges ==
    ASSUME TypeInv, NEW t \in Turns, NEW new \in Runs, turn' = [turn EXCEPT ![t] = new]
    PROVE  turn' \in [Turns -> Runs] /\ turn'[t] = new /\ \A u \in Turns \ {t} : turn'[u] = turn[u]
BY DEF TypeInv

\* A turn that is not yet reading calls, or failed, has gathered nothing to answer for.
LEMMA NothingIsGatheredYet ==
    ASSUME NEW new, \/ new.step \in {"idle", "failed"}
                    \/ /\ new.step = "asking" /\ new.next = 1 /\ new.intents = <<>>
                       /\ new.asks = Absent /\ new.answer = Absent
    PROVE  Gathered(new)
BY DEF Gathered

\* Whatever a turn does that neither asks the model nor ends with a proposal.
LEMMA OthersKeepWhatTheyGathered ==
    ASSUME TypeInv, NEW t \in Turns, NEW new \in Runs, turn' = [turn EXCEPT ![t] = new],
           \A u \in Turns : Gathered(turn[u]), Gathered(new)
    PROVE  \A u \in Turns : Gathered(turn'[u])
BY OneTurnChanges

\* A turn that has begun stays begun since the same time: what was asked keeps its turn.
LEMMA QuestionsKeepTheirTurns ==
    ASSUME AgentConstants, TypeInv, QuestionHasATurn, QuestionsGrowOld,
           NEW t \in Turns, NEW new \in Runs, turn' = [turn EXCEPT ![t] = new],
           turn[t].step # "idle", new.step \notin {"idle", "asking"}, new.at = turn[t].at
    PROVE  /\ QuestionsGrowOld'
           /\ UNCHANGED dialog => QuestionHasATurn'
           /\ dialog.pending.question # Absent =>
                 \E u \in Turns : turn'[u].step # "idle"
                                  /\ dialog.pending.expiresAt = turn'[u].at + DIALOG_TTL
<1>1. \A u \in Turns : /\ turn'[u].at = turn[u].at
                       /\ turn[u].step # "idle" => turn'[u].step # "idle"
                       /\ turn'[u].step = "asking" => turn'[u] = turn[u]
  BY OneTurnChanges
<1>2. QuestionsGrowOld'
  BY <1>1 DEF QuestionsGrowOld
<1>3. dialog.pending.question # Absent =>
         \E u \in Turns : turn'[u].step # "idle"
                          /\ dialog.pending.expiresAt = turn'[u].at + DIALOG_TTL
  BY <1>1 DEF QuestionHasATurn
<1> QED
  BY <1>2, <1>3 DEF QuestionHasATurn

\* Past a call, the calls that ask for value are those before it, and it if it does.
LEMMA GoingPastACall ==
    ASSUME NEW calls \in Seq(Calls), NEW n \in DOMAIN calls
    PROVE  MovingBefore(calls, n + 1) =
               IF NeedsApproval(calls[n].tool) /\ ~toNavigationFor(calls[n])
               THEN MovingBefore(calls, n) \cup {n} ELSE MovingBefore(calls, n)
<1>1. DOMAIN calls \subseteq Nat /\ n \in Nat
  OBVIOUS
<1>2. \A i \in DOMAIN calls : i < n + 1 <=> i < n \/ i = n
  BY <1>1
<1> QED
  BY <1>2 DEF MovingBefore, Moving

-----------------------------------------------------------------------------
(* What the dialogue holds.                                                 *)

LEMMA RememberingKeepsTheQuestion ==
    ASSUME NEW d, HoldsAQuestion(d), NEW line
    PROVE  HoldsAQuestion(Remembers(d, line)) /\ Remembers(d, line).pending = d.pending
<1> DEFINE lines == Append(d.lines, line)
           max   == MAX_EXCHANGES * 2
           kept  == IF Len(lines) > max THEN SubSeq(lines, Len(lines) - max + 1, Len(lines))
                    ELSE lines
<1>1. Remembers(d, line) = [d EXCEPT !.lines = kept]
  BY DEF Remembers
<1> HIDE DEF kept
<1> QED
  BY <1>1 DEF HoldsAQuestion

\* A dialogue just begun holds no question.
LEMMA NoDialogHoldsNone == HoldsAQuestion(NoDialog) /\ NoDialog.pending.question = Absent
BY DEF HoldsAQuestion, NoDialog, NoPending, Questions

\* Asking sets a question of that time.
LEMMA AskingSetsTheQuestion ==
    ASSUME AgentConstants, NEW d, HoldsAQuestion(d), NEW question \in Questions, NEW at \in Nat
    PROVE  /\ HoldsAQuestion(setPending(d, question, at))
           /\ setPending(d, question, at).pending.question = question
           /\ setPending(d, question, at).pending.expiresAt = at + DIALOG_TTL
<1>1. at + DIALOG_TTL \in Nat
  BY DEF AgentConstants
<1> QED
  BY <1>1 DEF HoldsAQuestion, setPending

\* A question that is read has not outlived its time.
LEMMA OnlyAFreshQuestionIsRead ==
    ASSUME NEW d, HoldsAQuestion(d), NEW at \in Nat
    PROVE  /\ HoldsAQuestion(pending(d, at))
           /\ pending(d, at).pending.question # Absent =>
                 pending(d, at).pending = d.pending /\ at < d.pending.expiresAt
<1>1. d.pending.expiresAt \in Nat /\ "pending" \in DOMAIN d
  BY DEF HoldsAQuestion
<1>2. NoPending \in [question : Questions, expiresAt : Nat] /\ NoPending.question = Absent
  BY DEF NoPending, Questions
<1>3. CASE d.pending.question # Absent /\ d.pending.expiresAt <= at
  BY <1>1, <1>2, <1>3 DEF pending, HoldsAQuestion
<1>4. CASE ~ (d.pending.question # Absent /\ d.pending.expiresAt <= at)
  BY <1>1, <1>4 DEF pending
<1> QED
  BY <1>3, <1>4

-----------------------------------------------------------------------------
(* Every step keeps the turns and the dialogue in order.                    *)

LEMMA TurnsBegin == AgentInit => TurnsInv
<1> SUFFICES ASSUME AgentInit  PROVE TurnsInv
  OBVIOUS
<1>1. TypeInv /\ dialog.pending.question = Absent
  BY QuietIsARun, NoDialogHoldsNone DEF AgentInit, TypeInv
<1>2. \A t \in Turns : Gathered(turn[t]) /\ turn[t].step = "idle"
  BY QuietIsARun DEF AgentInit, Gathered
<1> QED
  BY <1>1, <1>2 DEF TurnsInv, QuestionHasATurn, QuestionsGrowOld

\* A turn that starts keeps the invariant.
LEMMA StartsKeepsTurns ==
    ASSUME AgentConstants, TurnsInv, NEW t \in Turns, NEW cancels \in BOOLEAN,
           TurnStarts(t, cancels)
    PROVE  TurnsInv'
<1> USE DEF TurnsInv
<1> DEFINE fresh == pending(dialog, agentClock)
           new   == [Quiet EXCEPT !.step = "asking", !.cancels = cancels, !.at = agentClock,
                                  !.sees = fresh.pending.question]
<1>1. /\ agentClock \in Nat /\ HoldsAQuestion(dialog) /\ HoldsAQuestion(fresh)
      /\ fresh.pending.question # Absent =>
            fresh.pending = dialog.pending /\ agentClock < dialog.pending.expiresAt
  BY OnlyAFreshQuestionIsRead DEF TypeInv
<1>2. dialog' = Remembers(fresh, "user") /\ turn' = [turn EXCEPT ![t] = new]
      /\ turn[t].step = "idle" /\ agentClock' = agentClock
  BY DEF TurnStarts
<1>3. HoldsAQuestion(dialog') /\ dialog'.pending = fresh.pending
  BY <1>1, <1>2, RememberingKeepsTheQuestion
<1>4. /\ new \in Runs /\ new.step = "asking" /\ new.at = agentClock
      /\ new.sees = fresh.pending.question /\ new.next = 1 /\ new.intents = <<>>
      /\ new.asks = Absent /\ new.answer = Absent
  BY <1>1, QuietIsARun DEF HoldsAQuestion, Runs, Steps, Quiet
<1>5. /\ turn' \in [Turns -> Runs] /\ turn'[t] = new
      /\ \A u \in Turns \ {t} : turn'[u] = turn[u]
  BY <1>2, <1>4, OneTurnChanges
<1> HIDE DEF new, fresh
<1>6. \A u \in Turns : Gathered(turn'[u])
  BY <1>2, <1>4, NothingIsGatheredYet, OthersKeepWhatTheyGathered
<1>7. fresh.pending.question # Absent =>
         \E u \in Turns \ {t} : /\ turn[u].step # "idle"
                                /\ dialog.pending.expiresAt = turn[u].at + DIALOG_TTL
  BY <1>1, <1>2 DEF QuestionHasATurn
<1>8. QuestionHasATurn'
  BY <1>1, <1>3, <1>5, <1>7 DEF QuestionHasATurn
<1>9. QuestionsGrowOld'
  <2> SUFFICES ASSUME NEW v \in Turns, turn'[v].step = "asking", turn'[v].sees # Absent
               PROVE  \E u \in Turns \ {v} : /\ turn'[u].step # "idle"
                                             /\ turn'[v].at < turn'[u].at + DIALOG_TTL
    BY DEF QuestionsGrowOld
  <2>1. CASE v = t
    <3>1. PICK u \in Turns \ {t} : /\ turn[u].step # "idle"
                                   /\ dialog.pending.expiresAt = turn[u].at + DIALOG_TTL
      BY <1>4, <1>5, <1>7, <2>1
    <3>2. agentClock < dialog.pending.expiresAt
      BY <1>1, <1>4, <1>5, <2>1
    <3> QED
      BY <1>4, <1>5, <2>1, <3>1, <3>2
  <2>2. CASE v # t
    <3>1. PICK u \in Turns \ {v} : /\ turn[u].step # "idle"
                                   /\ turn[v].at < turn[u].at + DIALOG_TTL
      BY <1>5, <2>2 DEF QuestionsGrowOld
    <3> QED
      BY <1>2, <1>5, <2>2, <3>1
  <2> QED
    BY <2>1, <2>2
<1> QED
  BY <1>2, <1>3, <1>5, <1>6, <1>8, <1>9 DEF TypeInv

\* A turn under way goes on: the question pending is the old one, its own, or none.
LEMMA GoingOnKeepsTurns ==
    ASSUME AgentConstants, TurnsInv, NEW t \in Turns, NEW new \in Runs,
           turn' = [turn EXCEPT ![t] = new], agentClock' = agentClock,
           turn[t].step # "idle", new.step \notin {"idle", "asking"}, new.at = turn[t].at,
           Gathered(new), HoldsAQuestion(dialog'),
           \/ dialog'.pending = dialog.pending
           \/ dialog'.pending.question = Absent
           \/ dialog'.pending.expiresAt = turn[t].at + DIALOG_TTL
    PROVE  TurnsInv'
<1> USE DEF TurnsInv
<1>1. /\ QuestionsGrowOld'
      /\ dialog.pending.question # Absent =>
            \E u \in Turns : turn'[u].step # "idle"
                             /\ dialog.pending.expiresAt = turn'[u].at + DIALOG_TTL
  BY QuestionsKeepTheirTurns
<1>2. /\ turn' \in [Turns -> Runs] /\ turn'[t] = new
      /\ \A u \in Turns : Gathered(turn'[u])
  BY OneTurnChanges, OthersKeepWhatTheyGathered
<1>3. QuestionHasATurn'
  BY <1>1, <1>2 DEF QuestionHasATurn
<1> QED
  BY <1>1, <1>2, <1>3 DEF TypeInv

\* And so does a turn that fails.
LEMMA FailingKeepsTurns ==
    ASSUME AgentConstants, TurnsInv, NEW t \in Turns, turn[t].step # "idle",
           turn' = [turn EXCEPT ![t] = Failed(turn[t])],
           agentClock' = agentClock, dialog' = dialog
    PROVE  TurnsInv'
<1>1. /\ Failed(turn[t]) \in Runs /\ Failed(turn[t]).step = "failed"
      /\ Failed(turn[t]).at = turn[t].at
  BY FailedIsARun DEF TurnsInv, TypeInv
<1>2. Gathered(Failed(turn[t]))
  BY <1>1, NothingIsGatheredYet
<1>3. HoldsAQuestion(dialog')
  BY DEF TurnsInv, TypeInv
<1> QED
  BY <1>1, <1>2, <1>3, GoingOnKeepsTurns

\* And an answer of the model.
LEMMA ModelAnswersKeepsTurns ==
    ASSUME AgentConstants, TurnsInv, NEW t \in Turns, NEW calls \in Answers(t),
           ModelAnswers(t, calls)
    PROVE  TurnsInv'
<1> DEFINE new == [turn[t] EXCEPT !.step = "calling", !.calls = calls]
<1>1. calls \in Seq(Calls)
  <2>1. PICK n \in 0 .. IF t \in Terse THEN 1 ELSE MaxCalls : calls \in [1 .. n -> Calls]
    BY DEF Answers
  <2> QED
    BY <2>1 DEF AgentConstants
<1>2. /\ turn[t] \in Runs /\ turn[t].step = "asking" /\ turn[t].next = 1
      /\ turn[t].intents = <<>> /\ turn[t].answer = Absent
  BY DEF TurnsInv, TypeInv, ModelAnswers, Gathered
<1>3. /\ new \in Runs /\ new.step = "calling" /\ new.at = turn[t].at /\ new.calls = calls
      /\ new.next = 1 /\ new.intents = <<>> /\ new.answer = Absent
  BY <1>1, <1>2 DEF Runs, Steps
<1>4. turn' = [turn EXCEPT ![t] = new] /\ dialog' = dialog /\ agentClock' = agentClock
  BY <1>2 DEF ModelAnswers, TurnsInv, TypeInv
<1> HIDE DEF new
<1>5. MovingBefore(new.calls, 1) = {}
  BY <1>1, <1>3 DEF MovingBefore, Moving
<1>6. Gathered(new)
  BY <1>3, <1>5 DEF Gathered
<1>7. HoldsAQuestion(dialog')
  BY <1>4 DEF TurnsInv, TypeInv
<1> QED
  BY <1>2, <1>3, <1>4, <1>6, <1>7, GoingOnKeepsTurns

\* A call that is a proposal, a question or a screen to open is gone past.
LEMMA TakesProposalKeepsTurns ==
    ASSUME AgentConstants, TurnsInv, NEW t \in Turns, TakesProposal(t)
    PROVE  TurnsInv'
<1> DEFINE old    == turn[t]
           call   == Current(t)
           result == toIntent(call)
           opens  == toNavigationFor(call)
           asked  == IF result.is = "bad" /\ ~opens
                     THEN IF old.asks # Absent THEN old.asks
                          ELSE IF result.question # Absent THEN result.question ELSE "repeat"
                     ELSE old.asks
           more   == old.opens + IF opens THEN 1 ELSE 0
           kept   == IF ~opens /\ result.is = "intent" THEN Append(old.intents, result)
                     ELSE old.intents
           new    == [old EXCEPT !.next = old.next + 1, !.asks = asked, !.opens = more,
                                 !.intents = kept]
<1>1. /\ old \in Runs /\ old.step = "calling" /\ old.next \in DOMAIN old.calls
      /\ call = old.calls[old.next] /\ NeedsApproval(call.tool) /\ call \in Calls
      /\ old.next \in Nat \ {0} /\ old.calls \in Seq(Calls) /\ old.intents \in Seq(Proposals)
      /\ Gathered(old) /\ old.asks \in Questions /\ old.opens \in Nat /\ old.at \in Nat
      /\ old.answer \in {Absent, "spoken"}
  <2>1. old \in Runs /\ old.step = "calling" /\ Gathered(old) /\ NeedsApproval(call.tool)
        /\ old.next <= Len(old.calls) /\ call = old.calls[old.next]
    BY DEF TurnsInv, TypeInv, TakesProposal, HasCall, Current
  <2>2. /\ old.next \in Nat \ {0} /\ old.calls \in Seq(Calls) /\ old.intents \in Seq(Proposals)
        /\ old.asks \in Questions /\ old.opens \in Nat /\ old.at \in Nat
    BY <2>1 DEF Runs
  <2>3. old.answer \in {Absent, "spoken"}
    BY <2>1 DEF Gathered
  <2>4. old.next \in DOMAIN old.calls /\ old.calls[old.next] \in Calls
    BY <2>1, <2>2
  <2> QED
    BY <2>1, <2>2, <2>3, <2>4
<1>2. Reading(result) /\ result \in Proposals
  BY <1>1, CallsAreRead DEF Proposals
<1>3. /\ turn' = [turn EXCEPT ![t] = new] /\ agentClock' = agentClock
      /\ dialog' = IF ~opens /\ result.is = "bad" /\ result.question # Absent
                   THEN setPending(dialog, result.question, old.at) ELSE dialog
  BY DEF TakesProposal
<1> HIDE DEF opens, result, call
<1>4. asked \in Questions /\ more \in Nat /\ kept \in Seq(Proposals)
  BY <1>1, <1>2 DEF Reading, Questions
<1>5. asked = Absent => old.asks = Absent /\ (opens \/ result.is = "intent")
  BY <1>2 DEF Reading, Absent
<1> HIDE DEF old, asked, more, kept
<1>6. /\ new \in Runs /\ new.step = "calling" /\ new.at = old.at /\ new.calls = old.calls
      /\ new.next = old.next + 1 /\ new.asks = asked /\ new.intents = kept
      /\ new.answer = old.answer
  <2>1. old.next + 1 \in Nat \ {0}
    BY <1>1
  <2> QED
    BY <1>1, <1>4, <2>1 DEF Runs
<1> HIDE DEF new
<1>7. ASSUME asked = Absent
      PROVE  LET passed == MovingBefore(old.calls, old.next + 1)
             IN  /\ Len(kept) = 0 => passed = {}
                 /\ Len(kept) = 1 => StandsFor(kept, passed, old.calls)
  <2>1. LET passed == MovingBefore(old.calls, old.next)
        IN  /\ Len(old.intents) = 0 => passed = {}
            /\ Len(old.intents) = 1 => StandsFor(old.intents, passed, old.calls)
    BY <1>1, <1>5, <1>7 DEF Gathered
  <2>2. MovingBefore(old.calls, old.next + 1) =
            IF ~opens THEN MovingBefore(old.calls, old.next) \cup {old.next}
            ELSE MovingBefore(old.calls, old.next)
    BY <1>1, GoingPastACall DEF opens
  <2>3. CASE opens
    BY <2>1, <2>2, <2>3 DEF kept
  <2>4. CASE ~opens
    <3>1. kept = Append(old.intents, result)
      BY <1>5, <1>7, <2>4 DEF kept
    <3>2. Len(kept) = Len(old.intents) + 1 /\ Len(old.intents) \in Nat
      BY <1>1, <1>2, <3>1
    <3>3. ASSUME Len(kept) = 1
          PROVE  /\ MovingBefore(old.calls, old.next + 1) = {old.next}
                 /\ kept[1] = toIntent(old.calls[old.next])
      <4>1. Len(old.intents) = 0
        BY <1>1, <1>2, <3>1, <3>3
      <4>2. kept[1] = result
        BY <1>1, <1>2, <3>1, <4>1
      <4> QED
        BY <1>1, <2>1, <2>2, <2>4, <4>1, <4>2 DEF result
    <3> QED
      BY <3>2, <3>3 DEF StandsFor
  <2> QED
    BY <2>3, <2>4
<1>8. Gathered(new)
  BY <1>1, <1>6, <1>7 DEF Gathered
<1>9. /\ HoldsAQuestion(dialog')
      /\ \/ dialog'.pending = dialog.pending
         \/ dialog'.pending.expiresAt = old.at + DIALOG_TTL
  <2>1. HoldsAQuestion(dialog)
    BY DEF TurnsInv, TypeInv
  <2>2. CASE ~opens /\ result.is = "bad" /\ result.question # Absent
    <3>1. result.question \in Questions
      BY <1>2, <2>2 DEF Reading, Questions
    <3> QED
      BY <1>1, <1>3, <2>1, <2>2, <3>1, AskingSetsTheQuestion
  <2>3. CASE ~ (~opens /\ result.is = "bad" /\ result.question # Absent)
    BY <1>3, <2>1, <2>3
  <2> QED
    BY <2>2, <2>3
<1> QED
  BY <1>1, <1>3, <1>6, <1>8, <1>9, GoingOnKeepsTurns DEF old

\* And a tool that begins to run.
LEMMA RunsToolKeepsTurns ==
    ASSUME AgentConstants, TurnsInv, NEW t \in Turns, RunsTool(t)
    PROVE  TurnsInv'
<1> DEFINE new == [turn[t] EXCEPT !.step = "running"]
<1>1. /\ turn[t] \in Runs /\ turn[t].step = "calling" /\ Gathered(turn[t])
      /\ turn[t].next \in Nat \ {0} /\ turn[t].next <= Len(turn[t].calls)
      /\ turn[t].calls \in Seq(Calls) /\ ~NeedsApproval(turn[t].calls[turn[t].next].tool)
  BY DEF TurnsInv, TypeInv, RunsTool, HasCall, Current, Runs
<1>2. turn[t].next \in DOMAIN turn[t].calls
  BY <1>1
<1>3. /\ new \in Runs /\ new.step = "running" /\ new.at = turn[t].at
      /\ new.calls = turn[t].calls /\ new.next = turn[t].next /\ new.asks = turn[t].asks
      /\ new.intents = turn[t].intents /\ new.answer = turn[t].answer
  BY <1>1 DEF Runs, Steps
<1>4. turn' = [turn EXCEPT ![t] = new] /\ dialog' = dialog /\ agentClock' = agentClock
  BY <1>1 DEF RunsTool, TurnsInv, TypeInv
<1> HIDE DEF new
<1>5. Gathered(new)
  BY <1>1, <1>2, <1>3 DEF Gathered
<1>6. HoldsAQuestion(dialog')
  BY <1>4 DEF TurnsInv, TypeInv
<1> QED
  BY <1>1, <1>3, <1>4, <1>5, <1>6, GoingOnKeepsTurns

\* And a tool that answers.
LEMMA ToolAnswersKeepsTurns ==
    ASSUME AgentConstants, TurnsInv, NEW t \in Turns, ToolAnswers(t)
    PROVE  TurnsInv'
<1> DEFINE old  == turn[t]
           more == IF navigateRun(Current(t)) THEN 1 ELSE 0
           new  == [old EXCEPT !.step = "calling", !.next = old.next + 1,
                               !.answer = "spoken", !.opens = old.opens + more]
<1>1. /\ old \in Runs /\ old.step = "running" /\ Gathered(old)
      /\ turn' = [turn EXCEPT ![t] = new] /\ dialog' = dialog /\ agentClock' = agentClock
  BY DEF TurnsInv, TypeInv, ToolAnswers
<1> HIDE DEF old, more
<1>2. /\ old.next \in DOMAIN old.calls /\ ~NeedsApproval(old.calls[old.next].tool)
      /\ old.calls \in Seq(Calls)
  BY <1>1 DEF Gathered, Runs
<1>3. old.opens + more \in Nat /\ old.next + 1 \in Nat \ {0}
  <2>1. old.opens \in Nat /\ old.next \in Nat \ {0} /\ more \in {0, 1}
    BY <1>1 DEF Runs, more
  <2> QED
    BY <2>1
<1>4. /\ new \in Runs /\ new.step = "calling" /\ new.at = old.at /\ new.calls = old.calls
      /\ new.next = old.next + 1 /\ new.asks = old.asks /\ new.intents = old.intents
      /\ new.answer = "spoken"
  BY <1>1, <1>3 DEF Runs, Steps
<1> HIDE DEF new
<1>5. MovingBefore(old.calls, old.next + 1) = MovingBefore(old.calls, old.next)
  BY <1>2, GoingPastACall
<1>6. Gathered(new)
  BY <1>1, <1>4, <1>5 DEF Gathered
<1>7. HoldsAQuestion(dialog')
  BY <1>1 DEF TurnsInv, TypeInv
<1> QED
  BY <1>1, <1>4, <1>6, <1>7, GoingOnKeepsTurns DEF old

\* A turn ends with a proposal only when every call was gone past, and one stood for it.
LEMMA EndsTurnKeepsTurns ==
    ASSUME AgentConstants, TurnsInv, NEW t \in Turns, EndsTurn(t)
    PROVE  TurnsInv'
<1> DEFINE old   == turn[t]
           calls == IF old.intents = <<>> THEN <<>> ELSE old.calls
           new   == [Quiet EXCEPT !.step = "ended", !.at = old.at, !.answer = Result(old),
                                  !.intents = old.intents, !.asks = old.asks, !.calls = calls]
<1>1. /\ old \in Runs /\ old.step = "calling" /\ Gathered(old) /\ ~ (old.next <= Len(old.calls))
      /\ turn' = [turn EXCEPT ![t] = new] /\ agentClock' = agentClock
      /\ dialog' = NoDialog \/ dialog' = Remembers(dialog, "assistant")
  BY DEF TurnsInv, TypeInv, EndsTurn, HasCall
<1> HIDE DEF old
<1>2. /\ old.at \in Nat /\ old.asks \in Questions /\ old.intents \in Seq(Proposals)
      /\ old.calls \in Seq(Calls) /\ old.next \in Nat \ {0} /\ old.answer \in {Absent, "spoken"}
  BY <1>1 DEF Runs, Gathered
<1>3. /\ Result(old) \in Questions \cup {"spoken", "one at a time", "proposal", "text"}
      /\ Result(old) = "proposal" => Len(old.intents) = 1 /\ old.asks = Absent
  BY <1>2 DEF Result, Questions, Slots, Absent
<1>4. calls \in Seq(Calls)
  BY <1>2
<1>5. /\ new \in Runs /\ new.step = "ended" /\ new.at = old.at /\ new.answer = Result(old)
      /\ new.intents = old.intents /\ new.asks = old.asks /\ new.calls = calls
  BY <1>2, <1>3, <1>4, QuietIsARun DEF Runs, Steps
<1> HIDE DEF new
<1>6. ASSUME Result(old) = "proposal"
      PROVE  StandsFor(new.intents, Moving(new.calls), new.calls) /\ new.asks = Absent
  <2>1. Len(old.intents) = 1 /\ old.asks = Absent /\ old.intents # <<>>
    BY <1>3, <1>6
  <2>2. StandsFor(old.intents, MovingBefore(old.calls, old.next), old.calls)
    BY <1>1, <2>1 DEF Gathered
  <2>3. MovingBefore(old.calls, old.next) = Moving(old.calls)
    <3>1. \A i \in DOMAIN old.calls : i < old.next
      BY <1>1, <1>2
    <3> QED
      BY <3>1 DEF MovingBefore, Moving
  <2>4. new.calls = old.calls /\ new.intents = old.intents /\ new.asks = Absent
    BY <1>5, <2>1
  <2> QED
    BY <2>2, <2>3, <2>4
<1>7. Gathered(new)
  BY <1>5, <1>6 DEF Gathered
<1>8. /\ HoldsAQuestion(dialog')
      /\ dialog'.pending = dialog.pending \/ dialog'.pending.question = Absent
  BY <1>1, RememberingKeepsTheQuestion, NoDialogHoldsNone DEF TurnsInv, TypeInv
<1> QED
  BY <1>1, <1>5, <1>7, <1>8, GoingOnKeepsTurns DEF old

\* Every step keeps what is known of the turns and of the dialogue.
LEMMA TurnsGoOn ==
    ASSUME AgentConstants, TurnsInv, [AgentNext]_agentVars
    PROVE  TurnsInv'
<1>1. ASSUME NEW t \in Turns, NEW cancels \in BOOLEAN, TurnStarts(t, cancels)  PROVE TurnsInv'
  BY <1>1, StartsKeepsTurns
<1>2. ASSUME NEW t \in Turns, Hears(t)  PROVE TurnsInv'
  <2>1. CASE ModelFails(t)
    BY <2>1, FailingKeepsTurns DEF ModelFails
  <2>2. ASSUME NEW calls \in Answers(t), ModelAnswers(t, calls)  PROVE TurnsInv'
    BY <2>2, ModelAnswersKeepsTurns
  <2> QED
    BY <1>2, <2>1, <2>2 DEF Hears
<1>3. ASSUME NEW t \in Turns, Handles(t)  PROVE TurnsInv'
  <2>1. CASE MeetsUnknownTool(t)
    BY <2>1, FailingKeepsTurns DEF MeetsUnknownTool
  <2> QED
    BY <1>3, <2>1, TakesProposalKeepsTurns, RunsToolKeepsTurns, EndsTurnKeepsTurns DEF Handles
<1>4. ASSUME NEW t \in Turns, ToolFails(t)  PROVE TurnsInv'
  BY <1>4, FailingKeepsTurns DEF ToolFails
<1>5. CASE AgentTimePasses
  BY <1>5 DEF AgentTimePasses, TurnsInv, TypeInv, QuestionHasATurn, QuestionsGrowOld
<1>6. CASE Attaches \/ ReadsPage \/ ListingFails \/ UNCHANGED agentVars
  <2>1. turn' = turn /\ dialog' = dialog /\ agentClock' = agentClock
    BY <1>6 DEF Attaches, ReadsPage, ListingFails, agentVars
  <2> QED
    BY <2>1 DEF TurnsInv, TypeInv, QuestionHasATurn, QuestionsGrowOld
<1> QED
  BY <1>1, <1>2, <1>3, <1>4, <1>5, <1>6, ToolAnswersKeepsTurns DEF AgentNext

-----------------------------------------------------------------------------
(* Only tools that read are registered, whatever the pages hold.            *)

LEMMA LeastIndex ==
    ASSUME NEW n \in Nat, NEW S \in SUBSET (1 .. n), S # {}
    PROVE  \E i \in S : \A j \in S : i <= j
<1> DEFINE T == {1 .. i : i \in S}
<1>1. FiniteSubsetsOf(1 .. n) = SUBSET (1 .. n)
  <2>1. IsFiniteSet(1 .. n)
    <3>1. 1 \in Int /\ n \in Int
      OBVIOUS
    <3> QED
      BY <3>1, FS_Interval
  <2> QED
    BY <2>1, FS_FiniteSubsetsOfFinite
<1>2. T \in SUBSET FiniteSubsetsOf(1 .. n) /\ T # {}
  <2>1. \A i \in S : 1 .. i \in SUBSET (1 .. n)
    OBVIOUS
  <2>2. T \in SUBSET SUBSET (1 .. n) /\ T # {}
    BY <2>1
  <2> QED
    BY <1>1, <2>2
<1> HIDE DEF T
<1>3. PICK x \in T : \A y \in T : ~ (<<y, x>> \in StrictSubsetOrdering(1 .. n))
  BY <1>2, FS_StrictSubsetOrderingWellFounded, WFMin
<1>4. \A y \in T : y \subseteq x => y = x
  BY <1>1, <1>2, <1>3 DEF StrictSubsetOrdering
<1>5. PICK i \in S : x = 1 .. i
  BY <1>3 DEF T
<1>6. ASSUME NEW j \in S, j < i  PROVE FALSE
  <2>1. 1 .. j \subseteq 1 .. i /\ i \in 1 .. i /\ i \notin 1 .. j
    BY <1>6
  <2> QED
    BY <1>4, <1>5, <2>1 DEF T
<1> QED
  BY <1>6

\* A page of the list holds tools of the server.
LEMMA PagesAreListed ==
    ASSUME AgentConstants, NEW p \in DOMAIN Served
    PROVE  Served[p] \in Seq(Listed)
BY DEF AgentConstants

\* Registering a list keeps those that only read.
LEMMA RegisteringKeepsOnlyReaders ==
    ASSUME NEW tools \in Seq(Listed), NEW known, \A name \in DOMAIN known : known[name] \in Readable
    PROVE  \A name \in DOMAIN Registered(tools, known) : Registered(tools, known)[name] \in Readable
<1> DEFINE read == {i \in DOMAIN tools : mcpToolReadOnly(tools[i])}
           Same(clean) == {i \in read : tools[i].clean = clean}
           Earliest(clean) == CHOOSE i \in read :
                                 /\ tools[i].clean = clean
                                 /\ \A j \in read : tools[j].clean = clean => i <= j
           names == DOMAIN known \cup {tools[i].clean : i \in read}
<1>1. Registered(tools, known) =
          [clean \in names |->
              IF clean \in DOMAIN known THEN known[clean] ELSE tools[Earliest(clean)]]
  BY DEF Registered
<1> SUFFICES ASSUME NEW name \in names, name \notin DOMAIN known
             PROVE  tools[Earliest(name)] \in Readable
  BY <1>1
<1>2. Same(name) # {} /\ Same(name) \in SUBSET (1 .. Len(tools)) /\ Len(tools) \in Nat
  OBVIOUS
<1>3. PICK i \in Same(name) : \A j \in Same(name) : i <= j
  BY <1>2, LeastIndex
<1>4. Earliest(name) \in read
  BY <1>3
<1> QED
  BY <1>4 DEF Readable

\* At first the registry holds no remote tool.
LEMMA ReadingBegins == AgentConstants /\ AgentInit => OnlyReads
<1> SUFFICES ASSUME AgentInit  PROVE OnlyReads
  OBVIOUS
<1>1. <<>> \in Seq(Listed) /\ DOMAIN <<>> = {}
  OBVIOUS
<1> QED
  BY <1>1 DEF AgentInit, OnlyReads, NoListing

\* Every step keeps the remote tools readers.
LEMMA ReadingGoesOn ==
    ASSUME AgentConstants, OnlyReads, [AgentNext]_agentVars
    PROVE  OnlyReads'
<1>1. Len(Served) \in Nat
  BY DEF AgentConstants
<1>2. CASE UNCHANGED <<registry, listing, remoteCalls>>
  BY <1>2 DEF OnlyReads
<1>3. CASE Attaches
  <2> DEFINE new == [listing EXCEPT !.step = "reading"]
  <2>1. /\ listing.page = 0 /\ 0 < Len(Served) /\ listing' = new
        /\ registry' = registry /\ remoteCalls' = remoteCalls
    BY <1>1, <1>3 DEF Attaches, OnlyReads
  <2>2. /\ new \in [step : {"off", "reading", "done"}, page : Nat, tools : Seq(Listed)]
        /\ new.page = listing.page /\ new.step = "reading"
    BY DEF OnlyReads
  <2> HIDE DEF new
  <2> QED
    BY <2>1, <2>2 DEF OnlyReads
<1>4. CASE ReadsPage
  <2> DEFINE n     == listing.page + 1
             tools == listing.tools \o Served[n]
             last  == n >= Len(Served) \/ n >= MaxPages
             new   == [step |-> IF last THEN "done" ELSE "reading", page |-> n,
                       tools |-> IF last THEN <<>> ELSE tools]
  <2>1. /\ listing.page \in Nat /\ listing.page < Len(Served) /\ listing.tools \in Seq(Listed)
        /\ listing' = new /\ remoteCalls' = remoteCalls
        /\ registry' = IF last THEN Registered(tools, registry) ELSE registry
    BY <1>4 DEF ReadsPage, OnlyReads
  <2>2. n \in Nat /\ n \in DOMAIN Served
    BY <1>1, <2>1 DEF AgentConstants
  <2>3. tools \in Seq(Listed)
    BY <2>1, <2>2, PagesAreListed
  <2>4. <<>> \in Seq(Listed)
    OBVIOUS
  <2> HIDE DEF tools
  <2>5. new \in [step : {"off", "reading", "done"}, page : Nat, tools : Seq(Listed)]
    BY <2>2, <2>3, <2>4
  <2>6. new.step # "off" /\ (new.step = "reading" => new.page < Len(Served))
    BY <1>1, <2>2
  <2>7. \A name \in DOMAIN registry' : registry'[name] \in Readable
    BY <2>1, <2>3, RegisteringKeepsOnlyReaders DEF OnlyReads
  <2> HIDE DEF new
  <2> QED
    BY <2>1, <2>5, <2>6, <2>7 DEF OnlyReads
<1>5. CASE ListingFails
  <2>1. <<>> \in Seq(Listed)
    OBVIOUS
  <2> QED
    BY <1>5, <2>1 DEF ListingFails, NoListing, OnlyReads
<1>6. ASSUME NEW t \in Turns, RunsTool(t)  PROVE OnlyReads'
  <2> DEFINE name == Current(t).tool
  <2>1. /\ registry' = registry /\ listing' = listing
        /\ remoteCalls' = IF name \in DOMAIN registry THEN remoteCalls \cup {registry[name].name}
                          ELSE remoteCalls
    BY <1>6 DEF RunsTool
  <2> HIDE DEF name
  <2> QED
    BY <2>1 DEF OnlyReads
<1> QED
  BY <1>2, <1>3, <1>4, <1>5, <1>6 DEF AgentNext, agentVars, TurnStarts, Hears, ModelFails,
     ModelAnswers, Handles, TakesProposal, MeetsUnknownTool, EndsTurn, ToolAnswers, ToolFails,
     AgentTimePasses

-----------------------------------------------------------------------------
(* The theorems.                                                            *)

\* Every reachable state of the agent satisfies the invariant (runAgentTurn, runTurn,
\* DialogState, registerReadOnlyMcpTools).
THEOREM AgentInvariant ==
    ASSUME AgentConstants
    PROVE  AgentSpec => []AgentInv
<1>1. AgentInit => AgentInv
  BY TurnsBegin, ReadingBegins DEF AgentInv
<1>2. AgentInv /\ [AgentNext]_agentVars => AgentInv'
  BY TurnsGoOn, ReadingGoesOn DEF AgentInv
<1> QED
  BY <1>1, <1>2, PTL DEF AgentSpec

\* Whatever the model answers, the operator allows and the server lists: a proposal is
\* what exactly one call said in full, a question shown to the model is younger than its
\* time to live, and a remote tool that was called only reads (loop.ts, dialog.ts,
\* bridge.ts).
THEOREM TheAgentStaysInBounds ==
    ASSUME AgentConstants
    PROVE  AgentSpec => []AgentStaysInBounds
<1>1. AgentInv => ProposalIsUnambiguous
  <2> SUFFICES ASSUME AgentInv, NEW t \in Turns,
                      turn[t].step = "ended", turn[t].answer = "proposal"
               PROVE  /\ Cardinality(Gated(t)) = 1
                      /\ \A i \in Gated(t) : toIntent(turn[t].calls[i]) = turn[t].intents[1]
                      /\ turn[t].asks = Absent
    BY DEF ProposalIsUnambiguous
  <2>1. Gated(t) = Moving(turn[t].calls)
    BY DEF Gated, Moving
  <2>2. StandsFor(turn[t].intents, Gated(t), turn[t].calls) /\ turn[t].asks = Absent
    BY <2>1 DEF AgentInv, TurnsInv, Gathered
  <2>3. PICK i : Gated(t) = {i} /\ toIntent(turn[t].calls[i]) = turn[t].intents[1]
    BY <2>2 DEF StandsFor
  <2> QED
    BY <2>2, <2>3, FS_Singleton
<1>2. AgentInv => QuestionsGrowOld
  BY DEF AgentInv, TurnsInv
<1>3. AgentInv => RemoteToolsOnlyRead
  BY DEF AgentInv, OnlyReads, RemoteToolsOnlyRead, Readable, Listed, mcpToolReadOnly
<1>4. AgentInv => AgentStaysInBounds
  BY <1>1, <1>2, <1>3 DEF AgentStaysInBounds
<1> QED
  BY <1>4, AgentInvariant, PTL

-----------------------------------------------------------------------------
(* The advice.                                                              *)

\* A set of numbers has a least one.
LEMMA LeastNatural ==
    ASSUME NEW N \in SUBSET Nat, N # {}
    PROVE  \E n \in N : \A m \in N : n <= m
<1> DEFINE T == {0 .. n : n \in N}
<1>1. T \in SUBSET FiniteSubsetsOf(Nat) /\ T # {}
  <2>1. ASSUME NEW n \in N  PROVE 0 .. n \in SUBSET Nat /\ IsFiniteSet(0 .. n)
    BY FS_Interval
  <2> QED
    BY <2>1 DEF FiniteSubsetsOf
<1> HIDE DEF T
<1>2. PICK x \in T : \A y \in T : ~ (<<y, x>> \in StrictSubsetOrdering(Nat))
  BY <1>1, FS_StrictSubsetOrderingWellFounded, WFMin
<1>3. \A y \in T : y \subseteq x => y = x
  BY <1>1, <1>2 DEF StrictSubsetOrdering, FiniteSubsetsOf
<1>4. PICK n \in N : x = 0 .. n
  BY <1>2 DEF T
<1>5. ASSUME NEW m \in N, m < n  PROVE FALSE
  <2>1. 0 .. m \subseteq 0 .. n /\ n \in 0 .. n /\ n \notin 0 .. m
    BY <1>5
  <2> QED
    BY <1>3, <1>4, <2>1 DEF T
<1> QED
  BY <1>5

\* A sample that is not empty has a largest value.
LEMMA LargestValue ==
    ASSUME NEW D, IsFiniteSet(D), D # {}, NEW f \in [D -> Nat]
    PROVE  \E x \in D : \A y \in D : f[y] <= f[x]
<1> DEFINE Above(x) == {y \in D : f[y] > f[x]}
           T == {Above(x) : x \in D}
<1>1. T \in SUBSET FiniteSubsetsOf(D) /\ T # {}
  <2>1. \A x \in D : Above(x) \in SUBSET D /\ IsFiniteSet(Above(x))
    BY FS_Subset
  <2> HIDE DEF Above
  <2> QED
    BY <2>1 DEF FiniteSubsetsOf
<1> HIDE DEF T
<1>2. PICK u \in T : \A w \in T : ~ (<<w, u>> \in StrictSubsetOrdering(D))
  BY <1>1, FS_StrictSubsetOrderingWellFounded, WFMin
<1>3. \A w \in T : w \subseteq u => w = u
  BY <1>1, <1>2 DEF StrictSubsetOrdering, FiniteSubsetsOf
<1>4. PICK x \in D : u = Above(x)
  BY <1>2 DEF T
<1>5. ASSUME NEW y \in D, f[y] > f[x]  PROVE FALSE
  <2>1. Above(y) \subseteq Above(x) /\ y \in Above(x) /\ y \notin Above(y)
    BY <1>5
  <2> HIDE DEF Above
  <2>2. Above(y) \in T
    BY DEF T
  <2> QED
    BY <1>3, <1>4, <2>1, <2>2
<1> QED
  BY <1>5

\* A sample has a value of each rank, which is one of the values measured.
LEMMA RankedIsThere ==
    ASSUME NEW D, IsFiniteSet(D), NEW f \in [D -> Nat], NEW k \in 1 .. Cardinality(D)
    PROVE  /\ \E x \in D : f[x] = Ranked(f, k)
           /\ Cardinality({x \in D : f[x] < Ranked(f, k)}) < k
           /\ k <= Cardinality({x \in D : f[x] <= Ranked(f, k)})
<1> DEFINE UpTo(v) == {x \in D : f[x] <= v}
           Below(v) == {x \in D : f[x] < v}
           V == {v \in Range(f) : k <= Cardinality(UpTo(v))}
<1>1. Cardinality(D) \in Nat /\ k \in Nat /\ k > 0 /\ D # {}
  BY FS_CardinalityType, FS_EmptySet
<1>2. V \in SUBSET Nat /\ V # {}
  <2>1. PICK x \in D : \A y \in D : f[y] <= f[x]
    BY <1>1, LargestValue
  <2>2. UpTo(f[x]) = D
    BY <2>1
  <2>3. f[x] \in V
    <3>1. k <= Cardinality(D) /\ f[x] \in Range(f)
      BY <1>1 DEF Range
    <3> HIDE DEF UpTo
    <3> QED
      BY <2>2, <3>1
  <2>4. V \in SUBSET Nat
    BY DEF Range
  <2> QED
    BY <2>3, <2>4
<1> HIDE DEF V
<1>3. PICK v \in V : \A w \in V : v <= w
  BY <1>2, LeastNatural
<1>4. v \in Range(f) /\ v \in Nat /\ k <= Cardinality(UpTo(v))
  BY <1>2, <1>3 DEF V
<1>5. Cardinality(Below(v)) < k
  <2>1. CASE Below(v) = {}
    BY <1>1, <2>1, FS_EmptySet
  <2>2. CASE Below(v) # {}
    <3> DEFINE B == Below(v)
               g == [x \in B |-> f[x]]
    <3>1. IsFiniteSet(B) /\ g \in [B -> Nat]
      BY FS_Subset
    <3> HIDE DEF B
    <3>2. PICK x \in B : \A y \in B : g[y] <= g[x]
      BY <2>2, <3>1, LargestValue DEF B
    <3>3. x \in D /\ f[x] < v /\ f[x] \in Nat /\ UpTo(f[x]) = B
      BY <1>4, <3>2 DEF B
    <3>4. ~ (k <= Cardinality(B))
      BY <1>2, <1>3, <1>4, <3>3 DEF V, Range
    <3>5. Cardinality(B) \in Nat
      BY <3>1, FS_CardinalityType
    <3> QED
      BY <1>1, <3>4, <3>5 DEF B
  <2> QED
    BY <2>1, <2>2
<1> HIDE DEF UpTo, Below
<1>6. DOMAIN f = D
  OBVIOUS
<1>7. /\ Ranked(f, k) \in Range(f)
      /\ Cardinality(Below(Ranked(f, k))) < k
      /\ k <= Cardinality(UpTo(Ranked(f, k)))
  BY <1>4, <1>5, <1>6 DEF Ranked, UpTo, Below
<1> QED
  BY <1>6, <1>7 DEF Range, UpTo, Below

\* A product grows with its factors.
LEMMA ProductGrows ==
    /\ \A m \in Nat \ {0}, a \in Nat : m * a \in Nat /\ a <= m * a
    /\ \A m \in Nat \ {0}, a, b \in Nat : a <= b => m * a <= m * b
    /\ \A m \in Nat \ {0}, a, b \in Nat : a < b => m * a < m * b
  OBVIOUS

\* The smallest and the largest value of a sample are some of its values and bound all.
LEMMA ExtremesBound ==
    ASSUME NEW D, IsFiniteSet(D), D # {}, NEW f \in [D -> Nat]
    PROVE  /\ \E x \in D : f[x] = minOf(f)
           /\ \E x \in D : f[x] = maxOf(f)
           /\ \A x \in D : minOf(f) <= f[x] /\ f[x] <= maxOf(f)
<1>1. DOMAIN f = D /\ Cardinality(D) \in Nat /\ Cardinality(D) # 0
  BY FS_CardinalityType, FS_EmptySet
<1>2. 1 \in 1 .. Cardinality(D) /\ Cardinality(D) \in 1 .. Cardinality(D)
  BY <1>1
<1>3. /\ \E x \in D : f[x] = minOf(f)
      /\ Cardinality({x \in D : f[x] < minOf(f)}) < 1
  BY <1>2, RankedIsThere, Zenon DEF minOf
<1>4. /\ \E x \in D : f[x] = maxOf(f)
      /\ Cardinality(D) <= Cardinality({x \in D : f[x] <= maxOf(f)})
  <2>1. maxOf(f) = Ranked(f, Cardinality(D))
    BY <1>1 DEF maxOf, sizeOf
  <2>2. /\ \E x \in D : f[x] = Ranked(f, Cardinality(D))
        /\ Cardinality(D) <= Cardinality({x \in D : f[x] <= Ranked(f, Cardinality(D))})
    BY <1>2, RankedIsThere, Zenon
  <2> QED
    BY <2>1, <2>2
<1>5. {x \in D : f[x] < minOf(f)} = {}
  <2> DEFINE S == {x \in D : f[x] < minOf(f)}
  <2>1. IsFiniteSet(S) /\ Cardinality(S) \in Nat
    BY FS_Subset, FS_CardinalityType
  <2>2. Cardinality(S) = 0
    BY <1>3, <2>1
  <2> QED
    BY <2>1, <2>2, FS_EmptySet
<1>6. {x \in D : f[x] <= maxOf(f)} = D
  <2> DEFINE S == {x \in D : f[x] <= maxOf(f)}
  <2>1. /\ S \in SUBSET D /\ Cardinality(S) \in Nat /\ Cardinality(S) <= Cardinality(D)
        /\ Cardinality(D) = Cardinality(S) => D = S
    BY FS_Subset, FS_CardinalityType
  <2> QED
    BY <1>1, <1>4, <2>1
<1>7. minOf(f) \in Nat /\ maxOf(f) \in Nat
  BY <1>3, <1>4
<1> QED
  BY <1>3, <1>4, <1>5, <1>6, <1>7

\* The value of a rank is no greater than that of the next.
LEMMA RanksGrow ==
    ASSUME NEW D, IsFiniteSet(D), NEW f \in [D -> Nat], NEW k \in Nat,
           k >= 1, k + 1 <= Cardinality(D)
    PROVE  Ranked(f, k) <= Ranked(f, k + 1)
<1> DEFINE a == Ranked(f, k)
           b == Ranked(f, k + 1)
           UpToB == {x \in D : f[x] <= b}
           BelowA == {x \in D : f[x] < a}
<1>1. k \in 1 .. Cardinality(D) /\ k + 1 \in 1 .. Cardinality(D)
  BY FS_CardinalityType
<1>2. /\ a \in Nat /\ b \in Nat
      /\ Cardinality(BelowA) < k /\ k + 1 <= Cardinality(UpToB)
  <2>1. \A j \in 1 .. Cardinality(D) :
           /\ \E x \in D : f[x] = Ranked(f, j)
           /\ Cardinality({x \in D : f[x] < Ranked(f, j)}) < j
           /\ j <= Cardinality({x \in D : f[x] <= Ranked(f, j)})
    BY RankedIsThere, Zenon
  <2>2. /\ \E x \in D : f[x] = a
        /\ \E x \in D : f[x] = b
        /\ Cardinality(BelowA) < k /\ k + 1 <= Cardinality(UpToB)
    BY <1>1, <2>1, Zenon
  <2> QED
    BY <2>2
<1>3. /\ IsFiniteSet(BelowA) /\ Cardinality(BelowA) \in Nat
      /\ IsFiniteSet(UpToB) /\ Cardinality(UpToB) \in Nat
  BY FS_Subset, FS_CardinalityType
<1>4. ASSUME b < a  PROVE FALSE
  <2>1. UpToB \subseteq BelowA
    BY <1>2, <1>4
  <2>2. Cardinality(UpToB) <= Cardinality(BelowA)
    BY <1>3, <2>1, FS_Subset
  <2> QED
    BY <1>2, <1>3, <2>2
<1> QED
  BY <1>2, <1>4

\* The median lies between two of the values, and no fewer than half of them reach it.
LEMMA MedianIsInTheMiddle ==
    ASSUME NEW D, IsFiniteSet(D), D # {}, NEW f \in [D -> Nat]
    PROVE  /\ median(f) \in Nat
           /\ \E x \in D : f[x] <= median(f)
           /\ \E x \in D : median(f) <= f[x]
           /\ median(f) <= Ranked(f, Cardinality(D) \div 2 + 1)
           /\ 2 * Cardinality({x \in D : median(f) <= f[x]}) >= Cardinality(D)
<1> DEFINE n == Cardinality(D)
           k == n \div 2
           v == Ranked(f, k + 1)
           w == IF n % 2 = 1 THEN v ELSE Ranked(f, k)
           Reach == {x \in D : median(f) <= f[x]}
           Under == {x \in D : f[x] < v}
<1>1. n \in Nat /\ n # 0 /\ DOMAIN f = D
  BY FS_CardinalityType, FS_EmptySet
<1>2. /\ k \in Nat /\ k + 1 <= n /\ 2 * k <= n
      /\ k = 0 => n % 2 = 1
  BY <1>1
<1>3. \A j \in 1 .. n :
           /\ \E x \in D : f[x] = Ranked(f, j)
           /\ Cardinality({x \in D : f[x] < Ranked(f, j)}) < j
  BY RankedIsThere, Zenon
<1>4. /\ \E x \in D : f[x] = v
      /\ \E x \in D : f[x] = w
      /\ v \in Nat /\ w \in Nat /\ w <= v
  <2>1. k + 1 \in 1 .. n /\ (n % 2 # 1 => k \in 1 .. n)
    BY <1>1, <1>2
  <2>2. /\ \E x \in D : f[x] = v
        /\ \E x \in D : f[x] = w
    BY <1>3, <2>1, Zenon
  <2>3. n % 2 # 1 => Ranked(f, k) <= v
    BY <1>2, <2>1, RanksGrow
  <2>4. v \in Nat /\ w \in Nat
    BY <2>2
  <2> QED
    BY <2>2, <2>3, <2>4
<1>5. median(f) = IF n % 2 = 1 THEN v ELSE (w + v) \div 2
  BY <1>1 DEF median, sizeOf
<1> HIDE DEF v, w
<1>6. median(f) \in Nat /\ w <= median(f) /\ median(f) <= v
  <2>1. n % 2 = 1 => w = v
    BY DEF w
  <2> QED
    BY <1>4, <1>5, <2>1
<1>7. Cardinality(Under) < k + 1
  BY <1>1, <1>2, <1>3 DEF v
<1>8. 2 * Cardinality(Reach) >= n
  <2>1. /\ IsFiniteSet(Under) /\ Cardinality(Under) \in Nat
        /\ IsFiniteSet(Reach) /\ Cardinality(Reach) \in Nat
    BY FS_Subset, FS_CardinalityType
  <2>2. D \ Under \subseteq Reach
    BY <1>4, <1>6
  <2>3. Cardinality(D \ Under) = n - Cardinality(Under)
    <3>1. D \cap Under = Under
      OBVIOUS
    <3> QED
      BY <3>1, FS_Difference
  <2>4. Cardinality(D \ Under) <= Cardinality(Reach)
    BY <2>1, <2>2, FS_Subset
  <2> HIDE DEF Under, Reach, k
  <2> QED
    BY <1>1, <1>2, <1>7, <2>1, <2>3, <2>4
<1> QED
  BY <1>4, <1>6, <1>8 DEF v

\* A percentile is one of the values.
LEMMA PercentileIsThere ==
    ASSUME NEW D, IsFiniteSet(D), D # {}, NEW f \in [D -> Nat]
    PROVE  \A p \in 1 .. 100 : \E x \in D : f[x] = percentileNearestRank(f, p)
<1> TAKE p \in 1 .. 100
<1> DEFINE n == Cardinality(D)
           k == (p * n + 99) \div 100
<1>1. n \in Nat /\ n # 0 /\ DOMAIN f = D
  BY FS_CardinalityType, FS_EmptySet
<1>2. k \in 1 .. n
  <2>1. p * n \in Nat /\ n <= p * n /\ p * n <= 100 * n
    <3> HIDE DEF n
    <3> QED
      BY <1>1
  <2> DEFINE m == p * n
  <2> HIDE DEF m, n
  <2>2. m \in Nat /\ 1 <= m /\ m <= 100 * n
    BY <1>1, <2>1 DEF m
  <2>3. (m + 99) \div 100 \in 1 .. n
    BY <1>1, <2>2
  <2> QED
    BY <2>3 DEF m
<1>3. percentileNearestRank(f, p) = Ranked(f, k)
  BY <1>1 DEF percentileNearestRank, sizeOf
<1>4. \E x \in D : f[x] = Ranked(f, k)
  BY <1>2, RankedIsThere, Zenon
<1> QED
  BY <1>3, <1>4

\* What is left without the outliers: some of the values, none of them more than so many
\* times the median.
LEMMA OutliersAreDropped ==
    ASSUME NEW D, IsFiniteSet(D), D # {}, NEW f \in [D -> Nat]
    PROVE  LET K == {x \in D : f[x] <= UNUSUAL_MULTIPLIER * median(f)}
           IN  /\ K # {} /\ IsFiniteSet(K)
               /\ dropAmountOutliers(f) = [x \in K |-> f[x]]
               /\ dropAmountOutliers(f) \in [K -> Nat]
<1> DEFINE K == {x \in D : f[x] <= UNUSUAL_MULTIPLIER * median(f)}
<1>1. PICK x \in D : f[x] <= median(f) /\ median(f) \in Nat
  BY MedianIsInTheMiddle, Zenon
<1>2. median(f) <= UNUSUAL_MULTIPLIER * median(f) /\ UNUSUAL_MULTIPLIER * median(f) \in Nat
  BY <1>1, ProductGrows, SuggestAssumption
<1>3. K # {}
  BY <1>1, <1>2
<1>4. IsFiniteSet(K)
  BY FS_Subset
<1>5. dropAmountOutliers(f) = [y \in K |-> f[y]]
  BY DEF dropAmountOutliers, Restrict
<1> QED
  BY <1>3, <1>4, <1>5

\* The records a history can hold.
HistoryRecords ==
    [id : Nat, ts : Nat, to : {p.to : p \in Payments}, asset : {p.asset : p \in Payments},
     amount : Nat \ {0}, status : {p.status : p \in Payments} \cup {"confirmed", "failed"},
     mode : {p.mode : p \in Payments}, route : {p.route : p \in Payments}]

SuggestTypeInv ==
    /\ history \in Seq(HistoryRecords)
    /\ suggestClock \in Nat
    /\ context \in Contexts

\* Every step keeps the types.
LEMMA SuggestTypeStep ==
    ASSUME SuggestTypeInv, [SuggestNext]_suggestVars
    PROVE  SuggestTypeInv'
<1>1. CASE UNCHANGED suggestVars
  BY <1>1 DEF SuggestTypeInv, suggestVars
<1>2. ASSUME NEW p \in Payments, PaymentComes(p)  PROVE SuggestTypeInv'
  <2>1. Record(Len(history) + 1, p) \in HistoryRecords
    <3>1. Len(history) + 1 \in Nat /\ suggestClock \in Nat
      BY DEF SuggestTypeInv
    <3>2. p.amount \in Nat \ {0}
      BY SuggestAssumption
    <3> QED
      BY <3>1, <3>2 DEF Record, HistoryRecords
  <2> QED
    BY <1>2, <2>1 DEF SuggestTypeInv, PaymentComes
<1>3. ASSUME NEW i \in 1 .. MaxPayments, NEW status \in {"confirmed", "failed"},
             ComesTwice(i, status)
      PROVE  SuggestTypeInv'
  <2>1. history[i] \in HistoryRecords
    BY <1>3 DEF ComesTwice, SuggestTypeInv
  <2>2. [history[i] EXCEPT !.status = status] \in HistoryRecords
    BY <2>1 DEF HistoryRecords
  <2> QED
    BY <1>3, <2>2 DEF SuggestTypeInv, ComesTwice
<1>4. CASE ClockGoesOn
  BY <1>4 DEF SuggestTypeInv, ClockGoesOn
<1> QED
  BY <1>1, <1>2, <1>3, <1>4 DEF SuggestNext

\* The records that count: finitely many, one of each id, none later than the clock.
LEMMA GuardIsSound ==
    ASSUME SuggestTypeInv
    PROVE  /\ IsFiniteSet(guard) /\ guard \subseteq HistoryRecords
           /\ \A r, q \in guard : r.id = q.id => r = q
           /\ \A r \in guard : r.ts \in Nat /\ r.amount \in Nat \ {0} /\ r.ts <= suggestClock
<1> DEFINE n == Len(history)
           R == {history[i] : i \in 1 .. n}
<1>1. n \in Nat /\ DOMAIN history = 1 .. n /\ history \in [1 .. n -> HistoryRecords]
  BY DEF SuggestTypeInv
<1> HIDE DEF n
<1>2. IsFiniteSet(R)
  <2>1. IsFiniteSet(1 .. n)
    BY <1>1, FS_Interval
  <2>2. history \in Surjection(1 .. n, R)
    BY <1>1 DEF Surjection
  <2> QED
    BY <2>1, <2>2, FS_Surjection
<1>3. guard \subseteq R
  BY <1>1 DEF guard
<1>4. guard \subseteq HistoryRecords /\ IsFiniteSet(guard)
  <2>1. R \subseteq HistoryRecords
    BY <1>1
  <2> QED
    BY <1>2, <1>3, <2>1, FS_Subset
<1>5. ASSUME NEW r \in guard, NEW q \in guard, r.id = q.id  PROVE r = q
  <2>1. PICK i \in 1 .. n : r = history[i] /\ \A j \in 1 .. i - 1 : history[j].id # r.id
    BY <1>1 DEF guard
  <2>2. PICK j \in 1 .. n : q = history[j] /\ \A k \in 1 .. j - 1 : history[k].id # q.id
    BY <1>1 DEF guard
  <2>3. i = j \/ i \in 1 .. j - 1 \/ j \in 1 .. i - 1
    BY <1>1
  <2> QED
    BY <1>5, <2>1, <2>2, <2>3
<1>6. \A r \in guard : r.ts <= suggestClock
  BY DEF guard
<1> QED
  BY <1>4, <1>5, <1>6 DEF HistoryRecords

\* A quotient multiplied back.
LEMMA QuotientBack ==
    ASSUME NEW x \in Int, NEW s \in Nat \ {0}
    PROVE  /\ x \div s \in Int /\ (x \div s) * s \in Int
           /\ (x \div s) * s <= x /\ x < (x \div s) * s + s
  OBVIOUS

\* Rounding up adds less than a step.
LEMMA RoundedUp ==
    ASSUME NEW raw \in Nat
    PROVE  /\ roundUpToDisplayMultiple(raw) \in Nat
           /\ raw > 0 => roundUpToDisplayMultiple(raw) < raw + ROUNDING_STEP
<1> DEFINE x == raw + ROUNDING_STEP - 1
<1>1. x \in Nat /\ ROUNDING_STEP \in Nat \ {0}
  BY SuggestAssumption
<1>2. (x \div ROUNDING_STEP) * ROUNDING_STEP \in Nat /\ (x \div ROUNDING_STEP) * ROUNDING_STEP <= x
  <2> HIDE DEF x
  <2>1. x \div ROUNDING_STEP \in Nat
    BY <1>1
  <2> QED
    BY <1>1, <2>1, QuotientBack
<1> QED
  BY <1>1, <1>2 DEF roundUpToDisplayMultiple

\* The limit derived from the pool: enough payments stand behind it, half of them of its
\* size, and it is within the rule's limit for one payment.
LEMMA RobustThresholdIsBacked ==
    ASSUME SuggestTypeInv, deriveRobustThreshold # Unset
    PROVE  LET limit == deriveRobustThreshold.threshold
               backing == {r \in thresholdPool :
                              UNUSUAL_MULTIPLIER * r.amount > limit - ROUNDING_STEP}
           IN  /\ limit \in Nat
               /\ context.rule.perTx # Unset => context.rule.perTx \in Int
               /\ context.rule.perTx # Unset => limit <= context.rule.perTx
               /\ Cardinality(thresholdPool) \in Nat
               /\ Cardinality(thresholdPool) >= DEFAULT_MIN_PAYMENTS
               /\ 2 * Cardinality(backing) >= Cardinality(thresholdPool)
<1> DEFINE D == thresholdPool
           f == amountsOf(D)
           kept == dropAmountOutliers(f)
           K == {x \in D : f[x] <= UNUSUAL_MULTIPLIER * median(f)}
           p90 == percentileNearestRank(kept, 90)
           limit == computeAutoApproveThreshold(p90, maxOf(kept))
           cap == context.rule.perTx
<1>1. /\ D # {} /\ deriveRobustThreshold = Derived(kept)
  BY DEF deriveRobustThreshold
<1>2. /\ IsFiniteSet(D) /\ D \subseteq guard /\ Cardinality(D) \in Nat
      /\ f \in [D -> Nat] /\ \A r \in D : f[r] = r.amount
  <2>1. D \subseteq guard
    BY DEF thresholdPool
  <2> HIDE DEF D
  <2>2. IsFiniteSet(D) /\ Cardinality(D) \in Nat
    BY <2>1, GuardIsSound, FS_Subset, FS_CardinalityType
  <2>3. f \in [D -> Nat] /\ \A r \in D : f[r] = r.amount
    BY <2>1, GuardIsSound DEF amountsOf
  <2> QED
    BY <2>1, <2>2, <2>3
<1> HIDE DEF D, f
<1>3. K # {} /\ IsFiniteSet(K) /\ kept = [x \in K |-> f[x]] /\ kept \in [K -> Nat]
  BY <1>1, <1>2, OutliersAreDropped, Zenon
<1> HIDE DEF kept
<1>4. PICK x \in K : kept[x] = p90
  <2> HIDE DEF K
  <2>1. 90 \in 1 .. 100
    OBVIOUS
  <2>2. \E x \in K : kept[x] = percentileNearestRank(kept, 90)
    <3>1. \A p \in 1 .. 100 : \E x \in K : kept[x] = percentileNearestRank(kept, p)
      BY <1>3, PercentileIsThere, Zenon
    <3> QED
      BY <2>1, <3>1, Zenon
  <2> QED
    BY <2>2
<1>5. p90 \in Nat /\ p90 <= UNUSUAL_MULTIPLIER * median(f)
  BY <1>2, <1>3, <1>4
<1>6. sizeOf(kept) = Cardinality(K) /\ Cardinality(K) \in Nat /\ Cardinality(K) <= Cardinality(D)
  <2>1. Cardinality(K) \in Nat /\ Cardinality(K) <= Cardinality(D)
    BY <1>2, FS_Subset, FS_CardinalityType
  <2>2. DOMAIN kept = K
    BY <1>3
  <2> QED
    BY <2>1, <2>2 DEF sizeOf
<1>7. /\ Cardinality(D) >= DEFAULT_MIN_PAYMENTS
      /\ p90 > 0 /\ limit # Unset
      /\ deriveRobustThreshold = [threshold |-> limit, p90 |-> p90]
  <2> HIDE DEF K
  <2>1. Derived(kept) = IF sizeOf(kept) < DEFAULT_MIN_PAYMENTS THEN Unset
                        ELSE IF p90 <= 0 \/ limit = Unset THEN Unset
                        ELSE [threshold |-> limit, p90 |-> p90]
    BY DEF Derived
  <2> HIDE DEF p90, limit
  <2> QED
    BY <1>1, <1>2, <1>5, <1>6, <2>1, SuggestAssumption
<1>8. maxOf(kept) \in Nat
  BY <1>3, ExtremesBound
<1> HIDE DEF p90
<1>9. /\ limit \in Nat /\ limit <= roundUpToDisplayMultiple(p90)
      /\ cap # Unset => cap \in Int
      /\ cap # Unset => limit <= cap
  <2>1. cap \in RuleLimits
    BY SuggestAssumption DEF SuggestTypeInv
  <2>2. roundUpToDisplayMultiple(p90) \in Nat /\ roundUpToDisplayMultiple(maxOf(kept)) \in Nat
    BY <1>5, <1>8, RoundedUp
  <2> QED
    BY <1>7, <2>1, <2>2 DEF computeAutoApproveThreshold, Smaller, RuleLimits
<1>10. limit - ROUNDING_STEP < p90
  BY <1>5, <1>7, <1>9, RoundedUp, SuggestAssumption
<1> DEFINE Reach == {r \in D : median(f) <= f[r]}
           backing == {r \in D : UNUSUAL_MULTIPLIER * r.amount > limit - ROUNDING_STEP}
<1>11. Reach \subseteq backing
  <2>1. ASSUME NEW r \in D, median(f) <= f[r]
        PROVE  UNUSUAL_MULTIPLIER * r.amount > limit - ROUNDING_STEP
    <3>1. median(f) \in Nat /\ f[r] \in Nat /\ r.amount = f[r]
      BY <1>1, <1>2, MedianIsInTheMiddle
    <3>2. UNUSUAL_MULTIPLIER * median(f) <= UNUSUAL_MULTIPLIER * f[r]
      BY <2>1, <3>1, ProductGrows, SuggestAssumption
    <3>3. UNUSUAL_MULTIPLIER * median(f) \in Nat /\ UNUSUAL_MULTIPLIER * f[r] \in Nat
      BY <3>1, ProductGrows, SuggestAssumption
    <3> HIDE DEF limit
    <3>4. limit - ROUNDING_STEP \in Int
      BY <1>9, SuggestAssumption
    <3> QED
      BY <1>5, <1>10, <3>1, <3>2, <3>3, <3>4
  <2> QED
    BY <2>1
<1> HIDE DEF limit
<1>12. 2 * Cardinality(backing) >= Cardinality(D)
  <2>1. 2 * Cardinality(Reach) >= Cardinality(D)
    BY <1>1, <1>2, MedianIsInTheMiddle
  <2>2. IsFiniteSet(backing) /\ Cardinality(Reach) \in Nat /\ Cardinality(backing) \in Nat
    BY <1>2, FS_Subset, FS_CardinalityType
  <2>3. Cardinality(Reach) <= Cardinality(backing)
    BY <1>11, <2>2, FS_Subset
  <2> QED
    BY <1>2, <2>1, <2>2, <2>3
<1>13. deriveRobustThreshold.threshold = limit
  BY <1>7
<1> QED
  BY <1>2, <1>7, <1>9, <1>12, <1>13 DEF D

\* Records that count have as many ids as they are.
LEMMA AsManyIds ==
    ASSUME SuggestTypeInv, NEW S \in SUBSET guard
    PROVE  Cardinality({r.id : r \in S}) = Cardinality(S)
<1> DEFINE I == {r.id : r \in S}
           f == [r \in S |-> r.id]
<1>1. IsFiniteSet(S)
  BY GuardIsSound, FS_Subset
<1>2. f \in Surjection(S, I)
  BY DEF Surjection
<1>3. f \in Injection(S, I)
  BY GuardIsSound DEF Injection, IsInjective
<1> QED
  BY <1>1, <1>2, <1>3, FS_Surjection

\* What is proposed for the rule is one draft of a kind, in order.
LEMMA DraftIsOrdered ==
    ASSUME NEW kind, NEW auto, NEW perTx, NEW daily, NEW d \in RuleDraft(kind, auto, perTx, daily)
    PROVE  /\ d = [kind |-> kind, auto |-> auto, perTx |-> perTx, daily |-> daily]
           /\ Legible(perTx) /\ Within(auto, perTx)
<1> DEFINE e == [kind |-> kind, auto |-> auto, perTx |-> perTx, daily |-> daily]
<1>1. d = e /\ isRuleDraftOrdered(e)
  BY DEF RuleDraft
<1> QED
  BY <1>1 DEF isRuleDraftOrdered

\* A drafted rule rests on enough different payments, half of them of its size.
LEMMA DraftsAreBackedAlways ==
    ASSUME SuggestTypeInv
    PROVE  DraftsAreBacked
<1> DEFINE Backing(limit) == {r \in thresholdPool :
                                 UNUSUAL_MULTIPLIER * r.amount > limit - ROUNDING_STEP}
           Backed(limit) ==
               /\ Cardinality({r.id : r \in thresholdPool}) >= DEFAULT_MIN_PAYMENTS
               /\ 2 * Cardinality(Backing(limit)) >= Cardinality(thresholdPool)
<1>1. SUFFICES ASSUME NEW d \in RuleDrafts
               PROVE  /\ Legible(context.rule.perTx) /\ Within(d.auto, context.rule.perTx)
                      /\ d.auto # context.rule.auto => Backed(d.auto)
  BY DEF DraftsAreBacked
<1>2. d \in autoPayThresholdSuggestion \cup dailyLimitSuggestion
  <2>1. /\ d \in suggest /\ d.kind \in {"auto_pay_threshold", "daily_limit"}
        /\ d \in autoPayThresholdSuggestion \cup dailyLimitSuggestion
                 \cup recurrenceSuggestions \cup dormantSuggestion \cup unusualSuggestions
    BY DEF RuleDrafts, suggest
  <2>2. \A s \in recurrenceSuggestions : s.kind = "schedule_from_recurrence"
    <3>1. \A to : \A s \in scheduleSuggestion(to) : s.kind = "schedule_from_recurrence"
      BY DEF scheduleSuggestion
    <3> QED
      BY <3>1 DEF recurrenceSuggestions
  <2>3. \A s \in dormantSuggestion : s.kind = "tighten_dormant"
    BY DEF dormantSuggestion
  <2>4. \A s \in unusualSuggestions : s.kind = "unusual_payment_alert"
    BY DEF unusualSuggestions
  <2> QED
    BY <2>1, <2>2, <2>3, <2>4
<1>3. ASSUME deriveRobustThreshold # Unset
      PROVE  /\ Backed(deriveRobustThreshold.threshold)
             /\ Legible(context.rule.perTx)
             /\ Within(deriveRobustThreshold.threshold, context.rule.perTx)
  <2>1. thresholdPool \subseteq guard
    BY DEF thresholdPool
  <2>2. Cardinality({r.id : r \in thresholdPool}) = Cardinality(thresholdPool)
    BY <2>1, AsManyIds
  <2>3. Backed(deriveRobustThreshold.threshold)
    BY <1>3, <2>2, RobustThresholdIsBacked
  <2>4. /\ deriveRobustThreshold.threshold \in Nat
        /\ context.rule.perTx # Unset => context.rule.perTx \in Int
        /\ context.rule.perTx # Unset => deriveRobustThreshold.threshold <= context.rule.perTx
    BY <1>3, RobustThresholdIsBacked
  <2> QED
    BY <2>3, <2>4, SuggestAssumption DEF Legible, Within
<1> HIDE DEF Backed
<1>4. CASE d \in autoPayThresholdSuggestion
  <2>1. /\ deriveRobustThreshold # Unset
        /\ \E perTx : d \in RuleDraft("auto_pay_threshold", deriveRobustThreshold.threshold,
                                      perTx, Unset)
    BY <1>4, Zenon DEF autoPayThresholdSuggestion
  <2>2. d.auto = deriveRobustThreshold.threshold
    BY <2>1, DraftIsOrdered
  <2> QED
    BY <1>3, <2>1, <2>2
<1>5. CASE d \in dailyLimitSuggestion
  <2> DEFINE auto == IF context.rule.auto # Unset THEN context.rule.auto
                     ELSE IF deriveRobustThreshold = Unset THEN Unset
                     ELSE deriveRobustThreshold.threshold
  <2>1. /\ auto # Unset
        /\ \E daily : d \in RuleDraft("daily_limit", auto, context.rule.perTx, daily)
    BY <1>5, Zenon DEF dailyLimitSuggestion
  <2>2. d.auto = auto /\ Legible(context.rule.perTx) /\ Within(auto, context.rule.perTx)
    BY <2>1, DraftIsOrdered
  <2>3. auto # context.rule.auto => /\ deriveRobustThreshold # Unset
                                    /\ auto = deriveRobustThreshold.threshold
    BY <2>1
  <2> HIDE DEF auto
  <2> QED
    BY <1>3, <2>2, <2>3
<1> QED
  BY <1>2, <1>4, <1>5

\* A multiple leaves nothing over.
LEMMA MultipleLeavesNothing ==
    ASSUME NEW k \in Nat, NEW s \in Nat \ {0}
    PROVE  (k * s) % s = 0
<1>1. k * s \in Nat
  OBVIOUS
<1> QED
  BY <1>1

\* The first run is a whole number of intervals after the last payment and the first of
\* those to come.
LEMMA FirstRunIsNext ==
    ASSUME NEW last \in Nat, NEW interval \in Nat \ {0}, suggestClock \in Nat,
           last <= suggestClock
    PROVE  LET run == advanceFirstRunAt(last, interval)
           IN  /\ run \in Nat /\ suggestClock < run /\ run <= suggestClock + interval
               /\ (run - last) % interval = 0
<1> DEFINE After(n) == last + (n + 1) * interval
           Ahead == {n \in 0 .. MAX_FIRST_RUN_ADVANCE_STEPS : After(n) > suggestClock}
           run == advanceFirstRunAt(last, interval)
<1>1. MAX_FIRST_RUN_ADVANCE_STEPS \in Nat
  BY SuggestAssumption
<1>2. CASE Ahead # {}
  <2>1. PICK n \in Ahead : \A m \in Ahead : n <= m
    <3>1. Ahead \in SUBSET Nat
      BY <1>1
    <3> HIDE DEF Ahead
    <3> QED
      BY <1>2, <3>1, LeastNatural
  <2>2. \A m \in Ahead : (\A j \in Ahead : m <= j) => m = n
    BY <1>1, <2>1
  <2>3. run = After(n)
    <3>1. run = After(CHOOSE m \in Ahead : \A j \in Ahead : m <= j)
      BY <1>2 DEF advanceFirstRunAt
    <3> HIDE DEF After, Ahead, run
    <3> QED
      BY <2>1, <2>2, <3>1
  <2>4. n \in Nat /\ n <= MAX_FIRST_RUN_ADVANCE_STEPS /\ After(n) > suggestClock
    BY <1>1, <2>1
  <2>5. After(n) <= suggestClock + interval
    <3>1. CASE n = 0
      BY <3>1
    <3>2. CASE n # 0
      <4>1. n - 1 \in 0 .. MAX_FIRST_RUN_ADVANCE_STEPS /\ n - 1 \notin Ahead
        BY <1>1, <2>1, <2>4, <3>2
      <4>2. After(n - 1) \in Int /\ After(n - 1) <= suggestClock
        BY <2>4, <4>1
      <4>3. After(n) = After(n - 1) + interval
        BY <2>4
      <4> HIDE DEF After
      <4> QED
        BY <4>2, <4>3
    <3> QED
      BY <3>1, <3>2
  <2>6. After(n) - last = (n + 1) * interval /\ After(n) \in Nat
    BY <2>4
  <2> HIDE DEF After
  <2>7. (After(n) - last) % interval = 0
    <3>1. n + 1 \in Nat
      BY <2>4
    <3>2. ((n + 1) * interval) % interval = 0
      BY <3>1, MultipleLeavesNothing, Zenon
    <3> QED
      BY <2>6, <3>2, Zenon
  <2> QED
    BY <2>3, <2>4, <2>5, <2>6, <2>7
<1>3. CASE Ahead = {}
  <2> DEFINE d == suggestClock - last
             q == d \div interval
  <2>1. run = last + (q + 1) * interval
    BY <1>3 DEF advanceFirstRunAt
  <2>2. d \in Nat /\ q \in Nat
    BY SMT
  <2>3. q * interval <= d /\ d < q * interval + interval /\ q * interval \in Int
    BY <2>2, QuotientBack
  <2>4. d = suggestClock - last
    OBVIOUS
  <2> HIDE DEF d, q
  <2>5. (q + 1) * interval = q * interval + interval /\ (q + 1) * interval \in Nat
    BY <2>2
  <2>6. ((q + 1) * interval) % interval = 0
    BY <2>2, MultipleLeavesNothing
  <2> DEFINE m == (q + 1) * interval
             l == q * interval
  <2>7. run = last + m /\ m \in Nat /\ l \in Int /\ m = l + interval /\ l <= d /\ d < m
        /\ m % interval = 0
    BY <2>1, <2>3, <2>5, <2>6
  <2> HIDE DEF m, l, run
  <2>8. run - last = m
    BY <2>7
  <2> QED
    BY <2>2, <2>4, <2>7, <2>8 DEF run
<1> QED
  BY <1>2, <1>3

\* The intervals of a group of several payments: one at least, none negative.
LEMMA IntervalsAreThere ==
    ASSUME SuggestTypeInv, NEW group \in SUBSET guard, Cardinality(group) > 1
    PROVE  LET D == DOMAIN intervalsOf(group)
           IN  IsFiniteSet(D) /\ D # {} /\ intervalsOf(group) \in [D -> Nat]
<1> DEFINE Later(r) == {q \in group : byTimestampThenId(r, q)}
           D == {r \in group : Later(r) # {}}
<1>1. /\ IsFiniteSet(group) /\ \A r \in group : r.ts \in Nat /\ r.id \in Nat
      /\ \A r, q \in group : r.id = q.id => r = q
  BY GuardIsSound, FS_Subset DEF HistoryRecords
<1>2. D # {}
  <2>1. PICK r \in group, q \in group : r # q
    <3>1. ~ (0 > 1) /\ ~ (1 > 1)
      OBVIOUS
    <3>2. group # {}
      BY <3>1, FS_EmptySet, Zenon
    <3>3. \A r : group # {r}
      BY <3>1, FS_Singleton, Zenon
    <3> QED
      BY <3>2, <3>3
  <2>2. q \in Later(r) \/ r \in Later(q)
    BY <1>1, <2>1 DEF byTimestampThenId
  <2> QED
    BY <2>1, <2>2
<1>3. ASSUME NEW r \in D  PROVE minOf(timesOf(Later(r))) - r.ts \in Nat
  <2> DEFINE L == Later(r)
             f == timesOf(L)
  <2>1. L # {} /\ L \subseteq group /\ \A q \in L : r.ts <= q.ts
    BY <1>1, <1>3 DEF byTimestampThenId
  <2> HIDE DEF L
  <2>2. IsFiniteSet(L) /\ f \in [L -> Nat] /\ \A q \in L : f[q] = q.ts
    BY <1>1, <2>1, FS_Subset DEF timesOf
  <2>3. PICK q \in L : f[q] = minOf(f)
    BY <2>1, <2>2, ExtremesBound
  <2>4. minOf(f) \in Nat /\ r.ts <= minOf(f) /\ r.ts \in Nat
    BY <1>1, <2>1, <2>2, <2>3
  <2> QED
    BY <2>4 DEF L
<1>4. intervalsOf(group) = [r \in D |-> minOf(timesOf(Later(r))) - r.ts]
  BY DEF intervalsOf
<1>5. IsFiniteSet(D)
  BY <1>1, FS_Subset
<1> QED
  BY <1>2, <1>3, <1>4, <1>5

\* A suggested order starts with the next run of its own cadence and pays what was paid.
LEMMA FirstRunIsTheNextOneAlways ==
    ASSUME SuggestTypeInv
    PROVE  FirstRunIsTheNextOne
<1>1. SUFFICES ASSUME NEW s \in suggest, s.kind = "schedule_from_recurrence"
               PROVE  LET group == {r \in guard : r.to = s.to}
                          Apart(r) == IF r.amount > s.amount THEN r.amount - s.amount
                                      ELSE s.amount - r.amount
                      IN /\ suggestClock < s.firstRunAt
                         /\ s.firstRunAt <= suggestClock + s.interval
                         /\ \E r \in group : (s.firstRunAt - r.ts) % s.interval = 0
                         /\ \A r \in group :
                               Apart(r) * 100 <= RECURRENCE_AMOUNT_TOLERANCE_PCT * s.amount
  BY DEF FirstRunIsTheNextOne
<1>2. s \in recurrenceSuggestions
  <2>1. s \in autoPayThresholdSuggestion \cup dailyLimitSuggestion
                \cup recurrenceSuggestions \cup dormantSuggestion \cup unusualSuggestions
    BY DEF suggest
  <2>2. \A d \in autoPayThresholdSuggestion \cup dailyLimitSuggestion :
            d.kind \in {"auto_pay_threshold", "daily_limit"}
    <3>1. \A kind, auto, perTx, daily : \A d \in RuleDraft(kind, auto, perTx, daily) :
              d.kind = kind
      BY DraftIsOrdered
    <3>2. \A d \in autoPayThresholdSuggestion : d.kind = "auto_pay_threshold"
      BY <3>1, Zenon DEF autoPayThresholdSuggestion
    <3>3. \A d \in dailyLimitSuggestion : d.kind = "daily_limit"
      <4>1. \A d \in dailyLimitSuggestion :
                \E auto, perTx, daily : d \in RuleDraft("daily_limit", auto, perTx, daily)
        BY Zenon DEF dailyLimitSuggestion
      <4> QED
        BY <3>1, <4>1
    <3> QED
      BY <3>2, <3>3
  <2>3. \A d \in dormantSuggestion \cup unusualSuggestions : d.kind # "schedule_from_recurrence"
    BY DEF dormantSuggestion, unusualSuggestions
  <2> QED
    BY <1>1, <2>1, <2>2, <2>3
<1>3. PICK to : s \in scheduleSuggestion(to)
  BY <1>2 DEF recurrenceSuggestions
<1> DEFINE group == {r \in guard : r.to = to}
           amounts == amountsOf(group)
           intervals == intervalsOf(group)
           times == timesOf(group)
           amount == median(amounts)
           interval == median(intervals)
           last == maxOf(times)
<1>4. /\ Cardinality(group) >= RECURRENCE_MIN_OCCURRENCES
      /\ Steady(intervals, amounts)
      /\ s = [kind |-> "schedule_from_recurrence", to |-> to, amount |-> amount,
              interval |-> interval, firstRunAt |-> advanceFirstRunAt(last, interval)]
  <2>1. /\ ~ (Cardinality(group) < RECURRENCE_MIN_OCCURRENCES)
        /\ Steady(intervals, amounts)
        /\ s = [kind |-> "schedule_from_recurrence", to |-> to, amount |-> amount,
                interval |-> interval, firstRunAt |-> advanceFirstRunAt(last, interval)]
    BY <1>3, Zenon DEF scheduleSuggestion
  <2>2. Cardinality(group) \in Nat
    BY GuardIsSound, FS_Subset, FS_CardinalityType
  <2> QED
    BY <2>1, <2>2, SuggestAssumption
<1>5. group \subseteq guard
  OBVIOUS
<1>6. s.to = to /\ s.amount = amount /\ s.interval = interval
      /\ s.firstRunAt = advanceFirstRunAt(last, interval)
  BY <1>4
<1>7. group = {r \in guard : r.to = s.to}
  BY <1>6
<1> HIDE DEF group
<1>8. /\ IsFiniteSet(group) /\ group # {} /\ Cardinality(group) > 1
      /\ amounts \in [group -> Nat] /\ times \in [group -> Nat]
      /\ \A r \in group : /\ amounts[r] = r.amount /\ times[r] = r.ts
                          /\ r.ts \in Nat /\ r.amount \in Nat /\ r.ts <= suggestClock
  <2>1. IsFiniteSet(group) /\ Cardinality(group) \in Nat
    BY <1>5, GuardIsSound, FS_Subset, FS_CardinalityType
  <2>2. Cardinality(group) > 1
    BY <1>4, <2>1, SuggestAssumption
  <2>3. group # {}
    BY <2>2, FS_EmptySet
  <2>4. \A r \in group : r.ts \in Nat /\ r.amount \in Nat /\ r.ts <= suggestClock
    BY <1>5, GuardIsSound
  <2> QED
    BY <2>1, <2>2, <2>3, <2>4 DEF amountsOf, timesOf
<1>9. interval \in Nat \ {0}
  <2>1. interval \in Nat
    <3> DEFINE D == DOMAIN intervals
    <3>1. IsFiniteSet(D) /\ D # {} /\ intervals \in [D -> Nat]
      BY <1>5, <1>8, IntervalsAreThere
    <3> HIDE DEF D, intervals
    <3> QED
      BY <3>1, MedianIsInTheMiddle
  <2>2. interval > 0
    BY <1>4 DEF Steady
  <2> HIDE DEF interval
  <2> QED
    BY <2>1, <2>2
<1>10. PICK q \in group : q.ts = last
  BY <1>8, ExtremesBound
<1>11. /\ suggestClock < s.firstRunAt /\ s.firstRunAt <= suggestClock + s.interval
       /\ (s.firstRunAt - q.ts) % s.interval = 0
  <2>1. last \in Nat /\ last <= suggestClock /\ suggestClock \in Nat
    BY <1>8, <1>10 DEF SuggestTypeInv
  <2> HIDE DEF last, interval
  <2> QED
    BY <1>6, <1>9, <1>10, <2>1, FirstRunIsNext
<1>12. ASSUME NEW r \in group
       PROVE  LET apart == IF r.amount > amount THEN r.amount - amount ELSE amount - r.amount
              IN  apart * 100 <= RECURRENCE_AMOUNT_TOLERANCE_PCT * amount
  <2>1. /\ minOf(amounts) <= amounts[r] /\ amounts[r] <= maxOf(amounts)
        /\ minOf(amounts) \in Nat /\ maxOf(amounts) \in Nat
    BY <1>8, ExtremesBound
  <2>2. amount \in Nat /\ minOf(amounts) <= amount /\ amount <= maxOf(amounts)
    <3>1. /\ amount \in Nat
          /\ \E x \in group : amounts[x] <= amount
          /\ \E x \in group : amount <= amounts[x]
      BY <1>8, MedianIsInTheMiddle
    <3>2. \A x \in group : minOf(amounts) <= amounts[x] /\ amounts[x] <= maxOf(amounts)
      BY <1>8, ExtremesBound
    <3> HIDE DEF amount, amounts
    <3> QED
      BY <1>8, <2>1, <3>1, <3>2
  <2>3. (maxOf(amounts) - minOf(amounts)) * 100 <= RECURRENCE_AMOUNT_TOLERANCE_PCT * amount
    BY <1>4 DEF Steady
  <2>4. amounts[r] = r.amount /\ r.amount \in Nat
    BY <1>8
  <2> DEFINE least == minOf(amounts)
             most == maxOf(amounts)
             allowed == RECURRENCE_AMOUNT_TOLERANCE_PCT * amount
  <2>5. allowed \in Nat
    BY <2>2, SuggestAssumption
  <2> HIDE DEF least, most, allowed, amount, amounts
  <2> QED
    BY <2>1, <2>2, <2>3, <2>4, <2>5 DEF least, most, allowed
<1> HIDE DEF amount, interval, last
<1> QED
  BY <1>6, <1>7, <1>11, <1>12

\* A value that dwarfs all others does not move the median, of three values or more.
LEMMA OutlierDoesNotMoveMedian ==
    ASSUME NEW D, IsFiniteSet(D), Cardinality(D) > 2, NEW f \in [D -> Nat], NEW r \in D,
           \A q \in D \ {r} : f[q] < f[r]
    PROVE  \E q \in D \ {r} : median(f) <= f[q]
<1> DEFINE n == Cardinality(D)
           k == n \div 2
           v == Ranked(f, k + 1)
           Under == {y \in D : f[y] < v}
<1>1. n \in Nat /\ k \in Nat /\ k + 1 \in 1 .. n /\ k + 1 < n
  BY FS_CardinalityType
<1>2. (\E x \in D : f[x] = v) /\ Cardinality(Under) < k + 1
  <2> HIDE DEF k
  <2> QED
    BY <1>1, RankedIsThere, Zenon
<1>3. median(f) <= v /\ median(f) \in Nat
  BY MedianIsInTheMiddle
<1> HIDE DEF v
<1>4. f[r] # v
  <2> SUFFICES ASSUME f[r] = v  PROVE FALSE
    OBVIOUS
  <2>1. Under = D \ {r}
    OBVIOUS
  <2>2. Cardinality(D \ {r}) = n - 1
    BY FS_RemoveElement
  <2> HIDE DEF n, k, Under
  <2> QED
    BY <1>1, <1>2, <2>1, <2>2
<1> QED
  BY <1>2, <1>3, <1>4

\* A late payment that dwarfs all others is pointed out.
LEMMA OutlierIsPointedOutAlways ==
    ASSUME SuggestTypeInv
    PROVE  OutlierIsPointedOut
<1> DEFINE Alert(r) == [kind |-> "unusual_payment_alert", record |-> r.id]
<1>1. SUFFICES ASSUME explainNoSuggestions = Unset, NEW r \in guard,
                      r.ts >= suggestClock - UNUSUAL_WINDOW_DAYS * DAY_SECONDS,
                      \A q \in guard \ {r} : r.amount > UNUSUAL_MULTIPLIER * q.amount
               PROVE  Alert(r) \in suggest \/ isDismissed(Alert(r))
  BY DEF OutlierIsPointedOut
<1> DEFINE D == guard
           f == amountsOf(D)
           kept == dropAmountOutliers(f)
           K == {x \in D : f[x] <= UNUSUAL_MULTIPLIER * median(f)}
           M == UNUSUAL_MULTIPLIER
<1>2. /\ IsFiniteSet(D) /\ Cardinality(D) \in Nat /\ f \in [D -> Nat]
      /\ \A q \in D : f[q] = q.amount /\ q.amount \in Nat \ {0}
  BY GuardIsSound, FS_CardinalityType DEF amountsOf
<1>3. M \in Nat \ {0}
  BY SuggestAssumption
<1>4. enough
  <2>1. spanDays(guard) \in Int
    <3> DEFINE times == timesOf(guard)
    <3>1. CASE Cardinality(guard) < 2
      BY <3>1 DEF spanDays
    <3>2. CASE ~ (Cardinality(guard) < 2)
      <4>1. D # {} /\ times \in [D -> Nat]
        BY <1>1, GuardIsSound DEF timesOf
      <4>2. maxOf(times) \in Nat /\ minOf(times) \in Nat
        BY <1>2, <4>1, ExtremesBound
      <4> QED
        BY <3>2, <4>2, SuggestAssumption DEF spanDays
    <3> QED
      BY <3>1, <3>2
  <2> QED
    BY <1>1, <1>2, <2>1, SuggestAssumption DEF explainNoSuggestions
<1>5. Cardinality(D) > 2
  BY <1>2, <1>4, SuggestAssumption DEF enough
<1> HIDE DEF D, f
<1>6. \A q \in D \ {r} : M * f[q] < f[r] /\ f[q] < f[r]
  <2> TAKE q \in D \ {r}
  <2>1. /\ M * q.amount < r.amount /\ q.amount \in Nat /\ r.amount \in Nat
        /\ f[q] = q.amount /\ f[r] = r.amount
    BY <1>1, <1>2, <1>3 DEF D
  <2>2. q.amount <= M * q.amount /\ M * q.amount \in Nat
    BY <1>3, <2>1, ProductGrows
  <2> QED
    BY <2>1, <2>2
<1>7. /\ K # {} /\ IsFiniteSet(K)
      /\ kept = [x \in K |-> f[x]] /\ kept \in [K -> Nat]
  BY <1>1, <1>2, OutliersAreDropped, Zenon DEF D
<1>8. r \notin K
  <2>1. PICK q \in D \ {r} : median(f) <= f[q]
    BY <1>1, <1>2, <1>5, <1>6, OutlierDoesNotMoveMedian DEF D
  <2>2. median(f) \in Nat /\ f[q] \in Nat /\ f[r] \in Nat
    BY <1>1, <1>2, MedianIsInTheMiddle DEF D
  <2>3. M * median(f) <= M * f[q] /\ M * f[q] < f[r]
    BY <1>3, <1>6, <2>1, <2>2, ProductGrows
  <2>4. M * median(f) \in Nat /\ M * f[q] \in Nat
    BY <1>3, <2>2, ProductGrows
  <2> QED
    BY <2>2, <2>3, <2>4
<1>9. PICK q \in K : kept[q] = baseline
  <2>1. \A p \in 1 .. 100 : \E x \in K : kept[x] = percentileNearestRank(kept, p)
    <3> HIDE DEF K, kept
    <3> QED
      BY <1>7, PercentileIsThere, Zenon
  <2>2. 90 \in 1 .. 100
    OBVIOUS
  <2>3. baseline = percentileNearestRank(kept, 90)
    BY DEF baseline, D, f
  <2> HIDE DEF kept, K
  <2> QED
    BY <2>1, <2>2, <2>3
<1>10. baseline > 0 /\ r.amount > M * baseline
  <2>1. q \in D \ {r} /\ baseline = f[q]
    BY <1>7, <1>8, <1>9
  <2>2. f[q] \in Nat \ {0} /\ f[r] = r.amount
    BY <1>1, <1>2, <2>1 DEF D
  <2> QED
    BY <1>6, <2>1, <2>2
<1>11. Alert(r) \in unusualSuggestions
  BY <1>1, <1>10 DEF unusualSuggestions
<1> HIDE DEF Alert
<1> QED
  BY <1>4, <1>11 DEF suggest

\* Of any payments, contexts and merges: what is proposed is backed, starts where its
\* cadence says, and what dwarfs the rest is pointed out.
THEOREM SuggestTyped == SuggestSpec => []SuggestTypeInv
<1>1. SuggestInit => SuggestTypeInv
  BY DEF SuggestInit, SuggestTypeInv
<1>2. SuggestTypeInv /\ [SuggestNext]_suggestVars => SuggestTypeInv'
  BY SuggestTypeStep
<1> QED
  BY <1>1, <1>2, PTL DEF SuggestSpec

\* Whatever was paid and whenever advice is asked for, it rests on the history (suggestRules,
\* suggestSchedules, detectUnusualPayment).
THEOREM AdviceSafe == SuggestSpec => []AdviceRestsOnHistory
<1>1. SuggestTypeInv => AdviceRestsOnHistory
  BY DraftsAreBackedAlways, FirstRunIsTheNextOneAlways, OutlierIsPointedOutAlways
     DEF AdviceRestsOnHistory
<1> QED
  BY <1>1, SuggestTyped, PTL

-----------------------------------------------------------------------------
(* The history's lists.                                                      *)

\* A total order of a finite set puts its elements in line: each has a place, and one that
\* comes before another in the order comes before it in the line.
StrictTotal(I, order) ==
    /\ \A i \in I : <<i, i>> \notin order
    /\ \A i, j, k \in I : <<i, j>> \in order /\ <<j, k>> \in order => <<i, k>> \in order
    /\ \A i, j \in I : i # j => <<i, j>> \in order \/ <<j, i>> \in order
InLine(I, order, L) ==
    /\ L \in [1 .. Cardinality(I) -> I]
    /\ \A i \in I : \E p \in 1 .. Cardinality(I) : L[p] = i
    /\ \A p, q \in 1 .. Cardinality(I) : p < q => <<L[p], L[q]>> \in order

\* A total order of a finite set is a line of its elements.
LEMMA InOrderIsInLine ==
    ASSUME NEW I, IsFiniteSet(I), NEW order, StrictTotal(I, order)
    PROVE  InLine(I, order, InOrder(I, order))
<1> DEFINE n == Cardinality(I)
           Below(i) == {j \in I : <<j, i>> \in order}
           rank == [i \in I |-> Cardinality(Below(i)) + 1]
           L == InOrder(I, order)
<1>1. n \in Nat
  BY FS_CardinalityType
<1>2. ASSUME NEW i \in I
      PROVE  IsFiniteSet(Below(i)) /\ Cardinality(Below(i)) \in Nat /\ Cardinality(Below(i)) < n
  <2>1. Below(i) \in SUBSET I /\ i \notin Below(i)
    BY DEF StrictTotal
  <2> HIDE DEF Below
  <2>2. /\ IsFiniteSet(Below(i)) /\ Cardinality(Below(i)) <= n
        /\ n = Cardinality(Below(i)) => I = Below(i)
    BY <2>1, FS_Subset
  <2>3. Cardinality(Below(i)) \in Nat
    BY <2>2, FS_CardinalityType
  <2> QED
    BY <1>1, <2>1, <2>2, <2>3
<1>3. ASSUME NEW i \in I, NEW j \in I, <<i, j>> \in order
      PROVE  Cardinality(Below(i)) < Cardinality(Below(j))
  <2>1. Below(i) \in SUBSET Below(j) /\ i \in Below(j) /\ i \notin Below(i)
    BY <1>3 DEF StrictTotal
  <2> HIDE DEF Below
  <2>2. /\ Cardinality(Below(i)) <= Cardinality(Below(j))
        /\ Cardinality(Below(j)) = Cardinality(Below(i)) => Below(j) = Below(i)
    BY <1>2, <2>1, FS_Subset
  <2> QED
    BY <1>2, <2>1, <2>2
<1> HIDE DEF Below
<1>4. rank \in Injection(I, 1 .. n)
  <2>1. rank \in [I -> 1 .. n]
    BY <1>1, <1>2
  <2>2. ASSUME NEW i \in I, NEW j \in I, rank[i] = rank[j]  PROVE i = j
    <3>1. Cardinality(Below(i)) = Cardinality(Below(j))
      BY <1>2, <2>2
    <3>2. <<i, j>> \notin order /\ <<j, i>> \notin order
      BY <1>2, <1>3, <3>1
    <3> QED
      BY <3>2 DEF StrictTotal
  <2> HIDE DEF rank
  <2> QED
    BY <2>1, <2>2 DEF Injection, IsInjective
<1>5. rank \in Surjection(I, 1 .. n)
  <2>1. IsFiniteSet(1 .. n) /\ Cardinality(1 .. n) = n
    BY <1>1, FS_Interval
  <2> HIDE DEF rank, n
  <2>2. Cardinality(I) = Cardinality(1 .. n) <=> rank \in Surjection(I, 1 .. n)
    BY <1>4, <2>1, FS_Injection
  <2> QED
    BY <2>1, <2>2 DEF n
<1>6. \A p \in 1 .. n : \E i \in I : Cardinality(Below(i)) = p - 1
  <2> TAKE p \in 1 .. n
  <2>1. PICK i \in I : rank[i] = p
    BY <1>5 DEF Surjection
  <2>2. Cardinality(Below(i)) + 1 = p
    BY <2>1
  <2> QED
    BY <1>1, <1>2, <2>2
<1>7. L = [p \in 1 .. n |-> CHOOSE i \in I : Cardinality(Below(i)) = p - 1]
  BY DEF InOrder, Below
<1> HIDE DEF L, n
<1>8. \A p \in 1 .. n : L[p] \in I /\ Cardinality(Below(L[p])) = p - 1
  BY <1>6, <1>7
<1>9. \A i \in I : \E p \in 1 .. n : L[p] = i
  <2> TAKE i \in I
  <2>1. Cardinality(Below(i)) \in Nat /\ rank[i] \in 1 .. n
        /\ rank[i] = Cardinality(Below(i)) + 1
    BY <1>1, <1>2
  <2>2. L[rank[i]] \in I /\ Cardinality(Below(L[rank[i]])) = Cardinality(Below(i))
    BY <1>8, <2>1
  <2>3. rank[L[rank[i]]] = rank[i]
    BY <2>2
  <2> HIDE DEF rank
  <2> QED
    BY <1>4, <2>1, <2>2, <2>3 DEF Injection, IsInjective
<1>10. \A p, q \in 1 .. n : p < q => <<L[p], L[q]>> \in order
  <2> TAKE p, q \in 1 .. n
  <2> HAVE p < q
  <2>1. /\ L[p] \in I /\ L[q] \in I
        /\ Cardinality(Below(L[p])) < Cardinality(Below(L[q]))
    BY <1>1, <1>8
  <2>2. L[p] # L[q] /\ <<L[q], L[p]>> \notin order
    <3>1. Cardinality(Below(L[p])) \in Nat /\ Cardinality(Below(L[q])) \in Nat
      BY <1>2, <2>1
    <3> QED
      BY <1>3, <2>1, <3>1
  <2> QED
    BY <2>1, <2>2 DEF StrictTotal
<1>11. L \in [1 .. n -> I]
  BY <1>7, <1>8
<1> QED
  BY <1>9, <1>10, <1>11 DEF InLine, L, n

\* What is picked from a list comes in the list's order, and all of it comes.
PickedBy(s, I, L) ==
    /\ L \in [1 .. Cardinality(I) -> I]
    /\ \A i \in I : \E p \in 1 .. Cardinality(I) : L[p] = i
    /\ \A p, q \in 1 .. Cardinality(I) : p < q => L[p] < L[q]
    /\ Picked(s, I) = [p \in 1 .. Cardinality(I) |-> s[L[p]]]

\* Picking keeps the type and the order, and takes as many as there are places.
LEMMA PickedInOrder ==
    ASSUME NEW S, NEW s \in Seq(S), NEW I \in SUBSET DOMAIN s
    PROVE  /\ Cardinality(I) \in Nat
           /\ Picked(s, I) \in Seq(S) /\ Len(Picked(s, I)) = Cardinality(I)
           /\ DOMAIN Picked(s, I) = 1 .. Cardinality(I)
           /\ \E L : PickedBy(s, I, L)
<1> DEFINE order == {ij \in I \X I : ij[1] < ij[2]}
           n == Cardinality(I)
           L == InOrder(I, order)
<1>1. IsFiniteSet(I) /\ n \in Nat /\ I \subseteq Nat
  <2>1. DOMAIN s = 1 .. Len(s) /\ Len(s) \in Nat
    OBVIOUS
  <2>2. IsFiniteSet(1 .. Len(s)) /\ I \in SUBSET (1 .. Len(s))
    BY <2>1, FS_Interval
  <2>3. IsFiniteSet(I)
    BY <2>2, FS_Subset
  <2> QED
    BY <2>1, <2>3, FS_CardinalityType
<1>2. \A i, j \in I : <<i, j>> \in order <=> i < j
  OBVIOUS
<1>3. StrictTotal(I, order)
  <2> HIDE DEF order
  <2> QED
    BY <1>1, <1>2 DEF StrictTotal
<1>4. InLine(I, order, L)
  <2> HIDE DEF order
  <2> QED
    BY <1>1, <1>3, InOrderIsInLine
<1> HIDE DEF order
<1>5. L \in [1 .. n -> I] /\ \A p, q \in 1 .. n : p < q => L[p] < L[q]
  BY <1>2, <1>4 DEF InLine
<1>6. Picked(s, I) = [p \in 1 .. n |-> s[L[p]]]
  <2>1. Picked(s, I) = Along(s, L)
    BY DEF Picked, order
  <2> HIDE DEF L
  <2> QED
    BY <1>5, <2>1 DEF Along
<1>7. PickedBy(s, I, L)
  BY <1>4, <1>5, <1>6 DEF PickedBy, InLine
<1>8. Picked(s, I) \in Seq(S) /\ Len(Picked(s, I)) = n /\ DOMAIN Picked(s, I) = 1 .. n
  <2> HIDE DEF L, n
  <2>1. \A p \in 1 .. n : L[p] \in DOMAIN s /\ s[L[p]] \in S
    BY <1>5
  <2>2. [p \in 1 .. n |-> s[L[p]]] \in Seq(S)
    BY <1>1, <2>1
  <2> QED
    BY <1>1, <1>6, <2>2
<1> QED
  BY <1>1, <1>7, <1>8

\* A stretch of a list is picked as it stands, and the whole of it is the list.
LEMMA StretchIsPicked ==
    ASSUME NEW S, NEW s \in Seq(S), NEW a \in Nat \ {0}, NEW b \in 0 .. Len(s)
    PROVE  Picked(s, a .. b) = SubSeq(s, a, b)
<1> DEFINE I == a .. b
           n == Cardinality(I)
<1>1. I \in SUBSET DOMAIN s
  OBVIOUS
<1>2. n \in Nat /\ n = IF a > b THEN 0 ELSE b - a + 1
  BY FS_Interval
<1>3. PICK L : PickedBy(s, I, L)
  BY <1>1, PickedInOrder
<1>4. \A p \in 1 .. n : L[p] = a + p - 1
  <2> DEFINE Wrong == {p \in 1 .. n : L[p] # a + p - 1}
  <2>1. SUFFICES ASSUME Wrong # {}  PROVE FALSE
    OBVIOUS
  <2>2. Wrong \in SUBSET Nat
    BY <1>2
  <2>3. PICK p \in Wrong : \A q \in Wrong : p <= q
    BY <2>1, <2>2, LeastNatural
  <2>4. \A q \in 1 .. n : q < p => L[q] = a + q - 1
    BY <1>2, <2>3
  <2>5. /\ L \in [1 .. n -> I]
        /\ \A i \in I : \E q \in 1 .. n : L[q] = i
        /\ \A q, r \in 1 .. n : q < r => L[q] < L[r]
    BY <1>3 DEF PickedBy
  <2>6. p \in 1 .. n /\ L[p] # a + p - 1
    BY <2>3
  <2>7. a + p - 1 \in I
    BY <1>2, <2>6
  <2>8. PICK q \in 1 .. n : L[q] = a + p - 1
    BY <2>5, <2>7
  <2>9. q > p
    BY <1>2, <2>4, <2>6, <2>8
  <2>10. L[p] < a + p - 1 /\ L[p] \in I
    BY <2>5, <2>6, <2>8, <2>9
  <2>11. L[p] - a + 1 \in 1 .. n /\ L[p] - a + 1 < p
    BY <1>2, <2>6, <2>10
  <2>12. L[L[p] - a + 1] = L[p]
    BY <2>4, <2>10, <2>11
  <2>13. L[L[p] - a + 1] < L[p] /\ L[p] \in Int
    BY <2>5, <2>6, <2>10, <2>11
  <2> QED
    BY <2>12, <2>13
<1>5. Picked(s, I) = [p \in 1 .. n |-> s[L[p]]]
  BY <1>3 DEF PickedBy
<1>6. SubSeq(s, a, b) = [p \in 1 .. n |-> s[a + p - 1]]
  BY <1>2
<1> QED
  BY <1>4, <1>5, <1>6

\* And the whole of it is the list.
LEMMA AllIsPicked ==
    ASSUME NEW S, NEW s \in Seq(S)
    PROVE  Picked(s, DOMAIN s) = s
<1>1. DOMAIN s = 1 .. Len(s) /\ Len(s) \in 0 .. Len(s) /\ 1 \in Nat \ {0}
  OBVIOUS
<1>2. Picked(s, 1 .. Len(s)) = SubSeq(s, 1, Len(s))
  BY <1>1, StretchIsPicked, Zenon
<1> QED
  BY <1>1, <1>2

\* Of the rows read so far, those kept, one after another.
Keeps(list, N, g) ==
    /\ g \in [0 .. N -> SUBSET Nat]
    /\ \A n \in 0 .. N :
          g[n] = IF n = 0 THEN {}
                 ELSE IF \E i \in g[n - 1] : SameRow(list[i], list[n]) THEN g[n - 1]
                      ELSE g[n - 1] \cup {n}

\* What is kept up to each row is defined, from one row to the next.
LEMMA KeepingIsThere ==
    ASSUME NEW list, NEW N \in Nat
    PROVE  \E g : Keeps(list, N, g)
<1> DEFINE Wrong == {m \in Nat : ~ \E g : Keeps(list, m, g)}
<1>1. SUFFICES ASSUME Wrong # {}  PROVE FALSE
  OBVIOUS
<1>2. PICK m \in Wrong : \A k \in Wrong : m <= k
  <2>1. Wrong \in SUBSET Nat
    OBVIOUS
  <2> HIDE DEF Wrong
  <2> QED
    BY <1>1, <2>1, LeastNatural
<1>3. m \in Nat /\ ~ \E g : Keeps(list, m, g)
  BY <1>2
<1>4. m # 0
  <2> DEFINE g == [n \in 0 .. 0 |-> {}]
  <2>1. Keeps(list, 0, g)
    BY DEF Keeps
  <2> QED
    BY <1>3, <2>1
<1>5. PICK g : Keeps(list, m - 1, g)
  BY <1>2, <1>3, <1>4
<1> DEFINE last == IF \E i \in g[m - 1] : SameRow(list[i], list[m]) THEN g[m - 1]
                   ELSE g[m - 1] \cup {m}
           h == [n \in 0 .. m |-> IF n = m THEN last ELSE g[n]]
<1>6. g[m - 1] \in SUBSET Nat /\ last \in SUBSET Nat
  BY <1>3, <1>4, <1>5 DEF Keeps
<1>7. h \in [0 .. m -> SUBSET Nat]
  <2> HIDE DEF last
  <2> QED
    BY <1>3, <1>5, <1>6 DEF Keeps
<1>8. \A n \in 0 .. m - 1 : h[n] = g[n]
  BY <1>3
<1>9. ASSUME NEW n \in 0 .. m
      PROVE  h[n] = IF n = 0 THEN {}
                    ELSE IF \E i \in h[n - 1] : SameRow(list[i], list[n]) THEN h[n - 1]
                         ELSE h[n - 1] \cup {n}
  <2>1. CASE n = m
    <3>1. h[n] = last /\ h[n - 1] = g[m - 1]
      BY <1>3, <1>4, <1>8, <2>1
    <3> HIDE DEF h
    <3> QED
      BY <1>4, <2>1, <3>1
  <2>2. CASE n # m
    <3>1. h[n] = g[n] /\ n \in 0 .. m - 1 /\ (n # 0 => h[n - 1] = g[n - 1])
      BY <1>3, <1>8, <2>2
    <3> HIDE DEF h
    <3> QED
      BY <1>5, <3>1 DEF Keeps
  <2> QED
    BY <2>1, <2>2
<1>10. Keeps(list, m, h)
  <2> HIDE DEF h
  <2> QED
    BY <1>7, <1>9 DEF Keeps
<1> QED
  BY <1>3, <1>10

\* Of rows that tell of the same thing one is kept, and only one.
LEMMA KeptOnce ==
    ASSUME NEW list, Len(list) \in Nat
    PROVE  /\ Kept(list) \in SUBSET (1 .. Len(list))
           /\ \A i, j \in Kept(list) : i # j => ~SameRow(list[i], list[j])
           /\ \A i \in 1 .. Len(list) : \E j \in Kept(list) : SameRow(list[j], list[i])
<1> DEFINE N == Len(list)
           IsKept(k) ==
               k = [n \in 0 .. N |->
                       IF n = 0 THEN {}
                       ELSE LET sofar == k[n - 1] IN
                            IF \E i \in sofar : SameRow(list[i], list[n]) THEN sofar
                            ELSE sofar \cup {n}]
           kept == CHOOSE k : IsKept(k)
<1>1. Kept(list) = kept[N]
  BY DEF Kept
<1>2. PICK g : Keeps(list, N, g)
  BY KeepingIsThere
<1>3. IsKept(g)
  <2>1. DOMAIN g = 0 .. N /\ g = [n \in 0 .. N |-> g[n]]
    BY <1>2 DEF Keeps
  <2> QED
    BY <1>2, <2>1 DEF Keeps
<1>4. IsKept(kept)
  <2> HIDE DEF IsKept
  <2> QED
    BY <1>3
<1>5. \A n \in 0 .. N :
         kept[n] = IF n = 0 THEN {}
                   ELSE IF \E i \in kept[n - 1] : SameRow(list[i], list[n]) THEN kept[n - 1]
                        ELSE kept[n - 1] \cup {n}
  <2> HIDE DEF kept
  <2> QED
    BY <1>4
<1> HIDE DEF kept, IsKept
<1> DEFINE Right(n) == /\ kept[n] \in SUBSET (1 .. n)
                       /\ \A i, j \in kept[n] : i # j => ~SameRow(list[i], list[j])
                       /\ \A i \in 1 .. n : \E j \in kept[n] : SameRow(list[j], list[i])
           Wrong == {n \in 0 .. N : ~ Right(n)}
<1>6. SUFFICES ASSUME Wrong # {}  PROVE FALSE
  <2>1. ASSUME Wrong = {}  PROVE Right(N)
    BY <2>1
  <2> QED
    BY <1>1, <2>1
<1>7. PICK n \in Wrong : \A k \in Wrong : n <= k
  <2>1. Wrong \in SUBSET Nat
    OBVIOUS
  <2> HIDE DEF Wrong
  <2> QED
    BY <1>6, <2>1, LeastNatural
<1>8. n \in 0 .. N /\ ~ Right(n)
  BY <1>7
<1>9. n # 0
  <2>1. ASSUME n = 0  PROVE Right(n)
    <3>1. kept[n] = {}
      BY <1>5, <1>8, <2>1
    <3>2. 1 .. n = {}
      BY <2>1
    <3> QED
      BY <3>1, <3>2
  <2> QED
    BY <1>8, <2>1
<1>10. Right(n - 1) /\ n - 1 \in 0 .. N
  <2>1. n - 1 \in 0 .. N /\ n - 1 \notin Wrong
    BY <1>7, <1>8, <1>9
  <2> QED
    BY <2>1
<1>11. kept[n] = IF \E i \in kept[n - 1] : SameRow(list[i], list[n]) THEN kept[n - 1]
                 ELSE kept[n - 1] \cup {n}
  BY <1>5, <1>8, <1>9
<1>12. \A a, b : SameRow(a, b) <=> SameRow(b, a)
  BY DEF SameRow
<1>13. SameRow(list[n], list[n])
  BY DEF SameRow
<1>14. 1 .. n = (1 .. n - 1) \cup {n} /\ n \notin 1 .. n - 1
  BY <1>8, <1>9
<1> DEFINE K == kept[n - 1]
<1>15. /\ K \in SUBSET (1 .. n - 1)
       /\ \A i, j \in K : i # j => ~SameRow(list[i], list[j])
       /\ \A i \in 1 .. n - 1 : \E j \in K : SameRow(list[j], list[i])
  BY <1>10
<1> HIDE DEF K
<1>16. CASE \E i \in K : SameRow(list[i], list[n])
  <2>1. kept[n] = K
    BY <1>11, <1>16 DEF K
  <2>2. Right(n)
    BY <1>14, <1>15, <1>16, <2>1
  <2> QED
    BY <1>8, <2>2
<1>17. CASE ~ \E i \in K : SameRow(list[i], list[n])
  <2>1. kept[n] = K \cup {n}
    BY <1>11, <1>17 DEF K
  <2>2. kept[n] \in SUBSET (1 .. n)
    BY <1>14, <1>15, <2>1
  <2>3. \A i, j \in kept[n] : i # j => ~SameRow(list[i], list[j])
    BY <1>12, <1>15, <1>17, <2>1
  <2>4. \A i \in 1 .. n : \E j \in kept[n] : SameRow(list[j], list[i])
    BY <1>13, <1>14, <1>15, <2>1
  <2> QED
    BY <1>8, <2>2, <2>3, <2>4
<1> QED
  BY <1>16, <1>17

HistoryRow ==
    [origin : {"anchor", "chain", "demo", "p2p", "turn"}, n : Int, at : Int, hash : Hashes,
     kind : {"sent", "received", "scheduled", "rule_change", "p2p", "anchor_deposit",
             "anchor_withdraw", "other"},
     chip : {"confirmed", "auto_approved", "pending", "failed", "cancelled"},
     direction : Int, who : Parties, nickname : Range(AliasNames) \cup {NoName}]

\* A row comes before another by its time, its origin's rank and its number; of two that
\* agree in all three the first one read comes first.
LEMMA SortingIsTotal ==
    ASSUME NEW list \in Seq(HistoryRow), NEW I \in SUBSET DOMAIN list
    PROVE  /\ StrictTotal(I, Sorting(list, I))
           /\ \A i, j \in I : <<i, j>> \in Sorting(list, I) => list[i].at >= list[j].at
<1> DEFINE at(i) == list[i].at
           rk(i) == Rank[list[i].origin]
           num(i) == list[i].n
           Earlier(i, j) == \/ at(i) > at(j)
                            \/ at(i) = at(j) /\ rk(i) < rk(j)
                            \/ at(i) = at(j) /\ rk(i) = rk(j) /\ num(i) < num(j)
           order == Sorting(list, I)
<1>1. \A i \in I : i \in Nat /\ list[i] \in HistoryRow
  OBVIOUS
<1>2. \A i \in I : at(i) \in Int /\ rk(i) \in Int /\ num(i) \in Int
  BY <1>1 DEF HistoryRow, Rank
<1>3. \A i, j \in I : rk(i) = rk(j) <=> list[i].origin = list[j].origin
  BY <1>1 DEF HistoryRow, Rank
<1>4. \A i, j \in I : Before(list[i], list[j]) <=> Earlier(i, j)
  BY <1>3 DEF Before
<1>5. \A i, j \in I : <<i, j>> \in order <=> Earlier(i, j) \/ (~Earlier(j, i) /\ i < j)
  <2>1. \A i, j \in I : <<i, j>> \in order <=>
             Before(list[i], list[j]) \/ (~Before(list[j], list[i]) /\ i < j)
    BY DEF Sorting
  <2> HIDE DEF order, Earlier
  <2> QED
    BY <1>4, <2>1
<1> HIDE DEF at, rk, num, order
<1>6. \A i \in I : <<i, i>> \notin order
  BY <1>1, <1>2, <1>5
<1>7. \A i, j, k \in I : <<i, j>> \in order /\ <<j, k>> \in order => <<i, k>> \in order
  BY <1>1, <1>2, <1>5
<1>8. \A i, j \in I : i # j => <<i, j>> \in order \/ <<j, i>> \in order
  BY <1>1, <1>2, <1>5
<1>9. \A i, j \in I : <<i, j>> \in order => at(i) >= at(j)
  BY <1>1, <1>2, <1>5
<1> QED
  BY <1>6, <1>7, <1>8, <1>9 DEF StrictTotal, at, order

\* A merged list has rows of the lists it was made of, no two of which tell of the same
\* thing, tells of everything they told of, and has the newest first.
Merges(list, m) ==
    /\ m \in Seq(HistoryRow)
    /\ \A p \in DOMAIN m : \E i \in DOMAIN list : m[p] = list[i]
    /\ \A p, q \in DOMAIN m : p # q => ~SameRow(m[p], m[q])
    /\ \A i \in DOMAIN list : \E p \in DOMAIN m : SameRow(m[p], list[i])
    /\ \A p, q \in DOMAIN m : p < q => m[p].at >= m[q].at

\* mergeRows merges.
LEMMA MergedOnce ==
    ASSUME NEW list \in Seq(HistoryRow)
    PROVE  Merges(list, mergeRows(list))
<1> DEFINE I == Kept(list)
           n == Cardinality(I)
           order == Sorting(list, I)
           L == InOrder(I, order)
           m == mergeRows(list)
<1>1. Len(list) \in Nat /\ DOMAIN list = 1 .. Len(list)
  OBVIOUS
<1>2. /\ I \in SUBSET DOMAIN list
      /\ \A i, j \in I : i # j => ~SameRow(list[i], list[j])
      /\ \A i \in DOMAIN list : \E j \in I : SameRow(list[j], list[i])
  BY <1>1, KeptOnce
<1> HIDE DEF I
<1>3. IsFiniteSet(I) /\ n \in Nat
  <2>1. IsFiniteSet(1 .. Len(list)) /\ I \in SUBSET (1 .. Len(list))
    BY <1>1, <1>2, FS_Interval
  <2>2. IsFiniteSet(I)
    BY <2>1, FS_Subset
  <2> QED
    BY <2>2, FS_CardinalityType
<1>4. /\ StrictTotal(I, order)
      /\ \A i, j \in I : <<i, j>> \in order => list[i].at >= list[j].at
  BY <1>2, SortingIsTotal
<1>5. InLine(I, order, L)
  <2> HIDE DEF order
  <2> QED
    BY <1>3, <1>4, InOrderIsInLine
<1>6. m = Along(list, L)
  BY DEF mergeRows, I
<1> HIDE DEF order, L, n
<1>7. /\ L \in [1 .. n -> I]
      /\ \A i \in I : \E p \in 1 .. n : L[p] = i
      /\ \A p, q \in 1 .. n : p < q => <<L[p], L[q]>> \in order
  BY <1>5 DEF InLine, n
<1>8. m = [p \in 1 .. n |-> list[L[p]]]
  BY <1>6, <1>7 DEF Along
<1> HIDE DEF m
<1>9. /\ DOMAIN m = 1 .. n
      /\ \A p \in 1 .. n : m[p] = list[L[p]] /\ L[p] \in I /\ L[p] \in DOMAIN list
  BY <1>2, <1>7, <1>8
<1>10. m \in Seq(HistoryRow)
  <2>1. \A p \in 1 .. n : list[L[p]] \in HistoryRow
    BY <1>9
  <2>2. [p \in 1 .. n |-> list[L[p]]] \in Seq(HistoryRow)
    BY <1>3, <2>1 DEF n
  <2> QED
    BY <1>8, <2>2
<1>11. \A p, q \in 1 .. n : p < q => <<L[p], L[q]>> \in order /\ L[p] # L[q]
  BY <1>4, <1>7, <1>9 DEF StrictTotal
<1>12. \A p, q \in 1 .. n : p # q => ~SameRow(m[p], m[q])
  <2>1. \A p, q \in 1 .. n : p # q => L[p] # L[q]
    <3> TAKE p, q \in 1 .. n
    <3> HAVE p # q
    <3>1. p < q \/ q < p
      BY <1>3
    <3> QED
      BY <1>11, <3>1
  <2> QED
    BY <1>2, <1>9, <2>1
<1>13. \A p, q \in 1 .. n : p < q => m[p].at >= m[q].at
  BY <1>4, <1>9, <1>11
<1>14. \A i \in DOMAIN list : \E p \in 1 .. n : SameRow(m[p], list[i])
  <2> TAKE i \in DOMAIN list
  <2>1. PICK j \in I : SameRow(list[j], list[i])
    BY <1>2
  <2>2. PICK p \in 1 .. n : L[p] = j
    BY <1>7, <2>1
  <2> QED
    BY <1>9, <2>1, <2>2
<1> QED
  BY <1>9, <1>10, <1>12, <1>13, <1>14 DEF Merges, m

\* A list cut at a length is as it was up to there.
LEMMA FirstOfList ==
    ASSUME NEW S, NEW s \in Seq(S), NEW n \in Nat
    PROVE  /\ First(n, s) \in Seq(S)
           /\ Len(First(n, s)) = IF Len(s) < n THEN Len(s) ELSE n
           /\ DOMAIN First(n, s) = 1 .. Len(First(n, s))
           /\ \A i \in DOMAIN First(n, s) : i \in DOMAIN s /\ First(n, s)[i] = s[i]
<1> DEFINE m == IF Len(s) < n THEN Len(s) ELSE n
<1>1. m \in Nat /\ m <= Len(s) /\ Len(s) \in Nat
  OBVIOUS
<1>2. First(n, s) = SubSeq(s, 1, m)
  BY DEF First
<1> HIDE DEF m
<1>3. /\ SubSeq(s, 1, m) \in Seq(S) /\ Len(SubSeq(s, 1, m)) = m
      /\ \A i \in 1 .. m : i \in DOMAIN s /\ SubSeq(s, 1, m)[i] = s[i]
  BY <1>1
<1> QED
  BY <1>2, <1>3 DEF m

\* A log that was written reads as it was written.
LEMMA ParseOfWritten ==
    ASSUME NEW entries \in Seq(Entries), Len(entries) <= TURN_LOG_LIMIT
    PROVE  parseTurnLog(entries) = entries
<1>1. \A e \in Entries : IsEntry(e) /\ toEntry(e) = e
  BY DEF Entries, IsEntry, toEntry
<1>2. DOMAIN entries = 1 .. Len(entries) /\ Len(entries) \in Nat
      /\ \A i \in DOMAIN entries : entries[i] \in Entries
  OBVIOUS
<1>3. {i \in DOMAIN entries : IsEntry(entries[i])} = DOMAIN entries
  BY <1>1, <1>2
<1>4. Picked(entries, {i \in DOMAIN entries : IsEntry(entries[i])}) = entries
  BY <1>3, AllIsPicked
<1>5. [i \in DOMAIN entries |-> toEntry(entries[i])] = entries
  BY <1>1, <1>2
<1>6. parseTurnLog(entries) = First(TURN_LOG_LIMIT, entries)
  BY <1>4, <1>5 DEF parseTurnLog
<1>7. First(TURN_LOG_LIMIT, entries) = entries
  <2> DEFINE cut == First(TURN_LOG_LIMIT, entries)
  <2>1. TURN_LOG_LIMIT \in Nat
    BY TimelineAssumption
  <2>2. /\ cut \in Seq(Entries)
        /\ Len(cut) = IF Len(entries) < TURN_LOG_LIMIT THEN Len(entries) ELSE TURN_LOG_LIMIT
        /\ \A i \in DOMAIN cut : cut[i] = entries[i]
    BY <2>1, FirstOfList
  <2> DEFINE n == Len(entries)
             m == Len(cut)
  <2>3. m = n
    <3>1. n \in Nat /\ n <= TURN_LOG_LIMIT /\ m = IF n < TURN_LOG_LIMIT THEN n ELSE TURN_LOG_LIMIT
      BY <2>2
    <3> HIDE DEF m, n
    <3> QED
      BY <2>1, <3>1
  <2> HIDE DEF cut
  <2>4. cut = entries
    BY <1>2, <2>2, <2>3
  <2> QED
    BY <2>4 DEF cut
<1> QED
  BY <1>6, <1>7

\* What the store held before the first turn is of a bounded length.
LEMMA FormerLogIsBounded ==
    ASSUME NEW stored \in Stores
    PROVE  /\ LeftByAFormerRun(parseTurnLog(stored))
           /\ Len(parseTurnLog(stored)) <= TURN_LOG_LIMIT
<1> DEFINE I == {i \in DOMAIN stored : IsEntry(stored[i])}
           entries == Picked(stored, I)
           parsed == [i \in DOMAIN entries |-> toEntry(entries[i])]
<1>1. stored \in Seq(Range(stored)) /\ I \in SUBSET DOMAIN stored
  BY TimelineAssumption
<1> HIDE DEF I
<1>2. Cardinality(I) \in Nat /\ DOMAIN entries = 1 .. Cardinality(I)
  BY <1>1, PickedInOrder
<1>3. parsed \in Seq(Range(parsed))
  <2> DEFINE k == Cardinality(I)
  <2>1. DOMAIN parsed = 1 .. k
    BY <1>2
  <2>2. parsed \in [1 .. k -> Range(parsed)]
    BY <2>1 DEF Range
  <2> HIDE DEF parsed, k
  <2>3. k \in Nat
    BY <1>2 DEF k
  <2> QED
    BY <2>2, <2>3
<1>4. TURN_LOG_LIMIT \in Nat
  BY TimelineAssumption
<1>5. parseTurnLog(stored) = First(TURN_LOG_LIMIT, parsed)
  BY DEF parseTurnLog, I
<1> HIDE DEF parsed
<1>6. Len(First(TURN_LOG_LIMIT, parsed)) =
          IF Len(parsed) < TURN_LOG_LIMIT THEN Len(parsed) ELSE TURN_LOG_LIMIT
  BY <1>3, <1>4, FirstOfList
<1> QED
  BY <1>3, <1>4, <1>5, <1>6, TimelineAssumption

-----------------------------------------------------------------------------
(* The turn log.                                                             *)

Acting == {"agent", "payment", "submitted"}

\* A turn is at one step at a time, but for the mark of the automatic route.
TurnsUnderWay(t, r) ==
    /\ t \in Nat
    /\ r \subseteq [id : 1 .. t, at : Acting \cup {"marking"}]
    /\ \A id \in 1 .. t, a, b \in Acting : Step(id, a) \in r /\ Step(id, b) \in r => a = b

\* An entry with a transaction's hash says that it was submitted, and nothing that acts on
\* it is under way any more.
EntryTrue(e, t, r) ==
    /\ e \in Entries /\ e.id <= t
    /\ e.hash # NoHash => /\ e.outcome = "tx_submitted"
                          /\ \A a \in Acting : Step(e.id, a) \notin r
LogTrue(entries, t, r) ==
    /\ entries \in Seq(Entries) /\ Len(entries) <= TURN_LOG_LIMIT
    /\ \A i \in DOMAIN entries : EntryTrue(entries[i], t, r)
    /\ \A i \in DOMAIN entries : entries[i].outcome = "in_progress" => i = 1

LogInv == logClock \in Int /\ TurnsUnderWay(turns, running) /\ LogTrue(readTurnLog, turns, running)

\* Whether the store takes a write or not, the log stays true.
LEMMA WrittenOrLost ==
    ASSUME NEW t, NEW r, NEW entries, writeTurnLog(entries),
           LogTrue(entries, t, r), LogTrue(readTurnLog, t, r)
    PROVE  LogTrue(readTurnLog', t, r)
<1>1. CASE log' = log
  <2>1. readTurnLog' = readTurnLog
    BY <1>1 DEF readTurnLog
  <2> QED
    BY <2>1
<1>2. CASE log' = entries
  <2>1. readTurnLog' = parseTurnLog(entries)
    BY <1>2 DEF readTurnLog
  <2>2. entries \in Seq(Entries) /\ Len(entries) <= TURN_LOG_LIMIT
    BY DEF LogTrue
  <2>3. parseTurnLog(entries) = entries
    BY <2>2, ParseOfWritten
  <2> QED
    BY <2>1, <2>3
<1> QED
  BY <1>1, <1>2 DEF writeTurnLog

\* A patch that keeps its entry true keeps the log true.
LEMMA PatchedOrLost ==
    ASSUME NEW t, NEW r, NEW id, NEW patch, updateTurn(id, patch), LogTrue(readTurnLog, t, r),
           \A e \in Range(readTurnLog) : e.id = id =>
               /\ EntryTrue(patch[e], t, r)
               /\ patch[e].outcome = "in_progress" => e.outcome = "in_progress"
    PROVE  LogTrue(readTurnLog', t, r)
<1> DEFINE entries == readTurnLog
           patched == [i \in DOMAIN entries |->
                          IF entries[i].id = id THEN patch[entries[i]] ELSE entries[i]]
<1>1. CASE \A i \in DOMAIN entries : entries[i].id # id
  <2>1. readTurnLog' = readTurnLog
    BY <1>1 DEF updateTurn, readTurnLog
  <2> QED
    BY <2>1
<1>2. CASE ~ \A i \in DOMAIN entries : entries[i].id # id
  <2>1. writeTurnLog(patched)
    BY <1>2 DEF updateTurn
  <2>2. /\ entries \in Seq(Entries) /\ Len(entries) <= TURN_LOG_LIMIT
        /\ DOMAIN entries = 1 .. Len(entries) /\ Len(entries) \in Nat
        /\ \A i \in DOMAIN entries : EntryTrue(entries[i], t, r) /\ entries[i] \in Range(entries)
        /\ \A i \in DOMAIN entries : entries[i].outcome = "in_progress" => i = 1
    BY DEF LogTrue, Range
  <2> HIDE DEF entries
  <2>3. \A i \in DOMAIN entries :
           /\ EntryTrue(patched[i], t, r)
           /\ patched[i].outcome = "in_progress" => i = 1
    BY <2>2 DEF entries
  <2>4. patched \in Seq(Entries) /\ Len(patched) = Len(entries) /\ DOMAIN patched = DOMAIN entries
    <3>1. \A i \in DOMAIN entries : patched[i] \in Entries
      BY <2>3 DEF EntryTrue
    <3>2. DOMAIN patched = 1 .. Len(entries)
      BY <2>2
    <3> QED
      BY <2>2, <3>1, <3>2
  <2> HIDE DEF patched
  <2>5. LogTrue(patched, t, r)
    BY <2>2, <2>3, <2>4 DEF LogTrue
  <2> QED
    BY <2>1, <2>5, WrittenOrLost
<1> QED
  BY <1>1, <1>2

\* What is recorded of a turn that begins.
LEMMA NewEntries ==
    \A id, at \in Int, topic \in Texts, hash \in Hashes :
        [id |-> id, at |-> at, topic |-> topic, said |-> "nothing", outcome |-> "in_progress",
         hash |-> hash, auto |-> FALSE] \in Entries
<1>1. \A id, at \in Int, topic, said \in Texts, hash \in Hashes, auto \in BOOLEAN :
        [id |-> id, at |-> at, topic |-> topic, said |-> said, outcome |-> "in_progress",
         hash |-> hash, auto |-> auto] \in Entries
  BY DEF Entries
<1>2. "nothing" \in Texts
  BY DEF Texts
<1>3. FALSE \in BOOLEAN
  OBVIOUS
<1> QED
  BY <1>1, <1>2, <1>3, Zenon

\* With a new turn nothing else runs, and the entries of a turn that is over stay so.
LEMMA StartKeepsLog ==
    ASSUME LogInv, NEW topic \in Topics, StartsTurn(topic)
    PROVE  LogInv'
<1> DEFINE t == turns'
           r == running'
           entries == readTurnLog
           quiet == supersedeInProgress(entries)
           entry == [id |-> turns + 1, at |-> logClock, topic |-> topic, said |-> "nothing",
                     outcome |-> "in_progress", hash |-> NoHash, auto |-> FALSE]
           I == {i \in DOMAIN quiet : quiet[i].id # entry.id}
           rest == Picked(quiet, I)
           written == First(TURN_LOG_LIMIT, <<entry>> \o rest)
<1>1. /\ t = turns + 1 /\ r = running \cup {Step(turns + 1, "agent")}
      /\ recordTurnStart(turns + 1, topic) /\ logClock' = logClock
  BY DEF StartsTurn, Others
<1>2. turns \in Nat /\ TurnsUnderWay(turns, running) /\ LogTrue(entries, turns, running)
      /\ logClock \in Int
  BY DEF LogInv, TurnsUnderWay
<1>3. TurnsUnderWay(t, r)
  <2>1. \A x \in running : x.id \in 1 .. turns
    BY <1>2 DEF TurnsUnderWay
  <2>2. \A a : Step(turns + 1, a) \notin running
    BY <1>2, <2>1 DEF Step
  <2>3. \A id, a : Step(id, a) \in r <=> Step(id, a) \in running \/ (id = turns + 1 /\ a = "agent")
    BY <1>1 DEF Step
  <2>4. r \subseteq [id : 1 .. t, at : Acting \cup {"marking"}]
    <3>1. Step(turns + 1, "agent") \in [id : 1 .. t, at : Acting \cup {"marking"}]
      BY <1>1, <1>2 DEF Step, Acting
    <3>2. \A x \in running : x \in [id : 1 .. t, at : Acting \cup {"marking"}]
      BY <1>1, <1>2 DEF TurnsUnderWay
    <3> QED
      BY <1>1, <3>1, <3>2
  <2>5. \A id \in 1 .. t, a, b \in Acting : Step(id, a) \in r /\ Step(id, b) \in r => a = b
    <3> HIDE DEF r
    <3> QED
      BY <1>1, <1>2, <2>2, <2>3 DEF TurnsUnderWay
  <2> QED
    BY <1>1, <1>2, <2>4, <2>5 DEF TurnsUnderWay
<1>4. \A e : EntryTrue(e, turns, running) => EntryTrue(e, t, r)
  <2> SUFFICES ASSUME NEW e, EntryTrue(e, turns, running)  PROVE EntryTrue(e, t, r)
    OBVIOUS
  <2>1. e.id \in Int /\ e.id <= turns /\ e.id # turns + 1
    BY <1>2 DEF EntryTrue, Entries
  <2>2. \A a : Step(e.id, a) \in r => Step(e.id, a) \in running
    BY <1>1, <2>1 DEF Step
  <2> QED
    BY <1>1, <1>2, <2>1, <2>2 DEF EntryTrue
<1> HIDE DEF t, r
<1>5. LogTrue(entries, t, r)
  BY <1>2, <1>4 DEF LogTrue
<1>6. /\ entries \in Seq(Entries) /\ DOMAIN entries = 1 .. Len(entries) /\ Len(entries) \in Nat
      /\ \A i \in DOMAIN entries : EntryTrue(entries[i], t, r)
  BY <1>5 DEF LogTrue
<1> HIDE DEF entries
<1>7. /\ quiet \in Seq(Entries) /\ DOMAIN quiet = DOMAIN entries
      /\ \A i \in DOMAIN quiet : EntryTrue(quiet[i], t, r) /\ quiet[i].outcome # "in_progress"
  <2>1. quiet = [i \in DOMAIN entries |->
                    IF entries[i].outcome = "in_progress"
                    THEN [entries[i] EXCEPT !.outcome = "superseded"] ELSE entries[i]]
    BY DEF supersedeInProgress
  <2> HIDE DEF quiet
  <2>2. \A i \in DOMAIN entries :
           EntryTrue(quiet[i], t, r) /\ quiet[i].outcome # "in_progress"
    <3> TAKE i \in DOMAIN entries
    <3>1. CASE entries[i].outcome = "in_progress"
      <4>1. quiet[i] = [entries[i] EXCEPT !.outcome = "superseded"] /\ entries[i] \in Entries
            /\ entries[i].hash = NoHash
        BY <1>6, <2>1, <3>1 DEF EntryTrue
      <4> QED
        BY <1>6, <4>1 DEF EntryTrue, Entries
    <3>2. CASE entries[i].outcome # "in_progress"
      BY <1>6, <2>1, <3>2
    <3> QED
      BY <3>1, <3>2
  <2>3. \A i \in DOMAIN entries : quiet[i] \in Entries
    BY <2>2 DEF EntryTrue
  <2>4. DOMAIN quiet = DOMAIN entries
    BY <2>1
  <2> QED
    BY <1>6, <2>1, <2>2, <2>3, <2>4
<1> HIDE DEF quiet
<1>8. /\ rest \in Seq(Entries)
      /\ \A p \in DOMAIN rest : EntryTrue(rest[p], t, r) /\ rest[p].outcome # "in_progress"
  <2>1. I \in SUBSET DOMAIN quiet
    OBVIOUS
  <2> HIDE DEF I
  <2>2. rest \in Seq(Entries) /\ DOMAIN rest = 1 .. Cardinality(I)
    BY <1>7, <2>1, PickedInOrder
  <2>3. PICK L : PickedBy(quiet, I, L)
    BY <1>7, <2>1, PickedInOrder
  <2> QED
    BY <1>7, <2>1, <2>2, <2>3 DEF PickedBy
<1>9. EntryTrue(entry, t, r)
  <2>1. entry \in Entries
    <3>1. NoHash \in Hashes /\ topic \in Texts /\ turns + 1 \in Int
      BY <1>2, TimelineAssumption DEF NoHash, Hashes
    <3>2. logClock \in Int
      BY <1>2
    <3> QED
      BY <3>1, <3>2, NewEntries, Zenon
  <2> QED
    BY <1>1, <1>2, <2>1 DEF EntryTrue, t
<1> HIDE DEF entry, rest
<1>10. LogTrue(written, t, r)
  <2> DEFINE all == <<entry>> \o rest
  <2>1. /\ all \in Seq(Entries)
        /\ \A i \in DOMAIN all : EntryTrue(all[i], t, r)
        /\ \A i \in DOMAIN all : all[i].outcome = "in_progress" => i = 1
    <3>1. entry \in Entries /\ Len(rest) \in Nat
      BY <1>8, <1>9 DEF EntryTrue
    <3>2. all \in Seq(Entries) /\ DOMAIN all = 1 .. Len(rest) + 1 /\ all[1] = entry
      BY <1>8, <3>1
    <3>3. \A i \in 2 .. Len(rest) + 1 : i - 1 \in DOMAIN rest /\ all[i] = rest[i - 1]
      BY <1>8, <3>1
    <3> HIDE DEF all
    <3>4. \A i \in DOMAIN all : i = 1 \/ i \in 2 .. Len(rest) + 1
      BY <3>1, <3>2
    <3> QED
      BY <1>8, <1>9, <3>2, <3>3, <3>4
  <2>2. TURN_LOG_LIMIT \in Nat
    BY TimelineAssumption
  <2> HIDE DEF all
  <2>3. /\ written \in Seq(Entries)
        /\ Len(written) = IF Len(all) < TURN_LOG_LIMIT THEN Len(all) ELSE TURN_LOG_LIMIT
        /\ \A i \in DOMAIN written : i \in DOMAIN all /\ written[i] = all[i]
    BY <2>1, <2>2, FirstOfList DEF all
  <2> HIDE DEF written
  <2>4. Len(written) <= TURN_LOG_LIMIT
    <3> DEFINE n == Len(all)
               m == Len(written)
    <3>1. n \in Nat /\ m = IF n < TURN_LOG_LIMIT THEN n ELSE TURN_LOG_LIMIT
      BY <2>1, <2>3
    <3> HIDE DEF n, m
    <3>2. m <= TURN_LOG_LIMIT
      BY <2>2, <3>1
    <3> QED
      BY <3>2 DEF m
  <2> QED
    BY <2>1, <2>3, <2>4 DEF LogTrue
<1>11. writeTurnLog(written)
  BY <1>1 DEF recordTurnStart, upsertTurn, written, rest, entry, quiet, entries
<1> HIDE DEF written
<1>12. LogTrue(readTurnLog', t, r)
  BY <1>5, <1>10, <1>11, WrittenOrLost DEF entries
<1> QED
  BY <1>1, <1>2, <1>3, <1>12 DEF LogInv, t, r

\* What is under way may go on to the step after, or end.
GoesOn(r, s, id, a, next) ==
    /\ a \in Acting /\ Step(id, a) \in r
    /\ next \in SUBSET (Acting \cup {"marking"})
    /\ \A c, d \in Acting \cap next : c = d
    /\ s = (r \ {Step(id, a)}) \cup {Step(id, c) : c \in next}

\* Then the turns under way still are at one step at a time.
LEMMA UnderWayGoesOn ==
    ASSUME NEW t, NEW r, TurnsUnderWay(t, r), NEW id \in 1 .. t, NEW a, NEW next, NEW s,
           GoesOn(r, s, id, a, next)
    PROVE  /\ TurnsUnderWay(t, s)
           /\ \A e : EntryTrue(e, t, r) => EntryTrue(e, t, s)
           /\ next = {} => \A c \in Acting : Step(id, c) \notin s
<1>1. \A x \in 1 .. t : \A c : Step(x, c) \in s <=>
           \/ Step(x, c) \in r /\ ~(x = id /\ c = a)
           \/ x = id /\ c \in next
  BY DEF Step, GoesOn
<1>2. s \subseteq [id : 1 .. t, at : Acting \cup {"marking"}]
  BY DEF TurnsUnderWay, Step, GoesOn
<1>3. \A c \in Acting : Step(id, c) \in r => c = a
  BY DEF TurnsUnderWay, GoesOn
<1>4. \A x \in 1 .. t, c \in Acting : Step(x, c) \in s <=>
           \/ x # id /\ Step(x, c) \in r
           \/ x = id /\ c \in next
  BY <1>1, <1>3
<1>5. \A x \in 1 .. t, c, d \in Acting : Step(x, c) \in s /\ Step(x, d) \in s => c = d
  BY <1>4 DEF TurnsUnderWay, GoesOn
<1>6. TurnsUnderWay(t, s)
  BY <1>2, <1>5 DEF TurnsUnderWay
<1>7. ASSUME NEW e, EntryTrue(e, t, r)  PROVE EntryTrue(e, t, s)
  <2>1. CASE e.hash = NoHash
    BY <1>7, <2>1 DEF EntryTrue
  <2>2. CASE e.hash # NoHash
    <3>1. \A c \in Acting : Step(e.id, c) \notin r
      BY <1>7, <2>2 DEF EntryTrue
    <3>2. e.id # id
      BY <3>1 DEF GoesOn
    <3>3. \A c \in Acting : Step(e.id, c) \notin s
      <4>1. \A c \in Acting : Step(e.id, c) \in s => e.id \in 1 .. t
        BY <1>2 DEF Step
      <4> QED
        BY <1>1, <3>1, <3>2, <4>1
    <3> QED
      BY <1>7, <3>3 DEF EntryTrue
  <2> QED
    BY <2>1, <2>2
<1>8. next = {} => \A c \in Acting : Step(id, c) \notin s
  BY <1>4
<1> QED
  BY <1>6, <1>7, <1>8

\* The entries of a log are true of the steps that are left of those under way.
LEMMA FewerUnderWay ==
    ASSUME NEW t, NEW r, TurnsUnderWay(t, r), NEW s \in SUBSET r
    PROVE  TurnsUnderWay(t, s) /\ \A e : EntryTrue(e, t, r) => EntryTrue(e, t, s)
  BY DEF TurnsUnderWay, EntryTrue

\* What the log of a true entry is when its turn fails, is answered or is submitted.
LEMMA OutcomeIsTrue ==
    ASSUME NEW t, NEW r, NEW id, NEW label \in {"failed", "tx_submitted"}, NEW hash \in Hashes,
           LogTrue(readTurnLog, t, r), recordTurnOutcome(id, label, hash),
           hash # NoHash => label = "tx_submitted" /\ \A a \in Acting : Step(id, a) \notin r,
           hash = NoHash => \A e \in Range(readTurnLog) : e.id = id => e.hash = NoHash
    PROVE  LogTrue(readTurnLog', t, r)
<1> DEFINE patch == [e \in Range(readTurnLog) |->
                        [e EXCEPT !.outcome = label, !.hash = IF hash = NoHash THEN @ ELSE hash]]
<1>1. updateTurn(id, patch)
  BY DEF recordTurnOutcome
<1>2. \A e \in Range(readTurnLog) : EntryTrue(e, t, r)
  BY DEF LogTrue, Range
<1>3. ASSUME NEW e \in Range(readTurnLog), e.id = id
      PROVE  EntryTrue(patch[e], t, r) /\ patch[e].outcome # "in_progress"
  <2>1. e \in Entries /\ e.id <= t
    BY <1>2 DEF EntryTrue
  <2>2. patch[e] = [e EXCEPT !.outcome = label, !.hash = IF hash = NoHash THEN @ ELSE hash]
    OBVIOUS
  <2>3. /\ patch[e] \in Entries /\ patch[e].id = id /\ patch[e].outcome = label
        /\ patch[e].hash = IF hash = NoHash THEN e.hash ELSE hash
    BY <1>3, <2>1, <2>2 DEF Entries
  <2> HIDE DEF patch
  <2> QED
    BY <1>3, <2>1, <2>3 DEF EntryTrue
<1> HIDE DEF patch
<1> QED
  BY <1>1, <1>3, PatchedOrLost
\* An answer that is recorded keeps the log true.
LEMMA AnswerIsTrue ==
    ASSUME NEW t, NEW r, NEW id, NEW said \in Texts,
           LogTrue(readTurnLog, t, r), recordTurnAnswer(id, said)
    PROVE  LogTrue(readTurnLog', t, r)
<1> DEFINE patch == [e \in Range(readTurnLog) |->
                        [e EXCEPT !.said = said,
                                  !.outcome = IF @ = "in_progress" THEN "answered" ELSE @]]
<1>1. updateTurn(id, patch)
  BY DEF recordTurnAnswer
<1>2. \A e \in Range(readTurnLog) : EntryTrue(e, t, r)
  BY DEF LogTrue, Range
<1>3. ASSUME NEW e \in Range(readTurnLog)
      PROVE  EntryTrue(patch[e], t, r) /\ patch[e].outcome # "in_progress"
  <2>1. e \in Entries /\ e.id <= t
    BY <1>2 DEF EntryTrue
  <2>2. patch[e] = [e EXCEPT !.said = said,
                             !.outcome = IF @ = "in_progress" THEN "answered" ELSE @]
    OBVIOUS
  <2>3. /\ patch[e] \in Entries /\ patch[e].id = e.id /\ patch[e].hash = e.hash
        /\ patch[e].outcome = IF e.outcome = "in_progress" THEN "answered" ELSE e.outcome
    BY <2>1, <2>2 DEF Entries
  <2> HIDE DEF patch
  <2> QED
    BY <1>2, <2>1, <2>3 DEF EntryTrue
<1> HIDE DEF patch
<1> QED
  BY <1>1, <1>3, PatchedOrLost
\* So does the mark of the automatic route.
LEMMA MarkIsTrue ==
    ASSUME NEW t, NEW r, LogTrue(readTurnLog, t, r), recordAutoApproval
    PROVE  LogTrue(readTurnLog', t, r)
<1> DEFINE entries == readTurnLog
           InProgress == {i \in DOMAIN entries : entries[i].outcome = "in_progress"}
           patch == [e \in Range(entries) |-> [e EXCEPT !.auto = TRUE]]
           id == entries[CHOOSE i \in InProgress : \A j \in InProgress : i <= j].id
<1>1. CASE InProgress = {}
  <2>1. readTurnLog' = readTurnLog
    BY <1>1 DEF recordAutoApproval, readTurnLog
  <2> QED
    BY <2>1
<1>2. CASE InProgress # {}
  <2>1. updateTurn(id, patch)
    BY <1>2 DEF recordAutoApproval
  <2>2. \A e \in Range(entries) : EntryTrue(e, t, r)
    BY DEF LogTrue, Range
  <2>3. ASSUME NEW e \in Range(entries)
        PROVE  EntryTrue(patch[e], t, r) /\ patch[e].outcome = e.outcome
    <3>1. e \in Entries /\ e.id <= t
      BY <2>2 DEF EntryTrue
    <3>2. patch[e] = [e EXCEPT !.auto = TRUE]
      OBVIOUS
    <3>3. /\ patch[e] \in Entries /\ patch[e].id = e.id /\ patch[e].hash = e.hash
          /\ patch[e].outcome = e.outcome
      BY <3>1, <3>2 DEF Entries
    <3> HIDE DEF patch
    <3> QED
      BY <2>2, <3>1, <3>3 DEF EntryTrue
  <2> HIDE DEF patch, id
  <2> QED
    BY <2>1, <2>3, PatchedOrLost
<1> QED
  BY <1>1, <1>2

LogActions ==
    \/ \E topic \in Topics : StartsTurn(topic)
    \/ \E id \in 1 .. MaxTurns :
          \/ \E how \in {"error", "answer", "intent"}, said \in Topics : AgentEnds(id, how, said)
          \/ \E b \in BOOLEAN : ReportsFailure(id, b) \/ \E to \in Payees : Lands(id, b, to)
          \/ MarksAutomatic(id) \/ ReportsSubmitted(id)

\* The log stays true whatever a turn does, whenever it does it.
LEMMA TurnsKeepLog ==
    ASSUME LogInv, LogActions
    PROVE  LogInv'
<1> DEFINE t == turns
           r == running
<1>1. /\ TurnsUnderWay(t, r) /\ LogTrue(readTurnLog, t, r) /\ logClock \in Int
      /\ Topics \subseteq Texts
  BY TimelineAssumption DEF LogInv
<1>2. /\ \A a, id : Step(id, a) \in r => id \in 1 .. t
      /\ \A e \in Range(readTurnLog) : EntryTrue(e, t, r)
  BY <1>1 DEF TurnsUnderWay, LogTrue, Step, Range
<1>3. ASSUME NEW s, \A e : EntryTrue(e, t, r) => EntryTrue(e, t, s)
      PROVE  LogTrue(readTurnLog, t, s)
  BY <1>1, <1>3 DEF LogTrue
<1> HIDE DEF t, r
<1>5. ASSUME NEW id, NEW how \in {"error", "answer", "intent"}, NEW said \in Topics,
             AgentEnds(id, how, said)
      PROVE  LogInv'
  <2> DEFINE next == IF how = "intent" /\ id = turns THEN {"payment"} ELSE {}
             s == running'
  <2>1. /\ Step(id, "agent") \in r /\ turns' = t /\ logClock' = logClock /\ id \in 1 .. t
        /\ s = (r \ {Step(id, "agent")}) \cup {Step(id, c) : c \in next}
    <3>1. {Step(id, c) : c \in next}
            = IF how = "intent" /\ id = turns THEN {Step(id, "payment")} ELSE {}
      OBVIOUS
    <3> HIDE DEF next
    <3> QED
      BY <1>2, <1>5, <3>1 DEF AgentEnds, Others, r, t
  <2>2. /\ "agent" \in Acting /\ next \in SUBSET (Acting \cup {"marking"})
        /\ \A c, d \in Acting \cap next : c = d
    BY DEF Acting
  <2>9. GoesOn(r, s, id, "agent", next)
    <3> HIDE DEF next, s
    <3> QED
      BY <2>1, <2>2 DEF GoesOn
  <2>3. /\ TurnsUnderWay(t, s)
        /\ \A e : EntryTrue(e, t, r) => EntryTrue(e, t, s)
    <3> HIDE DEF next, s
    <3>1. TurnsUnderWay(t, r) /\ id \in 1 .. t
      BY <1>1, <2>1
    <3> QED
      BY <2>9, <3>1, UnderWayGoesOn
  <2> HIDE DEF next
  <2>4. LogTrue(readTurnLog, t, s)
    BY <1>3, <2>3
  <2>5. CASE id # turns
    <3>1. readTurnLog' = readTurnLog
      BY <1>5, <2>5 DEF AgentEnds, readTurnLog
    <3> QED
      BY <1>1, <2>1, <2>3, <2>4, <3>1 DEF LogInv
  <2>6. CASE id = turns /\ how = "error"
    <3>1. recordTurnOutcome(id, "failed", NoHash) /\ NoHash \in Hashes
      BY <1>5, <2>6 DEF AgentEnds, NoHash, Hashes
    <3>2. \A e \in Range(readTurnLog) : e.id = id => e.hash = NoHash
      BY <1>2, <2>1, <2>2 DEF EntryTrue
    <3>3. LogTrue(readTurnLog', t, s)
      BY <2>4, <3>1, <3>2, OutcomeIsTrue
    <3> QED
      BY <1>1, <2>1, <2>3, <3>3 DEF LogInv
  <2>7. CASE id = turns /\ how # "error"
    <3>1. recordTurnAnswer(id, said) /\ said \in Texts
      BY <1>1, <1>5, <2>7 DEF AgentEnds
    <3>2. LogTrue(readTurnLog', t, s)
      BY <2>4, <3>1, AnswerIsTrue
    <3> QED
      BY <1>1, <2>1, <2>3, <3>2 DEF LogInv
  <2> QED
    BY <2>5, <2>6, <2>7
<1>6. ASSUME NEW id, NEW auto \in BOOLEAN, NEW to, Lands(id, auto, to)
      PROVE  LogInv'
  <2> DEFINE next == {"submitted"} \cup IF auto THEN {"marking"} ELSE {}
             s == running'
  <2>1. /\ Step(id, "payment") \in r /\ turns' = t /\ logClock' = logClock /\ id \in 1 .. t
        /\ log' = log
        /\ s = (r \ {Step(id, "payment")}) \cup {Step(id, c) : c \in next}
    <3>1. {Step(id, c) : c \in next}
            = {Step(id, "submitted")} \cup IF auto THEN {Step(id, "marking")} ELSE {}
      OBVIOUS
    <3> HIDE DEF next
    <3> QED
      BY <1>2, <1>6, <3>1 DEF Lands, r, t
  <2>2. /\ "payment" \in Acting /\ next \in SUBSET (Acting \cup {"marking"})
        /\ \A c, d \in Acting \cap next : c = d
    BY DEF Acting
  <2>9. GoesOn(r, s, id, "payment", next)
    <3> HIDE DEF next, s
    <3> QED
      BY <2>1, <2>2 DEF GoesOn
  <2>3. /\ TurnsUnderWay(t, s)
        /\ \A e : EntryTrue(e, t, r) => EntryTrue(e, t, s)
    <3> HIDE DEF next, s
    <3>1. TurnsUnderWay(t, r) /\ id \in 1 .. t
      BY <1>1, <2>1
    <3> QED
      BY <2>9, <3>1, UnderWayGoesOn
  <2> HIDE DEF next
  <2>4. LogTrue(readTurnLog, t, s) /\ readTurnLog' = readTurnLog
    BY <1>3, <2>1, <2>3 DEF readTurnLog
  <2> QED
    BY <1>1, <2>1, <2>3, <2>4 DEF LogInv
<1>7. ASSUME NEW id, MarksAutomatic(id)
      PROVE  LogInv'
  <2> DEFINE s == r \ {Step(id, "marking")}
  <2>1. running' = s /\ turns' = t /\ logClock' = logClock /\ recordAutoApproval
    BY <1>7 DEF MarksAutomatic, Others, r, t
  <2>2. TurnsUnderWay(t, s) /\ \A e : EntryTrue(e, t, r) => EntryTrue(e, t, s)
    BY <1>1, FewerUnderWay
  <2> HIDE DEF s
  <2>3. LogTrue(readTurnLog, t, s)
    BY <1>3, <2>2
  <2>4. LogTrue(readTurnLog', t, s)
    BY <2>1, <2>3, MarkIsTrue
  <2> QED
    BY <1>1, <2>1, <2>2, <2>4 DEF LogInv
<1>8. ASSUME NEW id, NEW a \in {"payment", "submitted"}, Step(id, a) \in r,
             running' = r \ {Step(id, a)}
      PROVE  /\ id \in 1 .. t
             /\ TurnsUnderWay(t, running') /\ LogTrue(readTurnLog, t, running')
             /\ \A c \in Acting : Step(id, c) \notin running'
             /\ \A e \in Range(readTurnLog) : e.id = id => e.hash = NoHash
  <2> DEFINE s == running'
             next == {}
  <2>1. s = (r \ {Step(id, a)}) \cup {Step(id, c) : c \in next} /\ id \in 1 .. t
    BY <1>2, <1>8
  <2>2. /\ a \in Acting /\ next \in SUBSET (Acting \cup {"marking"})
        /\ \A c, d \in Acting \cap next : c = d
    BY DEF Acting
  <2>9. GoesOn(r, s, id, a, next)
    <3> HIDE DEF next, s
    <3> QED
      BY <1>8, <2>1, <2>2 DEF GoesOn
  <2>3. /\ TurnsUnderWay(t, s)
        /\ \A e : EntryTrue(e, t, r) => EntryTrue(e, t, s)
        /\ next = {} => \A c \in Acting : Step(id, c) \notin s
    <3> HIDE DEF s, next
    <3>1. TurnsUnderWay(t, r) /\ id \in 1 .. t
      BY <1>1, <2>1
    <3> QED
      BY <2>9, <3>1, UnderWayGoesOn
  <2>4. LogTrue(readTurnLog, t, s)
    BY <1>3, <2>3
  <2>5. \A e \in Range(readTurnLog) : e.id = id => e.hash = NoHash
    BY <1>2, <1>8, <2>2 DEF EntryTrue
  <2> QED
    BY <2>1, <2>3, <2>4, <2>5
<1>9. ASSUME NEW id, ReportsSubmitted(id)
      PROVE  LogInv'
  <2>1. /\ Step(id, "submitted") \in r /\ running' = r \ {Step(id, "submitted")}
        /\ turns' = t /\ logClock' = logClock
        /\ recordTurnOutcome(id, "tx_submitted", TurnHash(id))
    BY <1>9 DEF ReportsSubmitted, Others, r, t
  <2>2. /\ id \in 1 .. t
        /\ TurnsUnderWay(t, running') /\ LogTrue(readTurnLog, t, running')
        /\ \A c \in Acting : Step(id, c) \notin running'
    BY <1>8, <2>1
  <2>3. TurnHash(id) \in Hashes /\ TurnHash(id) # NoHash
    BY <1>1, <2>2 DEF TurnHash, Hashes, NoHash, TurnsUnderWay
  <2>4. LogTrue(readTurnLog', t, running')
    BY <2>1, <2>2, <2>3, OutcomeIsTrue
  <2> QED
    BY <1>1, <2>1, <2>2, <2>4 DEF LogInv
<1>10. ASSUME NEW id, NEW shown \in BOOLEAN, ReportsFailure(id, shown)
       PROVE  LogInv'
  <2>1. PICK a \in {"payment", "submitted"} :
           Step(id, a) \in r /\ running' = r \ {Step(id, a)}
    BY <1>10 DEF ReportsFailure, r
  <2>2. turns' = t /\ logClock' = logClock
    BY <1>10 DEF ReportsFailure, Others, t
  <2>3. /\ TurnsUnderWay(t, running') /\ LogTrue(readTurnLog, t, running')
        /\ \A e \in Range(readTurnLog) : e.id = id => e.hash = NoHash
    BY <1>8, <2>1
  <2>4. LogTrue(readTurnLog', t, running')
    <3>1. CASE shown
      <4>1. recordTurnOutcome(id, "failed", NoHash) /\ NoHash \in Hashes
        BY <1>10, <3>1 DEF ReportsFailure, NoHash, Hashes
      <4> QED
        BY <2>3, <4>1, OutcomeIsTrue
    <3>2. CASE ~shown
      <4>1. readTurnLog' = readTurnLog
        BY <1>10, <3>2 DEF ReportsFailure, readTurnLog
      <4> QED
        BY <2>3, <4>1
    <3> QED
      BY <3>1, <3>2
  <2> QED
    BY <1>1, <2>2, <2>3, <2>4 DEF LogInv
<1> QED
  BY <1>5, <1>6, <1>7, <1>9, <1>10, StartKeepsLog DEF LogActions

OtherSteps ==
    \/ \E records \in Incoming : Receives(records)
    \/ TickPasses \/ refresh \/ clearLocal \/ ClosesPage \/ loadMore \/ StartsAnew
    \/ \E found \in {"owner", "nobody", "error"} : ReadsConfig(found)
    \/ \E b \in BOOLEAN : ReadsPayments(b) \/ LoadsMore(b)
    \/ \E lane \in Lanes : ReadsExtras(lane)

\* The page's steps clear the log or leave it, and end no turn but by ending all.
LEMMA PageKeepsLog ==
    ASSUME LogInv, OtherSteps
    PROVE  LogInv'
<1>1. /\ TurnsUnderWay(turns, running) /\ LogTrue(readTurnLog, turns, running)
      /\ logClock \in Int
  BY DEF LogInv
<1>2. ASSUME UNCHANGED <<log, turns>>, logClock' \in Int, running' \in SUBSET running
      PROVE  LogInv'
  <2>1. readTurnLog' = readTurnLog
    BY <1>2 DEF readTurnLog
  <2>2. TurnsUnderWay(turns, running') /\ LogTrue(readTurnLog, turns, running')
    BY <1>1, <1>2, FewerUnderWay DEF LogTrue
  <2> QED
    BY <1>2, <2>1, <2>2 DEF LogInv
<1>3. CASE clearLocal
  <2>1. /\ log' \in {<<>>, log} /\ UNCHANGED <<turns, running, logClock>>
    BY <1>3 DEF clearLocal, Loads
  <2>2. CASE log' = <<>>
    <3> DEFINE none == <<>>
    <3>1. none \in Seq(Entries) /\ Len(none) <= TURN_LOG_LIMIT /\ DOMAIN none = {}
      BY TimelineAssumption
    <3>2. readTurnLog' = <<>>
      <4>1. readTurnLog' = parseTurnLog(none)
        BY <2>2 DEF readTurnLog
      <4> HIDE DEF none
      <4>2. parseTurnLog(none) = none
        BY <3>1, ParseOfWritten
      <4> QED
        BY <4>1, <4>2 DEF none
    <3>3. LogTrue(<<>>, turns, running)
      BY <3>1 DEF LogTrue
    <3> QED
      BY <1>1, <2>1, <3>2, <3>3 DEF LogInv
  <2> QED
    BY <1>1, <1>2, <2>1, <2>2
<1>4. CASE StartsAnew
  BY <1>1, <1>2, <1>4 DEF StartsAnew
<1>5. CASE TickPasses
  BY <1>1, <1>2, <1>5 DEF TickPasses
<1>6. CASE \E records \in Incoming : Receives(records)
  BY <1>1, <1>2, <1>6 DEF Receives
<1>7. CASE refresh \/ ClosesPage \/ loadMore
  BY <1>1, <1>2, <1>7 DEF refresh, Loads, ClosesPage, loadMore, OffThePage
<1>8. CASE \/ \E found \in {"owner", "nobody", "error"} : ReadsConfig(found)
           \/ \E b \in BOOLEAN : ReadsPayments(b) \/ LoadsMore(b)
           \/ \E lane \in Lanes : ReadsExtras(lane)
  BY <1>1, <1>2, <1>8 DEF ReadsConfig, ReadsPayments, LoadsMore, ReadsExtras, OffThePage
<1> QED
  BY <1>3, <1>4, <1>5, <1>6, <1>7, <1>8 DEF OtherSteps

\* At first nothing runs, and the log is that of a former run.
LEMMA LogAtFirst ==
    ASSUME HistoryInit
    PROVE  LogInv
<1>1. log \in Stores /\ turns = 0 /\ running = {} /\ logClock = 0
  BY DEF HistoryInit
<1>2. LeftByAFormerRun(readTurnLog) /\ Len(readTurnLog) <= TURN_LOG_LIMIT
  BY <1>1, FormerLogIsBounded DEF readTurnLog
<1>3. TurnsUnderWay(turns, running)
  BY <1>1 DEF TurnsUnderWay
<1>4. \A i \in DOMAIN readTurnLog : EntryTrue(readTurnLog[i], turns, running)
  <2>1. readTurnLog \in Seq(Entries)
    BY <1>2 DEF LeftByAFormerRun
  <2>2. \A i \in DOMAIN readTurnLog : readTurnLog[i] \in Entries
    BY <2>1
  <2>3. \A i \in DOMAIN readTurnLog : readTurnLog[i].id \in Int
    BY <2>2 DEF Entries
  <2> QED
    BY <1>1, <1>2, <2>2, <2>3 DEF LeftByAFormerRun, EntryTrue
<1> QED
  BY <1>1, <1>2, <1>3, <1>4 DEF LogInv, LogTrue, LeftByAFormerRun

-----------------------------------------------------------------------------
(* The records Horizon lists.                                                *)

LedgerRecord ==
    [type : ListedTypes \cup {"invoke_host_function"}, from : Accounts, to : Accounts,
     amount : Int, hash : Hashes, at : Int]

\* The records of a transaction, which has a hash, go the same way.
LedgerInv ==
    /\ ledger \in Seq(LedgerRecord)
    /\ \A n \in DOMAIN ledger :
          LET r == ledger[n] IN
          \/ r.hash[1] = "turn" /\ r.from = Owner
          \/ r.hash[1] = "other" /\ r.hash[2] < n
    /\ \A m, n \in DOMAIN ledger :
          ledger[m].hash = ledger[n].hash => (ledger[m].from = Owner <=> ledger[n].from = Owner)

\* The ledger only grows, by a turn's payment or by a transaction of somebody else.
LEMMA LedgerOnlyGrows ==
    ASSUME LogInv, LedgerInv, [HistoryNext]_historyVars
    PROVE  /\ LedgerInv'
           /\ Len(ledger) <= Len(ledger')
           /\ \A n \in DOMAIN ledger : n \in DOMAIN ledger' /\ ledger'[n] = ledger[n]
<1>1. /\ ledger \in Seq(LedgerRecord) /\ Len(ledger) \in Nat /\ DOMAIN ledger = 1 .. Len(ledger)
      /\ logClock \in Int /\ Owner \in Accounts /\ Payees \subseteq Accounts
      /\ \A n \in DOMAIN ledger : ledger[n] \in LedgerRecord
  BY TimelineAssumption DEF LedgerInv, LogInv
<1>2. CASE UNCHANGED ledger
  BY <1>1, <1>2 DEF LedgerInv
<1>3. ASSUME NEW more \in Seq(LedgerRecord), ledger' = ledger \o more,
             \A i, j \in DOMAIN more : more[i].from = Owner <=> more[j].from = Owner,
             \A i \in DOMAIN more :
                \/ more[i].hash[1] = "turn" /\ more[i].from = Owner
                \/ more[i].hash = <<"other", Len(ledger)>>
      PROVE  /\ LedgerInv'
             /\ Len(ledger) <= Len(ledger')
             /\ \A n \in DOMAIN ledger : n \in DOMAIN ledger' /\ ledger'[n] = ledger[n]
  <2> DEFINE k == Len(ledger)
             l == Len(ledger')
  <2>1. /\ ledger' \in Seq(LedgerRecord) /\ l = k + Len(more)
        /\ Len(more) \in Nat /\ DOMAIN more = 1 .. Len(more) /\ DOMAIN ledger' = 1 .. l
        /\ \A n \in 1 .. k : ledger'[n] = ledger[n]
        /\ \A n \in k + 1 .. l : n - k \in DOMAIN more /\ ledger'[n] = more[n - k]
    BY <1>1, <1>3
  <2>2. k \in Nat /\ l \in Nat /\ k <= l
    BY <1>1, <2>1
  <2> HIDE DEF k, l
  <2>3. \A n \in 1 .. l : n \in 1 .. k \/ n \in k + 1 .. l
    BY <2>2
  <2>4. ASSUME NEW n \in 1 .. k
        PROVE  \/ ledger'[n].hash[1] = "turn" /\ ledger'[n].from = Owner
               \/ ledger'[n].hash[1] = "other" /\ ledger'[n].hash[2] < n
    BY <1>1, <2>1 DEF LedgerInv, k
  <2>5. ASSUME NEW n \in k + 1 .. l
        PROVE  \/ ledger'[n].hash[1] = "turn" /\ ledger'[n].from = Owner
               \/ ledger'[n].hash[1] = "other" /\ ledger'[n].hash[2] = k
    <3>1. n - Len(ledger) \in DOMAIN more /\ ledger'[n] = more[n - Len(ledger)]
      BY <2>1 DEF k
    <3>2. \A h : h = <<"other", Len(ledger)>> => h[1] = "other" /\ h[2] = Len(ledger)
      OBVIOUS
    <3> QED
      BY <1>3, <3>1, <3>2 DEF k
  <2>6. ASSUME NEW m \in 1 .. l, NEW n \in 1 .. l, ledger'[m].hash = ledger'[n].hash
        PROVE  ledger'[m].from = Owner <=> ledger'[n].from = Owner
    <3>1. CASE m \in 1 .. k /\ n \in 1 .. k
      BY <1>1, <2>1, <2>6, <3>1 DEF LedgerInv, k
    <3>2. CASE m \in k + 1 .. l /\ n \in k + 1 .. l
      BY <1>3, <2>1, <3>2
    <3>3. CASE m \in 1 .. k /\ n \in k + 1 .. l
      BY <2>2, <2>4, <2>5, <2>6, <3>3
    <3>4. CASE n \in 1 .. k /\ m \in k + 1 .. l
      BY <2>2, <2>4, <2>5, <2>6, <3>4
    <3> QED
      BY <2>3, <3>1, <3>2, <3>3, <3>4
  <2>7. \A n \in 1 .. l : \/ ledger'[n].hash[1] = "turn" /\ ledger'[n].from = Owner
                          \/ ledger'[n].hash[1] = "other" /\ ledger'[n].hash[2] < n
    BY <2>2, <2>3, <2>4, <2>5
  <2> QED
    BY <1>1, <2>1, <2>2, <2>6, <2>7 DEF LedgerInv, k, l
<1>4. ASSUME NEW id \in 1 .. MaxTurns, NEW auto \in BOOLEAN, NEW to \in Payees, Lands(id, auto, to)
      PROVE  /\ LedgerInv'
             /\ Len(ledger) <= Len(ledger')
             /\ \A n \in DOMAIN ledger : n \in DOMAIN ledger' /\ ledger'[n] = ledger[n]
  <2> DEFINE type == IF auto THEN "invoke_host_function" ELSE "payment"
             record == [type |-> type, from |-> Owner, to |-> to, amount |-> 1,
                        hash |-> TurnHash(id), at |-> logClock]
             more == <<record>>
  <2>1. ledger' = Append(ledger, record)
    BY <1>4 DEF Lands
  <2>2. record \in LedgerRecord /\ record.hash[1] = "turn" /\ record.from = Owner
    <3>1. TurnHash(id) \in Hashes /\ TurnHash(id)[1] = "turn" /\ 1 \in Int
      BY TimelineAssumption DEF TurnHash, Hashes
    <3>2. type \in ListedTypes \cup {"invoke_host_function"}
      BY DEF ListedTypes
    <3> HIDE DEF type
    <3> QED
      BY <1>1, <3>1, <3>2 DEF LedgerRecord
  <2> HIDE DEF record
  <2>3. /\ more \in Seq(LedgerRecord) /\ DOMAIN more = {1} /\ more[1] = record
        /\ ledger' = ledger \o more
    BY <1>1, <2>1, <2>2
  <2> HIDE DEF more
  <2> QED
    BY <1>3, <2>2, <2>3
<1>5. ASSUME NEW records \in Incoming, Receives(records)
      PROVE  /\ LedgerInv'
             /\ Len(ledger) <= Len(ledger')
             /\ \A n \in DOMAIN ledger : n \in DOMAIN ledger' /\ ledger'[n] = ledger[n]
  <2> DEFINE more == [i \in DOMAIN records |->
                 [type |-> records[i].type, from |-> records[i].from, to |-> records[i].to,
                  amount |-> records[i].amount, hash |-> <<"other", Len(ledger)>>,
                  at |-> logClock]]
  <2>1. ledger' = ledger \o more
    BY <1>5 DEF Receives
  <2>2. OneWay(records)
    BY TimelineAssumption
  <2>3. records \in Seq([type : ListedTypes \cup {"invoke_host_function"},
                         from : Accounts, to : Accounts, amount : Int])
        /\ \A i, j \in DOMAIN records : records[i].from = Owner <=> records[j].from = Owner
    BY <2>2 DEF OneWay
  <2>4. /\ Len(records) \in Nat /\ DOMAIN records = 1 .. Len(records)
        /\ <<"other", Len(ledger)>> \in Hashes
        /\ \A i \in DOMAIN records :
              records[i] \in [type : ListedTypes \cup {"invoke_host_function"},
                              from : Accounts, to : Accounts, amount : Int]
    <3>1. <<"other", Len(ledger)>> \in Hashes
      BY <1>1 DEF Hashes
    <3> DEFINE S == [type : ListedTypes \cup {"invoke_host_function"},
                     from : Accounts, to : Accounts, amount : Int]
    <3>2. records \in Seq(S)
      BY <2>3
    <3> HIDE DEF S
    <3>3. /\ Len(records) \in Nat /\ DOMAIN records = 1 .. Len(records)
          /\ \A i \in DOMAIN records : records[i] \in S
      BY <3>2
    <3> QED
      BY <3>1, <3>3 DEF S
  <2>5. \A i \in DOMAIN records :
           more[i] \in LedgerRecord /\ more[i].from = records[i].from
           /\ more[i].hash = <<"other", Len(ledger)>>
    BY <1>1, <2>4 DEF LedgerRecord
  <2>6. DOMAIN more = 1 .. Len(records) /\ more \in Seq(LedgerRecord)
    <3>1. DOMAIN more = 1 .. Len(records) /\ more = [i \in 1 .. Len(records) |-> more[i]]
      BY <2>4
    <3>2. \A i \in 1 .. Len(records) : more[i] \in LedgerRecord
      BY <2>4, <2>5
    <3> HIDE DEF more
    <3> QED
      BY <2>4, <3>1, <3>2
  <2> HIDE DEF more
  <2> QED
    BY <1>3, <2>1, <2>3, <2>4, <2>5, <2>6
<1>6. \/ UNCHANGED ledger
      \/ \E id \in 1 .. MaxTurns, auto \in BOOLEAN, to \in Payees : Lands(id, auto, to)
      \/ \E records \in Incoming : Receives(records)
  BY DEF HistoryNext, historyVars, StartsTurn, AgentEnds, Others, ReportsFailure, MarksAutomatic,
         ReportsSubmitted, TickPasses, refresh, clearLocal, Loads, ClosesPage, loadMore, StartsAnew,
         ReadsConfig, ReadsPayments, LoadsMore, ReadsExtras, OffThePage
<1> QED
  BY <1>2, <1>4, <1>5, <1>6

-----------------------------------------------------------------------------
(* The rows of the page.                                                     *)

\* A name that the environment gives to an address is found for that address only.
LEMMA NameIsTheOwners ==
    ASSUME NEW address
    PROVE  LET name == aliasNameForAddress(address) IN
           /\ name \in Range(AliasNames) \cup {NoName}
           /\ name # NoName /\ name \in DOMAIN aliases.env /\ aliases.env[name] \in Accounts
                => aliases.env[name] = address
<1> DEFINE names == buildAliasEntries
           found == {i \in DOMAIN AliasNames :
                        AliasNames[i] \in DOMAIN names /\ names[AliasNames[i]] = address}
           least == CHOOSE i \in found : \A j \in found : i <= j
           name == aliasNameForAddress(address)
<1>1. name = IF found = {} THEN NoName ELSE AliasNames[least]
  BY DEF aliasNameForAddress
<1>2. CASE found = {}
  BY <1>1, <1>2
<1>3. CASE found # {}
  <2>1. found \in SUBSET Nat
    BY TimelineAssumption
  <2> HIDE DEF found
  <2>2. \E i \in found : \A j \in found : i <= j
    BY <1>3, <2>1, LeastNatural
  <2>3. least \in found
    BY <2>2
  <2> HIDE DEF least
  <2>4. /\ name = AliasNames[least] /\ least \in DOMAIN AliasNames
        /\ name \in DOMAIN names /\ names[name] = address
    BY <1>1, <1>3, <2>3 DEF found
  <2>5. name \in Range(AliasNames)
    BY <2>4 DEF Range
  <2>6. ASSUME name \in DOMAIN aliases.env, aliases.env[name] \in Accounts
        PROVE  names[name] = aliases.env[name]
    BY <2>4, <2>5, <2>6 DEF buildAliasEntries
  <2> QED
    BY <2>4, <2>5, <2>6
<1> QED
  BY <1>2, <1>3

\* A row of the chain tells of a record of the ledger, and which way it went.
TrueRow(row, l) ==
    /\ row \in HistoryRow
    /\ row.origin = "chain" /\ row.chip = "confirmed"
    /\ row.n \in DOMAIN l /\ row.hash = l[row.n].hash
    /\ IF l[row.n].from = Owner THEN row.kind = "sent" /\ row.direction = -1
       ELSE row.kind = "received" /\ row.direction = 1
NamedRight(row, env) ==
    row.nickname # NoName /\ row.nickname \in DOMAIN env /\ env[row.nickname] \in Accounts
        => env[row.nickname] = row.who
Told(list, hash) == \E i \in DOMAIN list : list[i].hash = hash

\* The row of a payment tells of it, and its name is its counterparty's.
LEMMA RowOfPayment ==
    ASSUME LedgerInv, NEW id \in DOMAIN ledger, isPayment(id)
    PROVE  LET row == chainToHistoryRow(normalizePayment(id))
           IN  TrueRow(row, ledger) /\ NamedRight(row, aliases.env) /\ row.n = id
<1> DEFINE p == normalizePayment(id)
           row == chainToHistoryRow(p)
           name == aliasNameForAddress(p.counterparty)
           sent == ledger[id].from = Owner
<1>1. ledger[id] \in LedgerRecord /\ id \in Int
  BY DEF LedgerInv
<1>2. /\ ledger[id].from \in Accounts /\ ledger[id].to \in Accounts
      /\ ledger[id].hash \in Hashes /\ ledger[id].at \in Int
  BY <1>1 DEF LedgerRecord
<1>3. /\ p.id = id /\ p.hash = ledger[id].hash /\ p.at = ledger[id].at
      /\ p.direction = (IF sent THEN "sent" ELSE "received")
      /\ p.counterparty = (IF sent THEN ledger[id].to ELSE ledger[id].from)
  BY DEF normalizePayment
<1> HIDE DEF p
<1>4. p.counterparty \in Parties
  BY <1>2, <1>3 DEF Parties
<1>5. /\ name \in Range(AliasNames) \cup {NoName}
      /\ name # NoName /\ name \in DOMAIN aliases.env /\ aliases.env[name] \in Accounts
           => aliases.env[name] = p.counterparty
  BY NameIsTheOwners
<1> HIDE DEF name
<1> DEFINE base == Row("chain", p.id, p.at, p.hash, p.direction, "confirmed",
                       IF p.direction = "sent" THEN -1 ELSE 1, p.counterparty)
<1>6. row = [base EXCEPT !.nickname = name]
  BY DEF chainToHistoryRow, name
<1>7. base = [origin |-> "chain", n |-> id, at |-> p.at, hash |-> p.hash, kind |-> p.direction,
              chip |-> "confirmed", direction |-> IF p.direction = "sent" THEN -1 ELSE 1,
              who |-> p.counterparty, nickname |-> NoName]
  BY <1>3 DEF Row
<1> HIDE DEF base, row
<1>8. /\ row.origin = "chain" /\ row.n = id /\ row.at = p.at /\ row.hash = p.hash
      /\ row.kind = p.direction /\ row.chip = "confirmed"
      /\ row.direction = (IF p.direction = "sent" THEN -1 ELSE 1)
      /\ row.who = p.counterparty /\ row.nickname = name
  BY <1>6, <1>7
<1>9. row \in HistoryRow
  <2>1. p.direction \in {"sent", "received"}
    BY <1>3
  <2>2. row = [origin |-> "chain", n |-> id, at |-> p.at, hash |-> p.hash, kind |-> p.direction,
               chip |-> "confirmed", direction |-> IF p.direction = "sent" THEN -1 ELSE 1,
               who |-> p.counterparty, nickname |-> name]
    BY <1>6, <1>7
  <2> QED
    BY <1>1, <1>2, <1>3, <1>4, <1>5, <2>1, <2>2 DEF HistoryRow
<1>10. TrueRow(row, ledger)
  BY <1>3, <1>8, <1>9 DEF TrueRow
<1>11. NamedRight(row, aliases.env)
  BY <1>5, <1>8 DEF NamedRight
<1> QED
  BY <1>8, <1>10, <1>11 DEF row, p

\* A page of records has a row for each payment among them.
LEMMA ChainRowsTell ==
    ASSUME LedgerInv, NEW ids \in Seq(DOMAIN ledger)
    PROVE  /\ ChainRows(ids) \in Seq(HistoryRow)
           /\ \A k \in DOMAIN ChainRows(ids) :
                 /\ TrueRow(ChainRows(ids)[k], ledger)
                 /\ NamedRight(ChainRows(ids)[k], aliases.env)
           /\ \A i \in DOMAIN ids : isPayment(ids[i]) => Told(ChainRows(ids), ledger[ids[i]].hash)
<1> DEFINE I == {i \in DOMAIN ids : isPayment(ids[i])}
           payments == Picked(ids, I)
           m == Cardinality(I)
           made == ChainRows(ids)
<1>1. I \in SUBSET DOMAIN ids /\ \A i \in DOMAIN ids : ids[i] \in DOMAIN ledger
  OBVIOUS
<1>2. made = [k \in DOMAIN payments |-> chainToHistoryRow(normalizePayment(payments[k]))]
  BY DEF ChainRows
<1>3. \A i \in I : isPayment(ids[i])
  OBVIOUS
<1>4. \A i \in DOMAIN ids : isPayment(ids[i]) => i \in I
  OBVIOUS
<1> HIDE DEF I
<1>5. m \in Nat /\ DOMAIN payments = 1 .. m
  BY <1>1, PickedInOrder
<1>6. PICK L : PickedBy(ids, I, L)
  BY <1>1, PickedInOrder
<1>7. /\ \A k \in 1 .. m : L[k] \in I /\ payments[k] = ids[L[k]]
      /\ \A i \in I : \E k \in 1 .. m : L[k] = i
  BY <1>6 DEF PickedBy
<1> HIDE DEF payments, m, made
<1>8. \A k \in 1 .. m : made[k] = chainToHistoryRow(normalizePayment(ids[L[k]]))
  BY <1>2, <1>5, <1>7
<1>9. ASSUME NEW k \in 1 .. m
      PROVE  /\ TrueRow(made[k], ledger) /\ NamedRight(made[k], aliases.env)
             /\ made[k].n = ids[L[k]]
  <2>1. ids[L[k]] \in DOMAIN ledger /\ isPayment(ids[L[k]])
    BY <1>1, <1>3, <1>7
  <2> QED
    BY <1>8, <2>1, RowOfPayment
<1>10. made \in Seq(HistoryRow) /\ DOMAIN made = 1 .. m
  <2>1. DOMAIN made = 1 .. m /\ made = [k \in 1 .. m |-> made[k]]
    BY <1>2, <1>5
  <2>2. \A k \in 1 .. m : made[k] \in HistoryRow
    BY <1>9 DEF TrueRow
  <2> QED
    BY <1>5, <2>1, <2>2
<1>11. ASSUME NEW i \in DOMAIN ids, isPayment(ids[i])  PROVE Told(made, ledger[ids[i]].hash)
  <2>1. PICK k \in 1 .. m : L[k] = i
    BY <1>4, <1>7, <1>11
  <2> QED
    BY <1>9, <1>10, <2>1 DEF Told, TrueRow
<1> QED
  BY <1>9, <1>10, <1>11 DEF made

\* A page of the records before a cursor has all of them down to the next cursor.
LEMMA PageReachesCursor ==
    ASSUME LedgerInv, NEW c \in 1 .. Len(ledger) + 1
    PROVE  LET ids == PageBefore(c)
               next == nextCursor(ids)
           IN  /\ ids \in Seq(DOMAIN ledger) /\ next \in 0 .. Len(ledger)
               /\ \A id \in (IF next = NoCursor THEN 1 ELSE next) .. c - 1 :
                     \E i \in DOMAIN ids : ids[i] = id
<1> DEFINE m == IF c - 1 < PAGE_SIZE THEN c - 1 ELSE PAGE_SIZE
           ids == PageBefore(c)
           next == nextCursor(ids)
           k == Len(ledger)
<1>1. PAGE_SIZE \in Nat \ {0} /\ k \in Nat /\ DOMAIN ledger = 1 .. k
  BY TimelineAssumption DEF LedgerInv
<1>2. ids = [i \in 1 .. m |-> c - i] /\ m \in Nat
  BY <1>1 DEF PageBefore
<1>3. c \in Int /\ 1 <= c /\ c <= k + 1 /\ m <= c - 1 /\ m <= PAGE_SIZE
      /\ (m < PAGE_SIZE => m = c - 1)
  BY <1>1
<1> HIDE DEF m, ids, k
<1>4. /\ Len(ids) = m /\ DOMAIN ids = 1 .. m
      /\ \A i \in 1 .. m : ids[i] = c - i /\ ids[i] \in 1 .. k
  BY <1>1, <1>2, <1>3
<1>5. ids \in Seq(1 .. k)
  BY <1>2, <1>4
<1>6. next = IF m >= PAGE_SIZE THEN ids[m] ELSE NoCursor
  BY <1>4 DEF nextCursor
<1>7. next = IF m >= PAGE_SIZE THEN c - m ELSE 0
  BY <1>1, <1>2, <1>4, <1>6 DEF NoCursor
<1> HIDE DEF next
<1>8. next \in 0 .. k
  BY <1>1, <1>2, <1>3, <1>7
<1>9. ASSUME NEW id \in (IF next = NoCursor THEN 1 ELSE next) .. c - 1
      PROVE  \E i \in DOMAIN ids : ids[i] = id
  <2>1. c - id \in 1 .. m
    BY <1>1, <1>2, <1>3, <1>7, <1>9 DEF NoCursor
  <2>2. ids[c - id] = id
    BY <1>3, <1>4, <2>1
  <2> QED
    BY <1>4, <2>1, <2>2
<1> QED
  BY <1>1, <1>5, <1>8, <1>9 DEF ids, next, k

\* A turn's row with a transaction's hash says that it went through.
TurnRow(row) ==
    /\ row \in HistoryRow /\ row.origin = "turn" /\ row.nickname = NoName
    /\ row.hash # NoHash => row.chip \in {"confirmed", "auto_approved"}
\* The rows of a true log are such rows.
LEMMA RowsOfTurns ==
    ASSUME NEW t, NEW r, NEW entries, LogTrue(entries, t, r)
    PROVE  LET made == [i \in DOMAIN entries |-> turnToHistoryRow(entries[i])]
           IN  made \in Seq(HistoryRow) /\ \A i \in DOMAIN made : TurnRow(made[i])
<1> DEFINE made == [i \in DOMAIN entries |-> turnToHistoryRow(entries[i])]
<1>1. /\ entries \in Seq(Entries) /\ Len(entries) \in Nat /\ DOMAIN entries = 1 .. Len(entries)
      /\ \A i \in DOMAIN entries : EntryTrue(entries[i], t, r)
  BY DEF LogTrue
<1>2. ASSUME NEW i \in DOMAIN entries  PROVE TurnRow(turnToHistoryRow(entries[i]))
  <2> DEFINE e == entries[i]
             row == turnToHistoryRow(e)
             kind == inferTurnKind(e)
             chip == turnChip(e)
  <2>1. e \in Entries /\ (e.hash # NoHash => e.outcome = "tx_submitted")
    BY <1>1 DEF EntryTrue
  <2> HIDE DEF e
  <2>2. e.id \in Int /\ e.at \in Int /\ e.hash \in Hashes /\ e.auto \in BOOLEAN
        /\ e.outcome \in {"in_progress", "superseded", "failed", "answered", "tx_submitted"}
    BY <2>1 DEF Entries
  <2>3. kind \in {"scheduled", "rule_change", "received", "sent", "other"}
    BY DEF inferTurnKind
  <2>4. /\ chip \in {"confirmed", "auto_approved", "pending", "failed", "cancelled"}
        /\ e.outcome = "tx_submitted" => chip \in {"confirmed", "auto_approved"}
    BY <2>2 DEF turnChip
  <2>5. row = [origin |-> "turn", n |-> e.id, at |-> e.at, hash |-> e.hash, kind |-> kind,
               chip |-> chip, direction |-> 0, who |-> NoName, nickname |-> NoName]
    BY DEF turnToHistoryRow, Row
  <2> HIDE DEF kind, chip, row
  <2>6. row \in HistoryRow
    <3>1. NoName \in Parties
      BY DEF Parties
    <3> QED
      BY <2>2, <2>3, <2>4, <2>5, <3>1 DEF HistoryRow
  <2>7. TurnRow(row)
    BY <2>1, <2>4, <2>5, <2>6 DEF TurnRow
  <2> QED
    BY <2>7 DEF row, e
<1>3. \A i \in DOMAIN entries : turnToHistoryRow(entries[i]) \in HistoryRow
  BY <1>2 DEF TurnRow
<1>4. made \in Seq(HistoryRow) /\ DOMAIN made = DOMAIN entries
  <2>1. DOMAIN made = 1 .. Len(entries) /\ made = [i \in 1 .. Len(entries) |-> made[i]]
    BY <1>1
  <2>2. \A i \in 1 .. Len(entries) : made[i] \in HistoryRow
    BY <1>1, <1>3
  <2> HIDE DEF made
  <2> QED
    BY <1>1, <2>1, <2>2
<1> QED
  BY <1>2, <1>4

\* Offers and anchor steps have no hash and no name of the book.
OtherRow(row) ==
    /\ row \in HistoryRow /\ row.origin \in {"p2p", "anchor"}
    /\ row.hash = NoHash /\ row.nickname = NoName

\* The rows of offers are such rows.
LEMMA OffersAreOtherRows ==
    ASSUME NEW offers \in Seq([id : Int, at : Int, state : STRING,
                               seller : Parties, buyer : Parties])
    PROVE  /\ loadP2pRows(offers) \in Seq(HistoryRow)
           /\ \A k \in DOMAIN loadP2pRows(offers) : OtherRow(loadP2pRows(offers)[k])
<1> DEFINE S == [id : Int, at : Int, state : STRING, seller : Parties, buyer : Parties]
           I == {i \in DOMAIN offers : Owner \in {offers[i].seller, offers[i].buyer}}
           mine == Picked(offers, I)
           m == Cardinality(I)
           made == loadP2pRows(offers)
<1>1. made = [k \in DOMAIN mine |-> p2pToHistoryRow(mine[k])]
  BY DEF loadP2pRows
<1>2. I \in SUBSET DOMAIN offers /\ offers \in Seq(S)
  OBVIOUS
<1>3. \A o \in S : o.id \in Int /\ o.at \in Int /\ o.seller \in Parties /\ o.buyer \in Parties
  OBVIOUS
<1> HIDE DEF I, S, made
<1>4. m \in Nat /\ DOMAIN mine = 1 .. m /\ mine \in Seq(S)
  BY <1>2, PickedInOrder
<1> HIDE DEF mine, m
<1>5. ASSUME NEW k \in 1 .. m  PROVE OtherRow(made[k])
  <2> DEFINE o == mine[k]
             sells == o.seller = Owner
             chip == p2pChip(o.state)
             row == p2pToHistoryRow(o)
  <2>1. o \in S /\ made[k] = row
    BY <1>1, <1>4
  <2>2. o.id \in Int /\ o.at \in Int /\ o.seller \in Parties /\ o.buyer \in Parties
    BY <1>3, <2>1
  <2> HIDE DEF o
  <2>3. chip \in {"confirmed", "pending", "cancelled"}
    BY DEF p2pChip
  <2>4. row = [origin |-> "p2p", n |-> o.id, at |-> o.at, hash |-> NoHash, kind |-> "p2p",
               chip |-> chip, direction |-> IF sells THEN -1 ELSE 1,
               who |-> IF sells THEN o.buyer ELSE o.seller, nickname |-> NoName]
    BY DEF p2pToHistoryRow, Row
  <2>5. NoHash \in Hashes
    BY DEF NoHash, Hashes
  <2> HIDE DEF chip, row
  <2>6. row \in HistoryRow
    <3> DEFINE direction == IF sells THEN -1 ELSE 1
               who == IF sells THEN o.buyer ELSE o.seller
    <3>1. direction \in Int /\ who \in Parties
      BY <2>2
    <3> HIDE DEF direction, who
    <3>2. \A kind \in {"p2p"} :
             [origin |-> "p2p", n |-> o.id, at |-> o.at, hash |-> NoHash, kind |-> kind,
              chip |-> chip, direction |-> direction, who |-> who, nickname |-> NoName]
                \in HistoryRow
      BY <2>2, <2>3, <2>5, <3>1 DEF HistoryRow
    <3> QED
      BY <2>4, <3>2 DEF direction, who
  <2>7. OtherRow(row)
    BY <2>4, <2>6 DEF OtherRow
  <2> QED
    BY <2>1, <2>7
<1>6. made \in Seq(HistoryRow) /\ DOMAIN made = 1 .. m
  <2>1. DOMAIN made = 1 .. m /\ made = [k \in 1 .. m |-> made[k]]
    BY <1>1, <1>4
  <2>2. \A k \in 1 .. m : made[k] \in HistoryRow
    BY <1>5 DEF OtherRow
  <2> QED
    BY <1>4, <2>1, <2>2
<1> QED
  BY <1>5, <1>6 DEF made

\* And so are those of the anchor steps.
LEMMA AnchorStepsAreOtherRows ==
    ASSUME NEW records \in Seq([step : STRING, at : Int])
    PROVE  /\ loadAnchorRows(records) \in Seq(HistoryRow)
           /\ \A k \in DOMAIN loadAnchorRows(records) : OtherRow(loadAnchorRows(records)[k])
<1> DEFINE S == [step : STRING, at : Int]
           I == {i \in DOMAIN records : isAnchorActionStep(records[i].step)}
           acted == Picked(records, I)
           m == Cardinality(I)
           made == loadAnchorRows(records)
<1>1. made = [k \in DOMAIN acted |-> anchorToHistoryRow(acted[k])]
  BY DEF loadAnchorRows
<1>2. I \in SUBSET DOMAIN records /\ records \in Seq(S)
      /\ \A i \in I : isAnchorActionStep(records[i].step)
  OBVIOUS
<1>3. \A o \in S : o.at \in Int
  OBVIOUS
<1> HIDE DEF I, S, made
<1>4. m \in Nat /\ DOMAIN acted = 1 .. m /\ acted \in Seq(S)
  BY <1>2, PickedInOrder
<1>5. PICK L : PickedBy(records, I, L)
  BY <1>2, PickedInOrder
<1>6. \A k \in 1 .. m : isAnchorActionStep(acted[k].step)
  BY <1>2, <1>5 DEF PickedBy
<1> HIDE DEF acted, m
<1>7. ASSUME NEW k \in 1 .. m  PROVE OtherRow(made[k])
  <2> DEFINE o == acted[k]
             which == CHOOSE n \in DOMAIN AnchorSteps : AnchorSteps[n] = o.step
             kind == IF o.step \in {"withdraw", "payout"} THEN "anchor_withdraw"
                     ELSE "anchor_deposit"
             row == anchorToHistoryRow(o)
  <2>1. o.at \in Int /\ made[k] = row /\ o.step \in Range(AnchorSteps)
    BY <1>1, <1>3, <1>4, <1>6 DEF isAnchorActionStep
  <2> HIDE DEF o
  <2>2. which \in Int
    <3>1. DOMAIN AnchorSteps = 1 .. 7
      BY DEF AnchorSteps
    <3>2. \E n \in DOMAIN AnchorSteps : AnchorSteps[n] = o.step
      BY <2>1 DEF Range
    <3>3. which \in DOMAIN AnchorSteps
      BY <3>2
    <3> HIDE DEF which
    <3> QED
      BY <3>1, <3>3
  <2>3. kind \in {"anchor_withdraw", "anchor_deposit"}
    OBVIOUS
  <2>4. row = [origin |-> "anchor", n |-> which, at |-> o.at, hash |-> NoHash, kind |-> kind,
               chip |-> "confirmed", direction |-> 0, who |-> NoName, nickname |-> NoName]
    BY DEF anchorToHistoryRow, Row
  <2>5. NoHash \in Hashes /\ NoName \in Parties
    BY DEF NoHash, Hashes, Parties
  <2> HIDE DEF kind, which, row
  <2>6. row \in HistoryRow
    BY <2>1, <2>2, <2>3, <2>4, <2>5 DEF HistoryRow
  <2>7. OtherRow(row)
    BY <2>4, <2>6 DEF OtherRow
  <2> QED
    BY <2>1, <2>7
<1>8. made \in Seq(HistoryRow) /\ DOMAIN made = 1 .. m
  <2>1. DOMAIN made = 1 .. m /\ made = [k \in 1 .. m |-> made[k]]
    BY <1>1, <1>4
  <2>2. \A k \in 1 .. m : made[k] \in HistoryRow
    BY <1>7 DEF OtherRow
  <2> QED
    BY <1>4, <2>1, <2>2
<1> QED
  BY <1>7, <1>8 DEF made

-----------------------------------------------------------------------------
(* The page.                                                                 *)

Pages ==
    [step : {"closed", "config", "payments", "extras", "done", "demo", "failed"},
     demo : BOOLEAN, turnRows : Seq(HistoryRow), chain : Seq(HistoryRow),
     extra : Seq(HistoryRow), cursor : Nat, hasMore : BOOLEAN,
     more : [from : Nat, late : BOOLEAN], mixed : BOOLEAN, top : Nat]

RowsTrue(p) ==
    /\ \A i \in DOMAIN p.turnRows : TurnRow(p.turnRows[i])
    /\ \A i \in DOMAIN p.chain : TrueRow(p.chain[i], ledger) /\ NamedRight(p.chain[i], aliases.env)
    /\ \A i \in DOMAIN p.extra : OtherRow(p.extra[i])

\* An older page is asked for from the cursor, and what a former reading asked for is late.
CursorTrue(p) ==
    /\ p.cursor <= Len(ledger) /\ p.top <= Len(ledger) /\ p.more.from <= Len(ledger)
    /\ p.hasMore => p.cursor # NoCursor
    /\ p.more # NoMore => p.more.from # NoCursor
    /\ p.step \in {"config", "payments"} =>
          (p.hasMore => p.mixed) /\ (p.more # NoMore => p.more.late)
    /\ p.more # NoMore /\ ~p.more.late /\ ~p.mixed => p.more.from = p.cursor

ReadSoFar(p) == (IF p.cursor = NoCursor THEN 1 ELSE p.cursor) .. p.top
AllTold(p) ==
    ~p.mixed => \A id \in ReadSoFar(p) : isPayment(id) => Told(p.chain, ledger[id].hash)

PageTrue(p) == p \in Pages /\ RowsTrue(p) /\ CursorTrue(p) /\ AllTold(p)
PageInv == PageTrue(timeline)

\* A page that is true of the records is true of them when there are more.
LEMMA GrowthKeepsPage ==
    ASSUME LogInv, LedgerInv, PageInv, [HistoryNext]_historyVars, UNCHANGED <<timeline, aliases>>
    PROVE  PageInv'
<1> DEFINE p == timeline
<1>1. /\ LedgerInv' /\ Len(ledger) <= Len(ledger')
      /\ \A n \in DOMAIN ledger : n \in DOMAIN ledger' /\ ledger'[n] = ledger[n]
      /\ p \in Pages /\ RowsTrue(p) /\ CursorTrue(p) /\ AllTold(p)
      /\ timeline' = p /\ aliases' = aliases
  BY LedgerOnlyGrows DEF PageInv, PageTrue
<1>2. Len(ledger) \in Nat /\ Len(ledger') \in Nat /\ DOMAIN ledger = 1 .. Len(ledger)
  BY <1>1 DEF LedgerInv
<1>3. p.cursor \in Nat /\ p.top \in Nat /\ p.more.from \in Nat
  BY <1>1 DEF Pages
<1> HIDE DEF p
<1>4. \A row : TrueRow(row, ledger) => TrueRow(row, ledger')
  BY <1>1 DEF TrueRow
<1>5. \A id \in DOMAIN ledger : isPayment(id)' <=> isPayment(id)
  BY <1>1 DEF isPayment
<1>6. RowsTrue(p)'
  BY <1>1, <1>4 DEF RowsTrue, p
<1>7. CursorTrue(p)'
  <2> DEFINE a == Len(ledger)
             b == Len(ledger')
  <2>1. a \in Nat /\ b \in Nat /\ a <= b
    BY <1>1, <1>2
  <2> HIDE DEF a, b
  <2>2. p.cursor <= b /\ p.top <= b /\ p.more.from <= b
    <3>1. p.cursor <= a /\ p.top <= a /\ p.more.from <= a
      BY <1>1 DEF CursorTrue, a
    <3> QED
      BY <1>3, <2>1, <3>1
  <2> QED
    BY <1>1, <2>2 DEF CursorTrue, b, p
<1>8. AllTold(p)'
  <2>1. \A id \in ReadSoFar(p) : id \in DOMAIN ledger
    <3> DEFINE a == Len(ledger)
    <3>1. p.top <= a /\ a \in Nat
      BY <1>1, <1>2 DEF CursorTrue
    <3> HIDE DEF a
    <3>2. \A id \in ReadSoFar(p) : id \in 1 .. a
      BY <1>3, <3>1 DEF ReadSoFar, NoCursor
    <3> QED
      BY <1>2, <3>2 DEF a
  <2>2. ReadSoFar(p)' = ReadSoFar(p) /\ p' = p
    BY <1>1 DEF ReadSoFar, p
  <2>3. \A id \in ReadSoFar(p) : isPayment(id)' => isPayment(id) /\ ledger'[id] = ledger[id]
    BY <1>1, <1>5, <2>1
  <2> QED
    BY <1>1, <2>2, <2>3 DEF AllTold
<1> QED
  BY <1>1, <1>6, <1>7, <1>8 DEF PageInv, PageTrue, p

\* When the page alone changes, it is enough that the new one is true.
LEMMA PageMoves ==
    ASSUME NEW p, timeline' = p, PageTrue(p), UNCHANGED <<ledger, aliases>>
    PROVE  PageInv'
<1>1. \A id : isPayment(id)' <=> isPayment(id)
  BY DEF isPayment
<1>2. RowsTrue(p) <=> RowsTrue(timeline)'
  BY DEF RowsTrue
<1>3. CursorTrue(p) <=> CursorTrue(timeline)'
  BY DEF CursorTrue
<1>4. AllTold(p) <=> AllTold(timeline)'
  BY <1>1 DEF AllTold, ReadSoFar
<1> QED
  BY <1>2, <1>3, <1>4 DEF PageInv, PageTrue

\* A page that is closed is true of anything.
LEMMA ClosedPageIsTrue ==
    ASSUME LedgerInv
    PROVE  PageTrue(NoPage)
<1>1. NoPage \in Pages
  BY DEF NoPage, Pages, NoMore, NoCursor
<1>2. Len(ledger) \in Nat
  BY DEF LedgerInv
<1>3. RowsTrue(NoPage) /\ CursorTrue(NoPage) /\ AllTold(NoPage)
  BY <1>2 DEF RowsTrue, CursorTrue, AllTold, ReadSoFar, NoPage, NoMore, NoCursor
<1> QED
  BY <1>1, <1>3 DEF PageTrue

\* A new reading starts from the log it finds, and makes an answer under way a late one.
LEMMA LoadsIsTrue ==
    ASSUME LogInv', LedgerInv, PageInv, UNCHANGED aliases,
           NEW entries, entries = readTurnLog', Loads(entries)
    PROVE  PageInv'
<1> DEFINE made == [i \in DOMAIN entries |-> turnToHistoryRow(entries[i])]
           more == IF timeline.more = NoMore THEN timeline.more
                   ELSE [timeline.more EXCEPT !.late = TRUE]
           p == timeline'
<1>1. made \in Seq(HistoryRow) /\ \A i \in DOMAIN made : TurnRow(made[i])
  <2>1. LogTrue(entries, turns', running')
    BY DEF LogInv
  <2> QED
    BY <2>1, RowsOfTurns
<1>2. timeline \in Pages /\ CursorTrue(timeline) /\ UNCHANGED <<ledger, aliases>>
  BY DEF PageInv, PageTrue, Loads
<1>3. timeline.more \in [from : Nat, late : BOOLEAN]
  BY <1>2 DEF Pages
<1>4. /\ more \in [from : Nat, late : BOOLEAN] /\ more.from = timeline.more.from
      /\ more # NoMore => more.late /\ timeline.more # NoMore
  BY <1>3
<1>5. p = [timeline EXCEPT
              !.step = "config", !.chain = <<>>, !.extra = <<>>, !.cursor = NoCursor,
              !.turnRows = made, !.more = more, !.hasMore = FALSE, !.mixed = FALSE, !.top = 0]
  BY DEF Loads
<1>6. Len(ledger) \in Nat
  BY DEF LedgerInv
<1> HIDE DEF made, more, p
<1>7. /\ p.step = "config" /\ p.chain = <<>> /\ p.extra = <<>> /\ p.cursor = NoCursor
      /\ p.turnRows = made /\ p.more = more /\ p.hasMore = FALSE /\ p.mixed = FALSE /\ p.top = 0
      /\ p \in Pages
  <2> DEFINE none == <<>>
  <2>1. none \in Seq(HistoryRow) /\ NoCursor \in Nat /\ 0 \in Nat
    BY DEF NoCursor
  <2>2. p = [timeline EXCEPT
              !.step = "config", !.chain = none, !.extra = none, !.cursor = NoCursor,
              !.turnRows = made, !.more = more, !.hasMore = FALSE, !.mixed = FALSE, !.top = 0]
    BY <1>5
  <2> HIDE DEF none
  <2>3. /\ p.step = "config" /\ p.chain = none /\ p.extra = none /\ p.cursor = NoCursor
        /\ p.turnRows = made /\ p.more = more /\ p.hasMore = FALSE /\ p.mixed = FALSE
        /\ p.top = 0
    BY <1>2, <2>2 DEF Pages
  <2>4. p \in Pages
    BY <1>1, <1>2, <1>4, <2>1, <2>2 DEF Pages
  <2> QED
    BY <2>3, <2>4 DEF none
<1>8. RowsTrue(p)
  BY <1>1, <1>7 DEF RowsTrue
<1>9. CursorTrue(p)
  BY <1>2, <1>4, <1>6, <1>7 DEF CursorTrue, NoCursor
<1>10. AllTold(p)
  BY <1>7 DEF AllTold, ReadSoFar
<1> QED
  BY <1>2, <1>7, <1>8, <1>9, <1>10, PageMoves DEF PageTrue, p

\* Once the configuration is read, the page is true.
LEMMA ReadsConfigIsTrue ==
    ASSUME PageInv, NEW found \in {"owner", "nobody", "error"}, ReadsConfig(found)
    PROVE  PageInv'
<1> DEFINE p == timeline'
           step == CASE found = "owner" -> "payments"
                     [] found = "nobody" -> "demo"
                     [] found = "error" -> "failed"
<1>1. /\ timeline \in Pages /\ timeline.step = "config" /\ UNCHANGED <<ledger, aliases>>
      /\ RowsTrue(timeline) /\ CursorTrue(timeline) /\ AllTold(timeline)
  BY DEF PageInv, PageTrue, ReadsConfig, OffThePage
<1>2. step \in {"payments", "demo", "failed"}
  OBVIOUS
<1>3. \E demo \in BOOLEAN : p = [timeline EXCEPT !.step = step, !.demo = demo]
  <2>1. timeline.demo \in BOOLEAN /\ timeline = [timeline EXCEPT !.demo = timeline.demo]
        /\ [timeline EXCEPT !.step = "payments"]
             = [timeline EXCEPT !.step = "payments", !.demo = timeline.demo]
    BY <1>1 DEF Pages
  <2>2. CASE found = "owner"
    BY <2>1, <2>2 DEF ReadsConfig
  <2>3. CASE found = "nobody"
    BY <2>3 DEF ReadsConfig
  <2>4. CASE found = "error"
    BY <2>4 DEF ReadsConfig
  <2> QED
    BY <2>2, <2>3, <2>4
<1> HIDE DEF step, p
<1>4. /\ p \in Pages /\ p.step = step /\ p.turnRows = timeline.turnRows
      /\ p.chain = timeline.chain /\ p.extra = timeline.extra /\ p.cursor = timeline.cursor
      /\ p.hasMore = timeline.hasMore /\ p.more = timeline.more /\ p.mixed = timeline.mixed
      /\ p.top = timeline.top
  BY <1>1, <1>2, <1>3 DEF Pages
<1>5. RowsTrue(p) /\ CursorTrue(p) /\ AllTold(p)
  BY <1>1, <1>4 DEF RowsTrue, CursorTrue, AllTold, ReadSoFar
<1> QED
  BY <1>1, <1>4, <1>5, PageMoves DEF PageTrue, p

\* The first page of the payments takes the place of whatever was there.
LEMMA ReadsPaymentsIsTrue ==
    ASSUME LedgerInv, PageInv, NEW reachable \in BOOLEAN, ReadsPayments(reachable)
    PROVE  PageInv'
<1> DEFINE p == timeline'
           ids == PageBefore(Len(ledger) + 1)
           next == nextCursor(ids)
           live == [timeline EXCEPT !.step = "extras", !.demo = FALSE]
<1>1. /\ timeline \in Pages /\ timeline.step = "payments" /\ UNCHANGED <<ledger, aliases>>
      /\ RowsTrue(timeline) /\ CursorTrue(timeline) /\ AllTold(timeline)
  BY DEF PageInv, PageTrue, ReadsPayments, OffThePage
<1>2. Len(ledger) \in Nat /\ DOMAIN ledger = 1 .. Len(ledger)
  BY DEF LedgerInv
<1>3. CASE ~reachable
  <2>1. p = live
    BY <1>3 DEF ReadsPayments
  <2> HIDE DEF p
  <2>2. /\ p \in Pages /\ p.step = "extras" /\ p.turnRows = timeline.turnRows
        /\ p.chain = timeline.chain /\ p.extra = timeline.extra /\ p.cursor = timeline.cursor
        /\ p.hasMore = timeline.hasMore /\ p.more = timeline.more /\ p.mixed = timeline.mixed
        /\ p.top = timeline.top
    BY <1>1, <2>1 DEF Pages
  <2>3. RowsTrue(p) /\ CursorTrue(p) /\ AllTold(p)
    BY <1>1, <2>2 DEF RowsTrue, CursorTrue, AllTold, ReadSoFar
  <2> QED
    BY <1>1, <2>2, <2>3, PageMoves DEF PageTrue, p
<1>4. CASE reachable
  <2>1. p = [live EXCEPT !.chain = ChainRows(ids), !.cursor = next,
                         !.hasMore = next # NoCursor, !.mixed = FALSE, !.top = Len(ledger)]
    BY <1>4 DEF ReadsPayments
  <2>2. Len(ledger) + 1 \in 1 .. Len(ledger) + 1
    BY <1>2
  <2>3. /\ ids \in Seq(DOMAIN ledger) /\ next \in 0 .. Len(ledger)
        /\ \A id \in (IF next = NoCursor THEN 1 ELSE next) .. Len(ledger) + 1 - 1 :
              \E i \in DOMAIN ids : ids[i] = id
    BY <2>2, PageReachesCursor
  <2> HIDE DEF ids, next, p
  <2>4. /\ ChainRows(ids) \in Seq(HistoryRow)
        /\ \A k \in DOMAIN ChainRows(ids) :
              /\ TrueRow(ChainRows(ids)[k], ledger)
              /\ NamedRight(ChainRows(ids)[k], aliases.env)
        /\ \A i \in DOMAIN ids : isPayment(ids[i]) => Told(ChainRows(ids), ledger[ids[i]].hash)
    BY <2>3, ChainRowsTell
  <2>5. /\ p.step = "extras" /\ p.turnRows = timeline.turnRows /\ p.extra = timeline.extra
        /\ p.chain = ChainRows(ids) /\ p.cursor = next /\ p.hasMore = (next # NoCursor)
        /\ p.more = timeline.more /\ p.mixed = FALSE /\ p.top = Len(ledger)
        /\ p \in Pages
    <3>1. next \in Nat /\ (next # NoCursor) \in BOOLEAN
      BY <1>2, <2>3
    <3> QED
      BY <1>1, <1>2, <2>1, <2>4, <3>1 DEF Pages
  <2>6. RowsTrue(p)
    BY <1>1, <2>4, <2>5 DEF RowsTrue
  <2>7. CursorTrue(p)
    <3>1. timeline.more.from <= Len(ledger)
          /\ (timeline.more # NoMore => timeline.more.late /\ timeline.more.from # NoCursor)
      BY <1>1 DEF CursorTrue
    <3>2. next <= Len(ledger) /\ Len(ledger) <= Len(ledger)
      BY <1>2, <2>3
    <3>3. p.hasMore => next # NoCursor
      BY <2>5, Zenon
    <3> QED
      BY <2>5, <3>1, <3>2, <3>3 DEF CursorTrue
  <2>8. AllTold(p)
    <3>1. ASSUME NEW id \in ReadSoFar(p), isPayment(id)  PROVE Told(p.chain, ledger[id].hash)
      <4>1. id \in (IF next = NoCursor THEN 1 ELSE next) .. Len(ledger) + 1 - 1
        BY <1>2, <2>3, <2>5 DEF ReadSoFar
      <4>2. PICK i \in DOMAIN ids : ids[i] = id
        BY <2>3, <4>1
      <4> QED
        BY <2>4, <2>5, <3>1, <4>2
    <3> QED
      BY <3>1 DEF AllTold
  <2> QED
    BY <1>1, <2>5, <2>6, <2>7, <2>8, PageMoves DEF PageTrue, p
<1> QED
  BY <1>3, <1>4

\* Once offers and anchor steps are read, the page is true.
LEMMA ReadsExtrasIsTrue ==
    ASSUME PageInv, NEW lane \in Lanes, ReadsExtras(lane)
    PROVE  PageInv'
<1> DEFINE p == timeline'
           offers == loadP2pRows(lane.offers)
           steps == loadAnchorRows(lane.records)
           all == offers \o steps
<1>1. /\ timeline \in Pages /\ UNCHANGED <<ledger, aliases>>
      /\ RowsTrue(timeline) /\ CursorTrue(timeline) /\ AllTold(timeline)
  BY DEF PageInv, PageTrue, ReadsExtras, OffThePage
<1>2. /\ offers \in Seq(HistoryRow) /\ \A k \in DOMAIN offers : OtherRow(offers[k])
  BY OffersAreOtherRows, TimelineAssumption
<1>3. /\ steps \in Seq(HistoryRow) /\ \A k \in DOMAIN steps : OtherRow(steps[k])
  BY AnchorStepsAreOtherRows, TimelineAssumption
<1>4. p = [timeline EXCEPT !.step = "done", !.extra = all]
  BY DEF ReadsExtras
<1> HIDE DEF p, offers, steps
<1>5. all \in Seq(HistoryRow) /\ \A k \in DOMAIN all : OtherRow(all[k])
  <2>1. /\ all \in Seq(HistoryRow) /\ DOMAIN all = 1 .. Len(offers) + Len(steps)
        /\ \A k \in 1 .. Len(offers) + Len(steps) :
              \/ k \in DOMAIN offers /\ all[k] = offers[k]
              \/ k - Len(offers) \in DOMAIN steps /\ all[k] = steps[k - Len(offers)]
    BY <1>2, <1>3
  <2> HIDE DEF all
  <2> QED
    BY <1>2, <1>3, <2>1
<1> HIDE DEF all
<1>6. /\ p \in Pages /\ p.step = "done" /\ p.turnRows = timeline.turnRows
      /\ p.chain = timeline.chain /\ p.extra = all /\ p.cursor = timeline.cursor
      /\ p.hasMore = timeline.hasMore /\ p.more = timeline.more /\ p.mixed = timeline.mixed
      /\ p.top = timeline.top
  BY <1>1, <1>4, <1>5 DEF Pages
<1>7. RowsTrue(p) /\ CursorTrue(p) /\ AllTold(p)
  BY <1>1, <1>5, <1>6 DEF RowsTrue, CursorTrue, AllTold, ReadSoFar
<1> QED
  BY <1>1, <1>6, <1>7, PageMoves DEF PageTrue, p

\* Asking for an older page keeps the page true.
LEMMA LoadMoreIsTrue ==
    ASSUME PageInv, loadMore
    PROVE  PageInv'
<1> DEFINE p == timeline'
           more == [from |-> timeline.cursor, late |-> timeline.mixed]
<1>1. /\ timeline \in Pages /\ UNCHANGED <<ledger, aliases>>
      /\ RowsTrue(timeline) /\ CursorTrue(timeline) /\ AllTold(timeline)
      /\ timeline.hasMore /\ timeline.more = NoMore
      /\ p = [timeline EXCEPT !.more = more]
  BY DEF PageInv, PageTrue, loadMore, OffThePage
<1>2. /\ timeline.cursor \in Nat /\ timeline.mixed \in BOOLEAN
      /\ more \in [from : Nat, late : BOOLEAN]
      /\ more.from = timeline.cursor /\ more.late = timeline.mixed
  BY <1>1 DEF Pages
<1> HIDE DEF p, more
<1>3. /\ p \in Pages /\ p.step = timeline.step /\ p.turnRows = timeline.turnRows
      /\ p.chain = timeline.chain /\ p.extra = timeline.extra /\ p.cursor = timeline.cursor
      /\ p.hasMore = timeline.hasMore /\ p.more = more /\ p.mixed = timeline.mixed
      /\ p.top = timeline.top
  BY <1>1, <1>2 DEF Pages
<1>4. RowsTrue(p) /\ AllTold(p)
  BY <1>1, <1>3 DEF RowsTrue, AllTold, ReadSoFar
<1>5. CursorTrue(p)
  BY <1>1, <1>2, <1>3 DEF CursorTrue
<1> QED
  BY <1>1, <1>3, <1>4, <1>5, PageMoves DEF PageTrue, p

\* Merged with older rows, the rows of the chain tell of all they told of, and the rows of
\* the page asked for reach from the cursor to the next.
LEMMA LoadsMoreIsTrue ==
    ASSUME LedgerInv, PageInv, NEW reachable \in BOOLEAN, LoadsMore(reachable)
    PROVE  PageInv'
<1> DEFINE p == timeline'
           c == timeline.more.from
           ids == PageBefore(c)
           next == nextCursor(ids)
           older == ChainRows(ids)
           all == timeline.chain \o older
           merged == mergeRows(all)
           mixed == timeline.mixed \/ timeline.more.late
<1>1. /\ timeline \in Pages /\ UNCHANGED <<ledger, aliases>>
      /\ RowsTrue(timeline) /\ CursorTrue(timeline) /\ AllTold(timeline)
      /\ timeline.more # NoMore
  BY DEF PageInv, PageTrue, LoadsMore, OffThePage
<1>2. Len(ledger) \in Nat /\ DOMAIN ledger = 1 .. Len(ledger)
      /\ NoMore \in [from : Nat, late : BOOLEAN] /\ NoMore.from = 0
  BY DEF LedgerInv, NoMore, NoCursor
<1>3. CASE ~reachable
  <2>1. p = [timeline EXCEPT !.more = NoMore, !.hasMore = FALSE]
    BY <1>3 DEF LoadsMore
  <2> HIDE DEF p
  <2>2. /\ p \in Pages /\ p.step = timeline.step /\ p.turnRows = timeline.turnRows
        /\ p.chain = timeline.chain /\ p.extra = timeline.extra /\ p.cursor = timeline.cursor
        /\ p.hasMore = FALSE /\ p.more = NoMore /\ p.mixed = timeline.mixed
        /\ p.top = timeline.top
    BY <1>1, <1>2, <2>1 DEF Pages
  <2>3. RowsTrue(p) /\ CursorTrue(p) /\ AllTold(p)
    BY <1>1, <1>2, <2>2 DEF RowsTrue, CursorTrue, AllTold, ReadSoFar
  <2> QED
    BY <1>1, <2>2, <2>3, PageMoves DEF PageTrue, p
<1>4. CASE reachable
  <2>1. p = [timeline EXCEPT !.more = NoMore, !.chain = merged, !.cursor = next,
                             !.hasMore = next # NoCursor, !.mixed = mixed]
    BY <1>4 DEF LoadsMore
  <2>2. /\ c \in Nat /\ c # 0 /\ c <= Len(ledger)
        /\ timeline.mixed \in BOOLEAN /\ timeline.more.late \in BOOLEAN /\ mixed \in BOOLEAN
        /\ timeline.top \in Nat /\ timeline.cursor \in Nat /\ timeline.chain \in Seq(HistoryRow)
    <3>1. timeline.more \in [from : Nat, late : BOOLEAN]
      BY <1>1 DEF Pages
    <3> QED
      BY <1>1, <3>1 DEF Pages, CursorTrue, NoCursor
  <2>3. /\ ids \in Seq(DOMAIN ledger) /\ next \in 0 .. Len(ledger)
        /\ \A id \in (IF next = NoCursor THEN 1 ELSE next) .. c - 1 :
              \E i \in DOMAIN ids : ids[i] = id
    <3>1. c \in 1 .. Len(ledger) + 1
      BY <1>2, <2>2
    <3> HIDE DEF c
    <3> QED
      BY <3>1, PageReachesCursor
  <2> HIDE DEF ids, next, p, c
  <2>4. /\ older \in Seq(HistoryRow)
        /\ \A k \in DOMAIN older :
              TrueRow(older[k], ledger) /\ NamedRight(older[k], aliases.env)
        /\ \A i \in DOMAIN ids : isPayment(ids[i]) => Told(older, ledger[ids[i]].hash)
    BY <2>3, ChainRowsTell
  <2> HIDE DEF older
  <2>5. /\ all \in Seq(HistoryRow)
        /\ \A k \in DOMAIN all : TrueRow(all[k], ledger) /\ NamedRight(all[k], aliases.env)
        /\ \A hash : Told(timeline.chain, hash) \/ Told(older, hash) => Told(all, hash)
    <3> DEFINE chain == timeline.chain
    <3>1. \A k \in DOMAIN chain : TrueRow(chain[k], ledger) /\ NamedRight(chain[k], aliases.env)
      BY <1>1 DEF RowsTrue
    <3>2. chain \in Seq(HistoryRow)
      BY <2>2
    <3> HIDE DEF chain
    <3>3. /\ chain \o older \in Seq(HistoryRow)
          /\ DOMAIN (chain \o older) = 1 .. Len(chain) + Len(older)
          /\ Len(chain) \in Nat /\ Len(older) \in Nat
          /\ DOMAIN chain = 1 .. Len(chain) /\ DOMAIN older = 1 .. Len(older)
          /\ \A k \in 1 .. Len(chain) + Len(older) :
                \/ k \in DOMAIN chain /\ (chain \o older)[k] = chain[k]
                \/ k - Len(chain) \in DOMAIN older /\ (chain \o older)[k] = older[k - Len(chain)]
          /\ \A k \in DOMAIN chain : (chain \o older)[k] = chain[k]
          /\ \A k \in DOMAIN older : (chain \o older)[k + Len(chain)] = older[k]
      BY <2>4, <3>2
    <3> DEFINE both == chain \o older
    <3> HIDE DEF both
    <3>4. /\ both \in Seq(HistoryRow) /\ DOMAIN both = 1 .. Len(chain) + Len(older)
          /\ \A k \in DOMAIN both : \/ k \in DOMAIN chain /\ both[k] = chain[k]
                                    \/ k - Len(chain) \in DOMAIN older
                                       /\ both[k] = older[k - Len(chain)]
          /\ \A k \in DOMAIN chain : k \in DOMAIN both /\ both[k] = chain[k]
          /\ \A k \in DOMAIN older : k + Len(chain) \in DOMAIN both
                                     /\ both[k + Len(chain)] = older[k]
      BY <3>3 DEF both
    <3>5. \A k \in DOMAIN both : TrueRow(both[k], ledger) /\ NamedRight(both[k], aliases.env)
      BY <2>4, <3>1, <3>4
    <3>6. \A hash : Told(chain, hash) \/ Told(older, hash) => Told(both, hash)
      BY <3>4 DEF Told
    <3> QED
      BY <3>4, <3>5, <3>6 DEF both, chain
  <2> HIDE DEF all
  <2>6. Merges(all, merged)
    BY <2>5, MergedOnce
  <2> HIDE DEF merged
  <2>7. /\ merged \in Seq(HistoryRow)
        /\ \A k \in DOMAIN merged : TrueRow(merged[k], ledger) /\ NamedRight(merged[k], aliases.env)
    BY <2>5, <2>6 DEF Merges
  <2>8. \A hash : Told(all, hash) => Told(merged, hash)
    <3> SUFFICES ASSUME NEW i \in DOMAIN all  PROVE Told(merged, all[i].hash)
      BY DEF Told
    <3>1. PICK k \in DOMAIN merged : SameRow(merged[k], all[i])
      BY <2>6 DEF Merges
    <3>2. TrueRow(merged[k], ledger) /\ TrueRow(all[i], ledger)
      BY <2>5, <2>7
    <3>3. merged[k].hash = all[i].hash
      BY <3>1, <3>2 DEF SameRow, TrueRow
    <3> QED
      BY <3>3 DEF Told
  <2>9. /\ p.step = timeline.step /\ p.turnRows = timeline.turnRows /\ p.extra = timeline.extra
        /\ p.chain = merged /\ p.cursor = next /\ p.hasMore = (next # NoCursor)
        /\ p.more = NoMore /\ p.mixed = mixed /\ p.top = timeline.top
        /\ p \in Pages
    <3>1. next \in Nat /\ (next # NoCursor) \in BOOLEAN
      BY <1>2, <2>3
    <3> HIDE DEF mixed
    <3> QED
      BY <1>1, <1>2, <2>1, <2>2, <2>7, <3>1 DEF Pages
  <2>10. RowsTrue(p)
    BY <1>1, <2>7, <2>9 DEF RowsTrue
  <2>11. CursorTrue(p)
    <3>1. timeline.top <= Len(ledger) /\ next <= Len(ledger) /\ NoMore.from <= Len(ledger)
      BY <1>1, <1>2, <2>3 DEF CursorTrue
    <3>2. p.hasMore => next # NoCursor
      BY <2>9, Zenon
    <3>3. timeline.step \in {"config", "payments"} => mixed
      BY <1>1 DEF CursorTrue
    <3> HIDE DEF mixed
    <3> QED
      BY <2>9, <3>1, <3>2, <3>3 DEF CursorTrue
  <2>12. AllTold(p)
    <3>1. ASSUME ~mixed, NEW id \in ReadSoFar(p), isPayment(id)
          PROVE  Told(merged, ledger[id].hash)
      <4>1. c = timeline.cursor
        BY <1>1, <3>1 DEF CursorTrue, c
      <4>2. CASE id \in c .. timeline.top
        <5>1. id \in ReadSoFar(timeline)
          BY <2>2, <4>1, <4>2 DEF ReadSoFar, NoCursor, c
        <5>2. Told(timeline.chain, ledger[id].hash)
          BY <1>1, <3>1, <5>1 DEF AllTold
        <5> QED
          BY <2>5, <2>8, <5>2
      <4>3. CASE id \notin c .. timeline.top
        <5>1. c \in Int /\ timeline.top \in Int /\ next \in Int
          BY <1>2, <2>2, <2>3 DEF c
        <5>2. id \in (IF next = NoCursor THEN 1 ELSE next) .. timeline.top
          BY <2>9, <3>1 DEF ReadSoFar
        <5>3. id \in (IF next = NoCursor THEN 1 ELSE next) .. c - 1
          BY <4>3, <5>1, <5>2 DEF NoCursor
        <5>4. PICK i \in DOMAIN ids : ids[i] = id
          BY <2>3, <5>3
        <5> QED
          BY <2>4, <2>5, <2>8, <3>1, <5>4
      <4> QED
        BY <4>2, <4>3
    <3> HIDE DEF mixed
    <3> QED
      BY <2>9, <3>1 DEF AllTold
  <2> QED
    BY <1>1, <2>9, <2>10, <2>11, <2>12, PageMoves DEF PageTrue, p
<1> QED
  BY <1>3, <1>4

\* The log, the records and the page of the history, each true of the others.
HistoryInv == LogInv /\ LedgerInv /\ PageInv

\* The invariant holds at first.
LEMMA HistoryAtFirst == HistoryInit => HistoryInv
<1> SUFFICES ASSUME HistoryInit  PROVE HistoryInv
  OBVIOUS
<1>1. ledger = <<>> /\ timeline = NoPage
  BY DEF HistoryInit
<1>2. LedgerInv
  BY <1>1 DEF LedgerInv
<1> QED
  BY <1>1, <1>2, ClosedPageIsTrue, LogAtFirst DEF HistoryInv, PageInv

\* Every step keeps it.
LEMMA HistoryGoesOn == HistoryInv /\ [HistoryNext]_historyVars => HistoryInv'
<1> SUFFICES ASSUME HistoryInv, [HistoryNext]_historyVars  PROVE HistoryInv'
  OBVIOUS
<1>1. LogInv /\ LedgerInv /\ PageInv
  BY DEF HistoryInv
<1>2. LedgerInv'
  BY <1>1, LedgerOnlyGrows
<1>3. CASE UNCHANGED historyVars
  <2>1. LogInv'
    BY <1>1, <1>3 DEF historyVars, LogInv, readTurnLog
  <2>2. PageInv'
    BY <1>1, <1>3, GrowthKeepsPage DEF historyVars
  <2> QED
    BY <1>2, <2>1, <2>2 DEF HistoryInv
<1>4. CASE LogActions
  <2>1. LogInv'
    BY <1>1, <1>4, TurnsKeepLog
  <2>2. UNCHANGED <<timeline, aliases>>
    BY <1>4 DEF LogActions, StartsTurn, AgentEnds, Others, ReportsFailure, Lands, MarksAutomatic,
                ReportsSubmitted
  <2>3. PageInv'
    BY <1>1, <2>2, GrowthKeepsPage
  <2> QED
    BY <1>2, <2>1, <2>3 DEF HistoryInv
<1>5. CASE OtherSteps
  <2>1. LogInv'
    BY <1>1, <1>5, PageKeepsLog
  <2>2. CASE TickPasses \/ \E records \in Incoming : Receives(records)
    <3>1. UNCHANGED <<timeline, aliases>>
      BY <2>2 DEF TickPasses, Receives
    <3> QED
      BY <1>1, <1>2, <2>1, <3>1, GrowthKeepsPage DEF HistoryInv
  <2>3. CASE ClosesPage \/ StartsAnew
    <3>1. timeline' = NoPage /\ UNCHANGED <<ledger, aliases>>
      BY <2>3 DEF ClosesPage, StartsAnew
    <3>2. PageInv'
      BY <1>1, <3>1, ClosedPageIsTrue, PageMoves
    <3> QED
      BY <1>2, <2>1, <3>2 DEF HistoryInv
  <2>4. CASE refresh \/ clearLocal
    <3>1. PICK entries : entries = readTurnLog' /\ Loads(entries)
      BY <2>4 DEF refresh, clearLocal, readTurnLog
    <3>2. UNCHANGED aliases
      BY <3>1 DEF Loads
    <3>3. PageInv'
      BY <1>1, <2>1, <3>1, <3>2, LoadsIsTrue
    <3> QED
      BY <1>2, <2>1, <3>3 DEF HistoryInv
  <2>5. CASE loadMore
    BY <1>1, <1>2, <2>1, <2>5, LoadMoreIsTrue DEF HistoryInv
  <2>6. CASE \E found \in {"owner", "nobody", "error"} : ReadsConfig(found)
    BY <1>1, <1>2, <2>1, <2>6, ReadsConfigIsTrue DEF HistoryInv
  <2>7. CASE \E b \in BOOLEAN : ReadsPayments(b) \/ LoadsMore(b)
    BY <1>1, <1>2, <2>1, <2>7, ReadsPaymentsIsTrue, LoadsMoreIsTrue DEF HistoryInv
  <2>8. CASE \E lane \in Lanes : ReadsExtras(lane)
    BY <1>1, <1>2, <2>1, <2>8, ReadsExtrasIsTrue DEF HistoryInv
  <2> QED
    BY <1>5, <2>2, <2>3, <2>4, <2>5, <2>6, <2>7, <2>8 DEF OtherSteps
<1> QED
  BY <1>3, <1>4, <1>5 DEF HistoryNext, LogActions, OtherSteps

-----------------------------------------------------------------------------
(* What the history tells.                                                   *)

\* A row of the list is the demo's, a turn's, the chain's, or of another lane.
ListedRow(row) ==
    \/ row = DemoRow
    \/ TurnRow(row)
    \/ TrueRow(row, ledger) /\ NamedRight(row, aliases.env)
    \/ OtherRow(row)

\* The list: rows of the lanes, none of which tells of what another tells, the newest first;
\* and unless it is full, it tells of all that the chain's rows tell of.
LEMMA ListIsMerged ==
    ASSUME HistoryInv
    PROVE  /\ rows \in Seq(HistoryRow)
           /\ \A i \in DOMAIN rows : ListedRow(rows[i])
           /\ \A i, j \in DOMAIN rows :
                 i # j /\ rows[i].hash # NoHash => rows[i].hash # rows[j].hash
           /\ \A i, j \in DOMAIN rows : i < j => rows[i].at >= rows[j].at
           /\ ~timeline.demo /\ Len(rows) < MAX_ROWS =>
                 \A i \in DOMAIN timeline.chain : Told(rows, timeline.chain[i].hash)
<1> DEFINE demo == IF timeline.step = "demo" THEN <<DemoRow>> ELSE <<>>
           all == timeline.turnRows \o timeline.chain \o timeline.extra
           merged == mergeRows(all)
           whole == IF timeline.demo THEN demo ELSE merged
           list == rows
<1>1. /\ timeline \in Pages /\ RowsTrue(timeline) /\ MAX_ROWS \in Nat
  BY TimelineAssumption DEF HistoryInv, PageInv, PageTrue
<1>2. /\ timeline.turnRows \in Seq(HistoryRow) /\ timeline.chain \in Seq(HistoryRow)
      /\ timeline.extra \in Seq(HistoryRow) /\ timeline.demo \in BOOLEAN
  BY <1>1 DEF Pages
<1>3. list = First(MAX_ROWS, whole)
  BY DEF rows
<1> HIDE DEF list
<1>4. CASE timeline.demo
  <2>1. DemoRow \in HistoryRow /\ DemoRow.hash = NoHash
    <3>1. /\ NoHash \in Hashes /\ NoName \in Parties
      BY DEF NoHash, Hashes, Parties
    <3>2. DemoRow = [origin |-> "demo", n |-> 1, at |-> 0, hash |-> NoHash, kind |-> "sent",
                     chip |-> "confirmed", direction |-> 0, who |-> NoName, nickname |-> NoName]
      BY DEF DemoRow, Row
    <3> HIDE DEF DemoRow
    <3> QED
      BY <3>1, <3>2 DEF HistoryRow
  <2> HIDE DEF DemoRow
  <2>2. /\ demo \in Seq(HistoryRow) /\ Len(demo) <= 1
        /\ \A i \in DOMAIN demo : i = 1 /\ demo[i] = DemoRow
    BY <2>1
  <2>3. whole = demo
    BY <1>4
  <2> HIDE DEF demo, whole
  <2>4. list \in Seq(HistoryRow) /\ \A i \in DOMAIN list : i = 1 /\ list[i] = DemoRow
    BY <1>1, <1>3, <2>2, <2>3, FirstOfList
  <2> QED
    BY <1>4, <2>1, <2>4 DEF ListedRow, list
<1>5. CASE ~timeline.demo
  <2> DEFINE a == timeline.turnRows
             b == timeline.chain
             c == timeline.extra
             Sound(row) == TurnRow(row) \/ (TrueRow(row, ledger) /\ NamedRight(row, aliases.env))
                           \/ OtherRow(row)
  <2>1. /\ \A i \in DOMAIN a : Sound(a[i])
        /\ \A i \in DOMAIN b : TrueRow(b[i], ledger) /\ Sound(b[i])
        /\ \A i \in DOMAIN c : Sound(c[i])
    BY <1>1 DEF RowsTrue
  <2>2. a \in Seq(HistoryRow) /\ b \in Seq(HistoryRow) /\ c \in Seq(HistoryRow)
    BY <1>2
  <2> HIDE DEF a, b, c, Sound
  <2>3. all = a \o b \o c
    BY DEF a, b, c
  <2> HIDE DEF all
  <2>4. /\ all \in Seq(HistoryRow) /\ DOMAIN all = 1 .. Len(all)
        /\ \A i \in DOMAIN all : Sound(all[i])
        /\ \A i \in DOMAIN b : \E k \in DOMAIN all : all[k] = b[i]
    <3> DEFINE ab == a \o b
    <3>1. /\ ab \in Seq(HistoryRow) /\ DOMAIN ab = 1 .. Len(a) + Len(b)
          /\ Len(a) \in Nat /\ Len(b) \in Nat /\ Len(ab) = Len(a) + Len(b)
          /\ \A k \in DOMAIN ab : \/ k \in DOMAIN a /\ ab[k] = a[k]
                                  \/ k - Len(a) \in DOMAIN b /\ ab[k] = b[k - Len(a)]
          /\ \A k \in DOMAIN b : k + Len(a) \in DOMAIN ab /\ ab[k + Len(a)] = b[k]
      BY <2>2
    <3>2. all = ab \o c
      BY <2>3
    <3> HIDE DEF ab
    <3>3. /\ all \in Seq(HistoryRow) /\ DOMAIN all = 1 .. Len(all)
          /\ \A k \in DOMAIN all : \/ k \in DOMAIN ab /\ all[k] = ab[k]
                                   \/ k - Len(ab) \in DOMAIN c /\ all[k] = c[k - Len(ab)]
          /\ \A k \in DOMAIN ab : k \in DOMAIN all /\ all[k] = ab[k]
      BY <2>2, <3>1, <3>2
    <3>4. \A k \in DOMAIN ab : Sound(ab[k])
      BY <2>1, <3>1
    <3>5. \A k \in DOMAIN all : Sound(all[k])
      BY <2>1, <3>3, <3>4
    <3> QED
      BY <3>1, <3>3, <3>5
  <2>5. Merges(all, merged)
    BY <2>4, MergedOnce
  <2>6. whole = merged
    BY <1>5
  <2> HIDE DEF merged, whole
  <2>7. /\ merged \in Seq(HistoryRow) /\ Len(merged) \in Nat /\ DOMAIN merged = 1 .. Len(merged)
        /\ \A k \in DOMAIN merged : Sound(merged[k])
        /\ \A p, q \in DOMAIN merged : p # q => ~SameRow(merged[p], merged[q])
        /\ \A p, q \in DOMAIN merged : p < q => merged[p].at >= merged[q].at
    BY <2>4, <2>5 DEF Merges
  <2>8. /\ list \in Seq(HistoryRow) /\ DOMAIN list = 1 .. Len(list)
        /\ Len(list) = IF Len(merged) < MAX_ROWS THEN Len(merged) ELSE MAX_ROWS
        /\ \A i \in DOMAIN list : i \in DOMAIN merged /\ list[i] = merged[i]
    BY <1>1, <1>3, <2>6, <2>7, FirstOfList
  <2>9. \A i \in DOMAIN list : ListedRow(list[i])
    BY <2>7, <2>8 DEF ListedRow, Sound
  <2>10. \A i, j \in DOMAIN list :
            i # j /\ list[i].hash # NoHash => list[i].hash # list[j].hash
    BY <2>7, <2>8 DEF SameRow
  <2>11. \A i, j \in DOMAIN list : i < j => list[i].at >= list[j].at
    BY <2>7, <2>8
  <2>12. ASSUME Len(list) < MAX_ROWS, NEW i \in DOMAIN b  PROVE Told(list, b[i].hash)
    <3>1. Len(list) = Len(merged)
      <4> DEFINE x == Len(list)
                 y == Len(merged)
      <4>1. x = (IF y < MAX_ROWS THEN y ELSE MAX_ROWS) /\ x < MAX_ROWS /\ y \in Nat
        BY <2>7, <2>8, <2>12
      <4> HIDE DEF x, y
      <4>2. x = y
        BY <1>1, <4>1
      <4> QED
        BY <4>2 DEF x, y
    <3>2. PICK k \in DOMAIN all : all[k] = b[i]
      BY <2>4
    <3>3. PICK p \in DOMAIN merged : SameRow(merged[p], all[k])
      BY <2>5 DEF Merges
    <3>4. merged[p] \in HistoryRow /\ Sound(merged[p]) /\ TrueRow(b[i], ledger)
      BY <2>1, <2>7
    <3>5. merged[p].origin = "chain" => TrueRow(merged[p], ledger)
      BY <3>4 DEF Sound, TurnRow, OtherRow
    <3>6. merged[p].hash = b[i].hash
      BY <3>2, <3>3, <3>4, <3>5 DEF SameRow, TrueRow
    <3>7. p \in DOMAIN list /\ list[p] = merged[p]
      BY <2>7, <2>8, <3>1
    <3> QED
      BY <3>6, <3>7 DEF Told
  <2> QED
    BY <2>8, <2>9, <2>10, <2>11, <2>12 DEF list, b
<1> QED
  BY <1>4, <1>5

\* Each payment read so far is listed, and no transaction twice.
LEMMA PaymentsAreListed == HistoryInv => PaymentsAreListedOnce
<1> SUFFICES ASSUME HistoryInv  PROVE PaymentsAreListedOnce
  OBVIOUS
<1> DEFINE list == rows
<1>1. /\ \A i, j \in DOMAIN list : i # j /\ list[i].hash # NoHash => list[i].hash # list[j].hash
      /\ ~timeline.demo /\ Len(list) < MAX_ROWS =>
            \A i \in DOMAIN timeline.chain : Told(list, timeline.chain[i].hash)
  BY ListIsMerged
<1> HIDE DEF list
<1>2. ASSUME ~timeline.demo, ~timeline.mixed, Len(list) < MAX_ROWS, NEW id \in Loaded, isPayment(id)
      PROVE  \E i \in DOMAIN list : Tells(list[i], id)
  <2>1. id \in ReadSoFar(timeline) /\ AllTold(timeline)
    BY DEF HistoryInv, PageInv, PageTrue, Loaded, ReadSoFar
  <2>2. Told(timeline.chain, ledger[id].hash)
    BY <1>2, <2>1 DEF AllTold
  <2>3. PICK k \in DOMAIN timeline.chain : timeline.chain[k].hash = ledger[id].hash
    BY <2>2 DEF Told
  <2>4. Told(list, ledger[id].hash)
    BY <1>1, <1>2, <2>3
  <2> QED
    BY <2>4 DEF Told, Tells
<1> QED
  BY <1>1, <1>2 DEF PaymentsAreListedOnce, list

\* A payment that left the account is in the list as one that did: its row stands for a
\* record of the same transaction, and these go one way.
LEMMA CountedPaymentsAreSent == HistoryInv => CountedPaymentsWentOut
<1> SUFFICES ASSUME HistoryInv, NEW id \in mapHistoryRecords, NEW i \in DOMAIN rows,
                    Tells(rows[i], id), rows[i].origin # "turn"
             PROVE  matchesFilter(rows[i], "sent") /\ ~matchesFilter(rows[i], "received")
  BY Zenon DEF CountedPaymentsWentOut
<1> DEFINE row == rows[i]
<1>1. ListedRow(row)
  BY ListIsMerged
<1>2. row.hash = ledger[id].hash /\ row.origin # "turn"
  BY DEF Tells
<1> HIDE DEF row
<1>3. id \in DOMAIN ledger /\ ledger[id].from = Owner
  <2>1. id \in DOMAIN ledger /\ normalizePayment(id).direction = "sent"
    BY DEF mapHistoryRecords
  <2> QED
    BY <2>1 DEF normalizePayment
<1>4. LedgerInv
  BY DEF HistoryInv
<1>5. row.hash # NoHash
  <2>1. row.hash[1] \in {"turn", "other"}
    BY <1>2, <1>3, <1>4 DEF LedgerInv
  <2> QED
    BY <2>1 DEF NoHash
<1>6. TrueRow(row, ledger)
  <2>1. row # DemoRow
    BY <1>5 DEF DemoRow, Row
  <2> QED
    BY <1>1, <1>2, <1>5, <2>1 DEF ListedRow, TurnRow, OtherRow
<1>7. ledger[row.n].from = Owner
  BY <1>2, <1>3, <1>4, <1>6 DEF TrueRow, LedgerInv
<1>8. row.kind = "sent" /\ row.direction = -1
  BY <1>6, <1>7 DEF TrueRow
<1> QED
  BY <1>8 DEF matchesFilter, row

\* A turn whose transaction is known says that it was submitted.
LEMMA SettledTurnsStand == HistoryInv => SettledIsNotCalledOff
<1> SUFFICES ASSUME HistoryInv, NEW i \in DOMAIN rows, rows[i].hash # NoHash
             PROVE  rows[i].chip \in {"confirmed", "auto_approved"}
  BY Zenon DEF SettledIsNotCalledOff
<1> DEFINE row == rows[i]
<1>1. ListedRow(row) /\ row.hash # NoHash
  BY ListIsMerged
<1> HIDE DEF row
<1>2. row # DemoRow
  BY <1>1 DEF DemoRow, Row
<1>3. row.chip \in {"confirmed", "auto_approved"}
  BY <1>1, <1>2 DEF ListedRow, TurnRow, TrueRow, OtherRow
<1> QED
  BY <1>3 DEF row

\* No entry but the newest can be running.
LEMMA NewestRuns == HistoryInv => OnlyTheNewestRuns
  BY DEF HistoryInv, LogInv, LogTrue, OnlyTheNewestRuns

\* A name of the environment's book is its own address's.
LEMMA NamesStand == HistoryInv => NamesAreTheOwners
<1> SUFFICES ASSUME HistoryInv, NEW i \in DOMAIN rows
             PROVE  NamedRight(rows[i], aliases.env)
  BY Zenon DEF NamesAreTheOwners, NamedRight
<1> DEFINE row == rows[i]
<1>1. ListedRow(row)
  BY ListIsMerged
<1> HIDE DEF row
<1>2. row = DemoRow => row.nickname = NoName
  BY DEF DemoRow, Row
<1>3. NamedRight(row, aliases.env)
  BY <1>1, <1>2 DEF ListedRow, TurnRow, OtherRow, NamedRight
<1> QED
  BY <1>3 DEF row

\* A later time is not of an earlier day.
LEMMA DaysGoOn ==
    ASSUME NEW d \in Nat \ {0}, NEW a \in Int, NEW b \in Int, a >= b
    PROVE  a \div d \in Int /\ a \div d >= b \div d
<1> DEFINE q == a \div d
           r == b \div d
           x == a % d
           y == b % d
<1>1. q \in Int /\ r \in Int /\ x \in 0 .. d - 1 /\ y \in 0 .. d - 1
  OBVIOUS
<1>2. a = d * q + x /\ b = d * r + y
  OBVIOUS
<1> HIDE DEF q, r, x, y
<1>3. ASSUME q < r  PROVE FALSE
  <2>1. r - q - 1 \in Nat
    BY <1>1, <1>3
  <2>2. d * (r - q - 1) >= 0
    BY <2>1
  <2>3. d * (r - q - 1) = d * r - d * q - d
    BY <1>1
  <2>4. d * r \in Int /\ d * q \in Int
    BY <1>1
  <2> QED
    BY <1>1, <1>2, <2>2, <2>3, <2>4
<1> QED
  BY <1>1, <1>3 DEF q, r

\* The rows of the newest first, grouped by their days: each day is a stretch, the days go
\* back, and each row is in the group of its day.
NewestFirst(list) ==
    list \in Seq(HistoryRow) /\ \A i, j \in DOMAIN list : i < j => list[i].at >= list[j].at
InDays(list, groups) ==
    /\ \A g, h \in DOMAIN groups : g < h => groups[g].day > groups[h].day
    /\ \A g \in DOMAIN groups : \E n \in 0 .. Len(list) :
          groups[g].rows = SubSeq(list, n + 1, n + Len(groups[g].rows))
    /\ \A i \in DOMAIN list : \E g \in DOMAIN groups :
          \E p \in DOMAIN groups[g].rows : groups[g].rows[p] = list[i]

\* groupByDay puts a list with the newest first into days.
LEMMA GroupedByDay ==
    ASSUME NEW list, NewestFirst(list)
    PROVE  InDays(list, groupByDay(list))
<1> DEFINE len == Len(list)
           D == [i \in 1 .. len |-> dayKey(list[i].at)]
           Same(i) == {j \in 1 .. len : D[j] = D[i]}
           H == {i \in 1 .. len : \A j \in 1 .. i - 1 : D[j] # D[i]}
           n == Cardinality(H)
           groups == groupByDay(list)
<1>1. len \in Nat /\ DOMAIN list = 1 .. len /\ list \in Seq(HistoryRow)
  BY DEF NewestFirst
<1>2. D \in [1 .. len -> Int] /\ \A i, j \in 1 .. len : i < j => D[i] >= D[j]
  <2>1. \A i \in 1 .. len : list[i].at \in Int
    <3>1. \A i \in DOMAIN list : list[i] \in HistoryRow
      BY <1>1
    <3> QED
      BY <1>1, <3>1 DEF HistoryRow
  <2>2. \A i, j \in 1 .. len : i < j => list[i].at >= list[j].at
    BY <1>1 DEF NewestFirst
  <2>3. \A i \in 1 .. len : dayKey(list[i].at) \in Int
    BY <2>1, TimelineAssumption, DaysGoOn DEF dayKey
  <2>4. \A i, j \in 1 .. len : i < j => dayKey(list[i].at) >= dayKey(list[j].at)
    BY <2>1, <2>2, TimelineAssumption, DaysGoOn DEF dayKey
  <2> QED
    BY <2>3, <2>4
<1>3. PICK L : PickedBy(list, H, L)
  BY <1>1, PickedInOrder
<1>4. /\ n \in Nat /\ L \in [1 .. n -> H] /\ \A i \in H : \E p \in 1 .. n : L[p] = i
      /\ \A p, q \in 1 .. n : p < q => L[p] < L[q]
  BY <1>1, <1>3, PickedInOrder DEF PickedBy
<1>5. /\ DOMAIN groups = 1 .. n
      /\ \A g \in 1 .. n : groups[g].day = D[L[g]] /\ groups[g].rows = Picked(list, Same(L[g]))
  <2> DEFINE heads == Picked(list, H)
             Day(i) == dayKey(list[i].at)
  <2>1. heads = [p \in 1 .. n |-> list[L[p]]]
    BY <1>3 DEF PickedBy
  <2>2. heads = Picked(list, {i \in DOMAIN list : \A j \in 1 .. i - 1 : Day(j) # Day(i)})
    <3>1. \A i \in 1 .. len : \A j \in 1 .. i - 1 : j \in 1 .. len
      BY <1>1
    <3>2. H = {i \in DOMAIN list : \A j \in 1 .. i - 1 : Day(j) # Day(i)}
      BY <1>1, <3>1
    <3> QED
      BY <3>2
  <2> HIDE DEF heads, n
  <2>3. groups = [g \in DOMAIN heads |->
            LET day == dayKey(heads[g].at)
            IN  [day |-> day, rows |-> Picked(list, {i \in DOMAIN list : Day(i) = day})]]
    BY <2>2 DEF groupByDay
  <2> HIDE DEF groups
  <2>4. \A g \in 1 .. n : L[g] \in 1 .. len /\ heads[g] = list[L[g]]
    BY <1>4, <2>1
  <2>5. \A g \in 1 .. n : dayKey(heads[g].at) = D[L[g]]
    BY <2>4
  <2>6. \A g \in 1 .. n : {i \in DOMAIN list : Day(i) = dayKey(heads[g].at)} = Same(L[g])
    BY <1>1, <2>4, <2>5
  <2> QED
    BY <2>1, <2>3, <2>5, <2>6
<1> HIDE DEF groups, D, len, n
<1>6. ASSUME NEW i \in 1 .. len
      PROVE  \E k \in H : D[k] = D[i]
  <2>1. Same(i) \in SUBSET Nat /\ i \in Same(i)
    BY <1>1
  <2>2. PICK k \in Same(i) : \A m \in Same(i) : k <= m
    BY <2>1, LeastNatural
  <2>3. k \in 1 .. len /\ D[k] = D[i]
    BY <2>2
  <2>4. ASSUME NEW j \in 1 .. k - 1  PROVE D[j] # D[k]
    <3>1. j \in 1 .. len /\ j < k
      BY <1>1, <2>3, <2>4
    <3> QED
      BY <1>1, <2>2, <2>3, <3>1
  <2> QED
    BY <2>3, <2>4
<1>7. ASSUME NEW k \in H
      PROVE  \E m \in 1 .. len : k <= m /\ Same(k) = k .. m
  <2> DEFINE Back == {len - i : i \in Same(k)}
  <2>1. k \in 1 .. len /\ k \in Same(k) /\ \A j \in 1 .. k - 1 : D[j] # D[k]
    BY <1>7
  <2>2. Back \in SUBSET Nat /\ Back # {}
    BY <1>1, <2>1
  <2>3. PICK b \in Back : \A c \in Back : b <= c
    BY <2>2, LeastNatural
  <2>4. PICK m \in Same(k) : b = len - m
    BY <2>3
  <2>5. m \in 1 .. len /\ D[m] = D[k]
    BY <2>4
  <2>6. ASSUME NEW i \in Same(k)  PROVE i \in 1 .. len /\ D[i] = D[k] /\ i <= m
    <3>1. i \in 1 .. len /\ D[i] = D[k] /\ len - i \in Back
      BY <2>6
    <3>2. len - m <= len - i
      BY <2>3, <2>4, <3>1
    <3> QED
      BY <1>1, <2>5, <3>1, <3>2
  <2>7. \A i \in Same(k) : k <= i
    BY <1>1, <2>1, <2>6
  <2>8. ASSUME NEW i \in k .. m  PROVE i \in Same(k)
    <3>1. i \in 1 .. len /\ (i = k \/ k < i) /\ (i = m \/ i < m)
      BY <1>1, <2>1, <2>5
    <3>2. D[k] >= D[i] /\ D[i] >= D[m]
      BY <1>2, <2>1, <2>5, <3>1
    <3>3. D[i] = D[k]
      BY <1>2, <2>1, <2>5, <3>1, <3>2
    <3> QED
      BY <3>1, <3>3
  <2>9. k <= m /\ Same(k) = k .. m
    BY <1>1, <2>1, <2>4, <2>5, <2>6, <2>7, <2>8
  <2> QED
    BY <2>5, <2>9
<1>8. ASSUME NEW g \in 1 .. n, NEW h \in 1 .. n, g < h
      PROVE  groups[g].day > groups[h].day
  <2>1. L[g] \in H /\ L[h] \in H /\ L[g] < L[h]
    BY <1>4, <1>8
  <2>2. L[g] \in 1 .. len /\ L[h] \in 1 .. len /\ L[g] \in 1 .. L[h] - 1
    BY <1>1, <2>1
  <2>3. D[L[g]] >= D[L[h]] /\ D[L[g]] # D[L[h]]
    BY <1>2, <2>1, <2>2
  <2>4. D[L[g]] > D[L[h]]
    BY <1>2, <2>2, <2>3
  <2> QED
    BY <1>5, <2>4
<1>9. ASSUME NEW g \in 1 .. n
      PROVE  \E a \in 0 .. Len(list) :
                groups[g].rows = SubSeq(list, a + 1, a + Len(groups[g].rows))
  <2> DEFINE k == L[g]
             list1 == groups[g].rows
  <2>1. k \in H /\ k \in 1 .. len
    BY <1>4
  <2>2. PICK m \in 1 .. len : k <= m /\ Same(k) = k .. m
    BY <1>7, <2>1
  <2>3. list1 = Picked(list, k .. m)
    BY <1>5, <2>2
  <2> HIDE DEF k, list1
  <2>4. k \in Nat \ {0} /\ m \in 0 .. Len(list) /\ k <= m /\ m <= Len(list)
    BY <1>1, <2>1, <2>2 DEF len
  <2>5. list1 = SubSeq(list, k, m)
    BY <1>1, <2>3, <2>4, StretchIsPicked
  <2>6. Len(list1) = m - k + 1
    BY <1>1, <2>4, <2>5
  <2>7. k - 1 \in 0 .. Len(list) /\ k - 1 + 1 = k /\ k - 1 + (m - k + 1) = m
    BY <1>1, <2>4
  <2>8. list1 = SubSeq(list, k - 1 + 1, k - 1 + Len(list1))
    BY <2>5, <2>6, <2>7
  <2> QED
    BY <2>7, <2>8 DEF list1
<1>10. ASSUME NEW i \in 1 .. len
       PROVE  \E g \in 1 .. n : \E p \in DOMAIN groups[g].rows : groups[g].rows[p] = list[i]
  <2>1. PICK k \in H : D[k] = D[i]
    BY <1>6
  <2>2. PICK g \in 1 .. n : L[g] = k
    BY <1>4
  <2>3. groups[g].rows = Picked(list, Same(k)) /\ i \in Same(k)
    BY <1>5, <2>1, <2>2
  <2>4. Same(k) \in SUBSET DOMAIN list
    BY <1>1
  <2> HIDE DEF Same
  <2>5. PICK M : PickedBy(list, Same(k), M)
    BY <1>1, <2>4, PickedInOrder
  <2>6. PICK p \in 1 .. Cardinality(Same(k)) : M[p] = i
    BY <2>3, <2>5 DEF PickedBy
  <2>7. p \in DOMAIN groups[g].rows /\ groups[g].rows[p] = list[i]
    BY <2>3, <2>5, <2>6 DEF PickedBy
  <2> QED
    BY <2>7
<1> QED
  BY <1>1, <1>5, <1>8, <1>9, <1>10 DEF InDays, groups

\* What is picked from a list with the newest first has the newest first.
LEMMA PickedNewestFirst ==
    ASSUME NEW list, NewestFirst(list), NEW I \in SUBSET DOMAIN list
    PROVE  NewestFirst(Picked(list, I))
<1> DEFINE n == Cardinality(I)
<1>1. list \in Seq(HistoryRow) /\ \A i, j \in DOMAIN list : i < j => list[i].at >= list[j].at
  BY DEF NewestFirst
<1>2. PICK L : PickedBy(list, I, L)
  BY <1>1, PickedInOrder
<1>3. Picked(list, I) \in Seq(HistoryRow) /\ DOMAIN Picked(list, I) = 1 .. n
  BY <1>1, PickedInOrder
<1>4. /\ L \in [1 .. n -> I] /\ \A p, q \in 1 .. n : p < q => L[p] < L[q]
      /\ Picked(list, I) = [p \in 1 .. n |-> list[L[p]]]
  BY <1>2 DEF PickedBy
<1> HIDE DEF n
<1>5. \A p \in 1 .. n : L[p] \in DOMAIN list /\ Picked(list, I)[p] = list[L[p]]
  BY <1>4
<1>6. \A p, q \in 1 .. n : p < q => Picked(list, I)[p].at >= Picked(list, I)[q].at
  BY <1>1, <1>4, <1>5
<1> QED
  BY <1>3, <1>6 DEF NewestFirst

\* Whatever is looked for, the days found are in order.
LEMMA DaysStandInOrder == HistoryInv => DaysAreInOrder
<1> SUFFICES ASSUME HistoryInv, NEW filter \in {"all", "sent", "voice"},
                    NEW query \in {Anything, Owner} \cup Payees
             PROVE  InDays(applyFilters(filter, query), groupByDay(applyFilters(filter, query)))
  BY Zenon DEF DaysAreInOrder, InDays
<1> DEFINE list == rows
           I == {i \in DOMAIN list : matchesFilter(list[i], filter) /\ matchesQuery(list[i], query)}
<1>1. NewestFirst(list)
  BY ListIsMerged DEF NewestFirst
<1>2. applyFilters(filter, query) = Picked(list, I) /\ I \in SUBSET DOMAIN list
  BY DEF applyFilters
<1> HIDE DEF list, I
<1>3. NewestFirst(Picked(list, I))
  BY <1>1, <1>2, PickedNewestFirst
<1> QED
  BY <1>2, <1>3, GroupedByDay

\* Every reachable state of the history satisfies the invariant (turnLog.ts, history.ts,
\* useHistoryData).
THEOREM HistoryTrue == HistorySpec => []HistoryInv
  BY HistoryAtFirst, HistoryGoesOn, PTL DEF HistorySpec

\* The history tells each payment once and as what it was, and shows its days in order,
\* whatever happens to the turns, the records and the page (useHistoryData).
THEOREM HistorySafe == HistorySpec => []HistoryIsTold
<1>1. HistoryInv => HistoryIsTold
  BY PaymentsAreListed, CountedPaymentsAreSent, SettledTurnsStand, NewestRuns, NamesStand,
     DaysStandInOrder DEF HistoryIsTold
<1> QED
  BY <1>1, HistoryTrue, PTL
=============================================================================
