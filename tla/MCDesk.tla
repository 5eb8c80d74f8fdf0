------------------------------- MODULE MCDesk -------------------------------
(* The computations and the books of the application, one part of this       *)
(* module for each: the alias book, the approval gate, its card, the notch's *)
(* shell, the agent's turn, the guard's set-up, the times of orders, ramps,  *)
(* the history and its suggestions, lessons, the live suite.  A behaviour    *)
(* belongs to one part and leaves the variables of the others as they are at *)
(* first: in this instance the parts do not meet.                            *)
EXTENDS ApprovalOverlay, GuardAliasBook, NotchShell, GuardSetup, AgentTurn, AnchorRamp,
        ScheduleTime, ShortcutLessons, LiveSuite, Suggest, TurnHistory

CONSTANTS t2, w2

VARIABLE part

-----------------------------------------------------------------------------
(* Values of the constants; the others, and the bounds, are in the           *)
(* configuration.                                                            *)

Says(tool, input) == [tool |-> tool, input |-> input]
Ware(name, clean, writes, hint) == [name |-> name, clean |-> clean, writes |-> writes, hint |-> hint]

\* A proposal, a screen to open, a question, a contact, and remote tools: the allowed
\* one, one whose name only resembles it and one that says it only reads.
SomeCalls ==
    {Says("send_payment", [amount |-> "5", asset |-> "XLM", recipient |-> "wallet two"]),
     Says("sell_asset", [amount |-> "all", asset |-> "dollar"]),
     Says("buy_asset", [route |-> "p2p"]),
     Says("save_contact", [name |-> "ada", address |-> "GADA"]),
     Says("mcp_ledger_info", <<>>), Says("mcp_transfer", <<>>)}
SomeServed ==
    << <<Ware("ledger.info", "mcp_ledger_info", FALSE, "none"),
         Ware("transfer", "mcp_transfer", TRUE, "true")>>,
       <<Ware("ledger_info", "mcp_ledger_info", FALSE, "true")>> >>

Proposal(mode, limit, perTx, daily, known) ==
    [mode |-> mode, limit |-> limit, perTx |-> perTx, daily |-> daily, known |-> known]

\* Off; on with defaults; on with a day of one payment for contacts only; an
\* unusable one.
SomeProposals ==
    {Proposal("always_ask", 0, 0, 0, TRUE), Proposal("auto_under_limit", 1, 0, 0, FALSE),
     Proposal("auto_under_limit", 2, 2, 2, TRUE), Proposal("auto_under_limit", 2, 1, 0, TRUE)}

\* Zones with and without a transition, one ahead of its day and one of the far side.
SomeOffsets == {-12, -11, -5, 0, 2, 13}
SomeShifts  == {-1, 0, 1, 24}
WallClocks  == -40 .. 40
SomeClocks  == {-60, -2, 0, 20}

-----------------------------------------------------------------------------
(* The history and its suggestions.                                          *)

Paid(to, amount) ==
    [to |-> to, asset |-> "XLM", amount |-> amount, status |-> "confirmed", mode |-> "public",
     route |-> "direct"]
SomePayments ==
    {Paid("a", 2), Paid("a", 10), [Paid("b", 40) EXCEPT !.route = "pay_executor"],
     [Paid("a", 40) EXCEPT !.status = "failed"], [Paid("a", 40) EXCEPT !.asset = "USDC"]}
Bare ==
    [rule |-> [auto |-> Unset, perTx |-> Unset, daily |-> Unset], asset |-> Unset,
     autoPay |-> FALSE, enabledSince |-> Unset, lastUse |-> Unset, contacts |-> {},
     dismissed |-> [kinds |-> {}, ids |-> {}], offset |-> 0]
SomeContexts ==
    {Bare, [Bare EXCEPT !.rule.perTx = 8, !.contacts = {"a"}, !.offset = 1,
                        !.dismissed.ids = {<<"auto_pay_threshold", "XLM", 5>>}],
     [Bare EXCEPT !.rule = [auto |-> 5, perTx |-> 10, daily |-> Malformed], !.asset = "XLM",
                  !.autoPay = TRUE, !.enabledSince = 0, !.dismissed.kinds = {"daily_limit"}]}

Op(type, from, to) == [type |-> type, from |-> from, to |-> to, amount |-> 1]
Listed(id, state, buyer) == [id |-> id, at |-> 0, state |-> state, seller |-> "b", buyer |-> buyer]

\* A book with a name that only the committed aliases give a valid address; a transaction
\* of two operations; an older store with a turn whose outcome was never written; an offer
\* taken, one of others, an anchor's step.
SomeNames == <<"ali", "bo">>
SomeBooks ==
    {[env |-> [ali |-> "a", bo |-> "?"], committed |-> [ali |-> "b", bo |-> "b", Bad |-> "c"]]}
SomeIncoming ==
    {<<Op("payment", "b", "o"), Op("create_account", "b", "o")>>, <<Op("payment", "o", "c")>>}
SomeLanes ==
    {[offers |-> <<Listed(2, "Accepted", "o"), Listed(3, "Open", NoName)>>,
      records |-> <<[step |-> "sep10", at |-> 0], [step |-> "withdraw", at |-> 1]>>]}
SomeStores == {<<[shape |-> "older"], [id |-> 0, at |-> 0, topic |-> "pay"]>>}

-----------------------------------------------------------------------------

DeskInit ==
    /\ part \in {"aliases", "gate", "card", "shell", "agent", "setup", "time", "ramp", "advice",
                 "timeline", "lessons", "live"}
    /\ BookInit /\ OverlayInit /\ ShellInit /\ AgentInit /\ SetupInit /\ RampInit
    /\ LessonInit /\ SuiteInit /\ HistoryInit
    /\ IF part = "time" THEN TimeInit
       ELSE zone = [before |-> 0, after |-> 0] /\ ask = 0 /\ answer = Unanswered
    /\ SuggestInit /\ (part # "advice" => context = Bare)

\* A step of one part leaves the others as they are.
Still ==
    /\ UNCHANGED part
    /\ IF part = "aliases" THEN TRUE ELSE UNCHANGED bookVars
    /\ IF part \in {"gate", "card"} THEN TRUE ELSE UNCHANGED gateVars
    /\ IF part = "card" THEN TRUE ELSE UNCHANGED <<overlay, inbox, reply>>
    /\ IF part = "shell" THEN TRUE ELSE UNCHANGED shellVars
    /\ IF part = "agent" THEN TRUE ELSE UNCHANGED agentVars
    /\ IF part = "setup" THEN TRUE ELSE UNCHANGED setupVars
    /\ IF part = "time" THEN TRUE ELSE UNCHANGED timeVars
    /\ IF part = "ramp" THEN TRUE ELSE UNCHANGED rampVars
    /\ IF part = "advice" THEN TRUE ELSE UNCHANGED suggestVars
    /\ IF part = "timeline" THEN TRUE ELSE UNCHANGED historyVars
    /\ IF part = "lessons" THEN TRUE ELSE UNCHANGED lessonVars
    /\ IF part = "live" THEN TRUE ELSE UNCHANGED suiteVars

\* Bound of the card: one prompt thread, one request or batch after another, a tick.
OneCard == task'[t2].pc = "idle" /\ next_id' <= 2 /\ now' <= 1

\* Bound: of the ramps' flows only w2 may move 2.
OnlyTheSecondMovesTwo == \A f \in Flows \ {w2} : flow'[f].amount <= 1

\* Bound: of turns, readings of the page and records there are four together, before the
\* tick that ends the day, and after it two.
FourInAll == turns' + visits' + Len(ledger') + 2 * logClock' <= 4

AliasPart    == part = "aliases" /\ BookNext /\ Still
GatePart     == part = "gate" /\ GateNext /\ Still
CardPart     == part = "card" /\ OverlayNext /\ OneCard /\ Still
ShellPart    == part = "shell" /\ ShellNext /\ Still
AgentPart    == part = "agent" /\ AgentNext /\ Still
SetupPart    == part = "setup" /\ SetupNext /\ Still
TimePart     == part = "time" /\ TimeNext /\ Still
RampPart     == part = "ramp" /\ RampNext /\ OnlyTheSecondMovesTwo /\ Still
AdvicePart   == part = "advice" /\ SuggestNext /\ Still
TimelinePart == part = "timeline" /\ HistoryNext /\ FourInAll /\ Still
LessonPart   == part = "lessons" /\ LessonNext /\ Still
LivePart     == part = "live" /\ SuiteNext /\ Still

DeskNext ==
    \/ AliasPart \/ GatePart \/ CardPart \/ ShellPart \/ AgentPart \/ SetupPart \/ TimePart
    \/ RampPart \/ AdvicePart \/ TimelinePart \/ LessonPart \/ LivePart

DeskSpec ==
    DeskInit
    /\ [][DeskNext]_<<part, bookVars, overlayVars, shellVars, agentVars, setupVars, timeVars,
                      rampVars, suggestVars, historyVars, lessonVars, suiteVars>>

=============================================================================
