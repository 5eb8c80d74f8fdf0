----------------------------- MODULE AgentTurn -----------------------------
(***************************************************************************)
(* A turn of the agent (agent/src and app/src/lib/agent): the prompt is    *)
(* built from the accounts, the tools and the dialogue so far; the model   *)
(* answers with tool calls; read-only tools run, the others are turned     *)
(* into at most one proposal or one question.  The dialogue and the        *)
(* registry are shared by the turns, which may overlap where one waits.    *)
(* Tools of a remote server may be added to the registry meanwhile.        *)
(***************************************************************************)
EXTENDS Naturals, Sequences, FiniteSets

CONSTANTS Turns,        \* turns of the conversation
          Calls,        \* tool calls the model may make: [tool, input]
          MaxCalls,     \* calls in one answer
          Terse,        \* turns whose answers have at most one
          Served,       \* pages of tools the remote server lists: [name, clean, writes, hint]
          Allowed, Denied,  \* the operator's lists of remote tools
          MaxPages,     \* pages read of the remote list
          Provider,     \* whose model is asked: "openai" or "anthropic"
          DIALOG_TTL, MaxClock, MAX_EXCHANGES

Assets == {"USDC", "XLM"}
Absent == "none"      \* an argument left out, no question, no proposal

VARIABLES
    dialog,      \* the lines remembered, the pending question and when it expires
    agentClock,
    turn,        \* of each turn: how far it is and what it gathered
    speaking,    \* the turn whose synchronous code runs, if any
    registry,    \* the remote tools registered: of each name, the tool behind it
    listing,     \* how far the remote list was read
    addressBook, \* contacts saved on this device
    remoteCalls  \* remote tools that were called

agentVars == <<dialog, agentClock, turn, speaking, registry, listing, addressBook, remoteCalls>>

-----------------------------------------------------------------------------
(* Arguments.  An input is a function of the arguments the model gave; a    *)
(* value is "bad" when it cannot be read as what the tool expects.          *)

Arg(input, field) == IF field \in DOMAIN input THEN input[field] ELSE Absent
Given(input, field) == Arg(input, field) \notin {Absent, "bad"}

Proposed(kind, asset, amount) ==
    [is |-> "intent", kind |-> kind, asset |-> asset, amount |-> amount, to |-> Absent]
\* bad(): the model's arguments cannot be trusted; with a draft, one slot is asked for.
bad == [is |-> "bad", question |-> Absent]
Asks(question) == [is |-> "bad", question |-> question]

\* normalizeAsset: synonyms fold to one of the supported codes, an omission is the default.
normalizeAsset(value) ==
    IF value \in {Absent, "dollar"} THEN "USDC" ELSE IF value \in Assets THEN value ELSE Absent

\* parseAmount: a positive decimal.
parseAmount(input) == IF Given(input, "amount") /\ input.amount # "all" THEN input.amount ELSE Absent

normalizeAccountRefs(value) == IF value = "wallet two" THEN "acc2" ELSE value
\* Only an account the app knows.
normalizeRecipient(value) ==
    IF normalizeAccountRefs(value) \in {"acc1", "acc2"} THEN normalizeAccountRefs(value) ELSE Absent

\* A payment and a sale must name their asset; a recipient nobody knows is kept as it was said.
parseSendPayment(input) ==
    IF \/ parseAmount(input) = Absent \/ ~Given(input, "recipient")
       \/ Arg(input, "asset") = Absent \/ normalizeAsset(Arg(input, "asset")) = Absent
    THEN bad
    ELSE LET known == normalizeRecipient(input.recipient)
         IN  [Proposed("send", normalizeAsset(input.asset), input.amount)
                EXCEPT !.to = IF known # Absent THEN known ELSE input.recipient]

normalizeFiat(value) == IF value \in {Absent, "TRY"} THEN "TRY" ELSE "bad"

parseDeposit(input) ==
    IF parseAmount(input) = Absent \/ normalizeFiat(Arg(input, "asset")) = "bad" THEN bad
    ELSE Proposed("deposit", "TRY", input.amount)

parseWithdraw(input) ==
    IF parseAmount(input) = Absent \/ normalizeAsset(Arg(input, "asset")) = Absent THEN bad
    ELSE Proposed("withdraw", normalizeAsset(Arg(input, "asset")), input.amount)

normalizeRoute(input) == IF Arg(input, "route") \in {"anchor", "p2p"} THEN input.route ELSE Absent

\* parseTokenAmount also takes the word "all".
parseTokenAmount(input) == IF Given(input, "amount") THEN input.amount ELSE Absent

parseSellAsset(input) ==
    IF \/ Arg(input, "asset") = Absent \/ normalizeAsset(Arg(input, "asset")) = Absent
       \/ parseTokenAmount(input) = Absent THEN bad
    ELSE IF normalizeRoute(input) = Absent THEN Asks("sell_route")
    ELSE IF input.route = "anchor"
         THEN IF normalizeAsset(input.asset) # "USDC" THEN bad
              ELSE Proposed("withdraw", "USDC", input.amount)
    ELSE IF Arg(input, "priceTry") = Absent THEN Asks("sell_price")
    ELSE IF input.priceTry = "bad" THEN bad
    ELSE Proposed("p2p_offer", normalizeAsset(Arg(input, "asset")), input.amount)

hasOfferId(input) == Given(input, "offerId")

parseBuyAsset(input) ==
    IF Arg(input, "amount") = "bad" THEN bad
    ELSE IF normalizeRoute(input) = Absent THEN Asks("sell_route")
    ELSE IF input.route = "p2p"
         THEN IF ~hasOfferId(input) THEN bad ELSE Proposed("p2p_accept", "USDC", "0")
    ELSE IF ~Given(input, "amount") THEN bad ELSE Proposed("deposit", "TRY", input.amount)

\* Buying peer-to-peer without an offer opens the offers: nothing to approve.
toNavigationFor(call) ==
    call.tool = "buy_asset" /\ normalizeRoute(call.input) = "p2p" /\ ~hasOfferId(call.input)

normalizeRuleMode(value) == IF value \in {"always_ask", "auto_under_limit"} THEN value ELSE Absent
optionalDecimal(input, field) == Arg(input, field) # "bad"
\* Contacts only, with no limit named, keeps the automatic mode.
contactsOnly(input) ==
    Arg(input, "knownRecipientsOnly") = "true" /\ ~Given(input, "autoApproveLimit")

parseSetApprovalRule(input) ==
    LET mode == IF normalizeRuleMode(Arg(input, "mode")) # Absent THEN input.mode
                ELSE IF contactsOnly(input) THEN "auto_under_limit" ELSE Absent
    IN  IF \/ ~optionalDecimal(input, "autoApproveLimit") \/ mode = Absent
           \/ Given(input, "asset") /\ normalizeAsset(input.asset) = Absent THEN bad
        ELSE IF mode = "always_ask" THEN Proposed("guard_policy", Arg(input, "asset"), "0")
        ELSE IF ~Given(input, "autoApproveLimit") /\ ~contactsOnly(input) THEN bad
        ELSE IF Given(input, "autoApproveLimit") /\ ~Given(input, "asset") THEN Asks("rule_asset")
        ELSE Proposed("guard_policy", Arg(input, "asset"), Arg(input, "autoApproveLimit"))

parseTryPrice(input) == Given(input, "priceTry")
parseOfferId(input)  == Given(input, "offerId")

parseP2pOffer(input) ==
    IF \/ parseAmount(input) = Absent \/ normalizeAsset(Arg(input, "asset")) = Absent
       \/ ~parseTryPrice(input)
    THEN bad ELSE Proposed("p2p_offer", normalizeAsset(Arg(input, "asset")), input.amount)

parseP2pAccept(input)  == IF parseOfferId(input) THEN Proposed("p2p_accept", "USDC", "0") ELSE bad
parseP2pConfirm(input) == IF parseOfferId(input) THEN Proposed("p2p_confirm", "USDC", "0") ELSE bad

normalizeRepeat(value) == IF value = Absent THEN "once" ELSE value
normalizeWhich(value) == IF value \in {"last", "next"} THEN value ELSE Absent

\* A repeated payment says how often; a single one cannot say more than one run.
parseSchedulePayment(input) ==
    LET repeat == normalizeRepeat(Arg(input, "repeat"))
    IN  IF \/ parseAmount(input) = Absent \/ normalizeAsset(Arg(input, "asset")) = Absent
           \/ ~Given(input, "recipient") \/ ~Given(input, "firstDate") \/ ~Given(input, "firstTime")
           \/ Arg(input, "timeZone") = "bad" \/ repeat = "bad"
           \/ repeat = "once" /\ Arg(input, "runs") \notin {Absent, "1"}
           \/ repeat # "once" /\ ~Given(input, "runs")
           \/ repeat = "custom" /\ ~Given(input, "intervalSeconds")
        THEN bad ELSE Proposed("schedule_payment", normalizeAsset(Arg(input, "asset")), input.amount)

parseCancelSchedule(input) ==
    IF \/ Arg(input, "scheduleId") = "bad" \/ Arg(input, "recipient") = "bad"
       \/ ~Given(input, "scheduleId") /\ ~Given(input, "recipient")
       \/ /\ Arg(input, "which") # Absent
          /\ ~Given(input, "recipient") \/ normalizeWhich(input.which) = Absent
    THEN bad ELSE Proposed("cancel_schedule", Absent, Absent)

-----------------------------------------------------------------------------
(* The registry: the app's own tools, and the remote ones that only read.   *)

\* Tools that only read, or write on this device: they run without approval.
getBalanceTool  == [name |-> "get_balance", approval |-> FALSE]
navigateTool    == [name |-> "navigate", approval |-> FALSE]
saveContactTool == [name |-> "save_contact", approval |-> FALSE]
listContactsTool == [name |-> "list_contacts", approval |-> FALSE]
deleteContactTool == [name |-> "delete_contact", approval |-> FALSE]
\* Tools whose arguments become a proposal.
sendPaymentTool == [name |-> "send_payment", approval |-> TRUE]
depositTool  == [name |-> "deposit", approval |-> TRUE]
withdrawTool == [name |-> "withdraw", approval |-> TRUE]
schedulePaymentTool == [name |-> "schedule_payment", approval |-> TRUE]
cancelScheduleTool  == [name |-> "cancel_schedule", approval |-> TRUE]
p2pOfferTool   == [name |-> "p2p_offer", approval |-> TRUE]
p2pAcceptTool  == [name |-> "p2p_accept", approval |-> TRUE]
p2pConfirmTool == [name |-> "p2p_confirm", approval |-> TRUE]
setApprovalRuleTool == [name |-> "set_approval_rule", approval |-> TRUE]
sellAssetTool == [name |-> "sell_asset", approval |-> TRUE]
buyAssetTool  == [name |-> "buy_asset", approval |-> TRUE]

createDefaultRegistry ==
    {sendPaymentTool, getBalanceTool, navigateTool, depositTool, withdrawTool,
     schedulePaymentTool, cancelScheduleTool, p2pOfferTool, p2pAcceptTool, p2pConfirmTool,
     setApprovalRuleTool, sellAssetTool, buyAssetTool, saveContactTool, listContactsTool,
     deleteContactTool}

NeedsApproval(name) == \E tool \in createDefaultRegistry : tool.name = name /\ tool.approval
KnownTool(name) == \/ \E tool \in createDefaultRegistry : tool.name = name
               \/ name \in DOMAIN registry

toIntent(call) ==
    CASE call.tool = "send_payment" -> parseSendPayment(call.input)
      [] call.tool = "deposit" -> parseDeposit(call.input)
      [] call.tool = "withdraw" -> parseWithdraw(call.input)
      [] call.tool = "schedule_payment" -> parseSchedulePayment(call.input)
      [] call.tool = "cancel_schedule" -> parseCancelSchedule(call.input)
      [] call.tool = "p2p_offer" -> parseP2pOffer(call.input)
      [] call.tool = "p2p_accept" -> parseP2pAccept(call.input)
      [] call.tool = "p2p_confirm" -> parseP2pConfirm(call.input)
      [] call.tool = "set_approval_rule" -> parseSetApprovalRule(call.input)
      [] call.tool = "sell_asset" -> parseSellAsset(call.input)
      [] call.tool = "buy_asset" -> parseBuyAsset(call.input)

\* A name that moves value is refused whatever the server or the operator says.
mcpToolReadOnly(tool) ==
    /\ tool.name \notin Denied /\ ~tool.writes /\ tool.hint # "false"
    /\ tool.hint = "true" \/ tool.name \in Allowed

\* registerReadOnlyMcpTools: of two tools whose clean names agree the first stays.
Registered(tools, known) ==
    LET read  == {i \in DOMAIN tools : mcpToolReadOnly(tools[i])}
        First(clean) == CHOOSE i \in read : /\ tools[i].clean = clean
                                            /\ \A j \in read : tools[j].clean = clean => i <= j
    IN  [clean \in DOMAIN known \cup {tools[i].clean : i \in read} |->
            IF clean \in DOMAIN known THEN known[clean] ELSE tools[First(clean)]]

NoListing == [step |-> "off", page |-> 0, tools |-> <<>>]

\* attachMcpToolsFromEnv: a configured server is greeted, then its tools are listed.
Attaches ==
    /\ listing.step = "off" /\ Len(Served) > 0
    /\ listing' = [listing EXCEPT !.step = "reading"]
    /\ UNCHANGED <<dialog, agentClock, turn, speaking, registry, addressBook, remoteCalls>>

\* listTools: page after page, while the server names a next one and MaxPages is not reached.
ReadsPage ==
    /\ listing.step = "reading"
    /\ LET tools == listing.tools \o Served[listing.page + 1]
           last  == listing.page + 1 >= Len(Served) \/ listing.page + 1 >= MaxPages
       IN  /\ listing' = [step |-> IF last THEN "done" ELSE "reading",
                          page |-> listing.page + 1, tools |-> IF last THEN <<>> ELSE tools]
           /\ registry' = IF last THEN Registered(tools, registry) ELSE registry
    /\ UNCHANGED <<dialog, agentClock, turn, speaking, addressBook, remoteCalls>>

\* Any request may fail: nothing is registered.
ListingFails ==
    /\ listing.step = "reading"
    /\ listing' = [NoListing EXCEPT !.step = "done"]
    /\ UNCHANGED <<dialog, agentClock, turn, speaking, registry, addressBook, remoteCalls>>

-----------------------------------------------------------------------------
(* The dialogue.                                                            *)

NoPending == [question |-> Absent, expiresAt |-> 0]
NoDialog  == [lines |-> <<>>, pending |-> NoPending]

\* Only the last exchanges are kept.
Remembers(d, line) ==
    LET lines == Append(d.lines, line)
        max   == MAX_EXCHANGES * 2
    IN  [d EXCEPT !.lines = IF Len(lines) > max THEN SubSeq(lines, Len(lines) - max + 1, Len(lines))
                            ELSE lines]

setPending(d, question, at) ==
    [d EXCEPT !.pending = [question |-> question, expiresAt |-> at + DIALOG_TTL]]

\* Read at a time: an expired question is dropped.
pending(d, at) ==
    IF d.pending.question # Absent /\ d.pending.expiresAt <= at
    THEN [d EXCEPT !.pending = NoPending] ELSE d

-----------------------------------------------------------------------------
(* A turn.                                                                  *)

Quiet == [step |-> "idle", cancels |-> FALSE, at |-> 0, sees |-> Absent, calls |-> <<>>, next |-> 1,
          intents |-> <<>>, opens |-> 0, asks |-> Absent, answer |-> Absent]

Failed(run) == [Quiet EXCEPT !.step = "failed", !.at = run.at]

\* runAgentTurn, runTurn: the prompt is built from the dialogue before this
\* utterance, then the model is asked.
TurnStarts(t, cancels) ==
    /\ turn[t].step = "idle" /\ speaking = Absent
    /\ LET fresh == pending(dialog, agentClock)
       IN  /\ turn' = [turn EXCEPT ![t] =
                           [Quiet EXCEPT !.step = "asking", !.cancels = cancels, !.at = agentClock,
                                         !.sees = fresh.pending.question]]
           /\ dialog' = Remembers(fresh, "user")
    /\ UNCHANGED <<agentClock, speaking, registry, listing, addressBook, remoteCalls>>

\* What comes back over the wire: the transport's fate, the status and the body.
Replies == [wire : {"timeout", "unreachable", "up"}, status : {200, 401, 500},
            body : {"turn", "not json", "no message", "nameless call", "bad arguments"}]

\* #request of either provider: transport, credential, status, JSON, in this order.
openAiRequest(reply) ==
    IF reply.wire # "up" THEN "network"
    ELSE IF reply.status = 401 THEN "auth" ELSE IF reply.status # 200 THEN "http"
    ELSE IF reply.body = "not json" THEN "malformed" ELSE reply.body

anthropicRequest(reply) == openAiRequest(reply)

\* #parse: a missing message, a nameless call, arguments that are no JSON.
openAiParse(body) ==
    IF body \in {"no message", "nameless call", "bad arguments"} THEN "malformed" ELSE body

anthropicParse(body) == openAiParse(body)

Heard(reply) ==
    IF Provider = "anthropic" THEN anthropicParse(anthropicRequest(reply))
    ELSE openAiParse(openAiRequest(reply))

\* The provider's answer, read into tool calls.
ModelAnswers(t, calls) ==
    /\ turn[t].step = "asking" /\ speaking = Absent
    /\ turn' = [turn EXCEPT ![t].step = "calling", ![t].calls = calls]
    /\ speaking' = t
    /\ UNCHANGED <<dialog, agentClock, registry, listing, addressBook, remoteCalls>>

\* No network, a rejected key, an error status, an answer that cannot be read:
\* the turn ends with an error, the dialogue stays as it is.
ModelFails(t) ==
    /\ turn[t].step = "asking" /\ speaking = Absent
    /\ \E reply \in Replies : Heard(reply) \in {"network", "auth", "http", "malformed"}
    /\ turn' = [turn EXCEPT ![t] = Failed(turn[t])]
    /\ UNCHANGED <<dialog, agentClock, speaking, registry, listing, addressBook, remoteCalls>>

Current(t) == turn[t].calls[turn[t].next]
HasCall(t) == turn[t].next <= Len(turn[t].calls)

\* A tool that needs approval never runs: its arguments become a proposal, a
\* screen to open, or a question.
TakesProposal(t) ==
    /\ speaking = t /\ turn[t].step = "calling" /\ HasCall(t) /\ NeedsApproval(Current(t).tool)
    /\ LET run    == turn[t]
           result == toIntent(Current(t))
           opens  == toNavigationFor(Current(t))
           asked  == IF result.is = "bad" /\ ~opens
                     THEN IF run.asks # Absent THEN run.asks
                          ELSE IF result.question # Absent THEN result.question ELSE "repeat"
                     ELSE run.asks
       IN  /\ turn' = [turn EXCEPT ![t] =
                           [run EXCEPT !.next = run.next + 1, !.asks = asked,
                                       !.opens = run.opens + IF opens THEN 1 ELSE 0,
                                       !.intents = IF ~opens /\ result.is = "intent"
                                                   THEN Append(run.intents, result) ELSE run.intents]]
           /\ dialog' = IF ~opens /\ result.is = "bad" /\ result.question # Absent
                        THEN setPending(dialog, result.question, run.at) ELSE dialog
    /\ UNCHANGED <<agentClock, speaking, registry, listing, addressBook, remoteCalls>>

\* A tool nobody registered ends the turn with an error.
MeetsUnknownTool(t) ==
    /\ speaking = t /\ turn[t].step = "calling" /\ HasCall(t) /\ ~KnownTool(Current(t).tool)
    /\ turn' = [turn EXCEPT ![t] = Failed(turn[t])]
    /\ speaking' = Absent
    /\ UNCHANGED <<dialog, agentClock, registry, listing, addressBook, remoteCalls>>

\* Any other tool runs, and the turn waits for it.
RunsTool(t) ==
    /\ speaking = t /\ turn[t].step = "calling" /\ HasCall(t)
    /\ KnownTool(Current(t).tool) /\ ~NeedsApproval(Current(t).tool)
    /\ turn' = [turn EXCEPT ![t].step = "running"]
    /\ speaking' = Absent
    /\ remoteCalls' = IF Current(t).tool \in DOMAIN registry
                      THEN remoteCalls \cup {registry[Current(t).tool].name} ELSE remoteCalls
    /\ UNCHANGED <<dialog, agentClock, registry, listing, addressBook>>

\* A secret, a missing or an unusable argument saves nothing.
saveContactRun(input) ==
    IF Given(input, "name") /\ Given(input, "address") /\ Arg(input, "secret") = Absent
    THEN addressBook \cup {input.name} ELSE addressBook

deleteContactRun(input) ==
    IF Given(input, "name") THEN addressBook \ {input.name} ELSE addressBook

ContactsAfter(call) ==
    CASE call.tool = "save_contact"   -> saveContactRun(call.input)
      [] call.tool = "delete_contact" -> deleteContactRun(call.input)
      [] OTHER -> addressBook

\* A screen nobody knows is asked about instead.
navigateRun(call) == call.tool = "navigate" /\ Given(call.input, "target")

\* It answers; the store may be out of reach, which is an answer too.
ToolAnswers(t) ==
    /\ turn[t].step = "running" /\ speaking = Absent
    /\ LET run   == turn[t]
           opens == IF navigateRun(Current(t)) THEN 1 ELSE 0
       IN  turn' = [turn EXCEPT ![t] =
                       [run EXCEPT !.step = "calling", !.next = run.next + 1,
                                   !.answer = "spoken", !.opens = run.opens + opens]]
    /\ speaking' = t
    /\ addressBook' \in {addressBook, ContactsAfter(Current(t))}
    /\ UNCHANGED <<dialog, agentClock, registry, listing, remoteCalls>>

\* A remote tool's request fails: the turn does too.
ToolFails(t) ==
    /\ turn[t].step = "running" /\ speaking = Absent /\ Current(t).tool \in DOMAIN registry
    /\ turn' = [turn EXCEPT ![t] = Failed(turn[t])]
    /\ UNCHANGED <<dialog, agentClock, speaking, registry, listing, addressBook, remoteCalls>>

\* Faulty variant: a proposal counts even when a question is open.
ResultRegardless(run) ==
    IF Len(run.intents) = 1 THEN "proposal"
    ELSE IF run.asks # Absent THEN run.asks
    ELSE IF Len(run.intents) > 1 THEN "one at a time"
    ELSE IF run.answer # Absent THEN run.answer ELSE "text"

\* What the turn says: a question first, then one proposal, then what was read.
Result(run) ==
    IF run.asks # Absent THEN run.asks
    ELSE IF Len(run.intents) > 1 THEN "one at a time"
    ELSE IF Len(run.intents) = 1 THEN "proposal"
    ELSE IF run.answer # Absent THEN run.answer ELSE "text"

Opens(run) == run.opens > 0 /\ run.intents = <<>>

\* The dialogue is settled for the next utterance and the turn ends.
EndsTurn(t) ==
    /\ speaking = t /\ turn[t].step = "calling" /\ ~HasCall(t)
    /\ LET run == turn[t]
       IN  /\ dialog' = IF run.cancels \/ Result(run) = "proposal" \/ Opens(run) \/ Len(run.intents) > 1
                        THEN NoDialog ELSE Remembers(dialog, "assistant")
           /\ turn' = [turn EXCEPT ![t] =
                           [Quiet EXCEPT !.step = "ended", !.at = run.at, !.answer = Result(run),
                                         !.intents = run.intents, !.asks = run.asks,
                                         !.calls = IF run.intents = <<>> THEN <<>> ELSE run.calls]]
    /\ speaking' = Absent
    /\ UNCHANGED <<agentClock, registry, listing, addressBook, remoteCalls>>

AgentTimePasses ==
    /\ agentClock < MaxClock /\ speaking = Absent
    /\ agentClock' = agentClock + 1
    /\ UNCHANGED <<dialog, turn, speaking, registry, listing, addressBook, remoteCalls>>

Answers(t) == UNION {[1 .. n -> Calls] : n \in 0 .. IF t \in Terse THEN 1 ELSE MaxCalls}

AgentInit ==
    /\ dialog = NoDialog /\ agentClock = 0 /\ turn = [t \in Turns |-> Quiet] /\ speaking = Absent
    /\ registry = <<>> /\ listing = NoListing /\ addressBook = {} /\ remoteCalls = {}

Handles(t) == TakesProposal(t) \/ MeetsUnknownTool(t) \/ RunsTool(t) \/ EndsTurn(t)
Hears(t)   == ModelFails(t) \/ \E calls \in Answers(t) : ModelAnswers(t, calls)

AgentNext ==
    \/ \E t \in Turns : \/ \E cancels \in BOOLEAN : TurnStarts(t, cancels)
                        \/ Hears(t) \/ Handles(t) \/ ToolAnswers(t) \/ ToolFails(t)
    \/ Attaches \/ ReadsPage \/ ListingFails \/ AgentTimePasses

AgentSpec == AgentInit /\ [][AgentNext]_agentVars

-----------------------------------------------------------------------------
(* Properties.                                                              *)

Gated(t) == {i \in DOMAIN turn[t].calls : /\ NeedsApproval(turn[t].calls[i].tool)
                                          /\ ~toNavigationFor(turn[t].calls[i])}

\* Of an answer with several calls, a turn proposes something only when exactly
\* one of them asks for value to move and its arguments say all that is needed:
\* a second action, or one with a slot left open, is asked about (runTurn).
ProposalIsUnambiguous ==
    \A t \in Turns : turn[t].step = "ended" /\ turn[t].answer = "proposal" =>
        /\ Cardinality(Gated(t)) = 1
        /\ \A i \in Gated(t) : toIntent(turn[t].calls[i]) = turn[t].intents[1]
        /\ turn[t].asks = Absent

\* Whatever the remote server lists, however its names collide, and whatever
\* the model asks for, no remote tool that moves value is ever called.
RemoteToolsOnlyRead ==
    \A name \in remoteCalls :
        \E p \in DOMAIN Served : \E i \in DOMAIN Served[p] :
            Served[p][i].name = name /\ ~Served[p][i].writes /\ Served[p][i].hint # "false"

\* The model never sees a question older than its time to live, however long
\* the turns that asked it took and whatever came in between (dialog.ts).
QuestionsGrowOld ==
    \A t \in Turns : turn[t].step = "asking" /\ turn[t].sees # Absent =>
        \E u \in Turns \ {t} : turn[u].step # "idle" /\ turn[t].at < turn[u].at + DIALOG_TTL

\* What the agent proposes is what one call said, what it remembers is recent, and the
\* remote tools it calls only read (loop.ts, dialog.ts, bridge.ts).
AgentStaysInBounds == ProposalIsUnambiguous /\ QuestionsGrowOld /\ RemoteToolsOnlyRead

=============================================================================
