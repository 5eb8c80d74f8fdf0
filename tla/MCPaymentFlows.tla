--------------------------- MODULE MCPaymentFlows ---------------------------
(* Where a payment passes, and what must come to an end there: the spoken    *)
(* turn, the execution, an anchor's order, the live tool, the escrow and the *)
(* trade page over it.  A behaviour belongs to one part and leaves the       *)
(* others in their initial states: in this instance the parts do not meet.   *)
(* The bounds of the order, the tool and the trades are below, the others'   *)
(* in the configuration.                                                     *)
EXTENDS P2pTrade, TxPipeline, VoiceTurn

VARIABLES
    part,
    healthy, client, order, late,
    tool, rule, armed, aliases, file, ledger, toolNetwork

Order == INSTANCE AnchorOrder
    WITH Candidates <- <<"a", "b">>, MaxFailures <- 2, MaxInformed <- 2, MaxRounds <- 2
Tool == INSTANCE LiveTool
    WITH Tools <- {"t1"}, Names <- {"bob"}, TopLimit <- 2, MaxOthers <- 1,
         Commands <- {"pay", "alias-add", "enable-auto", "tighten", "list", "keeper-once"},
         network <- toolNetwork

orderVars == <<healthy, client, order, late>>
toolVars == <<tool, rule, armed, aliases, file, ledger, toolNetwork>>

FlowsInit ==
    /\ part \in {"turn", "pipeline", "order", "tool", "escrow", "trade"}
    /\ TurnInit /\ PipelineInit /\ Order!OrderInit /\ Tool!ToolInit /\ TradeInit

TurnPart ==
    /\ part = "turn" /\ TurnNext
    /\ UNCHANGED <<part, pipelineVars, orderVars, toolVars, tradeVars>>
PipelinePart ==
    /\ part = "pipeline" /\ PipelineNext
    /\ UNCHANGED <<part, turnVars, orderVars, toolVars, tradeVars>>
OrderPart ==
    /\ part = "order" /\ Order!OrderNext
    /\ UNCHANGED <<part, turnVars, pipelineVars, toolVars, tradeVars>>
ToolPart ==
    /\ part = "tool" /\ Tool!ToolNext
    /\ UNCHANGED <<part, turnVars, pipelineVars, orderVars, tradeVars>>
EscrowPart ==
    /\ part = "escrow" /\ Elsewhere
    /\ UNCHANGED <<part, turnVars, pipelineVars, orderVars, toolVars>>

\* Bound of the trades: an offer each, of one unit for one second, opened in the first.
SmallTrades ==
    /\ now' <= 2
    /\ \A id \in Ids : offer'[id] # None => offer'[id].amount = 1 /\ offer'[id].expires_at = 1
    /\ \A id, other \in Ids :
          offer'[id] # None /\ offer'[other] # None /\ offer'[id].seller = offer'[other].seller
          => id = other
    /\ \A o \in Origins : calls'[o].do = "offer" => calls'[o].shown.amount = 1
TradePart ==
    /\ part = "trade" /\ TradeNext /\ SmallTrades
    /\ UNCHANGED <<part, turnVars, pipelineVars, orderVars, toolVars>>

FlowsNext == TurnPart \/ PipelinePart \/ OrderPart \/ ToolPart \/ EscrowPart \/ TradePart

\* Each part's own fairness, as its module states it.
FlowsFairness ==
    /\ WF_turnVars(part = "turn" /\ DwellEnds)
    /\ WF_turnVars(part = "turn" /\ TurnTimesOut)
    /\ \A r \in Runs : WF_pipelineVars(part = "pipeline" /\ RunStep(r))
    /\ WF_pipelineVars(part = "pipeline" /\ SomethingConfigured)
    /\ WF_orderVars(part = "order" /\ Order!ClientStep)
    /\ WF_orderVars(part = "order" /\ Order!Deadline)
    /\ WF_toolVars(part = "tool" /\ Tool!Proceeds("t1"))
    /\ WF_vars(part \in {"escrow", "trade"} /\ Tick /\ (part = "trade" => now' <= 2))
    /\ \A p \in Traders, id \in Ids : WF_vars(part \in {"escrow", "trade"} /\ Reclaim(p, id))

FlowsSpec ==
    FlowsInit
    /\ [][FlowsNext]_<<part, turnVars, pipelineVars, orderVars, toolVars, tradeVars>>
    /\ FlowsFairness

\* The client of an anchor's order ends, whatever the anchor says: sep6.ts.
CallEnds == part = "order" => Order!CallEnds

\* An invocation of the live tool ends, whatever the network does, and what landed of its
\* plan is the beginning of what its card showed: tool.ts, timeout.ts.
ToolEnds ==
    /\ Tool!ToolEnds
    /\ [](part = "tool" => Tool!PlanLandsAsShown)
=============================================================================
