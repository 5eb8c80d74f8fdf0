------------------------------ MODULE LiveTool ------------------------------
(***************************************************************************)
(* The command-line tool that drives the testnet lane by hand              *)
(* (stellar/src/live: tool, args, config, confirm, signer, submit,         *)
(* timeout).                                                               *)
(*                                                                         *)
(* An invocation reads the chain and builds the transactions of its        *)
(* command, gives them consecutive sequence numbers, shows the card with   *)
(* the hashes they will have, and after the approval signs and submits     *)
(* them one by one, stopping at the first that does not succeed.  Several  *)
(* invocations and other holders of the owner's key share the accounts.    *)
(* The network is external: what was handed over may land, fail or be      *)
(* dropped whatever its sender was told.                                   *)
(***************************************************************************)
EXTENDS Naturals, FiniteSets, Sequences

CONSTANTS Tools,       \* invocations
          Commands,    \* the commands they may be given
          Names,       \* aliases besides the built-in one
          TopLimit,    \* limits are 1 .. TopLimit
          MaxOthers    \* owner transactions that come from elsewhere

VARIABLES
    tool,      \* of each invocation: where it is and what it holds
    rule,      \* the owner's rule on chain
    armed,     \* whether an executor is registered
    aliases,   \* the names in the alias book on chain
    file,      \* the names in the local alias file
    ledger,    \* of each role's account: the transactions that landed, by sequence number
    network    \* transactions handed over that may still land

toolVars == <<tool, rule, armed, aliases, file, ledger, network>>

SignerRole == {"owner", "executor"}
Rules      == [per_tx_limit : 1 .. TopLimit, daily_limit : 1 .. TopLimit]
NoRule     == [per_tx_limit |-> 0, daily_limit |-> 0]

\* A step before it has its sequence number.
RawStep(kind, role) == [kind |-> kind, role |-> role, name |-> "", rule |-> NoRule]

NoPlan   == [at |-> "idle", command |-> "", steps |-> <<>>, base |-> 0, step |-> 1,
             book |-> {}, code |-> 0]
Foreign  == [tool |-> "elsewhere", step |-> 1, ok |-> TRUE]

ToolInit ==
    /\ tool = [t \in Tools |-> NoPlan]
    /\ rule = [per_tx_limit |-> TopLimit, daily_limit |-> TopLimit] /\ armed = FALSE
    /\ aliases = {} /\ file = {}
    /\ ledger = [r \in SignerRole |-> <<>>] /\ network = {}

-----------------------------------------------------------------------------
(* The plans.                                                              *)

\* A direct or guarded payment: what the executor may send unattended it signs itself.
buildPay == { <<RawStep("payment", "owner")>>, <<RawStep("pay", "owner")>>,
              <<RawStep("pay_executor", "executor")>> }

buildSchedule == { <<RawStep("create_schedule", "owner")>> }
buildCancel   == { <<RawStep("cancel_schedule", "owner")>> }

buildAliasAdd    == { <<[RawStep("set_alias", "owner")    EXCEPT !.name = n]>> : n \in Names }
buildAliasRemove == { <<[RawStep("remove_alias", "owner") EXCEPT !.name = n]>> : n \in Names }

\* Refused when the owner is armed already: then there is no plan.
buildEnableAuto ==
    { <<RawStep("approve", "owner"), [RawStep("set_rule", "owner") EXCEPT !.rule = r],
        RawStep("set_executor", "owner")>> : r \in IF armed THEN {} ELSE Rules }

\* The executor first; with --revoke-allowance the allowance after it.
buildDisableAuto ==
    { <<RawStep("revoke_executor", "owner")>>,
      <<RawStep("revoke_executor", "owner"), RawStep("approve", "owner")>> }

Loosens(from, to) == to.per_tx_limit > from.per_tx_limit \/ to.daily_limit > from.daily_limit

\* What is not given is copied from the rule just read; a loosening is refused, and for
\* the rule there is already nothing is to be signed.
buildTighten ==
    { IF r = rule THEN <<>> ELSE <<[RawStep("set_rule", "owner") EXCEPT !.rule = r]>> :
        r \in { x \in Rules : ~Loosens(rule, x)
                              /\ (x.per_tx_limit = rule.per_tx_limit
                                  \/ x.daily_limit = rule.daily_limit) } }

buildPlan(command) ==
    CASE command = "pay"          -> buildPay
      [] command = "schedule"     -> buildSchedule
      [] command = "cancel"       -> buildCancel
      [] command = "alias-add"    -> buildAliasAdd
      [] command = "alias-remove" -> buildAliasRemove
      [] command = "enable-auto"  -> buildEnableAuto
      [] command = "disable-auto" -> buildDisableAuto
      [] command = "tighten"      -> buildTighten
      [] OTHER                    -> {}

\* Commands that only read, or start the keeper, which has its own module.
readsOnly  == {"rule", "list"}
runsKeeper == {"keeper-once", "keeper-watch"}
TOOL_SPEC  == readsOnly \cup runsKeeper
              \cup {"pay", "schedule", "cancel", "alias-add", "alias-remove", "enable-auto",
                    "disable-auto", "tighten"}

-----------------------------------------------------------------------------
(* An invocation.                                                          *)

Goes(t, at) == tool' = [tool EXCEPT ![t].at = at]
Ends(t, code) ==
    tool' = [tool EXCEPT ![t] = [NoPlan EXCEPT !.at = "over", !.code = code,
                                               !.command = tool[t].command]]

StateKept == UNCHANGED <<rule, armed, aliases, file, ledger, network>>

\* The codes an invocation may end with before it began.  A flag or command that is not
\* known, a flag twice or without its value: 2.  Help, or no --live: nothing but text.
\* Endpoints that are not testnet's, no guard: 1.  No asset in the keys file: 1.
parseCommandLine == {0, 2}
loadLiveConfig   == {1}
createToolChain  == {1}

Starts(t, command) ==
    /\ tool[t].at = "idle" /\ command \in TOOL_SPEC /\ StateKept
    /\ tool' = [tool EXCEPT ![t].command = command,
                            ![t].at = CASE command \in readsOnly  -> "reads"
                                        [] command \in runsKeeper -> "child"
                                        [] OTHER                  -> "build"]

StopsBeforeIt(t) ==
    /\ tool[t].at = "idle" /\ StateKept
    /\ \E code \in parseCommandLine \cup loadLiveConfig \cup createToolChain : Ends(t, code)

\* The read-outs of rule and list.
Reads(t) ==
    /\ tool[t].at = "reads" /\ StateKept
    /\ \E code \in {0, 1} : Ends(t, code)

\* The keeper's process, asked to stop when its time is over and killed a little later.
runKeeperChild(t) ==
    /\ tool[t].at = "child" /\ StateKept
    /\ \E code \in {0, 1} : Ends(t, code)

\* The chain has been read; an empty plan is no change.
Builds(t) ==
    /\ tool[t].at = "build" /\ StateKept
    /\ \E steps \in buildPlan(tool[t].command) :
           IF steps = <<>> THEN Ends(t, 0)
           ELSE tool' = [tool EXCEPT ![t].at = "finalize", ![t].steps = steps]

\* A flag that is missing or malformed, a name not in the book, a refusal of the builder,
\* a read that failed or took longer than it may, or the deadline of the whole command.
FailsBefore(t) ==
    /\ tool[t].at \in {"build", "finalize"} /\ StateKept
    /\ \E code \in {1, 2} : (code = 2 => tool[t].at = "build") /\ Ends(t, code)

RoleOf(t) == tool[t].steps[1].role     \* every plan is of one role

\* finalize: the account's sequence number, after which the steps are numbered and the
\* card with their hashes is shown.
finalize(t) ==
    /\ tool[t].at = "finalize" /\ StateKept
    /\ tool' = [tool EXCEPT ![t].at = "card", ![t].base = Len(ledger[RoleOf(t)])]

\* y or yes, or --yes.
Approves(t) == tool[t].at = "card" /\ Goes(t, "submit") /\ StateKept

\* Anything else, the end of the input, or two minutes without an answer.
Declines(t) == tool[t].at = "card" /\ Ends(t, 0) /\ StateKept

\* setSequence: what the card was shown with, the only thing signExact lets through.
SequenceOf(t) == tool[t].base + tool[t].step

Tx(t) == [tool |-> t, step |-> tool[t].step, of |-> tool[t].steps[tool[t].step],
          seq  |-> SequenceOf(t)]

\* Handed to the network; the answer may say so, refuse it (a later error is its own
\* action), or not come in time.
Sends(t) ==
    /\ tool[t].at = "submit"
    /\ network' = network \cup {Tx(t)}
    /\ Goes(t, "poll") /\ UNCHANGED <<rule, armed, aliases, file, ledger>>

\* The deadline has passed, the signer refuses, or the node refuses it on the spot.
FailsAtSubmit(t) == tool[t].at = "submit" /\ Ends(t, 1) /\ StateKept

Landed(t) == { i \in 1 .. Len(ledger[RoleOf(t)]) :
                   /\ ledger[RoleOf(t)][i].tool = t
                   /\ ledger[RoleOf(t)][i].step = tool[t].step }

\* Faulty variant: a transaction that failed on chain is taken for a step that is done.
StepEndsCarelessly(t, ok) ==
    IF tool[t].step = Len(tool[t].steps)
    THEN Goes(t, "verify")
    ELSE tool' = [tool EXCEPT ![t].at = "submit", ![t].step = @ + 1]

\* executePlan: the next step after one that succeeded; otherwise this was the last.
StepEnds(t, ok) ==
    CASE ~ok -> Ends(t, 1)
      [] ok /\ tool[t].step = Len(tool[t].steps) -> Goes(t, "verify")
      [] OTHER -> tool' = [tool EXCEPT ![t].at = "submit", ![t].step = @ + 1]

\* getTransaction, or the answer of Horizon, has the result.
Hears(t) ==
    /\ tool[t].at = "poll" /\ StateKept
    /\ \E i \in Landed(t) : StepEnds(t, ledger[RoleOf(t)][i].ok)

\* Faulty variant: as long as the transaction may land the poll goes on.
GivesUpOnlyWhenGone(t) ==
    /\ tool[t].at = "poll" /\ \A tx \in network : tx.tool # t
    /\ Landed(t) = {} /\ StateKept /\ StepEnds(t, FALSE)

\* A call that took too long, the minute of waiting or the deadline: reported as FAILED,
\* though it may land later.
GivesUp(t) == tool[t].at = "poll" /\ StateKept /\ StepEnds(t, FALSE)

\* The built-in name is in every book; a file that does not parse counts as empty.
loadToolAliases == file

\* verify: reads back; the alias commands then write the local file, which is read anew.
Verifies(t) ==
    /\ tool[t].at = "verify" /\ StateKept
    /\ IF tool[t].command \in {"alias-add", "alias-remove"}
       THEN tool' = [tool EXCEPT ![t].at = "save", ![t].book = loadToolAliases]
       ELSE Ends(t, 0)

VerifyFails(t) == tool[t].at = "verify" /\ Ends(t, 1) /\ StateKept

saveToolAliases(t) ==
    LET name == tool[t].steps[1].name IN
    /\ tool[t].at = "save" /\ Ends(t, 0)
    /\ file' = IF tool[t].command = "alias-add" THEN tool[t].book \cup {name}
                                                ELSE tool[t].book \ {name}
    /\ UNCHANGED <<rule, armed, aliases, ledger, network>>

\* Interrupted at the keyboard.
Interrupted(t) == tool[t].at \notin {"idle", "over"} /\ Ends(t, 1) /\ StateKept

-----------------------------------------------------------------------------
(* The network.                                                            *)

Changes(step, ok) ==
    /\ rule'    = IF ok /\ step.kind = "set_rule" THEN step.rule ELSE rule
    /\ armed'   = IF ~ok THEN armed
                  ELSE CASE step.kind = "set_executor"    -> TRUE
                         [] step.kind = "revoke_executor" -> FALSE
                         [] OTHER                         -> armed
    /\ aliases' = IF ~ok THEN aliases
                  ELSE CASE step.kind = "set_alias"    -> aliases \cup {step.name}
                         [] step.kind = "remove_alias" -> aliases \ {step.name}
                         [] OTHER                      -> aliases

\* Only the next sequence number is taken; what the contract refuses uses it up.
Lands(tx) ==
    /\ tx \in network /\ tx.seq = Len(ledger[tx.of.role]) + 1
    /\ \E ok \in BOOLEAN :
           /\ ledger' = [ledger EXCEPT ![tx.of.role] =
                             Append(@, [tool |-> tx.tool, step |-> tx.step, ok |-> ok])]
           /\ Changes(tx.of, ok)
    /\ network' = network \ {tx} /\ UNCHANGED <<tool, file>>

\* Its sequence number was used, or its time is over.
Vanishes(tx) ==
    /\ tx \in network /\ network' = network \ {tx}
    /\ UNCHANGED <<tool, rule, armed, aliases, file, ledger>>

Others == Cardinality({ i \in 1 .. Len(ledger["owner"]) : ledger["owner"][i] = Foreign })

\* The application, or a script, with the same owner.
LandsElsewhere ==
    /\ Others < MaxOthers
    /\ ledger' = [ledger EXCEPT !["owner"] = Append(@, Foreign)]
    /\ UNCHANGED <<tool, rule, armed, aliases, file, network>>

-----------------------------------------------------------------------------
\* What an invocation does of itself or by one of its time limits.
Proceeds(t) ==
    \/ Reads(t) \/ runKeeperChild(t) \/ Builds(t) \/ FailsBefore(t) \/ finalize(t)
    \/ Approves(t) \/ Declines(t)
    \/ Sends(t) \/ FailsAtSubmit(t) \/ Hears(t) \/ GivesUp(t)
    \/ Verifies(t) \/ VerifyFails(t) \/ saveToolAliases(t)

ToolNext ==
    \/ \E t \in Tools :
           \/ Proceeds(t) \/ Interrupted(t) \/ StopsBeforeIt(t)
           \/ \E c \in Commands : Starts(t, c)
    \/ \E tx \in network : Lands(tx) \/ Vanishes(tx)
    \/ LandsElsewhere

ToolSpec == ToolInit /\ [][ToolNext]_toolVars

\* Every await of an invocation ends: calls are answered, fail or reach their limit.
ToolFairSpec == ToolSpec /\ \A t \in Tools : WF_toolVars(Proceeds(t))

-----------------------------------------------------------------------------
\* What landed of a plan is its beginning, in the order of the card, with nothing else of
\* the account in between, and each step after the first only upon one that succeeded:
\* so an executor is armed only under the rule its card showed (tool.ts:392-424, 463-482).
PlanLandsAsShown ==
    \A role \in SignerRole : \A i \in 1 .. Len(ledger[role]) :
        LET this == ledger[role][i] IN
        this.tool \in Tools /\ this.step > 1 =>
            i > 1 /\ ledger[role][i - 1] = [tool |-> this.tool, step |-> this.step - 1, ok |-> TRUE]

\* An invocation comes to its end whatever the network does (timeout.ts:1-15).
ToolEnds == \A t \in Tools : tool[t].at = "build" ~> tool[t].at = "over"

=============================================================================
