----------------------------- MODULE GuardSetup -----------------------------
(***************************************************************************)
(* Turning automatic payments on and off, and deciding who signs           *)
(* (app/src/lib: autopay, autopayLive, autopayWiring, guardState,          *)
(* guardStateLive; stellar's approval and guard packages).                 *)
(*                                                                         *)
(* A proposal becomes a list of owner transactions built from one read of  *)
(* the guard, numbered from one read of the account, approved by one Touch *)
(* ID and submitted one after the other.  Several proposals, spoken or     *)
(* from the rules page, may be under way, and other transactions of the    *)
(* owner come in between.  A transaction handed over may land after its    *)
(* sender gave up on it.                                                   *)
(***************************************************************************)
EXTENDS Naturals, Sequences, FiniteSets

CONSTANTS Setups,        \* proposals that are carried out
          Proposals,     \* [mode, limit, perTx, daily, known]; 0 for a limit left out
          Contacts,      \* saved contacts
          Largest,       \* amounts that are routed: 0 .. Largest
          MaxOther,      \* other transactions of the owner
          NotSet         \* no rule, no key

DEFAULT_PER_TX_MULTIPLIER == 2
DEFAULT_DAILY_MULTIPLIER  == 10

VARIABLES
    guardOf,     \* the owner's rule, agent, allowance and alias book on chain
    sequence,    \* the owner's sequence number on chain, and what others used of it
    agentKey,    \* whether this computer has an agent key
    setup,       \* of each proposal: how far it is
    afloat       \* transactions handed over that may still land

setupVars == <<guardOf, sequence, agentKey, setup, afloat>>

-----------------------------------------------------------------------------
(* Rules and what they allow.                                               *)

Rule(auto, perTx, daily, known) ==
    [auto_approve_limit |-> auto, per_tx_limit |-> perTx, daily_limit |-> daily,
     known_recipients_only |-> known]

Unless0(n, default) == IF n = 0 THEN default ELSE n

\* The limits a proposal asks for, with the defaults for those it leaves out.
PlanLimits(p) ==
    Rule(p.limit, Unless0(p.perTx, p.limit * DEFAULT_PER_TX_MULTIPLIER),
         Unless0(p.daily, p.limit * DEFAULT_DAILY_MULTIPLIER), p.known)

\* fieldsFromPlan: a week of the daily limit.
AllowanceFor(r) == r.daily_limit * 7

\* Strictly positive, in order, and covered by the allowance.
validateRuleAndAllowance(r, allowance) ==
    /\ r.per_tx_limit > 0 /\ r.daily_limit > 0 /\ allowance > 0
    /\ r.auto_approve_limit <= r.per_tx_limit /\ r.per_tx_limit <= r.daily_limit
    /\ allowance >= r.daily_limit

\* A draft names the agent's key too.
makeAutoPayDraft(r, executor) ==
    [executor |-> executor, rule |-> r, allowance |-> AllowanceFor(r)]

validateAutoPayDraft(draft) ==
    draft.executor # NotSet /\ validateRuleAndAllowance(draft.rule, draft.allowance)

validateLimits(r, executor) == validateAutoPayDraft(makeAutoPayDraft(r, executor))

\* A change of the rule alone leaves the allowance out of it.
validateRuleFields(r) == validateRuleAndAllowance(r, r.daily_limit)

profileFromChain(rule, executor) ==
    IF rule = NotSet \/ executor = NotSet THEN "always_ask"
    ELSE IF rule.auto_approve_limit = 0 THEN "always_ask" ELSE "auto_under_limit"

isArmed(state) == profileFromChain(state.rule, state.executor) = "auto_under_limit"

Limits == {"auto_approve_limit", "per_tx_limit", "daily_limit"}

classifyChange(current, next) ==
    LET loosened  == \/ \E l \in Limits : next[l] > current[l]
                     \/ current.known_recipients_only /\ ~next.known_recipients_only
        tightened == \/ \E l \in Limits : next[l] < current[l]
                     \/ ~current.known_recipients_only /\ next.known_recipients_only
    IN  IF loosened THEN (IF tightened THEN "mixed" ELSE "loosening")
        ELSE IF tightened THEN "tightening" ELSE "same"

-----------------------------------------------------------------------------
(* Who signs a payment: the webview's answer, the package's, the contract's. *)

decideAutoPayRoute(state, spent, amount, known) ==
    IF /\ amount > 0 /\ isArmed(state)
       /\ amount <= state.rule.per_tx_limit /\ amount <= state.rule.auto_approve_limit
       /\ (state.rule.known_recipients_only => known)
       /\ spent + amount <= state.rule.daily_limit
    THEN "auto" ELSE "owner"

\* The payments package: a rule is there, and it does not look at today's spending.
chooseGuardedRoute(state, amount, known) ==
    IF amount = 0 \/ amount > state.rule.per_tx_limit THEN "refused"
    ELSE IF \/ state.executor = NotSet
            \/ amount > state.rule.auto_approve_limit
            \/ state.rule.known_recipients_only /\ ~known
         THEN "pay_owner" ELSE "pay_executor"

\* An armed profile leaves the choice to the chain; any other asks the owner.
resolveApprovalRoute(profile, chainRoute) ==
    IF profile = "always_ask" THEN "pay_owner" ELSE chainRoute

\* pay_executor of the contract, short of the allowance and the balance.
ContractTakes(state, spent, amount, known) ==
    /\ state.rule # NotSet /\ state.executor # NotSet
    /\ amount > 0 /\ amount <= state.rule.per_tx_limit
    /\ spent + amount <= state.rule.daily_limit
    /\ amount <= state.rule.auto_approve_limit
    /\ (state.rule.known_recipients_only => known)

-----------------------------------------------------------------------------
(* Plans: what the owner is told, and what is built.                        *)

\* buildAutoPayPlan: the kinds of step the proposal is read back as.
PlanKinds(p, known) ==
    IF p.mode = "always_ask" THEN {"revoke_executor"}
    ELSE {"approve", "set_rule", "set_executor"}
         \cup (IF p.known /\ known # {} THEN {"set_alias"} ELSE {})

\* The agent comes last, since it is what arms.
buildEnableAutoPay == <<"approve", "set_rule", "set_executor">>

\* Nothing for the same rule, else the rule alone, looser or not.
buildTightenRule(r, state) ==
    IF classifyChange(state.rule, r) = "same" THEN <<>> ELSE <<"set_rule">>

buildDisableAutoPay(revokeAllowance) ==
    <<"revoke_executor">> \o (IF revokeAllowance THEN <<"approve">> ELSE <<>>)

planSetAliases(known) == [i \in 1 .. Cardinality(known) |-> "set_alias"]

\* The plan for each way there is; an unusable proposal has none.
planEnable(r, executor) == [ok |-> validateLimits(r, executor), steps |-> buildEnableAutoPay]
planTighten(r, state)   == [ok |-> validateRuleFields(r), steps |-> buildTightenRule(r, state)]
planDisable(revokeAllowance) == [ok |-> TRUE, steps |-> buildDisableAutoPay(revokeAllowance)]

\* Faulty variant: turning off takes the allowance away as well.
buildSetupStepsRevokingAll(p, state, known) ==
    IF p.mode = "always_ask" THEN planDisable(TRUE)
    ELSE LET built == IF isArmed(state) THEN planTighten(PlanLimits(p), state)
                      ELSE planEnable(PlanLimits(p), "agent")
         IN  [ok    |-> p.limit > 0 /\ built.ok,
              steps |-> built.steps \o (IF p.known THEN planSetAliases(known) ELSE <<>>)]

\* Off, or a change of what is armed, or on; then the saved contacts.
buildSetupSteps(p, state, known) ==
    IF p.mode = "always_ask" THEN planDisable(FALSE)
    ELSE LET built == IF isArmed(state) THEN planTighten(PlanLimits(p), state)
                      ELSE planEnable(PlanLimits(p), "agent")
         IN  [ok    |-> p.limit > 0 /\ built.ok,
              steps |-> built.steps \o (IF p.known THEN planSetAliases(known) ELSE <<>>)]

-----------------------------------------------------------------------------

NoPlan == [at |-> "idle", ask |-> NotSet, steps |-> <<>>, told |-> {},
           base |-> 0, next |-> 1, consented |-> FALSE]

NoOne == [rule |-> NotSet, executor |-> NotSet, allowance |-> 0, book |-> 0,
          ruleBy |-> NotSet, armedBy |-> NotSet, fundedBy |-> NotSet]

SetupInit ==
    /\ guardOf = NoOne /\ sequence = [last |-> 0, others |-> 0]
    /\ agentKey = FALSE
    /\ setup = [s \in Setups |-> NoPlan]
    /\ afloat = {}

Advances(s, at) == setup' = [setup EXCEPT ![s].at = at]

\* An ended setup keeps nothing but whether it had consent.
Concludes(s, how) ==
    setup' = [setup EXCEPT ![s] = [NoPlan EXCEPT !.at = how,
                                                 !.consented = setup[s].consented]]

\* runGuardPolicySetup and the probe of runAutoPaySetup.
Proposes(s, p) ==
    /\ setup[s].at = "idle"
    /\ setup' = [setup EXCEPT ![s].at = "executor", ![s].ask = p]
    /\ UNCHANGED <<guardOf, sequence, agentKey, afloat>>

\* A build without the commands, or a keychain that refuses.
CannotHoldKeys(s, how) ==
    /\ setup[s].at = "executor" /\ how \in {"unsupported", "failed"}
    /\ Concludes(s, how)
    /\ UNCHANGED <<guardOf, sequence, agentKey, afloat>>

\* executor_status, and executor_create when there is no key.
MakesKey(s) ==
    /\ setup[s].at = "executor"
    /\ agentKey' = TRUE /\ Advances(s, "reading")
    /\ UNCHANGED <<guardOf, sequence, afloat>>

\* loadSecurityState, and the list of contacts, which may fail to nothing.
ReadsGuard(s, known) ==
    /\ setup[s].at = "reading"
    /\ LET p    == setup[s].ask
           plan == buildSetupSteps(p, guardOf, known)
       IN
       IF plan.ok /\ plan.steps # <<>>
       THEN setup' = [setup EXCEPT ![s].at = "numbering", ![s].steps = plan.steps,
                                   ![s].told = PlanKinds(p, known)]
       ELSE Concludes(s, "failed")
    /\ UNCHANGED <<guardOf, sequence, agentKey, afloat>>

\* The guard, the account or the gate does not answer, or the owner says no.
GivesUp(s) ==
    /\ setup[s].at \in {"reading", "numbering", "asking"}
    /\ Concludes(s, "failed")
    /\ UNCHANGED <<guardOf, sequence, agentKey, afloat>>

\* withSequences.
ReadsAccount(s) ==
    /\ setup[s].at = "numbering"
    /\ setup' = [setup EXCEPT ![s].at = "asking", ![s].base = sequence.last]
    /\ UNCHANGED <<guardOf, sequence, agentKey, afloat>>

\* One card and one Touch ID for the whole batch.
Consents(s) ==
    /\ setup[s].at = "asking"
    /\ setup' = [setup EXCEPT ![s].at = "signing", ![s].consented = TRUE]
    /\ UNCHANGED <<guardOf, sequence, agentKey, afloat>>

\* The number a step was given before it was shown.
NumberOf(s) == setup[s].base + setup[s].next

\* signAndSubmitItem hands the next step over ...
HandsStepOver(s) ==
    /\ setup[s].at = "signing"
    /\ afloat' = afloat \cup {[setup |-> s, kind |-> setup[s].steps[setup[s].next],
                               ask |-> setup[s].ask, number |-> NumberOf(s)]}
    /\ Advances(s, "submitted")
    /\ UNCHANGED <<guardOf, sequence, agentKey>>

\* ... or cannot sign it.
CannotSign(s) ==
    /\ setup[s].at = "signing"
    /\ Concludes(s, "failed")
    /\ UNCHANGED <<guardOf, sequence, agentKey, afloat>>

\* A refusal or a deadline: what was handed over may still land.
HearsOfFailure(s) ==
    /\ setup[s].at = "submitted"
    /\ Concludes(s, "failed")
    /\ UNCHANGED <<guardOf, sequence, agentKey, afloat>>

\* A landed step is followed by the next.
HearsOfSuccess(s) ==
    /\ setup[s].at = "landed"
    /\ IF setup[s].next < Len(setup[s].steps)
       THEN setup' = [setup EXCEPT ![s].at = "signing", ![s].next = @ + 1]
       ELSE Concludes(s, "done")
    /\ UNCHANGED <<guardOf, sequence, agentKey, afloat>>

-----------------------------------------------------------------------------
(* The network and the contracts.                                           *)

\* The allowance of the token: none when automatic payments are turned off.
Approved(tx) ==
    [guardOf EXCEPT !.fundedBy = tx.setup,
                    !.allowance = IF tx.ask.mode = "always_ask" THEN 0
                                  ELSE AllowanceFor(PlanLimits(tx.ask))]

\* What a transaction of a setup does to the owner's entries.
Applied(tx) ==
    CASE tx.kind = "approve" -> Approved(tx)
      [] tx.kind = "set_rule" ->
            [guardOf EXCEPT !.rule = PlanLimits(tx.ask), !.ruleBy = tx.setup]
      [] tx.kind = "set_executor" -> [guardOf EXCEPT !.executor = "agent", !.armedBy = tx.setup]
      [] tx.kind = "revoke_executor" -> [guardOf EXCEPT !.executor = NotSet, !.armedBy = NotSet]
      [] OTHER -> [guardOf EXCEPT !.book = 1]

\* A transaction lands when its number is next; whoever still waits hears of it.
TransactionLands(tx) ==
    /\ tx.number = sequence.last + 1
    /\ afloat' = afloat \ {tx}
    /\ sequence' = [sequence EXCEPT !.last = @ + 1]
    /\ guardOf' = Applied(tx)
    /\ setup' = [s \in Setups |->
                    LET heard == IF s = tx.setup /\ setup[s].at = "submitted"
                                 THEN [setup[s] EXCEPT !.at = "landed"] ELSE setup[s]
                    IN  IF tx.kind = "revoke_executor"
                        THEN [heard EXCEPT !.consented = FALSE] ELSE heard]
    /\ UNCHANGED agentKey

\* It may as well be dropped, or be too late for its number.
Sinks(tx) ==
    /\ afloat' = afloat \ {tx}
    /\ UNCHANGED <<guardOf, sequence, agentKey, setup>>

\* Any other transaction of the owner.
OwnerTransacts ==
    /\ sequence.others < MaxOther
    /\ sequence' = [last |-> sequence.last + 1, others |-> sequence.others + 1]
    /\ UNCHANGED <<guardOf, agentKey, setup, afloat>>

SetupStep(s) ==
    \/ \E p \in Proposals : Proposes(s, p)
    \/ \E how \in {"unsupported", "failed"} : CannotHoldKeys(s, how)
    \/ MakesKey(s)
    \/ \E known \in {Contacts, {}} : ReadsGuard(s, known)
    \/ GivesUp(s)
    \/ ReadsAccount(s)
    \/ Consents(s)
    \/ HandsStepOver(s)
    \/ CannotSign(s)
    \/ HearsOfFailure(s)
    \/ HearsOfSuccess(s)

SetupNext ==
    \/ \E s \in Setups : SetupStep(s)
    \/ \E tx \in afloat : TransactionLands(tx) \/ Sinks(tx)
    \/ OwnerTransacts

SetupSpec == SetupInit /\ [][SetupNext]_setupVars

-----------------------------------------------------------------------------

\* Turning automatic payments off undoes every consent given before it landed:
\* an agent that is registered was registered by a setup that the owner agreed
\* to after the last revocation, however late its transactions landed
\* (withSequences; the stop in runAutoPaySetup).
OffMeansOff ==
    guardOf.executor # NotSet => setup[guardOf.armedBy].consented

\* The agent is registered only once the allowance and the rule of the very
\* same setup are in force: "executor LAST (arming)" survives failures,
\* deadlines and other setups in between.
ArmedLast ==
    [][guardOf'.executor # guardOf.executor /\ guardOf'.executor # NotSet
       => guardOf.ruleBy = guardOf'.armedBy /\ guardOf.fundedBy = guardOf'.armedBy]_setupVars

\* Whatever is signed was in the plan that was read back, although the plan and
\* the transactions are derived from the proposal by different code.
SignsNoMoreThanThePlanSays ==
    \A s \in Setups : \A i \in DOMAIN setup[s].steps : setup[s].steps[i] \in setup[s].told

\* The webview's router, the payments package and the contract agree: what the
\* webview sends unattended both others take, and what it leaves to the owner
\* they would have sent unattended only if today's limit is the reason.
RoutesAgree ==
    guardOf.rule # NotSet =>
    \A amount, spent \in 0 .. Largest, known \in BOOLEAN :
        LET route   == decideAutoPayRoute(guardOf, spent, amount, known)
            guarded == resolveApprovalRoute(profileFromChain(guardOf.rule, guardOf.executor),
                                            chooseGuardedRoute(guardOf, amount, known))
        IN  /\ route = "auto" => /\ ContractTakes(guardOf, spent, amount, known)
                                 /\ guarded = "pay_executor"
            /\ guarded = "pay_executor" /\ route = "owner"
               => spent + amount > guardOf.rule.daily_limit

\* The four together: nothing is signed that was not read back, an agent is registered
\* last and does not outlive the consent, and the routers agree (autopay.ts,
\* autopayLive.ts, classify.ts).
SetupKeepsConsent ==
    ArmedLast /\ [](SignsNoMoreThanThePlanSays /\ OffMeansOff /\ RoutesAgree)
=============================================================================
