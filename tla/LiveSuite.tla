----------------------------- MODULE LiveSuite ------------------------------
(***************************************************************************)
(* Provisioning the throwaway testnet environment and running the suite of *)
(* live scenarios in it (stellar/src/live: setup, keys, friendbot, assets, *)
(* run, e2e, status).                                                      *)
(*                                                                         *)
(* The setup does what is missing, step by step, and notes the asset in    *)
(* the keys file last.  The suite runs S0 to S11 one after the other; each *)
(* signs its transactions with the sequence number of the moment, then     *)
(* asserts what the chain says, and a scenario that fails is noted and the *)
(* next one run.  Commands are given one after the other and may be        *)
(* interrupted.  Amounts are in units of 5 tokens, those of the code.  The *)
(* network is external; the guard is the part of PolarisGuard the suite    *)
(* can tell.                                                               *)
(***************************************************************************)
EXTENDS Naturals, FiniteSets, Sequences

CONSTANTS MaxFaults,     \* calls that fail, interruptions and changes of day
          MaxRuns        \* commands given

VARIABLES
    keysFile,  \* the keys file: which keys, and whether the asset is noted
    liveSetup, \* the setup: its step, and what it means to mint
    suite,     \* the suite: scenario, transaction within it, results so far
    chain,     \* the accounts of the current keys
    unheard,   \* owner transactions whose fate nobody heard of
    faults, given

suiteVars == <<keysFile, liveSetup, suite, chain, unheard, faults, given>>

OWNER_TARGET_RAW == 2000
allowanceRaw     == 1000
NoRule       == [auto_approve_limit |-> 0, per_tx_limit |-> 0,   daily_limit |-> 0]
baselineRule == [auto_approve_limit |-> 0, per_tx_limit |-> 100, daily_limit |-> 400]
autoRule     == [baselineRule EXCEPT !.auto_approve_limit = 20]
nextRule     == [baselineRule EXCEPT !.per_tx_limit = 20]

\* Accounts nobody has used.
NewAccounts ==
    [funded |-> FALSE, trust |-> {}, sac |-> FALSE, owner |-> 0, recipient |-> 0,
     sequence |-> 0, issued |-> 0, rule |-> NoRule, executor |-> FALSE, alias |-> FALSE,
     allowance |-> 0, spent |-> 0, schedules |-> {}, nextId |-> 1]

NoSetup == [at |-> "idle", mint |-> 0]
NoSuite == [at |-> "idle", scenario |-> 0, tx |-> 1, before |-> 0, id |-> 0, passed |-> {}]

SuiteInit ==
    /\ keysFile = [of |-> 0, asset |-> FALSE]
    /\ liveSetup = NoSetup /\ suite = NoSuite
    /\ chain = NewAccounts /\ unheard = {} /\ faults = 0 /\ given = 0

Spoils == faults < MaxFaults /\ faults' = faults + 1

-----------------------------------------------------------------------------
(* e2e:setup.                                                                  *)

\* With --reset, after the confirmation, new keys; else those of the file.
setupStarts(reset) ==
    /\ liveSetup.at = "idle" /\ suite.at = "idle" /\ given < MaxRuns
    /\ keysFile' = IF reset \/ keysFile.of = 0
                   THEN [of |-> keysFile.of + 1, asset |-> FALSE] ELSE keysFile
    /\ IF reset THEN chain' = NewAccounts /\ unheard' = {} ELSE UNCHANGED <<chain, unheard>>
    /\ liveSetup' = [NoSetup EXCEPT !.at = "fund"] /\ given' = given + 1
    /\ UNCHANGED <<suite, faults>>

SetupGoes(at) == liveSetup' = [liveSetup EXCEPT !.at = at]

\* Every role is funded, or was, and Horizon shows the accounts.
fundWithFriendbot ==
    /\ liveSetup.at = "fund" /\ SetupGoes("trust")
    /\ chain' = [chain EXCEPT !.funded = TRUE]
    /\ UNCHANGED <<keysFile, suite, unheard, faults, given>>

\* One trustline after the other, each only where it is missing.
ensureTrustline ==
    /\ liveSetup.at = "trust"
    /\ LET missing == {"owner", "recipient"} \ chain.trust IN
       IF missing = {} THEN SetupGoes("balance") /\ UNCHANGED chain
       ELSE /\ chain' = [chain EXCEPT !.trust = @ \cup
                             {IF "owner" \in missing THEN "owner" ELSE "recipient"}]
            /\ UNCHANGED liveSetup
    /\ UNCHANGED <<keysFile, suite, unheard, faults, given>>

getAssetBalance ==
    /\ liveSetup.at = "balance"
    /\ liveSetup' = [at |-> IF chain.owner < OWNER_TARGET_RAW THEN "mint" ELSE "sac",
                 mint |-> IF chain.owner < OWNER_TARGET_RAW
                          THEN OWNER_TARGET_RAW - chain.owner ELSE 0]
    /\ UNCHANGED <<keysFile, suite, chain, unheard, faults, given>>

\* The issuer's account is read and the payment sent with its next number; when no
\* answer came it may land yet.
Mint == [kind |-> "mint", amount |-> liveSetup.mint, seq |-> chain.issued + 1, rule |-> NoRule]
issueAsset(heard) ==
    /\ liveSetup.at = "mint"
    /\ IF heard
       THEN /\ chain' = [chain EXCEPT !.owner = @ + liveSetup.mint, !.issued = @ + 1]
            /\ liveSetup' = [at |-> "sac", mint |-> 0] /\ UNCHANGED <<unheard, faults>>
       ELSE /\ Spoils /\ unheard' = unheard \cup {Mint}
            /\ liveSetup' = NoSetup /\ UNCHANGED chain
    /\ UNCHANGED <<keysFile, suite, given>>

\* Deployed by the owner unless a read of it succeeds.
ensureSac ==
    /\ liveSetup.at = "sac" /\ SetupGoes("record")
    /\ chain' = IF chain.sac THEN chain ELSE [chain EXCEPT !.sac = TRUE, !.sequence = @ + 1]
    /\ UNCHANGED <<keysFile, suite, unheard, faults, given>>

\* writeKeys: a file of its own, renamed over the old one.
recordsAsset ==
    /\ liveSetup.at = "record" /\ keysFile' = [keysFile EXCEPT !.asset = TRUE] /\ liveSetup' = NoSetup
    /\ UNCHANGED <<suite, chain, unheard, faults, given>>

\* A call fails for good, or the user interrupts.
setupFails ==
    /\ liveSetup.at # "idle" /\ Spoils /\ liveSetup' = NoSetup
    /\ UNCHANGED <<keysFile, suite, chain, unheard, given>>

-----------------------------------------------------------------------------
(* The guard and the token, as far as the suite uses them.                 *)

RefusalOwner(amount) ==
    IF amount > chain.rule.per_tx_limit THEN "OverPerTxLimit"
    ELSE IF chain.spent + amount > chain.rule.daily_limit THEN "OverDailyLimit"
    ELSE IF amount > chain.allowance \/ amount > chain.owner THEN "Token"
    ELSE "none"

RefusalExecutor(amount) ==
    IF ~chain.executor THEN "NoExecutor"
    ELSE IF RefusalOwner(amount) # "none" THEN RefusalOwner(amount)
    ELSE IF amount > chain.rule.auto_approve_limit THEN "NeedsOwnerApproval"
    ELSE "none"

Pays(c, amount) ==
    [c EXCEPT !.owner = @ - amount, !.recipient = @ + amount,
              !.allowance = @ - amount, !.spent = @ + amount]

T(kind, amount) == [kind |-> kind, amount |-> amount, rule |-> NoRule]
SetRule(r)      == [kind |-> "set_rule", amount |-> 0, rule |-> r]

RefusedTx(tx) ==
    CASE tx.kind = "pay_owner"    -> RefusalOwner(tx.amount) # "none"
      [] tx.kind = "pay_executor" -> RefusalExecutor(tx.amount) # "none"
      [] tx.kind = "payment"      -> tx.amount > chain.owner
      [] OTHER                    -> FALSE

\* The chain after a transaction, its source's sequence number included.
After(tx) ==
    LET c == IF tx.kind \in {"pay_executor", "mint"} THEN chain
             ELSE [chain EXCEPT !.sequence = @ + 1] IN
    CASE tx.kind = "mint"            -> [c EXCEPT !.owner = @ + tx.amount, !.issued = @ + 1]
      [] tx.kind = "approve"         -> [c EXCEPT !.allowance = allowanceRaw]
      [] tx.kind = "set_rule"        -> [c EXCEPT !.rule = tx.rule]
      [] tx.kind = "set_alias"       -> [c EXCEPT !.alias = TRUE]
      [] tx.kind = "set_executor"    -> [c EXCEPT !.executor = TRUE]
      [] tx.kind = "revoke_executor" -> [c EXCEPT !.executor = FALSE]
      [] tx.kind = "payment"         -> [c EXCEPT !.owner = @ - tx.amount,
                                                  !.recipient = @ + tx.amount]
      [] tx.kind = "create"          -> [c EXCEPT !.nextId = @ + 1, !.schedules = @ \cup
                                           {[id |-> c.nextId, amount |-> tx.amount,
                                             due |-> tx.amount = 4]}]
      [] tx.kind = "cancel"          -> [c EXCEPT !.schedules = { s \in @ : s.id # suite.id }]
      [] OTHER                       -> Pays(c, tx.amount)

-----------------------------------------------------------------------------
(* The scenarios.                                                          *)

\* runScenarios: what each signs, with nothing of its own in S0, S5 and S11.
Transactions ==
    << <<>>,
       << T("approve", 0), SetRule(baselineRule) >>,
       << T("set_alias", 0) >>,
       << T("payment", 5) >>,
       << T("pay_owner", 8) >>,
       <<>>,
       << T("approve", 0), SetRule(autoRule), T("set_executor", 0) >>,
       << T("pay_executor", 6), T("pay_owner", 30) >>,
       << T("create", 4) >>,
       << T("create", 1), T("cancel", 0) >>,
       << T("revoke_executor", 0), SetRule(nextRule) >>,
       <<>> >>

TransactionsOf(s) == Transactions[s + 1]

\* Before anything is signed: enabling is refused to whom is armed; the rule S10 sets
\* must be a tightening; the tool routes a payment to the executor up to the threshold.
Begins(s) ==
    CASE s = 6  -> ~(chain.executor /\ chain.rule.auto_approve_limit > 0)
      [] s = 7  -> chain.executor /\ chain.rule.auto_approve_limit \in 6 .. 29
      [] s = 10 -> /\ chain.rule.auto_approve_limit > 0 \/ chain.rule.per_tx_limit > 20
                   /\ chain.rule.per_tx_limit >= 20 /\ chain.rule.daily_limit >= 400
      [] OTHER  -> TRUE

\* The assertions at the end of each.
Delta == chain.recipient - suite.before
Inactive == \A x \in chain.schedules : x.id # suite.id

S0  == chain.owner = OWNER_TARGET_RAW /\ chain.sac
S1  == chain.rule = baselineRule /\ chain.allowance = allowanceRaw /\ ~chain.executor
S2  == chain.alias
S3  == Delta = 5
S4  == Delta = 8 /\ chain.spent = 8
S5  == RefusalOwner(120) = "OverPerTxLimit"
S6  == chain.executor /\ chain.rule.auto_approve_limit > 0
S7  == Delta = 36 /\ RefusalExecutor(30) = "NeedsOwnerApproval"
S8  == Delta = 4 /\ Inactive
S9  == Inactive
S10 == /\ RefusalExecutor(2) = "NoExecutor"
       /\ chain.rule.per_tx_limit = 20 /\ RefusalOwner(40) = "OverPerTxLimit"
S11 == chain.allowance < 20 * 60

Asserts(s) == << S0, S1, S2, S3, S4, S5, S6, S7, S8, S9, S10, S11 >>[s + 1]

\* e2e:run needs the asset record.
suiteStarts ==
    /\ suite.at = "idle" /\ liveSetup.at = "idle" /\ given < MaxRuns /\ keysFile.asset
    /\ suite' = [NoSuite EXCEPT !.at = "begin"] /\ given' = given + 1
    /\ UNCHANGED <<keysFile, liveSetup, chain, unheard, faults>>

\* Faulty variant: a scenario that came to its end counts, however it ended.
RecordsRegardless(pass) ==
    suite' = [NoSuite EXCEPT
                !.passed   = suite.passed \cup {suite.scenario},
                !.scenario = IF suite.scenario < 11 THEN suite.scenario + 1 ELSE 11,
                !.at       = IF suite.scenario < 11 THEN "begin" ELSE "over"]

\* Recorder.run: the verdict, and on to the next scenario; after the last the results
\* are written and stay.
Records(pass) ==
    suite' = [NoSuite EXCEPT
                !.passed   = IF pass THEN suite.passed \cup {suite.scenario} ELSE suite.passed,
                !.scenario = IF suite.scenario < 11 THEN suite.scenario + 1 ELSE 11,
                !.at       = IF suite.scenario < 11 THEN "begin" ELSE "over"]

\* Balances are read before.
ScenarioBegins ==
    /\ suite.at = "begin"
    /\ IF ~Begins(suite.scenario) THEN Records(FALSE)
       ELSE suite' = [suite EXCEPT !.before = chain.recipient,
                                   !.at = IF TransactionsOf(suite.scenario) = <<>>
                                          THEN "assert" ELSE "sign"]
    /\ UNCHANGED <<keysFile, liveSetup, chain, unheard, faults, given>>

CurrentTx == TransactionsOf(suite.scenario)[suite.tx]

\* cancelSchedule by recipient: refused when several of the owner's pay it.
CancelsAnother == CurrentTx.kind = "cancel" /\ { s.id : s \in chain.schedules } # {suite.id}

NextTx ==
    [suite EXCEPT !.tx = @ + 1,
                  !.id = IF CurrentTx.kind = "create" THEN chain.nextId ELSE @,
                  !.at = IF suite.tx < Len(TransactionsOf(suite.scenario)) THEN "sign"
                         ELSE IF suite.scenario = 8 THEN "keeper" ELSE "assert"]

\* signAndSubmitSoroban: numbered when it is signed; anything but SUCCESS ends the
\* scenario, also an answer that did not come, after which it may land yet.
signAndSubmit(heard) ==
    /\ suite.at = "sign"
    /\ IF RefusedTx(CurrentTx) \/ CancelsAnother
       THEN heard /\ Records(FALSE) /\ UNCHANGED <<chain, unheard, faults>>
       ELSE IF heard
       THEN suite' = NextTx /\ chain' = After(CurrentTx) /\ UNCHANGED <<unheard, faults>>
       ELSE /\ Spoils /\ Records(FALSE) /\ UNCHANGED chain
            /\ unheard' = IF CurrentTx.kind = "pay_executor" THEN unheard
                          ELSE unheard \cup {[kind |-> CurrentTx.kind, amount |-> CurrentTx.amount,
                                              seq |-> chain.sequence + 1, rule |-> CurrentTx.rule]}
    /\ UNCHANGED <<keysFile, liveSetup, given>>

Due == { s \in chain.schedules : s.due }
Runs(s) == [Pays(chain, s.amount) EXCEPT !.schedules = @ \ {s}]

\* runKeeperUntil: the keeper's process runs what is due until the scenario's schedule
\* was, and is stopped.
runKeeperUntil ==
    /\ suite.at = "keeper"
    /\ \E s \in Due :
           /\ chain' = Runs(s)
           /\ suite' = IF s.id = suite.id THEN [suite EXCEPT !.at = "assert"] ELSE suite
    /\ UNCHANGED <<keysFile, liveSetup, unheard, faults, given>>

\* It was not within three minutes.
keeperTimesOut ==
    /\ suite.at = "keeper" /\ Spoils /\ Records(FALSE)
    /\ UNCHANGED <<keysFile, liveSetup, chain, unheard, given>>

Assert ==
    /\ suite.at = "assert" /\ Records(Asserts(suite.scenario))
    /\ UNCHANGED <<keysFile, liveSetup, chain, unheard, faults, given>>

\* The results file is written; the next command may be given.
Ends == /\ suite.at = "over" /\ suite' = NoSuite
        /\ UNCHANGED <<keysFile, liveSetup, chain, unheard, faults, given>>

Interrupted == /\ suite.at \notin {"idle", "over"} /\ Spoils /\ suite' = NoSuite
               /\ UNCHANGED <<keysFile, liveSetup, chain, unheard, given>>

-----------------------------------------------------------------------------
(* The network and the calendar.                                           *)

LandsLate(tx) ==
    /\ unheard' = unheard \ {tx}
    /\ chain' = IF /\ tx.seq = 1 + IF tx.kind = "mint" THEN chain.issued ELSE chain.sequence
                   /\ ~RefusedTx(tx)
                THEN After(tx) ELSE chain
    /\ UNCHANGED <<keysFile, liveSetup, suite, faults, given>>

NextDay == /\ Spoils /\ chain.spent > 0 /\ chain' = [chain EXCEPT !.spent = 0]
           /\ UNCHANGED <<keysFile, liveSetup, suite, unheard, given>>

SuiteNext ==
    \/ \E reset \in BOOLEAN : setupStarts(reset)
    \/ fundWithFriendbot \/ ensureTrustline \/ getAssetBalance \/ ensureSac \/ recordsAsset
    \/ \E heard \in BOOLEAN : issueAsset(heard) \/ signAndSubmit(heard)
    \/ setupFails \/ suiteStarts \/ ScenarioBegins \/ runKeeperUntil \/ keeperTimesOut \/ Assert
    \/ Ends \/ Interrupted \/ NextDay
    \/ \E tx \in unheard : LandsLate(tx)

SuiteSpec == SuiteInit /\ [][SuiteNext]_suiteVars

-----------------------------------------------------------------------------
\* The asset is in the keys file only when everything of it exists for the accounts of
\* those keys, whatever was interrupted or begun anew (setup.ts:76-115, keys.ts:131-155).
RecordMeansReady ==
    keysFile.asset =>
        chain.funded /\ chain.trust = {"owner", "recipient"} /\ chain.sac /\ chain.issued > 0

\* The scenarios and the guard agree: on new accounts, with no call failing and the day
\* not changing, every scenario passes (run.ts:158-467).
FreshSuitePasses == suite.at = "over" /\ faults = 0 /\ given = 2 => suite.passed = 0 .. 11

\* A suite that passed whole leaves no executor, the tightened rule and no schedule that
\* anyone could run, whatever earlier runs left behind or lands late (run.ts:345-444).
PassLeavesNothingArmed ==
    suite.at = "over" /\ suite.passed = 0 .. 11 =>
        ~chain.executor /\ chain.rule = nextRule /\ chain.schedules = {}

\* The three together: the record of the set-up tells what there is, and a pass of the
\* suite means what it says (run.ts, setup.ts, keys.ts).
SuiteTellsTheTruth == RecordMeansReady /\ FreshSuitePasses /\ PassLeavesNothingArmed

=============================================================================
