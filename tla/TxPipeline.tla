----------------------------- MODULE TxPipeline -----------------------------
(***************************************************************************)
(* From an intent or a plan of transactions to the network, in the webview *)
(* (app/src/lib: chain, txPipeline, approver, signing, useTxRun, the       *)
(* unattended send of autopayWiring; agent/src/execution; stellar's        *)
(* sendPayment and submitSignedTx).                                        *)
(*                                                                         *)
(* A voice run executes one intent; a plan run executes several            *)
(* transactions one after the other.  All share the one slot of the        *)
(* approval gate, of which only the part a client sees is here (see        *)
(* ApprovalGate for the rest), and the owner's account with its sequence   *)
(* number.  The gate, the signer and the network are external: a request   *)
(* may be answered or not, and a transaction handed over may land although *)
(* its sender was told of a failure.                                       *)
(***************************************************************************)
EXTENDS Naturals, FiniteSets, Sequences

CONSTANTS Voices, Plans,      \* runs of either kind
          PlanLength,         \* transactions in a plan
          MaxSaves            \* how often the contacts change

Runs     == Voices \cup Plans
Length(r) == IF r \in Plans THEN PlanLength ELSE 1

VARIABLES
    contacts,    \* the version of the saved contacts
    book,        \* the configured alias book: its version, whether it counts, the promise kept
    run,         \* of each run: where it is, which step, its request, its sequence number
    outcomes,    \* of each run: what it reported of its steps
    slot,        \* the gate's request: its id, the run that began it, its state
    account,     \* the owner's next sequence number
    network,     \* transactions handed over that may still land
    landed       \* transactions that landed

pipelineVars == <<contacts, book, run, outcomes, slot, account, network, landed>>

Resting   == [at |-> "idle", step |-> 1, id |-> 0, seq |-> 0]
NoBook    == [version |-> 0, configured |-> FALSE, promise |-> 0]
NoRequest == [id |-> 0, state |-> "none"]

PipelineInit ==
    /\ contacts = 0 /\ book = NoBook
    /\ run = [r \in Runs |-> Resting] /\ outcomes = [r \in Runs |-> <<>>]
    /\ slot = NoRequest
    /\ account = 1 /\ network = {} /\ landed = {}

\* Owner transactions are numbered; those of the agent's key are not ours to number.
Tx(r, via) == [run |-> r, step |-> run[r].step, via |-> via,
               seq |-> IF via = "owner" THEN run[r].seq ELSE 0]

Goes(r, at) == run' = [run EXCEPT ![r].at = at]

\* What is left of a run when it is over.
Ends(r, outcome) ==
    /\ outcomes' = [outcomes EXCEPT ![r] = Append(@, outcome)]
    /\ run' = [run EXCEPT ![r] = [at |-> "over", step |-> @.step, id |-> 0, seq |-> 0]]

\* Faulty variant: the next step follows whatever became of this one.
StepEndsCarelessly(r, outcome) ==
    IF run[r].step < Length(r)
    THEN /\ outcomes' = [outcomes EXCEPT ![r] = Append(@, outcome)]
         /\ run' = [run EXCEPT ![r] = [Resting EXCEPT !.at = "build", !.step = run[r].step + 1]]
    ELSE Ends(r, outcome)

\* runTxSequence: a step that was not submitted is the last one.
StepEnds(r, outcome) ==
    IF outcome = "submitted" /\ run[r].step < Length(r)
    THEN /\ outcomes' = [outcomes EXCEPT ![r] = Append(@, outcome)]
         /\ run' = [run EXCEPT ![r] = [Resting EXCEPT !.at = "build", !.step = run[r].step + 1]]
    ELSE Ends(r, outcome)

-----------------------------------------------------------------------------
(* The start of a run.                                                     *)

\* run() of useTxRun, or executeApprovedIntent: a send is first tried unattended.
Starts(r) ==
    /\ run[r].at = "idle"
    /\ Goes(r, IF r \in Plans THEN "build" ELSE "unattended")
    /\ UNCHANGED <<contacts, book, outcomes, slot, account, network, landed>>

\* tryAutoPaySend up to the signature: not supported, not armed, another asset, outside
\* the mandate, refused by the executor, or an error, and the owner is asked instead.
NotUnattended(r) ==
    /\ run[r].at = "unattended" /\ Goes(r, "configure")
    /\ UNCHANGED <<contacts, book, outcomes, slot, account, network, landed>>

\* The agent's key signed the payment and it is handed over, or is lost on the way.
SendsUnattended(r, arrives) ==
    /\ run[r].at = "unattended" /\ Goes(r, "unattended_sent")
    /\ network' = IF arrives THEN network \cup {Tx(r, "agent")} ELSE network
    /\ UNCHANGED <<contacts, book, outcomes, slot, account, landed>>

UnattendedLanded(r) ==
    /\ run[r].at = "unattended_sent" /\ Tx(r, "agent") \in landed
    /\ Ends(r, "submitted")
    /\ UNCHANGED <<contacts, book, slot, account, network, landed>>

\* Any error of the submission, a timeout too, is answered with null.
UnattendedFails(r) ==
    /\ run[r].at = "unattended_sent" /\ Goes(r, "configure")
    /\ UNCHANGED <<contacts, book, outcomes, slot, account, network, landed>>

-----------------------------------------------------------------------------
(* The configuration of payments, made once and kept.                      *)

\* ensurePaymentsConfigured reads the contacts, unless a promise is kept: it is shared.
\* A promise is named by the contacts it read.
ReadsContacts(r) ==
    LET promise == IF book.promise = 0 THEN contacts + 1 ELSE book.promise
    IN /\ run[r].at = "configure"
       /\ IF book.configured THEN Goes(r, "build") /\ UNCHANGED book
          ELSE /\ run' = [run EXCEPT ![r].at = "configuring", ![r].id = promise]
               /\ book' = [book EXCEPT !.promise = promise]
       /\ UNCHANGED <<contacts, outcomes, slot, account, network, landed>>

\* A promise settles, also one that is not kept any more.  It may fail: no owner, no
\* configuration; it is then tried again by the next run.
Configured(promise, ok) ==
    LET waiting == {r \in Runs : run[r].at = "configuring" /\ run[r].id = promise}
    IN /\ waiting # {}
       /\ book' = [version    |-> IF ok THEN promise - 1 ELSE book.version,
                   configured |-> book.configured \/ ok,
                   promise    |-> IF book.configured \/ ok THEN book.promise ELSE 0]
       /\ run' = [r \in Runs |-> IF r \notin waiting THEN run[r]
                                 ELSE [run[r] EXCEPT !.at = IF ok THEN "build" ELSE "over", !.id = 0]]
       /\ outcomes' = [r \in Runs |-> IF r \in waiting /\ ~ok THEN Append(outcomes[r], "failed")
                                      ELSE outcomes[r]]
       /\ UNCHANGED <<contacts, slot, account, network, landed>>

SomethingConfigured == \E promise \in 1 .. MaxSaves + 1, ok \in BOOLEAN : Configured(promise, ok)

\* polaris:contacts-changed.
ContactsChange ==
    /\ contacts < MaxSaves /\ contacts' = contacts + 1
    /\ book' = [book EXCEPT !.configured = FALSE, !.promise = 0]
    /\ UNCHANGED <<run, outcomes, slot, account, network, landed>>

-----------------------------------------------------------------------------
(* Building, approval, signature, submission.                              *)

\* The chain tool, or the step's build and its resequencing, reads the account.
Builds(r) ==
    /\ run[r].at = "build"
    /\ run' = [run EXCEPT ![r].at = "begin", ![r].seq = account]
    /\ UNCHANGED <<contacts, book, outcomes, slot, account, network, landed>>

\* The tool refuses the payment, the account is not found, the network fails.
BuildFails(r) ==
    /\ run[r].at = "build" /\ Ends(r, "failed")
    /\ UNCHANGED <<contacts, book, slot, account, network, landed>>

\* approval_begin: the request takes the slot, whoever held it.
Begins(r) ==
    /\ run[r].at = "begin"
    /\ slot' = [id |-> slot.id + 1, state |-> "pending"]
    /\ run' = [run EXCEPT ![r].at = "wait", ![r].id = slot.id + 1]
    /\ UNCHANGED <<contacts, book, outcomes, account, network, landed>>

\* The gate refuses the request: a locked wallet, a summary that does not agree.
BeginFails(r) ==
    /\ run[r].at = "begin" /\ Ends(r, "failed")
    /\ UNCHANGED <<contacts, book, slot, account, network, landed>>

\* approval_status: nothing is known of a request that was superseded.
Status(r) == IF slot.id = run[r].id THEN slot.state ELSE "null"

\* poll: by the timer or by an approval_result event; a decision ends the wait.
PollAnswers(r) ==
    /\ run[r].at = "wait" /\ Status(r) \in {"authorized", "denied", "expired", "consumed"}
    /\ IF Status(r) = "authorized" THEN Goes(r, "sign") /\ UNCHANGED outcomes
       ELSE Ends(r, "denied")
    /\ UNCHANGED <<contacts, book, slot, account, network, landed>>

\* Faulty variant: the deadline is armed for a request that is shown.
WaitTimesOutWhileShown(r) ==
    /\ run[r].at = "wait" /\ Status(r) = "pending" /\ Ends(r, "denied")
    /\ UNCHANGED <<contacts, book, slot, account, network, landed>>

\* The deadline, whatever became of the request.
WaitTimesOut(r) ==
    /\ run[r].at = "wait" /\ Ends(r, "denied")
    /\ UNCHANGED <<contacts, book, slot, account, network, landed>>

\* wallet_sign consumes an authorised request; the transaction is handed over, or is
\* lost on the way.
SignsAndSends(r, arrives) ==
    /\ run[r].at = "sign" /\ Status(r) = "authorized"
    /\ slot' = [slot EXCEPT !.state = "consumed"]
    /\ network' = IF arrives THEN network \cup {Tx(r, "owner")} ELSE network
    /\ Goes(r, "submitted")
    /\ UNCHANGED <<contacts, book, outcomes, account, landed>>

\* The wallet refuses: the request is not the gate's any more, or it expired, or the
\* signer fails.
SigningFails(r) ==
    /\ run[r].at = "sign" /\ Ends(r, "failed")
    /\ UNCHANGED <<contacts, book, slot, account, network, landed>>

\* The network's answer, with the hash that was signed.
SubmitAnswers(r) ==
    /\ run[r].at = "submitted" /\ Tx(r, "owner") \in landed
    /\ StepEnds(r, "submitted")
    /\ UNCHANGED <<contacts, book, slot, account, network, landed>>

\* A rejection, a timeout, a network that cannot be reached, another hash.
SubmitFails(r) ==
    /\ run[r].at = "submitted" /\ StepEnds(r, "failed")
    /\ UNCHANGED <<contacts, book, slot, account, network, landed>>

-----------------------------------------------------------------------------
(* The gate and the network.                                               *)

Decision(state) ==
    /\ \/ slot.state = "pending"
       \/ slot.state = "authorized" /\ state = "expired"
    /\ slot' = [slot EXCEPT !.state = state]
    /\ UNCHANGED <<contacts, book, run, outcomes, account, network, landed>>

\* A transaction lands if its sequence number is the next; the agent's key has its own.
Lands(tx) ==
    /\ tx \in network
    /\ tx.via = "owner" => tx.seq = account
    /\ network' = network \ {tx} /\ landed' = landed \cup {tx}
    /\ account' = IF tx.via = "owner" THEN account + 1 ELSE account
    /\ UNCHANGED <<contacts, book, run, outcomes, slot>>

-----------------------------------------------------------------------------
RunStep(r) ==
    \/ Starts(r) \/ NotUnattended(r) \/ UnattendedLanded(r) \/ UnattendedFails(r)
    \/ ReadsContacts(r) \/ Builds(r) \/ BuildFails(r) \/ Begins(r) \/ BeginFails(r)
    \/ PollAnswers(r) \/ WaitTimesOut(r) \/ SigningFails(r)
    \/ SubmitAnswers(r) \/ SubmitFails(r)
    \/ \E arrives \in BOOLEAN : SendsUnattended(r, arrives) \/ SignsAndSends(r, arrives)

PipelineNext ==
    \/ \E r \in Runs : RunStep(r)
    \/ SomethingConfigured
    \/ ContactsChange
    \/ \E state \in {"authorized", "denied", "expired"} : Decision(state)
    \/ \E tx \in network : Lands(tx)

PipelineSpec == PipelineInit /\ [][PipelineNext]_pipelineVars

\* Every promise of the webview settles: the calls of the bridge return, requests to
\* the network have a timeout, and the wait for a decision has its deadline.
Progress ==
    /\ \A r \in Runs : WF_pipelineVars(RunStep(r))
    /\ WF_pipelineVars(SomethingConfigured)

PipelineFairSpec == PipelineSpec /\ Progress

-----------------------------------------------------------------------------
(* What must hold.                                                         *)

\* A plan is applied from its first transaction on without a gap: what landed of it is
\* a prefix, so that an arming step never lands without the limits before it
\* (txPipeline.ts:262-271).
PlansLandInOrder ==
    \A tx \in landed : \A k \in 1 .. tx.step - 1 :
        \E earlier \in landed : earlier.run = tx.run /\ earlier.step = k

\* A run that was started ends, though its request was superseded and nobody will ever
\* answer it (approver.ts:124-129).
EveryRunEnds == \A r \in Runs : run[r].at # "idle" ~> run[r].at = "over"

\* "Returns a submitted outcome when the payment ran as pay_executor with no card"
\* (autopayWiring.ts:237): one intent pays once.
PaidOnce == \A tx, other \in landed : tx.run = other.run /\ tx.step = other.step => tx = other

=============================================================================
