----------------------------- MODULE AnchorRamp -----------------------------
(***************************************************************************)
(* The on- and off-ramp: money between the demo bank, an anchor and the    *)
(* wallet (app/src/lib: bankFlow, bankAnchor, bank, anchor; the session of *)
(* stellar/src/anchor with SEP-6, 10, 12 and 38; src-tauri/src/bank.rs).   *)
(*                                                                         *)
(* A flow is one deposit (bank to wallet) or one withdrawal (wallet to     *)
(* bank).  Flows of the panel and of the voice agent run at the same time  *)
(* over ONE session with the anchor.  A flow notes itself in the browser's *)
(* storage, the application may stop at any step, and what it noted is     *)
(* reconciled later.  The anchor and the network are external.             *)
(*                                                                         *)
(* Left out: the ledger file failing, and what an anchor says in words.    *)
(***************************************************************************)
EXTENDS Naturals, FiniteSets, Sequences

CONSTANTS Deposits, Withdrawals,   \* flows, each run once
          Amounts,                 \* what a flow may be asked to move
          MaxFlows,                \* how many of them are started
          MaxRestarts              \* how often the application stops

Flows == Deposits \cup Withdrawals

VARIABLES
    flow,       \* of each flow: where it is, its amount, its order, the payment it built
    session,    \* the anchor session: the withdrawal it may pay
    noted,      \* the browser's storage: of each flow nothing, or its order (0: none yet)
    found,      \* the notes a reconciliation has still to resolve, and those to drop
    bank,       \* the ledger: of each deposit its reservation, and the payouts credited
    orders,     \* the anchor's orders
    nextSequence,   \* the owner's next sequence number
    network,    \* payments handed over, and whether they landed
    restarts

rampVars == <<flow, session, noted, found, bank, orders, nextSequence, network, restarts>>

NoPayment == [order |-> 0, seq |-> 0]
Resting   == [at |-> "idle", amount |-> 0, order |-> 0, payment |-> NoPayment]
NoOrder   == [order |-> 0, amount |-> 0]
NoNote    == "nothing"
OpenBank  == [reserved |-> [f \in Deposits |-> "none"], credits |-> <<>>]

RampInit ==
    /\ flow = [f \in Flows |-> Resting]
    /\ session = NoOrder
    /\ noted = [f \in Flows |-> NoNote] /\ found = [resolve |-> {}, drop |-> {}]
    /\ bank = OpenBank
    /\ orders = <<>> /\ nextSequence = 1 /\ network = {} /\ restarts = 0

Goes(f, at) == flow' = [flow EXCEPT ![f].at = at]

\* Outside its session, its notes, the bank and the anchor a step changes nothing.
OnlyFlow == UNCHANGED <<session, noted, found, bank, orders, nextSequence, network, restarts>>

\* What is left of flows that are over: their note names their order.
Over(fs) == flow' = [f \in Flows |-> IF f \in fs
                                     THEN [Resting EXCEPT !.at = "over", !.order = flow[f].order]
                                     ELSE flow[f]]

Running(f) == flow[f].at \notin {"idle", "over"}

-----------------------------------------------------------------------------
(* The demo bank's ledger.                                                 *)

\* refund and settle touch a pending reservation only, so each may be repeated.
Reversed(f) == [bank EXCEPT !.reserved[f] = IF @ = "pending" THEN "refunded" ELSE @]
Settled(f)  == [bank EXCEPT !.reserved[f] = IF @ = "pending" THEN "settled" ELSE @]

\* Faulty variant: the ledger does not look for the anchor's transaction.
CreditedAgain(order) == [bank EXCEPT !.credits = Append(@, order)]

\* credit: the same anchor transaction is credited once.
Credited(order) ==
    IF \E k \in 1 .. Len(bank.credits) : bank.credits[k] = order THEN bank
    ELSE [bank EXCEPT !.credits = Append(@, order)]

-----------------------------------------------------------------------------
(* The steps of a flow.                                                    *)

\* run() of the panel (its own flow at rest), or runBankIntent of a spoken intent.
Starts(f) ==
    /\ flow[f].at = "idle" /\ Cardinality({g \in Flows : flow[g].at # "idle"}) < MaxFlows
    /\ \E amount \in Amounts :
          flow' = [flow EXCEPT ![f] = [Resting EXCEPT !.amount = amount,
                                       !.at = IF f \in Deposits THEN "reserve" ELSE "note"]]
    /\ OnlyFlow

\* debit: the money is reserved before the flow is noted.
Reserves(f) ==
    /\ flow[f].at = "reserve" /\ Goes(f, "note")
    /\ bank' = [bank EXCEPT !.reserved[f] = "pending"]
    /\ UNCHANGED <<session, noted, found, orders, nextSequence, network, restarts>>

\* withPending, before anything is asked of the anchor.
Notes(f) ==
    /\ flow[f].at = "note" /\ Goes(f, "quote")
    /\ noted' = [noted EXCEPT ![f] = "reserved"]
    /\ UNCHANGED <<session, found, bank, orders, nextSequence, network, restarts>>

\* The anchor's price for the amount (SEP-38), and its currency for the bank.
Quotes(f) == flow[f].at = "quote" /\ Goes(f, "login") /\ OnlyFlow

\* A challenge is fetched, checked, signed and answered (SEP-10), unless a token is kept.
LogsIn(f) == flow[f].at = "login" /\ Goes(f, "prepare") /\ OnlyFlow

\* Preflight: the account exists and trusts the asset, or is funded and made to.
PreparesAccount(f) == flow[f].at = "prepare" /\ Goes(f, "customer") /\ OnlyFlow

\* The anchor accepts the customer (SEP-12).
RegistersCustomer(f) == flow[f].at = "customer" /\ Goes(f, "order") /\ OnlyFlow

\* The anchor's new order (SEP-6), and the flow that placed it.
Placed(f, withinLimits) ==
    /\ flow[f].at = "order"
    /\ orders' = Append(orders, [amount |-> flow[f].amount, funded |-> 0, status |-> "open"])
    /\ flow' = [flow EXCEPT ![f].at = IF withinLimits THEN "note_order" ELSE "broken",
                            ![f].order = IF withinLimits THEN Len(orders) + 1 ELSE 0]
    /\ UNCHANGED <<noted, found, bank, nextSequence, network, restarts>>

\* startDeposit, then checkLimits.
PlacesDeposit(f, withinLimits) ==
    f \in Deposits /\ Placed(f, withinLimits) /\ UNCHANGED session

\* startWithdraw, up to the account to pay, becomes the session's withdrawal.
PlacesWithdrawal(f, withinLimits) ==
    /\ f \in Withdrawals /\ Placed(f, withinLimits)
    /\ session' = [order |-> Len(orders) + 1, amount |-> flow[f].amount]

NotesOrder(f) ==
    /\ flow[f].at = "note_order" /\ noted' = [noted EXCEPT ![f] = "ordered"]
    /\ Goes(f, IF f \in Deposits THEN "transfer" ELSE "pay")
    /\ UNCHANGED <<session, found, bank, orders, nextSequence, network, restarts>>

\* The bank transfer: simulated in the sandbox, otherwise the owner's own.
Transfers(f) ==
    /\ flow[f].at = "transfer" /\ Goes(f, "wait")
    /\ orders' = [orders EXCEPT ![flow[f].order].funded = @ + 1]
    /\ UNCHANGED <<session, noted, found, bank, nextSequence, network, restarts>>

\* Faulty variant: the session's withdrawal is paid whatever it was requested for.
BuildsAnyPayment(f) ==
    /\ flow[f].at = "pay" /\ session.order # 0
    /\ flow' = [flow EXCEPT ![f].at = "sign",
                         ![f].payment = [order |-> session.order, seq |-> nextSequence]]
    /\ OnlyFlow

\* buildWithdrawal: for the session's withdrawal, if it was requested for this amount.
BuildsPayment(f) ==
    /\ flow[f].at = "pay" /\ session.order # 0 /\ session.amount = flow[f].amount
    /\ flow' = [flow EXCEPT ![f].at = "sign",
                         ![f].payment = [order |-> session.order, seq |-> nextSequence]]
    /\ OnlyFlow

\* The owner approves, the wallet signs and the payment is handed over; it may get lost.
SendsPayment(f, arrives) ==
    LET sent == [flow |-> f, order |-> flow[f].payment.order, seq |-> flow[f].payment.seq,
                 amount |-> flow[f].amount, landed |-> FALSE]
    IN /\ flow[f].at = "sign" /\ Goes(f, "sent")
       /\ network' = IF arrives THEN network \cup {sent} ELSE network
       /\ UNCHANGED <<session, noted, found, bank, orders, nextSequence, restarts>>

\* The network's answer: the session's withdrawal is paid.
PaymentAnswers(f) ==
    /\ flow[f].at = "sent" /\ \E p \in network : p.flow = f /\ p.landed
    /\ session' = [order |-> 0, amount |-> 0]
    /\ Goes(f, "note_paid")
    /\ UNCHANGED <<noted, found, bank, orders, nextSequence, network, restarts>>

NotesPaid(f) ==
    /\ flow[f].at = "note_paid" /\ Goes(f, "wait") /\ OnlyFlow

\* pollTransaction to the end of the order; then settle or credit.
Completes(f) ==
    LET order == flow[f].order
    IN /\ flow[f].at = "wait" /\ orders[order].status = "completed"
       /\ bank' = IF f \in Deposits THEN Settled(f) ELSE Credited(order)
       /\ Goes(f, "drop")
       /\ UNCHANGED <<session, noted, found, orders, nextSequence, network, restarts>>

\* dropPending.
Drops(f) ==
    /\ flow[f].at = "drop" /\ noted' = [noted EXCEPT ![f] = "nothing"]
    /\ Over({f})
    /\ UNCHANGED <<session, found, bank, orders, nextSequence, network, restarts>>

\* Any step that throws: a call fails, the order ends badly, the wait is given up, the
\* owner denies or cancels.  A deposit is refunded; a withdrawal stays noted when its
\* payment was answered.
Breaks(f) ==
    /\ Running(f) /\ flow[f].at # "drop"
    /\ bank' = IF f \in Deposits THEN Reversed(f) ELSE bank
    /\ IF f \in Withdrawals /\ flow[f].at \in {"note_paid", "wait"}
       THEN Over({f})
       ELSE Goes(f, "drop")
    /\ UNCHANGED <<session, noted, found, orders, nextSequence, network, restarts>>

-----------------------------------------------------------------------------
(* Restarts.                                                               *)

\* Everything but the storage, the ledger and the world outside is lost; the order of
\* a noted flow is kept with its note.
Restarts ==
    /\ restarts < MaxRestarts /\ restarts' = restarts + 1
    /\ Over({f \in Flows : Running(f)})
    /\ session' = [order |-> 0, amount |-> 0]
    /\ found' = [resolve |-> {}, drop |-> {}]
    /\ UNCHANGED <<noted, bank, orders, nextSequence, network>>

\* reconcileBankFlows loads what is noted.
Reconciles ==
    /\ \A f \in Flows : ~Running(f)
    /\ found.resolve = {} /\ found' = [found EXCEPT !.resolve = {f \in Flows : noted[f] # "nothing"}]
    /\ UNCHANGED <<flow, session, noted, bank, orders, nextSequence, network, restarts>>

\* One note: never ordered, or ordered and ended; what is still in progress is kept.
Resolves(f) ==
    LET ended == IF noted[f] = "ordered" THEN orders[flow[f].order].status ELSE "failed"
    IN /\ f \in found.resolve
       /\ found' = [resolve |-> found.resolve \ {f},
                    drop    |-> IF ended = "open" THEN found.drop ELSE found.drop \cup {f}]
       /\ bank' = CASE ended = "open" -> bank
                    [] ended = "completed" /\ f \in Deposits -> Settled(f)
                    [] ended = "completed" /\ f \in Withdrawals -> Credited(flow[f].order)
                    [] ended = "failed" -> IF f \in Deposits THEN Reversed(f) ELSE bank
       /\ UNCHANGED <<flow, session, noted, orders, nextSequence, network, restarts>>

DropsFound(f) ==
    /\ f \in found.drop /\ found' = [found EXCEPT !.drop = @ \ {f}]
    /\ noted' = [noted EXCEPT ![f] = "nothing"]
    /\ UNCHANGED <<flow, session, bank, orders, nextSequence, network, restarts>>

-----------------------------------------------------------------------------
(* The anchor and the network.                                             *)

\* An order that was funded is completed; any order may fail.
OrderEnds(o, status) ==
    /\ orders[o].status = "open" /\ (status = "completed" => orders[o].funded > 0)
    /\ orders' = [orders EXCEPT ![o].status = status]
    /\ UNCHANGED <<flow, session, noted, found, bank, nextSequence, network, restarts>>

PaymentLands(p) ==
    /\ p \in network /\ ~p.landed /\ p.seq = nextSequence /\ nextSequence' = nextSequence + 1
    /\ network' = (network \ {p}) \cup {[p EXCEPT !.landed = TRUE]}
    /\ orders' = [orders EXCEPT ![p.order].funded = @ + 1]
    /\ UNCHANGED <<flow, session, noted, found, bank, restarts>>

-----------------------------------------------------------------------------
FlowStep(f) ==
    \/ Starts(f) \/ Reserves(f) \/ Notes(f) \/ Quotes(f) \/ LogsIn(f) \/ PreparesAccount(f)
    \/ RegistersCustomer(f) \/ NotesOrder(f) \/ Transfers(f)
    \/ BuildsPayment(f) \/ PaymentAnswers(f) \/ NotesPaid(f) \/ Completes(f) \/ Drops(f)
    \/ Breaks(f) \/ Resolves(f) \/ DropsFound(f)
    \/ \E yes \in BOOLEAN : PlacesDeposit(f, yes) \/ PlacesWithdrawal(f, yes) \/ SendsPayment(f, yes)

RampNext ==
    \/ \E f \in Flows : FlowStep(f)
    \/ Restarts \/ Reconciles
    \/ \E o \in 1 .. Len(orders), status \in {"completed", "failed"} : OrderEnds(o, status)
    \/ \E p \in network : PaymentLands(p)

RampSpec == RampInit /\ [][RampNext]_rampVars

-----------------------------------------------------------------------------
(* What must hold.                                                         *)

\* An order is paid what it was placed for, whichever flow of the shared session pays
\* it (session.ts:391-393).
PaymentsMatchTheirOrder == \A p \in network : orders[p.order].amount = p.amount

\* A payout is credited once and only when the anchor paid it, through every stop
\* between the credit and the note, and every reconciliation (bankFlow.ts:483-486, 560-566).
PayoutsAreCreditedOnce ==
    /\ \A k \in 1 .. Len(bank.credits) : orders[bank.credits[k]].status = "completed"
    /\ \A j, k \in 1 .. Len(bank.credits) : bank.credits[j] = bank.credits[k] => j = k

\* What is paid to the anchor and what it pays out both follow the orders.
TransfersFollowTheirOrders == PaymentsMatchTheirOrder /\ PayoutsAreCreditedOnce

\* "In-flight work is persisted ... so an app restart can reconcile it: ... a payout
\* credited" (bankFlow.ts:21-23): tokens that reached the anchor are followed up.
NoPayoutIsForgotten ==
    \A f \in Withdrawals, o \in 1 .. Len(orders) :
        (flow[f].order = o /\ flow[f].at = "drop" /\ orders[o].funded > 0)
            => (orders[o].status = "failed" \/ \E k \in 1 .. Len(bank.credits) : bank.credits[k] = o)
=============================================================================
