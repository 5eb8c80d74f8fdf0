----------------------------- MODULE AnchorOrder -----------------------------
(***************************************************************************)
(* One order at an anchor, as the client sees it: the anchor is selected,  *)
(* the order is placed, the account to pay is awaited, and the order is    *)
(* polled to its end (stellar/src/anchor: selection, sep1, sep6, sep12,    *)
(* session, http; AnchorRamp has what a flow does with the result).        *)
(*                                                                         *)
(* The anchor moves its order as it likes until a final status, asks for   *)
(* customer data and for a trustline in between, and may not answer.  The  *)
(* client looks at it from time to time.  Time only passes a deadline.     *)
(***************************************************************************)
EXTENDS Naturals, Sequences

CONSTANTS Candidates,       \* the approved anchors, in the order they are tried
          MaxFailures,      \* reads that may fail in a row
          MaxInformed,      \* times a poll sends the data of one order
          MaxRounds         \* requests for data answered each time

VARIABLES
    healthy,     \* the anchors that answer as they should
    client,      \* what the client does: where it is, the anchor tried, and its counts
    order,       \* the anchor's side: the status, and whether the account is named
    late         \* the deadline of the present wait is over

orderVars == <<healthy, client, order, late>>

Final    == {"success", "failed"}
Statuses == Final \cup {"in_progress", "needs_trustline", "needs_customer", "needs_details", "needs_user"}

\* The counts of one poll.
Fresh == [failures |-> 0, informed |-> 0, rounds |-> 0, trusted |-> FALSE, seen |-> "none"]
Unplaced == [status |-> "none", named |-> FALSE]

OrderInit ==
    /\ healthy = 1 .. Len(Candidates)
    /\ client = [at |-> "select", candidate |-> 1, poll |-> Fresh]
    /\ order = Unplaced
    /\ late = FALSE

Goes(at) == client' = [client EXCEPT !.at = at]

\* The call ends; what it ends with is its last place.
Outcomes == {"completed", "failed", "stopped", "timeout", "interrupted", "info_required", "error"}
Ended    == client.at \in Outcomes

-----------------------------------------------------------------------------
(* Selection and placing.                                                  *)

\* preflightAnchor of the candidates in turn: the stellar.toml, the asset and its pinned
\* issuer, and SEP-6; the first healthy one is kept, none at all is an error.
Selects ==
    /\ client.at = "select"
    /\ IF client.candidate \in healthy THEN Goes("place")
       ELSE IF client.candidate = Len(Candidates) THEN Goes("error")
       ELSE client' = [client EXCEPT !.candidate = @ + 1]
    /\ UNCHANGED <<healthy, order, late>>

\* The order exists; an anchor may name the account to pay only after it knows enough.
Places(named) ==
    /\ client.at = "place" /\ Goes(IF named THEN "read" ELSE "inform_first")
    /\ order' = [status |-> "in_progress", named |-> named]
    /\ late' = FALSE /\ UNCHANGED healthy

-----------------------------------------------------------------------------
(* The data of an order (SEP-12).                                          *)

\* Where the client goes on once the data is accepted: a poll reads again, the wait for
\* the account looks at its deadline unless it has only begun.
AfterInforming ==
    CASE client.at = "inform"       -> "read"
      [] client.at = "inform_first" -> "await_account"
      [] OTHER                      -> IF late THEN "error" ELSE "await_account"

\* ensureTransactionCustomer: what is asked for is sent, so often; accepted or refused.
Informs(answer) ==
    /\ client.at \in {"inform", "inform_first", "inform_deferred"}
    /\ CASE answer = "accepted" -> client' = [client EXCEPT !.at = AfterInforming, !.poll.rounds = 0]
         [] answer = "more" /\ client.poll.rounds < MaxRounds ->
                 client' = [client EXCEPT !.poll.rounds = @ + 1]
         [] OTHER -> client' = [client EXCEPT !.at = "error", !.poll = Fresh]
    /\ UNCHANGED <<healthy, order, late>>

\* resolveDeferredWithdraw: until the account is named, or too much time has passed.
AwaitsAccount ==
    /\ client.at = "await_account"
    /\ IF order.named THEN client' = [client EXCEPT !.at = "read", !.poll = Fresh] /\ late' = FALSE
       ELSE /\ UNCHANGED late
            /\ CASE order.status = "needs_customer" -> Goes("inform_deferred")
                 [] order.status = "failed" -> Goes("error")
                 [] OTHER -> late /\ Goes("error")
    /\ UNCHANGED <<healthy, order>>

-----------------------------------------------------------------------------
(* pollTransaction.                                                        *)

Reads ==
    /\ client.at = "read"
    /\ client' = [client EXCEPT !.at = "look", !.poll.failures = 0, !.poll.seen = order.status]
    /\ UNCHANGED <<healthy, order, late>>

\* A failure that may pass is tried again; the last one ends the poll.
ReadFails ==
    /\ client.at = "read"
    /\ IF client.poll.failures + 1 >= MaxFailures
       THEN client' = [client EXCEPT !.at = "interrupted", !.poll = Fresh]
       ELSE client' = [client EXCEPT !.poll.failures = @ + 1]
    /\ UNCHANGED <<healthy, order, late>>

\* A refusal is not tried again: the token of the poll may have expired meanwhile.
ReadRefused ==
    /\ client.at = "read" /\ client' = [client EXCEPT !.at = "error", !.poll = Fresh]
    /\ UNCHANGED <<healthy, order, late>>

Ends(outcome) == client' = [client EXCEPT !.at = outcome, !.poll = Fresh]

\* A status that asks for nothing more, or asks in vain, ends the poll.
LooksAtEnd ==
    /\ client.at = "look"
    /\ \/ client.poll.seen = "success" /\ Ends("completed")
       \/ client.poll.seen = "failed" /\ Ends("failed")
       \/ client.poll.seen = "needs_user" /\ Ends("stopped")
       \/ client.poll.seen = "needs_details" /\ Ends("info_required")
       \/ /\ client.poll.seen = "needs_customer" /\ client.poll.informed = MaxInformed
          /\ Ends("info_required")
    /\ UNCHANGED <<healthy, order, late>>

\* Faulty variant: data is sent as often as it is asked for.
LooksAtRequestForever ==
    /\ client.at = "look" /\ client.poll.seen = "needs_customer"
    /\ client' = [client EXCEPT !.at = "inform"]
    /\ UNCHANGED <<healthy, order, late>>

\* The anchor asks for data: sent a number of times, without a look at the deadline.
LooksAtRequest ==
    /\ client.at = "look" /\ client.poll.seen = "needs_customer"
    /\ client.poll.informed < MaxInformed
    /\ client' = [client EXCEPT !.at = "inform", !.poll.informed = @ + 1]
    /\ UNCHANGED <<healthy, order, late>>

\* The anchor holds the tokens for want of a trustline: added once, if the owner approves.
LooksAtTrust(approved) ==
    /\ client.at = "look" /\ client.poll.seen = "needs_trustline" /\ ~client.poll.trusted
    /\ IF approved THEN client' = [client EXCEPT !.at = "deadline", !.poll.trusted = TRUE]
       ELSE Ends("error")
    /\ UNCHANGED <<healthy, order, late>>

LooksOn ==
    /\ client.at = "look"
    /\ \/ client.poll.seen = "in_progress"
       \/ client.poll.seen = "needs_trustline" /\ client.poll.trusted
    /\ Goes("deadline")
    /\ UNCHANGED <<healthy, order, late>>

\* Sleep and read again, or give up; the order is not cancelled by that.
Waits ==
    /\ client.at = "deadline"
    /\ IF late THEN Ends("timeout") ELSE Goes("read")
    /\ UNCHANGED <<healthy, order, late>>

-----------------------------------------------------------------------------
(* The anchor, and time.                                                   *)

AnchorMoves(status) ==
    /\ order.status \notin Final \cup {"none"} /\ status # order.status
    /\ order' = [order EXCEPT !.status = status]
    /\ UNCHANGED <<healthy, client, late>>

AnchorNames ==
    /\ order.status \notin Final \cup {"none"} /\ ~order.named
    /\ order' = [order EXCEPT !.named = TRUE]
    /\ UNCHANGED <<healthy, client, late>>

AnchorFalters(a) ==
    /\ client.at = "select" /\ a \in healthy /\ healthy' = healthy \ {a}
    /\ UNCHANGED <<client, order, late>>

Deadline ==
    /\ order.status # "none" /\ ~Ended /\ ~late /\ late' = TRUE
    /\ UNCHANGED <<healthy, client, order>>

-----------------------------------------------------------------------------
ClientStep ==
    \/ Selects \/ AwaitsAccount \/ Reads \/ ReadFails \/ ReadRefused \/ LooksAtEnd
    \/ LooksAtRequest \/ LooksOn \/ Waits
    \/ \E yes \in BOOLEAN : Places(yes) \/ LooksAtTrust(yes)
    \/ \E answer \in {"accepted", "more", "refused"} : Informs(answer)

OrderNext ==
    \/ ClientStep
    \/ \E status \in Statuses : AnchorMoves(status)
    \/ AnchorNames \/ Deadline
    \/ \E a \in 1 .. Len(Candidates) : AnchorFalters(a)

\* Requests have a timeout, so every step of the client ends; and time passes.
OrderFairSpec == OrderInit /\ [][OrderNext]_orderVars /\ WF_orderVars(ClientStep) /\ WF_orderVars(Deadline)

-----------------------------------------------------------------------------
(* What must hold.                                                         *)

\* However the anchor moves its order, and though it never finishes it, the call of the
\* client ends (sep6.ts:643, 690-799; session.ts:200-229).
CallEnds == <>Ended
=============================================================================
