---------------------------- MODULE PolarisEscrow ----------------------------
(***************************************************************************)
(* The polaris_p2p_escrow contract, contracts/polaris_p2p_escrow/src/lib.rs: *)
(* a seller locks tokens and quotes a fiat price, a buyer reserves the     *)
(* offer and pays off-chain, the seller releases the tokens or takes them  *)
(* back.  There is no arbiter.                                             *)
(*                                                                         *)
(* One action is one successful call; a call that returns an error, or     *)
(* whose token transfer traps, is rolled back whole.  The quoted price is  *)
(* only tested for being positive and is left out; so are created_at and   *)
(* accepted_at, which nothing reads, and the storage rent.  Ids and times  *)
(* are u64 and come from a counter and from the ledger clock, so neither   *)
(* meets its end; MaxOffers and MaxTime stand far below it.                *)
(***************************************************************************)
EXTENDS Integers, FiniteSets, Functions

CONSTANTS
    Traders,        \* accounts; each may sell and buy
    Escrow,         \* the contract's own address
    Tokens,
    Amounts, Ttls,  \* the inputs of create_offer
    Endowment,      \* what each trader holds of each token at first
    MIN_TTL_SECS, MAX_TTL_SECS, PAY_WINDOW_SECS, MAX_PAGE,
    MaxTime,        \* bound on the ledger clock
    MaxOffers,      \* bound on the number of offers ever made
    LastOpening,    \* bound: no offer is opened later
    None

Ids == 1 .. MaxOffers
Holders == Traders \cup {Escrow}
OfferState == {"Open", "Accepted", "Settled", "Cancelled", "Expired"}
Live == {"Open", "Accepted"}

Offer == [seller : Traders, token : Tokens, amount : Nat, expires_at : Nat,
          buyer : Traders \cup {None}, pay_deadline : Nat, state : OfferState]

ASSUME EscrowAssumption ==
    /\ Escrow \notin Traders /\ None \notin Traders /\ None \notin Offer
    /\ Amounts \subseteq Int /\ Ttls \subseteq Nat
    /\ Endowment \in Nat /\ MaxOffers \in Nat /\ MaxTime \in Nat /\ LastOpening \in Nat
    /\ MIN_TTL_SECS \in Nat /\ MAX_TTL_SECS \in Nat
    /\ PAY_WINDOW_SECS \in Nat /\ MAX_PAGE \in Nat

VARIABLES
    offer,          \* DataKey::Offer(id), or None
    nextOfferId,    \* DataKey::NextOfferId
    balance,        \* external, the tokens: balance[t][h]
    now             \* external, the ledger: env.ledger().timestamp()

vars == <<offer, nextOfferId, balance, now>>

TypeOK ==
    /\ offer \in [Ids -> Offer \cup {None}]
    /\ nextOfferId \in Nat \ {0}
    /\ balance \in [Tokens -> [Holders -> Nat]]
    /\ now \in Nat

Init ==
    /\ offer = [id \in Ids |-> None]
    /\ nextOfferId = 1
    /\ balance = [t \in Tokens |-> [h \in Holders |-> IF h = Escrow THEN 0 ELSE Endowment]]
    /\ now = 0

-----------------------------------------------------------------------------

\* External: the SEP-41 transfer traps when the balance is short.
Transfer(t, from, to, amount) ==
    /\ balance[t][from] >= amount
    /\ balance' = [balance EXCEPT ![t][from] = @ - amount, ![t][to] = @ + amount]

CreateOffer(seller, t, amount, ttl) ==
    /\ amount > 0
    /\ ttl \in MIN_TTL_SECS .. MAX_TTL_SECS
    /\ now <= LastOpening /\ nextOfferId <= MaxOffers
    /\ nextOfferId' = nextOfferId + 1
    /\ offer' = [offer EXCEPT ![nextOfferId] =
            [seller |-> seller, token |-> t, amount |-> amount, expires_at |-> now + ttl,
             buyer |-> None, pay_deadline |-> 0, state |-> "Open"]]
    /\ Transfer(t, seller, Escrow, amount)
    /\ UNCHANGED now

IsOpen(id) == offer[id] # None /\ offer[id].state = "Open"

\* At expires_at the offer is no longer acceptable.
Acceptable(buyer, id) ==
    /\ IsOpen(id)
    /\ now < offer[id].expires_at
    /\ buyer # offer[id].seller

Accept(buyer, id) ==
    /\ Acceptable(buyer, id)
    /\ offer' = [offer EXCEPT ![id].buyer = buyer,
                              ![id].pay_deadline = now + PAY_WINDOW_SECS,
                              ![id].state = "Accepted"]
    /\ UNCHANGED <<nextOfferId, balance, now>>

IsSellerOf(seller, id) == offer[id] # None /\ offer[id].seller = seller

\* The offer ends in a terminal state and its tokens go to one party.
Close(id, state, to) ==
    /\ offer' = [offer EXCEPT ![id].state = state]
    /\ Transfer(offer[id].token, Escrow, to, offer[id].amount)
    /\ UNCHANGED <<nextOfferId, now>>

\* At any time while Accepted, after pay_deadline too.
ConfirmFiat(seller, id) ==
    /\ IsSellerOf(seller, id)
    /\ offer[id].state = "Accepted" /\ offer[id].buyer # None
    /\ Close(id, "Settled", offer[id].buyer)

Cancel(seller, id) ==
    /\ IsSellerOf(seller, id)
    /\ offer[id].state = "Open"
    /\ Close(id, "Cancelled", seller)

\* Faulty variant: every ended offer is refunded on its time alone.
RefundableByTime(o) ==
    IF o.buyer = None THEN now >= o.expires_at ELSE now > o.pay_deadline

\* Faulty variant: a reserved offer is not refunded after all.
RefundableOpenOnly(o) == o.state = "Open" /\ now >= o.expires_at

Refundable(o) ==
    \/ o.state = "Open" /\ now >= o.expires_at
    \/ o.state = "Accepted" /\ now > o.pay_deadline

Reclaim(seller, id) ==
    /\ IsSellerOf(seller, id)
    /\ Refundable(offer[id])
    /\ Close(id, "Expired", seller)

\* Faulty variant: the order book shows an offer in its last second.
ListOpenInclusive(start, limit) ==
    LET first  == IF start < 1 THEN 1 ELSE start
        window == IF limit > MAX_PAGE THEN MAX_PAGE ELSE limit
    IN  {id \in first .. (first + window - 1) :
            id \in Ids /\ IsOpen(id) /\ now <= offer[id].expires_at}

\* list_open: the actionable offers of one window of ids.  Read-only.
ListOpen(start, limit) ==
    LET first  == IF start < 1 THEN 1 ELSE start
        window == IF limit > MAX_PAGE THEN MAX_PAGE ELSE limit
    IN  {id \in first .. (first + window - 1) :
            id \in Ids /\ IsOpen(id) /\ now < offer[id].expires_at}

\* A later ledger closes.
Tick ==
    /\ \E t \in (now + 1) .. MaxTime : now' = t
    /\ UNCHANGED <<offer, nextOfferId, balance>>

Next ==
    \/ \E p \in Traders, t \in Tokens, amount \in Amounts, ttl \in Ttls :
          CreateOffer(p, t, amount, ttl)
    \/ \E p \in Traders, id \in Ids :
          \/ Accept(p, id)
          \/ ConfirmFiat(p, id)
          \/ Cancel(p, id)
          \/ Reclaim(p, id)
    \/ Tick

Spec == Init /\ [][Next]_vars

\* Ledgers keep closing, and a seller who is entitled to a refund and keeps
\* asking for it is served.  Nothing is assumed of buyers, of confirmations or
\* of cancellations.
PatientSellers ==
    /\ WF_vars(Tick)
    /\ \A p \in Traders, id \in Ids : WF_vars(Reclaim(p, id))

FairSpec == Spec /\ PatientSellers

-----------------------------------------------------------------------------
(* Properties.                                                              *)

\* The tokens of the offers that are so.
Locked(Test(_)) ==
    SumFunction([id \in Ids |-> IF offer[id] # None /\ Test(offer[id])
                                THEN offer[id].amount ELSE 0])

\* Every token is where the state of the offers says: the contract holds the
\* live ones and nothing else, a trader has parted with what it has on offer or
\* has sold, and has got what it bought.  So no offer is paid out twice or to
\* two parties, one offer's refund never spends another's deposit, and the
\* contract can always pay what it owes.
BalancesFollowOffers ==
    \A t \in Tokens :
        /\ balance[t][Escrow] = Locked(LAMBDA o : o.token = t /\ o.state \in Live)
        /\ \A p \in Traders :
             balance[t][p] = Endowment
               - Locked(LAMBDA o : /\ o.token = t /\ o.seller = p
                                   /\ o.state \in Live \cup {"Settled"})
               + Locked(LAMBDA o : o.token = t /\ o.buyer = p /\ o.state = "Settled")

IsLive(id) == offer[id] # None /\ offer[id].state \in Live

\* An offer that has ended never changes again: no late confirmation of a
\* refunded offer, no refund of a settled one (the doc of OfferState).
EndedOffersAreFinal ==
    [][\A id \in Ids : offer[id] # None /\ ~IsLive(id) => offer'[id] = offer[id]]_vars

\* A buyer who has reserved an offer keeps it until the pay deadline has passed:
\* nobody takes it over, the terms stay, and the only way out is the release of
\* the tokens.
ReservedForTheBuyer ==
    [][\A id \in Ids : offer[id] # None /\ offer[id].state = "Accepted" =>
         /\ [offer'[id] EXCEPT !.state = "Accepted"] = offer[id]
         /\ now <= offer[id].pay_deadline => offer'[id].state \in {"Accepted", "Settled"}]_vars

\* Read page by page, by the window as its doc says, the order book shows
\* exactly the offers that somebody can still accept.
OrderBookIsActionable ==
    \A limit \in 1 .. MAX_PAGE :
        UNION {ListOpen(1 + k * limit, limit) : k \in 0 .. nextOfferId}
            = {id \in Ids : \E p \in Traders : Acceptable(p, id)}

\* Tokens are not locked up for ever: whatever the buyer does, a live offer ends.
NoTokensStuck == \A id \in Ids : IsLive(id) ~> ~IsLive(id)
=============================================================================
