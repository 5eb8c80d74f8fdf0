------------------------------ MODULE P2pTrade ------------------------------
(***************************************************************************)
(* The app's side of the escrow: the trade page (app/src/notch/trade), the *)
(* voice tools and the escrow client (app/src/lib/p2p.ts, p2pView.ts,      *)
(* stellar/src/p2p), over the contract of PolarisEscrow.                   *)
(*                                                                         *)
(* A call is built by simulating it, shown on the approval card, signed by *)
(* the wallet that is active by then and submitted.  The page and a spoken *)
(* request each have at most one call under way; what the pipeline between *)
(* card and network does is TxPipeline's and ApprovalGate's matter: here   *)
(* the card is approved or not, the submission lands, fails, or lands      *)
(* unheard.  Prices, notices and the decoding of fields are left out.      *)
(***************************************************************************)
EXTENDS PolarisEscrow

CONSTANTS
    Wallets,        \* the accounts of this user, among the traders
    PAGE_SIZE,      \* P2pTrade.tsx PAGE_SIZE
    TtlAsked,       \* P2P_OFFER_TTL_SECONDS
    MaxSwitches     \* bound on the changes of the active wallet

VARIABLES
    wallet,         \* the address stellar_config reports, None while locked
    owner,          \* the owner getP2pContext remembers, or None
    page,           \* what P2pTrade shows
    reads,          \* order books read and not yet shown
    calls,          \* the page's call and the spoken one
    switches

pageVars == <<wallet, owner, page, reads, calls, switches>>
tradeVars == <<vars, pageVars>>

Origins == {"page", "voice"}
Book == [Ids -> Offer \cup {None}]
NoCall == [do |-> "none", id |-> None, source |-> None, shown |-> None]

\* The page mounts and reads the book at once.
TradeInit ==
    /\ Init
    /\ wallet \in Wallets /\ owner = None
    /\ page = [rows |-> [id \in Ids |-> None], loads |-> 1]
    /\ reads = {} /\ switches = 0
    /\ calls = [o \in Origins |-> NoCall]

-----------------------------------------------------------------------------
(* What an offer looks like to a wallet.                                    *)

roleOf(o, who) ==
    IF who # None /\ o.seller = who THEN "seller"
    ELSE IF who # None /\ o.buyer = who THEN "buyer"
    ELSE "other"

\* Faulty variant: the deadlines meant the other way round.
nextActionsAtTheDeadline(o, who, at) ==
    LET role == roleOf(o, who) IN
    CASE o.state = "Open" /\ role = "seller" ->
             IF at > o.expires_at THEN {"reclaim"} ELSE {"cancel"}
      [] o.state = "Open" /\ role # "seller" ->
             IF at > o.expires_at THEN {} ELSE {"accept"}
      [] o.state = "Accepted" /\ role = "seller" ->
             IF at >= o.pay_deadline THEN {"confirm", "reclaim"} ELSE {"confirm"}
      [] o.state = "Accepted" /\ role = "buyer" -> {"wait"}
      [] OTHER -> {}

\* What the app offers to do with an offer.
nextActions(o, who, at) ==
    LET role == roleOf(o, who) IN
    CASE o.state = "Open" /\ role = "seller" ->
             IF at >= o.expires_at THEN {"reclaim"} ELSE {"cancel"}
      [] o.state = "Open" /\ role # "seller" ->
             IF at >= o.expires_at THEN {} ELSE {"accept"}
      [] o.state = "Accepted" /\ role = "seller" ->
             IF at > o.pay_deadline THEN {"confirm", "reclaim"} ELSE {"confirm"}
      [] o.state = "Accepted" /\ role = "buyer" -> {"wait"}
      [] OTHER -> {}

acceptTerms(o) == [seller |-> o.seller, token |-> o.token, amount |-> o.amount]

-----------------------------------------------------------------------------
(* The order book on the page.                                              *)

listOpen(start, limit) ==
    [id \in Ids |-> IF id \in ListOpen(start, limit) THEN offer[id] ELSE None]

\* The context is read once; a failure is not remembered.
getP2pContext == IF owner = None THEN wallet ELSE owner

\* load: the context and one page of the book; without a wallet it fails.
ReadsBook ==
    /\ page.loads > Cardinality(reads)
    /\ owner' = getP2pContext
    /\ IF getP2pContext = None
       THEN /\ page' = [rows |-> [id \in Ids |-> None], loads |-> page.loads - 1]
            /\ UNCHANGED reads
       ELSE reads' = reads \cup {listOpen(1, PAGE_SIZE)} /\ UNCHANGED page
    /\ UNCHANGED <<vars, wallet, calls, switches>>

\* Whichever read arrives is shown, newest or not.
ShowsBook(rows) ==
    /\ reads' = reads \ {rows}
    /\ page' = [rows |-> rows, loads |-> page.loads - 1]
    /\ UNCHANGED <<vars, wallet, owner, calls, switches>>

LosesBook(rows) ==
    /\ reads' = reads \ {rows}
    /\ page' = [rows |-> [id \in Ids |-> None], loads |-> page.loads - 1]
    /\ UNCHANGED <<vars, wallet, owner, calls, switches>>

\* The Refresh button is disabled while a load or a call is under way.
Refreshes ==
    /\ page.loads = 0 /\ calls["page"] = NoCall
    /\ page' = [page EXCEPT !.loads = 1]
    /\ UNCHANGED <<vars, wallet, owner, reads, calls, switches>>

-----------------------------------------------------------------------------
(* Building a call: the client simulates it against the ledger.             *)

\* Whether the contract takes the call.
Simulates(do, who, id) ==
    /\ who # None
    /\ CASE do = "accept"  -> Acceptable(who, id)
         [] do = "confirm" -> IsSellerOf(who, id) /\ offer[id].state = "Accepted"
         [] do = "cancel"  -> IsSellerOf(who, id) /\ offer[id].state = "Open"
         [] do = "reclaim" -> IsSellerOf(who, id) /\ Refundable(offer[id])
         [] OTHER -> FALSE

\* SorobanP2pClient.write: the call, its caller and what the card says of it.
write(do, id, who, shown) == [do |-> do, id |-> id, source |-> who, shown |-> shown]

createOffer(who, t, amount) ==
    write("offer", None, who, [seller |-> who, token |-> t, amount |-> amount])

\* buildP2pActionCall and the voice tools: who is the remembered owner.
BuildsCall(origin, do, id, shown) ==
    LET who == getP2pContext IN
    /\ calls[origin] = NoCall
    /\ owner' = who
    /\ IF Simulates(do, who, id)
       THEN calls' = [calls EXCEPT ![origin] = write(do, id, who, shown)]
       ELSE UNCHANGED calls
    /\ UNCHANGED <<vars, wallet, page, reads, switches>>

\* A row's Accept button: it was drawn for the time the row was read, so what it
\* offers may be out of date; the contract has the last word.
AcceptsRow(id) ==
    /\ page.loads = 0 /\ page.rows[id] # None
    /\ roleOf(page.rows[id], owner) # "seller"
    /\ BuildsCall("page", "accept", id, acceptTerms(page.rows[id]))

\* Spoken: the offer is read first, for its terms.
AcceptsByVoice(id) ==
    /\ offer[id] # None
    /\ BuildsCall("voice", "accept", id, acceptTerms(offer[id]))

\* Spoken: confirm, cancel and reclaim show the number alone.
ActsByVoice(do, id) ==
    BuildsCall("voice", do, id, None)

\* checkHeldBalance: can the account named stand behind the offer?
checkHeldBalance(who, t, amount) == who # None /\ balance[t][who] >= amount

\* The balance checked is the active wallet's.
preflightOffer(t, amount) == checkHeldBalance(wallet, t, amount)

\* The form's amount is a positive number of tokens.
validateOfferInputs(amount) == amount > 0

\* onSell and p2pOfferTool: the seller is the remembered owner, and the contract
\* simulates the deposit.
OffersToSell(origin, t, amount) ==
    /\ calls[origin] = NoCall
    /\ validateOfferInputs(amount) /\ preflightOffer(t, amount)
    /\ owner' = getP2pContext
    /\ calls' = IF /\ checkHeldBalance(owner', t, amount)
                   /\ TtlAsked \in MIN_TTL_SECS .. MAX_TTL_SECS
                THEN [calls EXCEPT ![origin] = createOffer(owner', t, amount)]
                ELSE calls
    /\ UNCHANGED <<vars, wallet, page, reads, switches>>

-----------------------------------------------------------------------------
(* The card and the submission.                                             *)

\* The signed call does on the ledger what it was built to do.
Executes(c) ==
    CASE c.do = "offer"   -> CreateOffer(c.source, c.shown.token, c.shown.amount, TtlAsked)
      [] c.do = "accept"  -> Accept(c.source, c.id)
      [] c.do = "confirm" -> ConfirmFiat(c.source, c.id)
      [] c.do = "cancel"  -> Cancel(c.source, c.id)
      [] c.do = "reclaim" -> Reclaim(c.source, c.id)

\* Heard of success, the page reads the book again.
LandsHeard(origin) ==
    /\ calls[origin] # NoCall
    /\ calls[origin].source = wallet
    /\ Executes(calls[origin])
    /\ calls' = [calls EXCEPT ![origin] = NoCall]
    /\ page' = IF origin = "page"
               THEN [page EXCEPT !.loads = @ + 1] ELSE page
    /\ UNCHANGED <<wallet, owner, reads, switches>>

\* It lands, but the answer is lost: the page calls it a failure.
LandsUnheard(origin) ==
    /\ calls[origin] # NoCall
    /\ calls[origin].source = wallet
    /\ Executes(calls[origin])
    /\ calls' = [calls EXCEPT ![origin] = NoCall]
    /\ UNCHANGED <<wallet, owner, page, reads, switches>>

\* Denied, expired, signed by another wallet's key, refused by the ledger.
Fails(origin) ==
    /\ calls[origin] # NoCall
    /\ calls' = [calls EXCEPT ![origin] = NoCall]
    /\ UNCHANGED <<vars, wallet, owner, page, reads, switches>>

\* External: the user locks, or unlocks another wallet.
SwitchesWallet(w) ==
    /\ w # wallet /\ switches < MaxSwitches
    /\ wallet' = w /\ switches' = switches + 1
    /\ UNCHANGED <<vars, owner, page, reads, calls>>

\* Everybody else, and the clock.
Elsewhere == Next /\ UNCHANGED pageVars

TradeNext ==
    \/ ReadsBook
    \/ \E rows \in reads : ShowsBook(rows) \/ LosesBook(rows)
    \/ Refreshes
    \/ \E id \in Ids : AcceptsRow(id) \/ AcceptsByVoice(id)
    \/ \E id \in Ids, do \in {"confirm", "cancel", "reclaim"} : ActsByVoice(do, id)
    \/ \E origin \in Origins, t \in Tokens, amount \in Amounts : OffersToSell(origin, t, amount)
    \/ \E origin \in Origins : LandsHeard(origin) \/ LandsUnheard(origin) \/ Fails(origin)
    \/ \E w \in Wallets \cup {None} : SwitchesWallet(w)
    \/ Elsewhere

TradeSpec == TradeInit /\ [][TradeNext]_tradeVars

-----------------------------------------------------------------------------
(* Properties.                                                              *)

\* The app's reading of an offer (nextActions, in TypeScript) and the contract's
\* (in Rust) agree at every second, the deadlines themselves included: what is
\* offered to a wallet is what the contract would take from it.  An expired offer
\* may be cancelled too, but is only offered for reclaiming.
OfferedActionsWork ==
    \A id \in Ids, p \in Traders : offer[id] # None =>
        LET offered == nextActions(offer[id], p, now) IN
        /\ \A do \in {"accept", "confirm", "reclaim"} :
              do \in offered <=> Simulates(do, p, id)
        /\ "cancel" \in offered => Simulates("cancel", p, id)

=============================================================================
