--------------------------- MODULE StellarProofs ---------------------------
(***************************************************************************)
(* What is proved of the parts of stellar/: the anchor's ramps, the clocks *)
(* of standing orders and the live suite, for every value of their         *)
(* constants.                                                              *)
(*                                                                         *)
(* An order is paid what it was placed for, and a payout is credited once, *)
(* for any number of flows, amounts and restarts.  Orders are only added,  *)
(* keep their amount and stay completed; what has to be known besides is   *)
(* who may name an order: a flow from the step that placed it, a note once *)
(* it says so, the session, and every payment that was built or handed     *)
(* over - the last three together with the order's own amount.             *)
(*                                                                         *)
(* The suite passes whole on new accounts because each scenario leaves     *)
(* what the next one expects: two tables say what the accounts hold after  *)
(* every transaction, and the proof walks down them.  What a whole pass    *)
(* leaves is shown for any accounts: the first transaction the suite is    *)
(* heard of uses up the number every unheard one was signed with.          *)
(***************************************************************************)
EXTENDS AnchorRamp, ScheduleTime, LiveSuite, FiniteSetTheorems, TLAPS

Money      == Amounts \cup {0}
Payments   == [order : Nat, seq : Nat]
Places     == {"idle", "reserve", "note", "quote", "login", "prepare", "customer", "order",
             "broken", "note_order", "transfer", "pay", "sign", "sent", "note_paid", "wait",
             "drop", "over"}
FlowStates == [at : Places, amount : Money, order : Nat, payment : Payments]
Ledgers    == [reserved : [Deposits -> {"none", "pending", "refunded", "settled"}],
               credits  : Seq(Nat)]
Orders     == [amount : Money, funded : Nat, status : {"open", "completed", "failed"}]

RampTypeCorrect ==
    /\ flow \in [Flows -> FlowStates]
    /\ session \in [order : Nat, amount : Money]
    /\ noted \in [Flows -> {"nothing", "reserved", "ordered"}]
    /\ found \in [resolve : SUBSET Flows, drop : SUBSET Flows]
    /\ bank \in Ledgers
    /\ orders \in Seq(Orders)
    /\ nextSequence \in Nat /\ restarts \in Nat
    /\ network \subseteq [flow : Flows, order : Nat, seq : Nat, amount : Money, landed : BOOLEAN]

\* Where a flow has an order, and where its note cannot name one yet.
WithOrder == {"note_order", "transfer", "pay", "sign", "sent", "note_paid", "wait"}
Unnoted   == {"idle", "reserve", "note", "quote", "login", "prepare", "customer", "order",
              "broken", "note_order"}

\* An order that exists, for this amount.
IsOrder(o)          == o \in 1 .. Len(orders)
IsFor(o, amount)    == IsOrder(o) /\ orders[o].amount = amount

SessionKnows  == session.order # 0 => IsFor(session.order, session.amount)
FlowKnows(f)  ==
    /\ flow[f].at \in WithOrder => IsOrder(flow[f].order)
    /\ flow[f].at = "sign" => IsFor(flow[f].payment.order, flow[f].amount)
NoteKnows(f)  ==
    /\ noted[f] = "ordered" => IsOrder(flow[f].order)
    /\ flow[f].at \in Unnoted => noted[f] # "ordered"
NetworkKnows  == \A p \in network : IsFor(p.order, p.amount)
CreditsKnow   ==
    /\ \A k \in 1 .. Len(bank.credits) :
          IsOrder(bank.credits[k]) /\ orders[bank.credits[k]].status = "completed"
    /\ \A j, k \in 1 .. Len(bank.credits) : bank.credits[j] = bank.credits[k] => j = k

RampInv ==
    /\ RampTypeCorrect
    /\ SessionKnows
    /\ \A f \in Flows : FlowKnows(f) /\ NoteKnows(f)
    /\ NetworkKnows
    /\ CreditsKnow

-----------------------------------------------------------------------------
(* What a step may do to each part without disturbing what is known.       *)

OrdersGrow ==
    /\ Len(orders) <= Len(orders')
    /\ \A o \in 1 .. Len(orders) :
          /\ orders'[o].amount = orders[o].amount
          /\ orders[o].status = "completed" => orders'[o].status = "completed"

SessionKept == session' = session \/ session'.order = 0
FlowKept(f) ==
    /\ flow'[f].at \in WithOrder => flow[f].at \in WithOrder
    /\ flow'[f].at = "sign" => flow'[f] = flow[f]
    /\ flow'[f].at \in Unnoted => flow[f].at \in Unnoted
    /\ flow'[f].order = flow[f].order
NoteKept(f) == noted'[f] = "ordered" => noted[f] = "ordered"
NetworkKept ==
    \A p \in network' : \E q \in network : p.order = q.order /\ p.amount = q.amount
CreditsKept ==
    \/ bank'.credits = bank.credits
    \/ \E o \in 1 .. Len(orders) :
          orders[o].status = "completed" /\ bank'.credits = Credited(o).credits

LEMMA SameOrdersGrow ==
    ASSUME RampTypeCorrect, orders' = orders
    PROVE  OrdersGrow
<1>1. Len(orders) \in Nat
  BY DEF RampTypeCorrect
<1> QED
  BY <1>1 DEF OrdersGrow

LEMMA OrdersStay ==
    ASSUME RampTypeCorrect, RampTypeCorrect', OrdersGrow, NEW o \in Nat, IsOrder(o)
    PROVE  /\ o \in 1 .. Len(orders')
           /\ orders'[o].amount = orders[o].amount
           /\ orders[o].status = "completed" => orders'[o].status = "completed"
<1>1. Len(orders) \in Nat /\ Len(orders') \in Nat
  BY DEF RampTypeCorrect
<1> QED
  BY <1>1 DEF OrdersGrow, IsOrder

LEMMA StaysFor ==
    ASSUME RampTypeCorrect, RampTypeCorrect', OrdersGrow,
           NEW o \in Nat, NEW amount, IsFor(o, amount)
    PROVE  o \in 1 .. Len(orders') /\ orders'[o].amount = amount
BY OrdersStay DEF IsFor

LEMMA SessionSteps ==
    ASSUME RampTypeCorrect, RampTypeCorrect', OrdersGrow, SessionKnows, SessionKept
    PROVE  SessionKnows'
<1>1. session.order \in Nat /\ session'.order \in Nat
  BY DEF RampTypeCorrect
<1>2. CASE session'.order = 0
  BY <1>2 DEF SessionKnows
<1>3. CASE session' = session /\ session.order # 0
  <2>1. IsFor(session.order, session.amount)
    BY <1>3 DEF SessionKnows
  <2>2. session.order \in 1 .. Len(orders') /\ orders'[session.order].amount = session.amount
    BY <1>1, <1>3, <2>1, StaysFor
  <2> QED
    BY <1>3, <2>2 DEF SessionKnows, IsFor, IsOrder
<1> QED
  BY <1>2, <1>3 DEF SessionKept

LEMMA FlowSteps ==
    ASSUME RampTypeCorrect, RampTypeCorrect', OrdersGrow,
           NEW f \in Flows, FlowKnows(f), NoteKnows(f), FlowKept(f)
    PROVE  FlowKnows(f)' /\ (NoteKept(f) => NoteKnows(f)')
<1>1. /\ flow[f].order \in Nat /\ flow'[f].order \in Nat
      /\ flow[f].payment.order \in Nat
  BY DEF RampTypeCorrect, FlowStates, Payments
<1>2. IsOrder(flow[f].order) => (IsOrder(flow[f].order))'
  BY <1>1, OrdersStay DEF IsOrder, FlowKept
<1>3. flow'[f].at = "sign" => IsFor(flow[f].payment.order, flow[f].amount)'
  <2>1. SUFFICES ASSUME flow'[f].at = "sign"
                 PROVE  IsFor(flow[f].payment.order, flow[f].amount)'
    OBVIOUS
  <2>2. flow'[f] = flow[f] /\ IsFor(flow[f].payment.order, flow[f].amount)
    BY <2>1 DEF FlowKept, FlowKnows
  <2>3. /\ flow[f].payment.order \in 1 .. Len(orders')
          /\ orders'[flow[f].payment.order].amount = flow[f].amount
    BY <1>1, <2>2, StaysFor
  <2> QED
    BY <2>2, <2>3 DEF IsFor, IsOrder
<1>4. FlowKnows(f)'
  BY <1>2, <1>3 DEF FlowKnows, FlowKept
<1> QED
  BY <1>2, <1>4 DEF NoteKnows, NoteKept, FlowKept

LEMMA NetworkSteps ==
    ASSUME RampTypeCorrect, RampTypeCorrect', OrdersGrow, NetworkKnows, NetworkKept
    PROVE  NetworkKnows'
<1>1. SUFFICES ASSUME NEW p \in network'
               PROVE  IsFor(p.order, p.amount)'
  BY DEF NetworkKnows
<1>2. PICK q \in network : p.order = q.order /\ p.amount = q.amount
  BY DEF NetworkKept
<1>3. q.order \in Nat /\ IsFor(q.order, q.amount)
  BY DEF RampTypeCorrect, NetworkKnows
<1>4. q.order \in 1 .. Len(orders') /\ orders'[q.order].amount = q.amount
  BY <1>3, StaysFor
<1>5. p.order \in 1 .. Len(orders') /\ orders'[p.order].amount = p.amount
  BY <1>2, <1>4, Zenon
<1> QED
  BY <1>5, Zenon DEF IsFor, IsOrder

LEMMA CreditsSteps ==
    ASSUME RampTypeCorrect, RampTypeCorrect', OrdersGrow, CreditsKnow, CreditsKept
    PROVE  CreditsKnow'
<1> DEFINE credits == bank.credits
<1>1. credits \in Seq(Nat) /\ Len(credits) \in Nat
  BY DEF RampTypeCorrect, Ledgers
<1>2. \A k \in 1 .. Len(credits) :
         /\ credits[k] \in Nat
         /\ credits[k] \in 1 .. Len(orders')
         /\ orders'[credits[k]].status = "completed"
  <2> SUFFICES ASSUME NEW k \in 1 .. Len(credits)
               PROVE  /\ credits[k] \in Nat
                      /\ credits[k] \in 1 .. Len(orders')
                      /\ orders'[credits[k]].status = "completed"
    OBVIOUS
  <2>1. credits[k] \in Nat
    BY <1>1
  <2>2. credits[k] \in 1 .. Len(orders) /\ orders[credits[k]].status = "completed"
    BY DEF CreditsKnow, IsOrder
  <2> QED
    BY <2>1, <2>2, OrdersStay DEF IsOrder
<1>3. CASE bank'.credits = credits
  BY <1>2, <1>3 DEF CreditsKnow, IsOrder
<1>4. CASE bank'.credits # credits
  <2>1. PICK o \in 1 .. Len(orders) :
           orders[o].status = "completed" /\ bank'.credits = Credited(o).credits
    BY <1>4 DEF CreditsKept
  <2>2. /\ \A k \in 1 .. Len(credits) : credits[k] # o
        /\ bank'.credits = Append(credits, o)
    BY <1>4, <2>1 DEF Credited, RampTypeCorrect, Ledgers
  <2>3. o \in 1 .. Len(orders') /\ orders'[o].status = "completed"
    <3>1. o \in Nat /\ IsOrder(o)
      BY DEF IsOrder, RampTypeCorrect
    <3> QED
      BY <2>1, <3>1, OrdersStay
  <2>4. /\ Len(bank'.credits) = Len(credits) + 1
        /\ bank'.credits[Len(credits) + 1] = o
        /\ \A k \in 1 .. Len(credits) : bank'.credits[k] = credits[k]
    BY <1>1, <2>2, <2>3
  <2> HIDE DEF credits
  <2>5. \A k \in 1 .. Len(bank'.credits) :
           bank'.credits[k] \in 1 .. Len(orders') /\ orders'[bank'.credits[k]].status = "completed"
    BY <1>1, <1>2, <2>3, <2>4 DEF IsOrder
  <2>6. \A j, k \in 1 .. Len(credits) : credits[j] = credits[k] => j = k
    BY DEF CreditsKnow, credits
  <2>7. \A j, k \in 1 .. Len(bank'.credits) : bank'.credits[j] = bank'.credits[k] => j = k
    BY <1>1, <2>2, <2>4, <2>6
  <2> QED
    BY <2>5, <2>7 DEF CreditsKnow, IsOrder
<1> QED
  BY <1>3, <1>4

LEMMA AllKept ==
    ASSUME RampInv, RampTypeCorrect', OrdersGrow, SessionKept, NetworkKept, CreditsKept,
           \A f \in Flows : FlowKept(f) /\ NoteKept(f)
    PROVE  RampInv'
<1>1. \A f \in Flows : (FlowKnows(f) /\ NoteKnows(f))'
  BY FlowSteps DEF RampInv
<1> QED
  BY <1>1, SessionSteps, NetworkSteps, CreditsSteps DEF RampInv

-----------------------------------------------------------------------------
(* What the helpers do.                                                     *)

LEMMA Going ==
    ASSUME RampTypeCorrect, NEW f \in Flows, NEW at \in Places, Goes(f, at),
           at \in WithOrder => flow[f].at \in WithOrder,
           at # "sign",
           at \in Unnoted => flow[f].at \in Unnoted
    PROVE  flow' \in [Flows -> FlowStates] /\ \A g \in Flows : FlowKept(g)
<1>1. flow \in [Flows -> FlowStates]
  BY DEF RampTypeCorrect
<1>2. flow' = [flow EXCEPT ![f] = [flow[f] EXCEPT !.at = at]]
  BY DEF Goes
<1>3. [flow[f] EXCEPT !.at = at] \in FlowStates
  BY <1>1 DEF FlowStates
<1>4. flow' \in [Flows -> FlowStates]
  BY <1>1, <1>2, <1>3
<1>5. flow'[f].at = at /\ flow'[f].order = flow[f].order
  BY <1>1, <1>2 DEF FlowStates
<1>6. \A g \in Flows : g # f => flow'[g] = flow[g]
  BY <1>1, <1>2
<1> QED
  BY <1>4, <1>5, <1>6 DEF FlowKept

LEMMA Ending ==
    ASSUME RampTypeCorrect, NEW fs \in SUBSET Flows, Over(fs)
    PROVE  flow' \in [Flows -> FlowStates] /\ \A g \in Flows : FlowKept(g)
<1>1. flow \in [Flows -> FlowStates]
  BY DEF RampTypeCorrect
<1>2. \A g \in Flows :
         LET after == [Resting EXCEPT !.at = "over", !.order = flow[g].order]
         IN  after \in FlowStates /\ after.at = "over" /\ after.order = flow[g].order
  BY <1>1 DEF FlowStates, Resting, NoPayment, Payments, Places, Money
<1>3. flow' \in [Flows -> FlowStates]
  BY <1>1, <1>2 DEF Over
<1>4. \A g \in Flows : \/ flow'[g] = flow[g]
                       \/ flow'[g].at = "over" /\ flow'[g].order = flow[g].order
  BY <1>2 DEF Over
<1> QED
  BY <1>3, <1>4 DEF FlowKept, WithOrder, Unnoted

LEMMA Funding ==
    ASSUME RampTypeCorrect, NEW o \in 1 .. Len(orders),
           orders' = [orders EXCEPT ![o].funded = @ + 1]
    PROVE  orders' \in Seq(Orders) /\ OrdersGrow
<1> DEFINE after == [orders[o] EXCEPT !.funded = @ + 1]
<1>1. /\ orders \in Seq(Orders) /\ Len(orders) \in Nat
      /\ orders[o] \in Orders
  BY DEF RampTypeCorrect
<1>2. after \in Orders /\ after.amount = orders[o].amount /\ after.status = orders[o].status
  <2> DEFINE order == orders[o]
  <2>1. order \in Orders
    BY <1>1
  <2> HIDE DEF order
  <2>2. order.funded + 1 \in Nat
    BY <2>1 DEF Orders
  <2>3. /\ [order EXCEPT !.funded = order.funded + 1] \in Orders
        /\ [order EXCEPT !.funded = order.funded + 1].amount = order.amount
        /\ [order EXCEPT !.funded = order.funded + 1].status = order.status
    BY <2>1, <2>2 DEF Orders
  <2> QED
    BY <2>3 DEF order
<1> HIDE DEF after
<1>3. orders' = [orders EXCEPT ![o] = after]
  BY DEF after
<1> QED
  BY <1>1, <1>2, <1>3 DEF OrdersGrow

LEMMA Judging ==
    ASSUME RampTypeCorrect, NEW o \in 1 .. Len(orders), NEW status \in {"completed", "failed"},
           orders[o].status = "open",
           orders' = [orders EXCEPT ![o].status = status]
    PROVE  orders' \in Seq(Orders) /\ OrdersGrow
<1> DEFINE after == [orders[o] EXCEPT !.status = status]
<1>1. /\ orders \in Seq(Orders) /\ Len(orders) \in Nat
      /\ orders[o] \in Orders
  BY DEF RampTypeCorrect
<1>2. after \in Orders /\ after.amount = orders[o].amount /\ orders[o].status # "completed"
  BY <1>1 DEF Orders
<1> HIDE DEF after
<1>3. orders' = [orders EXCEPT ![o] = after]
  BY DEF after
<1> QED
  BY <1>1, <1>2, <1>3 DEF OrdersGrow

LEMMA Booking ==
    ASSUME RampTypeCorrect, NEW f, NEW how \in {"pending", "refunded", "settled"},
           \/ bank' = [bank EXCEPT !.reserved[f] = how]
           \/ bank' = [bank EXCEPT !.reserved[f] = IF @ = "pending" THEN how ELSE @]
    PROVE  /\ bank' \in Ledgers
           /\ bank'.credits = bank.credits
<1>1. bank \in Ledgers
  BY DEF RampTypeCorrect, Ledgers
<1>2. PICK r \in [Deposits -> {"none", "pending", "refunded", "settled"}] :
         bank' = [bank EXCEPT !.reserved = r]
  <2> DEFINE one == [bank.reserved EXCEPT ![f] = how]
             two == [bank.reserved EXCEPT ![f] = IF @ = "pending" THEN how ELSE @]
  <2>1. /\ one \in [Deposits -> {"none", "pending", "refunded", "settled"}]
        /\ two \in [Deposits -> {"none", "pending", "refunded", "settled"}]
    BY <1>1 DEF Ledgers
  <2>2. bank' = [bank EXCEPT !.reserved = one] \/ bank' = [bank EXCEPT !.reserved = two]
    OBVIOUS
  <2> QED
    BY <2>1, <2>2
<1> QED
  BY <1>1, <1>2 DEF Ledgers

LEMMA Crediting ==
    ASSUME RampTypeCorrect, NEW o \in Nat, bank' = Credited(o)
    PROVE  bank' \in Ledgers
<1>1. /\ bank \in Ledgers
      /\ Append(bank.credits, o) \in Seq(Nat)
  BY DEF RampTypeCorrect, Ledgers
<1>2. bank' = bank \/ bank' = [bank EXCEPT !.credits = Append(bank.credits, o)]
  BY DEF Credited
<1> QED
  BY <1>1, <1>2 DEF Ledgers

-----------------------------------------------------------------------------
(* The steps.                                                               *)

\* A step that only moves flows on, and lets session, notes, payments and credits be.
LEMMA FlowsMove ==
    ASSUME RampInv, flow' \in [Flows -> FlowStates], \A g \in Flows : FlowKept(g),
           OnlyFlow
    PROVE  RampInv'
<1>1. RampTypeCorrect'
  BY DEF RampInv, RampTypeCorrect, OnlyFlow
<1>2. OrdersGrow
  BY SameOrdersGrow DEF RampInv, OnlyFlow
<1>3. SessionKept /\ NetworkKept /\ CreditsKept /\ \A g \in Flows : NoteKept(g)
  BY DEF SessionKept, NetworkKept, CreditsKept, NoteKept, OnlyFlow
<1> QED
  BY <1>1, <1>2, <1>3, AllKept

LEMMA StartSteps ==
    ASSUME RampInv, NEW f \in Flows, Starts(f)
    PROVE  RampInv'
<1>1. PICK amount \in Amounts :
         flow' = [flow EXCEPT ![f] = [Resting EXCEPT !.amount = amount,
                                      !.at = IF f \in Deposits THEN "reserve" ELSE "note"]]
  BY DEF Starts
<1> DEFINE after == [Resting EXCEPT !.amount = amount,
                                    !.at = IF f \in Deposits THEN "reserve" ELSE "note"]
<1>2. /\ after \in FlowStates /\ after.at \in Unnoted
      /\ after.at \notin WithOrder /\ after.at # "sign"
  BY DEF Resting, NoPayment, FlowStates, Payments, Places, Money, Unnoted, WithOrder
<1> HIDE DEF after
<1>3. /\ flow' \in [Flows -> FlowStates]
      /\ flow'[f] = after
      /\ \A g \in Flows : g # f => flow'[g] = flow[g]
  BY <1>1, <1>2 DEF RampInv, RampTypeCorrect, after
<1>4. RampTypeCorrect' /\ OrdersGrow
  BY <1>3, SameOrdersGrow DEF RampInv, RampTypeCorrect, Starts, OnlyFlow
<1>5. SessionKept /\ NetworkKept /\ CreditsKept /\ \A g \in Flows : NoteKept(g)
  BY DEF SessionKept, NetworkKept, CreditsKept, NoteKept, Starts, OnlyFlow
<1>6. FlowKnows(f)' /\ NoteKnows(f)'
  <2>1. noted[f] # "ordered"
    BY DEF RampInv, NoteKnows, Starts, Unnoted
  <2> QED
    BY <1>2, <1>3, <2>1 DEF FlowKnows, NoteKnows, Starts, OnlyFlow
<1>7. \A g \in Flows : g # f => FlowKnows(g)' /\ NoteKnows(g)'
  <2>1. \A g \in Flows : g # f => FlowKept(g)
    BY <1>3 DEF FlowKept
  <2> QED
    BY <1>4, <1>5, <2>1, FlowSteps DEF RampInv
<1> QED
  BY <1>4, <1>5, <1>6, <1>7, SessionSteps, NetworkSteps, CreditsSteps DEF RampInv

LEMMA WalkSteps ==
    ASSUME RampInv, NEW f \in Flows,
           \/ Quotes(f) \/ LogsIn(f) \/ PreparesAccount(f) \/ RegistersCustomer(f) \/ NotesPaid(f)
    PROVE  RampInv'
<1>1. PICK at \in {"login", "prepare", "customer", "order", "wait"} :
         /\ Goes(f, at) /\ OnlyFlow
         /\ at = "wait" => flow[f].at = "note_paid"
         /\ at # "wait" => flow[f].at \in {"quote", "login", "prepare", "customer"}
  BY DEF Quotes, LogsIn, PreparesAccount, RegistersCustomer, NotesPaid
<1>2. /\ at \in Places /\ at # "sign"
      /\ at \in WithOrder => flow[f].at \in WithOrder
      /\ at \in Unnoted => flow[f].at \in Unnoted
  BY <1>1 DEF Places, WithOrder, Unnoted
<1>3. flow' \in [Flows -> FlowStates] /\ \A g \in Flows : FlowKept(g)
  BY <1>1, <1>2, Going DEF RampInv
<1> QED
  BY <1>1, <1>3, FlowsMove

LEMMA ReserveSteps ==
    ASSUME RampInv, NEW f \in Flows, Reserves(f)
    PROVE  RampInv'
<1>1. flow' \in [Flows -> FlowStates] /\ \A g \in Flows : FlowKept(g)
  BY Going DEF RampInv, Reserves, Places, WithOrder, Unnoted
<1>2. bank' \in Ledgers /\ bank'.credits = bank.credits
  BY Booking DEF RampInv, Reserves
<1>3. RampTypeCorrect' /\ OrdersGrow
  BY <1>1, <1>2, SameOrdersGrow DEF RampInv, RampTypeCorrect, Reserves
<1>4. SessionKept /\ NetworkKept /\ CreditsKept /\ \A g \in Flows : NoteKept(g)
  BY <1>2 DEF SessionKept, NetworkKept, CreditsKept, NoteKept, Reserves
<1> QED
  BY <1>1, <1>3, <1>4, AllKept

LEMMA NoteSteps ==
    ASSUME RampInv, NEW f \in Flows, Notes(f)
    PROVE  RampInv'
<1>1. flow' \in [Flows -> FlowStates] /\ \A g \in Flows : FlowKept(g)
  BY Going DEF RampInv, Notes, Places, WithOrder, Unnoted
<1>2. noted' \in [Flows -> {"nothing", "reserved", "ordered"}] /\ \A g \in Flows : NoteKept(g)
  BY DEF RampInv, RampTypeCorrect, Notes, NoteKept
<1>3. RampTypeCorrect' /\ OrdersGrow
  BY <1>1, <1>2, SameOrdersGrow DEF RampInv, RampTypeCorrect, Notes
<1>4. SessionKept /\ NetworkKept /\ CreditsKept
  BY DEF SessionKept, NetworkKept, CreditsKept, Notes
<1> QED
  BY <1>1, <1>2, <1>3, <1>4, AllKept

LEMMA PlaceSteps ==
    ASSUME RampInv, NEW f \in Flows, NEW yes \in BOOLEAN, Placed(f, yes),
           session' = session \/ session' = [order |-> Len(orders) + 1, amount |-> flow[f].amount]
    PROVE  RampInv'
<1> DEFINE o == Len(orders) + 1
           new == [amount |-> flow[f].amount, funded |-> 0, status |-> "open"]
<1>1. /\ orders \in Seq(Orders) /\ Len(orders) \in Nat /\ o \in Nat
      /\ flow \in [Flows -> FlowStates] /\ flow[f].amount \in Money
  BY DEF RampInv, RampTypeCorrect, FlowStates
<1>2. new \in Orders /\ orders' = Append(orders, new)
  BY <1>1 DEF Orders, Placed
<1>3. /\ orders' \in Seq(Orders) /\ Len(orders') = o /\ orders'[o] = new
      /\ \A q \in 1 .. Len(orders) : orders'[q] = orders[q]
  BY <1>1, <1>2
<1>4. OrdersGrow
  BY <1>1, <1>3 DEF OrdersGrow
<1>5. /\ flow' \in [Flows -> FlowStates]
      /\ flow'[f].at = (IF yes THEN "note_order" ELSE "broken")
      /\ flow'[f].order = (IF yes THEN o ELSE 0)
      /\ \A g \in Flows : g # f => flow'[g] = flow[g]
  <2> DEFINE after == [flow[f] EXCEPT !.at = IF yes THEN "note_order" ELSE "broken",
                                      !.order = IF yes THEN o ELSE 0]
  <2>1. /\ after \in FlowStates
        /\ after.at = (IF yes THEN "note_order" ELSE "broken")
        /\ after.order = (IF yes THEN o ELSE 0)
    BY <1>1 DEF FlowStates, Places
  <2>2. flow' = [flow EXCEPT ![f] = after]
    BY <1>1 DEF Placed
  <2> HIDE DEF after
  <2> QED
    BY <1>1, <2>1, <2>2
<1>6. session' \in [order : Nat, amount : Money]
  BY <1>1 DEF RampInv, RampTypeCorrect
<1>7. RampTypeCorrect'
  BY <1>3, <1>5, <1>6 DEF RampInv, RampTypeCorrect, Placed
<1>8. SessionKnows'
  <2>1. CASE session' = session
    BY <1>4, <1>7, <2>1, SessionSteps DEF SessionKept, RampInv
  <2>2. CASE session' = [order |-> o, amount |-> flow[f].amount]
    BY <1>1, <1>3, <2>2 DEF SessionKnows, IsFor, IsOrder
  <2> QED
    BY <2>1, <2>2
<1>9. \A g \in Flows : NoteKept(g)
  BY DEF NoteKept, Placed
<1>10. (FlowKnows(f) /\ NoteKnows(f))'
  <2>1. noted[f] # "ordered" /\ noted' = noted
    BY DEF RampInv, NoteKnows, Placed, Unnoted
  <2>2. flow'[f].at \in WithOrder => flow'[f].order \in 1 .. Len(orders')
    BY <1>1, <1>3, <1>5 DEF WithOrder
  <2> QED
    BY <1>5, <2>1, <2>2 DEF FlowKnows, NoteKnows, IsOrder
<1>11. \A g \in Flows : g # f => (FlowKnows(g) /\ NoteKnows(g))'
  BY <1>4, <1>5, <1>7, <1>9, FlowSteps DEF RampInv, FlowKept
<1>12. NetworkKept /\ CreditsKept
  BY DEF NetworkKept, CreditsKept, Placed
<1> QED
  BY <1>4, <1>7, <1>8, <1>10, <1>11, <1>12, NetworkSteps, CreditsSteps DEF RampInv

LEMMA NoteOrderSteps ==
    ASSUME RampInv, NEW f \in Flows, NotesOrder(f)
    PROVE  RampInv'
<1>1. flow' \in [Flows -> FlowStates] /\ \A g \in Flows : FlowKept(g)
  BY Going DEF RampInv, NotesOrder, Places, WithOrder, Unnoted
<1>2. /\ noted' \in [Flows -> {"nothing", "reserved", "ordered"}]
      /\ \A g \in Flows : g # f => NoteKept(g)
  BY DEF RampInv, RampTypeCorrect, NotesOrder, NoteKept
<1>3. RampTypeCorrect' /\ OrdersGrow
  BY <1>1, <1>2, SameOrdersGrow DEF RampInv, RampTypeCorrect, NotesOrder
<1>4. SessionKept /\ NetworkKept /\ CreditsKept
  BY DEF SessionKept, NetworkKept, CreditsKept, NotesOrder
<1>5. \A g \in Flows : FlowKnows(g)'
  BY <1>1, <1>3, FlowSteps DEF RampInv
<1>6. flow'[f].at \in {"transfer", "pay"}
  BY DEF RampInv, RampTypeCorrect, NotesOrder, Goes, FlowStates
<1>7. NoteKnows(f)'
  BY <1>5, <1>6 DEF NoteKnows, FlowKnows, WithOrder, Unnoted
<1>8. \A g \in Flows : g # f => NoteKnows(g)'
  BY <1>1, <1>2, <1>3, FlowSteps DEF RampInv
<1> QED
  BY <1>3, <1>4, <1>5, <1>7, <1>8, SessionSteps, NetworkSteps, CreditsSteps DEF RampInv

LEMMA TransferSteps ==
    ASSUME RampInv, NEW f \in Flows, Transfers(f)
    PROVE  RampInv'
<1>1. flow' \in [Flows -> FlowStates] /\ \A g \in Flows : FlowKept(g)
  BY Going DEF RampInv, Transfers, Places, WithOrder, Unnoted
<1>2. flow[f].order \in 1 .. Len(orders)
  BY DEF RampInv, FlowKnows, IsOrder, Transfers, WithOrder
<1>3. orders' \in Seq(Orders) /\ OrdersGrow
  BY <1>2, Funding DEF RampInv, Transfers
<1>4. RampTypeCorrect'
  BY <1>1, <1>3 DEF RampInv, RampTypeCorrect, Transfers
<1>5. SessionKept /\ NetworkKept /\ CreditsKept /\ \A g \in Flows : NoteKept(g)
  BY DEF SessionKept, NetworkKept, CreditsKept, NoteKept, Transfers
<1> QED
  BY <1>1, <1>3, <1>4, <1>5, AllKept

\* The payment is for the session's order, and that was placed for this amount.
LEMMA BuildSteps ==
    ASSUME RampInv, NEW f \in Flows, BuildsPayment(f)
    PROVE  RampInv'
<1> DEFINE pays  == [order |-> session.order, seq |-> nextSequence]
           after == [flow[f] EXCEPT !.at = "sign", !.payment = pays]
<1>1. flow \in [Flows -> FlowStates] /\ flow[f] \in FlowStates /\ pays \in Payments
  BY DEF RampInv, RampTypeCorrect, Payments
<1>2. /\ after \in FlowStates /\ after.at = "sign" /\ after.payment.order = session.order
      /\ after.amount = flow[f].amount /\ after.order = flow[f].order
  <2> HIDE DEF pays
  <2>1. /\ after \in FlowStates /\ after.at = "sign" /\ after.payment = pays
        /\ after.amount = flow[f].amount /\ after.order = flow[f].order
    BY <1>1 DEF FlowStates, Places
  <2> QED
    BY <2>1 DEF pays
<1>3. flow' = [flow EXCEPT ![f] = after]
  BY <1>1 DEF BuildsPayment
<1> HIDE DEF after, pays
<1>4. /\ flow' \in [Flows -> FlowStates] /\ flow'[f] = after
      /\ \A g \in Flows : g # f => flow'[g] = flow[g]
  BY <1>1, <1>2, <1>3
<1>5. RampTypeCorrect' /\ OrdersGrow
  BY <1>4, SameOrdersGrow DEF RampInv, RampTypeCorrect, BuildsPayment, OnlyFlow
<1>6. SessionKept /\ NetworkKept /\ CreditsKept /\ \A g \in Flows : NoteKept(g)
  BY DEF SessionKept, NetworkKept, CreditsKept, NoteKept, BuildsPayment, OnlyFlow
<1>7. (FlowKnows(f) /\ NoteKnows(f))'
  <2>1. IsFor(session.order, flow[f].amount)
    BY DEF RampInv, SessionKnows, BuildsPayment
  <2>2. IsOrder(flow[f].order)
    BY DEF RampInv, FlowKnows, BuildsPayment, WithOrder
  <2>3. orders' = orders /\ noted' = noted
    BY DEF BuildsPayment, OnlyFlow
  <2> QED
    BY <1>2, <1>4, <2>1, <2>2, <2>3 DEF FlowKnows, NoteKnows, IsFor, IsOrder, Unnoted
<1>8. \A g \in Flows : g # f => (FlowKnows(g) /\ NoteKnows(g))'
  BY <1>4, <1>5, <1>6, FlowSteps DEF RampInv, FlowKept
<1> QED
  BY <1>5, <1>6, <1>7, <1>8, SessionSteps, NetworkSteps, CreditsSteps DEF RampInv

LEMMA SendSteps ==
    ASSUME RampInv, NEW f \in Flows, NEW arrives \in BOOLEAN, SendsPayment(f, arrives)
    PROVE  RampInv'
<1> DEFINE sent == [flow |-> f, order |-> flow[f].payment.order, seq |-> flow[f].payment.seq,
                    amount |-> flow[f].amount, landed |-> FALSE]
<1>1. flow' \in [Flows -> FlowStates] /\ \A g \in Flows : FlowKept(g)
  BY Going DEF RampInv, SendsPayment, Places, WithOrder, Unnoted
<1>2. sent \in [flow : Flows, order : Nat, seq : Nat, amount : Money, landed : BOOLEAN]
  BY DEF RampInv, RampTypeCorrect, FlowStates, Payments
<1>3. network' \subseteq network \cup {sent}
  BY DEF SendsPayment
<1>4. RampTypeCorrect' /\ OrdersGrow
  BY <1>1, <1>2, <1>3, SameOrdersGrow DEF RampInv, RampTypeCorrect, SendsPayment
<1>5. SessionKept /\ CreditsKept /\ \A g \in Flows : NoteKept(g)
  BY DEF SessionKept, CreditsKept, NoteKept, SendsPayment
<1>6. IsFor(sent.order, sent.amount)
  BY DEF RampInv, FlowKnows, SendsPayment
<1>7. NetworkKnows'
  BY <1>3, <1>6 DEF RampInv, NetworkKnows, SendsPayment, IsFor, IsOrder
<1> QED
  BY <1>1, <1>4, <1>5, <1>7, FlowSteps, SessionSteps, CreditsSteps DEF RampInv

LEMMA AnswerSteps ==
    ASSUME RampInv, NEW f \in Flows, PaymentAnswers(f)
    PROVE  RampInv'
<1>1. flow' \in [Flows -> FlowStates] /\ \A g \in Flows : FlowKept(g)
  BY Going DEF RampInv, PaymentAnswers, Places, WithOrder, Unnoted
<1>2. session' \in [order : Nat, amount : Money] /\ session'.order = 0
  BY DEF PaymentAnswers, Money
<1>3. RampTypeCorrect' /\ OrdersGrow
  BY <1>1, <1>2, SameOrdersGrow DEF RampInv, RampTypeCorrect, PaymentAnswers
<1>4. SessionKept /\ NetworkKept /\ CreditsKept /\ \A g \in Flows : NoteKept(g)
  BY <1>2 DEF SessionKept, NetworkKept, CreditsKept, NoteKept, PaymentAnswers
<1> QED
  BY <1>1, <1>3, <1>4, AllKept

LEMMA CompleteSteps ==
    ASSUME RampInv, NEW f \in Flows, Completes(f)
    PROVE  RampInv'
<1> DEFINE order == flow[f].order
<1>1. flow' \in [Flows -> FlowStates] /\ \A g \in Flows : FlowKept(g)
  BY Going DEF RampInv, Completes, Places, WithOrder, Unnoted
<1>2. order \in Nat /\ order \in 1 .. Len(orders) /\ orders[order].status = "completed"
  BY DEF RampInv, RampTypeCorrect, FlowStates, FlowKnows, IsOrder, Completes, WithOrder
<1>3. bank' \in Ledgers /\ CreditsKept
  <2>1. CASE f \in Deposits
    BY <2>1, Booking DEF RampInv, Completes, Settled, CreditsKept
  <2>2. CASE f \notin Deposits
    BY <1>2, <2>2, Crediting DEF RampInv, Completes, CreditsKept
  <2> QED
    BY <2>1, <2>2
<1>4. RampTypeCorrect' /\ OrdersGrow
  BY <1>1, <1>3, SameOrdersGrow DEF RampInv, RampTypeCorrect, Completes
<1>5. SessionKept /\ NetworkKept /\ \A g \in Flows : NoteKept(g)
  BY DEF SessionKept, NetworkKept, NoteKept, Completes
<1> QED
  BY <1>1, <1>3, <1>4, <1>5, AllKept

LEMMA DropSteps ==
    ASSUME RampInv, NEW f \in Flows, Drops(f)
    PROVE  RampInv'
<1>1. flow' \in [Flows -> FlowStates] /\ \A g \in Flows : FlowKept(g)
  BY Ending DEF RampInv, Drops
<1>2. noted' \in [Flows -> {"nothing", "reserved", "ordered"}] /\ \A g \in Flows : NoteKept(g)
  BY DEF RampInv, RampTypeCorrect, Drops, NoteKept
<1>3. RampTypeCorrect' /\ OrdersGrow
  BY <1>1, <1>2, SameOrdersGrow DEF RampInv, RampTypeCorrect, Drops
<1>4. SessionKept /\ NetworkKept /\ CreditsKept
  BY DEF SessionKept, NetworkKept, CreditsKept, Drops
<1> QED
  BY <1>1, <1>2, <1>3, <1>4, AllKept

LEMMA BreakSteps ==
    ASSUME RampInv, NEW f \in Flows, Breaks(f)
    PROVE  RampInv'
<1>1. flow' \in [Flows -> FlowStates] /\ \A g \in Flows : FlowKept(g)
  <2>1. Over({f}) \/ Goes(f, "drop")
    BY DEF Breaks
  <2> QED
    BY <2>1, Ending, Going DEF RampInv, Places, WithOrder, Unnoted
<1>2. bank' \in Ledgers /\ bank'.credits = bank.credits
  <2>1. CASE f \in Deposits
    BY <2>1, Booking DEF RampInv, Breaks, Reversed
  <2>2. CASE f \notin Deposits
    BY <2>2 DEF RampInv, RampTypeCorrect, Breaks
  <2> QED
    BY <2>1, <2>2
<1>3. RampTypeCorrect' /\ OrdersGrow
  BY <1>1, <1>2, SameOrdersGrow DEF RampInv, RampTypeCorrect, Breaks
<1>4. SessionKept /\ NetworkKept /\ CreditsKept /\ \A g \in Flows : NoteKept(g)
  BY <1>2 DEF SessionKept, NetworkKept, CreditsKept, NoteKept, Breaks
<1> QED
  BY <1>1, <1>3, <1>4, AllKept

LEMMA RestartSteps ==
    ASSUME RampInv, Restarts
    PROVE  RampInv'
<1>1. flow' \in [Flows -> FlowStates] /\ \A g \in Flows : FlowKept(g)
  BY Ending DEF RampInv, Restarts
<1>2. session' \in [order : Nat, amount : Money] /\ session'.order = 0
  BY DEF Restarts, Money
<1>3. RampTypeCorrect' /\ OrdersGrow
  BY <1>1, <1>2, SameOrdersGrow DEF RampInv, RampTypeCorrect, Restarts
<1>4. SessionKept /\ NetworkKept /\ CreditsKept /\ \A g \in Flows : NoteKept(g)
  BY <1>2 DEF SessionKept, NetworkKept, CreditsKept, NoteKept, Restarts
<1> QED
  BY <1>1, <1>3, <1>4, AllKept

LEMMA ReconcileSteps ==
    ASSUME RampInv, Reconciles
    PROVE  RampInv'
<1>1. found' \in [resolve : SUBSET Flows, drop : SUBSET Flows]
  BY DEF RampInv, RampTypeCorrect, Reconciles
<1>2. RampTypeCorrect' /\ OrdersGrow
  BY <1>1, SameOrdersGrow DEF RampInv, RampTypeCorrect, Reconciles
<1>3. /\ SessionKept /\ NetworkKept /\ CreditsKept
      /\ \A g \in Flows : FlowKept(g) /\ NoteKept(g)
  BY DEF SessionKept, NetworkKept, CreditsKept, NoteKept, FlowKept, Reconciles
<1> QED
  BY <1>2, <1>3, AllKept

\* A note that names an order names one that exists: it is looked up before it is credited.
LEMMA ResolveSteps ==
    ASSUME RampInv, NEW f \in Flows, Resolves(f)
    PROVE  RampInv'
<1> DEFINE ended == IF noted[f] = "ordered" THEN orders[flow[f].order].status ELSE "failed"
<1>1. found' \in [resolve : SUBSET Flows, drop : SUBSET Flows]
  BY DEF RampInv, RampTypeCorrect, Resolves
<1>2. ended \in {"open", "completed", "failed"}
  <2>1. noted[f] = "ordered" => orders[flow[f].order] \in Orders
    BY DEF RampInv, RampTypeCorrect, NoteKnows, IsOrder
  <2> QED
    BY <2>1 DEF Orders
<1>3. ended = "completed" => /\ flow[f].order \in Nat
                             /\ flow[f].order \in 1 .. Len(orders)
                             /\ orders[flow[f].order].status = "completed"
  BY DEF RampInv, RampTypeCorrect, FlowStates, NoteKnows, IsOrder
<1>4. \/ bank' = bank
      \/ ended = "completed" /\ bank' = Settled(f)
      \/ ended = "completed" /\ bank' = Credited(flow[f].order)
      \/ bank' = Reversed(f)
  <2> HIDE DEF ended
  <2>1. bank' = CASE ended = "open" -> bank
                  [] ended = "completed" /\ f \in Deposits -> Settled(f)
                  [] ended = "completed" /\ f \in Withdrawals -> Credited(flow[f].order)
                  [] ended = "failed" -> IF f \in Deposits THEN Reversed(f) ELSE bank
    BY DEF Resolves, ended
  <2> QED
    BY <1>2, <2>1 DEF Flows
<1>5. bank' \in Ledgers /\ CreditsKept
  <2>1. CASE bank' = bank
    BY <2>1 DEF RampInv, RampTypeCorrect, CreditsKept
  <2>2. CASE bank' = Settled(f) \/ bank' = Reversed(f)
    BY <2>2, Booking DEF RampInv, Settled, Reversed, CreditsKept
  <2>3. CASE ended = "completed" /\ bank' = Credited(flow[f].order)
    BY <1>3, <2>3, Crediting DEF RampInv, CreditsKept
  <2> QED
    BY <1>4, <2>1, <2>2, <2>3
<1>6. RampTypeCorrect' /\ OrdersGrow
  BY <1>1, <1>5, SameOrdersGrow DEF RampInv, RampTypeCorrect, Resolves
<1>7. SessionKept /\ NetworkKept /\ \A g \in Flows : FlowKept(g) /\ NoteKept(g)
  BY DEF SessionKept, NetworkKept, NoteKept, FlowKept, Resolves
<1> QED
  BY <1>5, <1>6, <1>7, AllKept

LEMMA DropFoundSteps ==
    ASSUME RampInv, NEW f \in Flows, DropsFound(f)
    PROVE  RampInv'
<1>1. /\ found' \in [resolve : SUBSET Flows, drop : SUBSET Flows]
      /\ noted' \in [Flows -> {"nothing", "reserved", "ordered"}]
  BY DEF RampInv, RampTypeCorrect, DropsFound
<1>2. RampTypeCorrect' /\ OrdersGrow
  BY <1>1, SameOrdersGrow DEF RampInv, RampTypeCorrect, DropsFound
<1>3. /\ SessionKept /\ NetworkKept /\ CreditsKept
      /\ \A g \in Flows : FlowKept(g) /\ NoteKept(g)
  BY DEF RampInv, RampTypeCorrect, SessionKept, NetworkKept, CreditsKept, NoteKept, FlowKept,
     DropsFound
<1> QED
  BY <1>2, <1>3, AllKept

LEMMA OrderEndSteps ==
    ASSUME RampInv, NEW o \in 1 .. Len(orders), NEW status \in {"completed", "failed"},
           OrderEnds(o, status)
    PROVE  RampInv'
<1>1. orders' \in Seq(Orders) /\ OrdersGrow
  BY Judging DEF RampInv, OrderEnds
<1>2. RampTypeCorrect'
  BY <1>1 DEF RampInv, RampTypeCorrect, OrderEnds
<1>3. /\ SessionKept /\ NetworkKept /\ CreditsKept
      /\ \A g \in Flows : FlowKept(g) /\ NoteKept(g)
  BY DEF SessionKept, NetworkKept, CreditsKept, NoteKept, FlowKept, OrderEnds
<1> QED
  BY <1>1, <1>2, <1>3, AllKept

LEMMA LandSteps ==
    ASSUME RampInv, NEW p \in network, PaymentLands(p)
    PROVE  RampInv'
<1> DEFINE after == [p EXCEPT !.landed = TRUE]
<1>1. p \in [flow : Flows, order : Nat, seq : Nat, amount : Money, landed : BOOLEAN]
  BY DEF RampInv, RampTypeCorrect
<1>2. /\ after \in [flow : Flows, order : Nat, seq : Nat, amount : Money, landed : BOOLEAN]
      /\ after.order = p.order /\ after.amount = p.amount
  BY <1>1
<1>3. p.order \in 1 .. Len(orders)
  BY DEF RampInv, NetworkKnows, IsFor, IsOrder
<1>4. orders' \in Seq(Orders) /\ OrdersGrow
  BY <1>3, Funding DEF RampInv, PaymentLands
<1>5. network' = (network \ {p}) \cup {after}
  BY DEF PaymentLands
<1> HIDE DEF after
<1>6. nextSequence' \in Nat
  BY DEF RampInv, RampTypeCorrect, PaymentLands
<1>7. RampTypeCorrect'
  BY <1>2, <1>4, <1>5, <1>6 DEF RampInv, RampTypeCorrect, PaymentLands
<1>8. NetworkKept
  BY <1>2, <1>5 DEF NetworkKept
<1>9. /\ SessionKept /\ CreditsKept
      /\ \A g \in Flows : FlowKept(g) /\ NoteKept(g)
  BY DEF SessionKept, CreditsKept, NoteKept, FlowKept, PaymentLands
<1> QED
  BY <1>4, <1>7, <1>8, <1>9, AllKept

-----------------------------------------------------------------------------
LEMMA FlowStepSteps ==
    ASSUME RampInv, NEW f \in Flows, FlowStep(f)
    PROVE  RampInv'
<1>1. CASE \/ Quotes(f) \/ LogsIn(f) \/ PreparesAccount(f) \/ RegistersCustomer(f)
           \/ NotesPaid(f)
  BY <1>1, WalkSteps
<1>2. CASE \E yes \in BOOLEAN : PlacesDeposit(f, yes)
  BY <1>2, PlaceSteps DEF PlacesDeposit
<1>3. CASE \E yes \in BOOLEAN : PlacesWithdrawal(f, yes)
  BY <1>3, PlaceSteps DEF PlacesWithdrawal
<1>4. CASE \/ Starts(f) \/ Reserves(f) \/ Notes(f) \/ NotesOrder(f) \/ Transfers(f)
           \/ BuildsPayment(f) \/ PaymentAnswers(f) \/ Completes(f) \/ Drops(f) \/ Breaks(f)
           \/ Resolves(f) \/ DropsFound(f) \/ \E yes \in BOOLEAN : SendsPayment(f, yes)
  BY <1>4, StartSteps, ReserveSteps, NoteSteps, NoteOrderSteps, TransferSteps, BuildSteps,
     AnswerSteps, CompleteSteps, DropSteps, BreakSteps, ResolveSteps, DropFoundSteps, SendSteps
<1> QED
  BY <1>1, <1>2, <1>3, <1>4 DEF FlowStep

LEMMA RampInvSteps == RampInv /\ [RampNext]_rampVars => RampInv'
<1> SUFFICES ASSUME RampInv, [RampNext]_rampVars PROVE RampInv'
  OBVIOUS
<1>1. CASE \E f \in Flows : FlowStep(f)
  BY <1>1, FlowStepSteps
<1>2. CASE Restarts
  BY <1>2, RestartSteps
<1>3. CASE Reconciles
  BY <1>3, ReconcileSteps
<1>4. CASE \E o \in 1 .. Len(orders), status \in {"completed", "failed"} : OrderEnds(o, status)
  BY <1>4, OrderEndSteps
<1>5. CASE \E p \in network : PaymentLands(p)
  BY <1>5, LandSteps
<1>6. CASE UNCHANGED rampVars
  BY <1>6 DEF rampVars, RampInv, RampTypeCorrect, SessionKnows, FlowKnows, NoteKnows,
     NetworkKnows, CreditsKnow, IsFor, IsOrder
<1> QED
  BY <1>1, <1>2, <1>3, <1>4, <1>5, <1>6 DEF RampNext

LEMMA RampInvStarts == RampInit => RampInv
<1> SUFFICES ASSUME RampInit PROVE RampInv
  OBVIOUS
<1>1. Resting \in FlowStates /\ Resting.at = "idle"
  BY DEF Resting, NoPayment, FlowStates, Payments, Places, Money
<1>2. session \in [order : Nat, amount : Money] /\ session.order = 0
  BY DEF RampInit, NoOrder, Money
<1>3. bank \in Ledgers /\ bank.credits = <<>>
  BY DEF RampInit, OpenBank, Ledgers
<1>4. RampTypeCorrect
  BY <1>1, <1>2, <1>3 DEF RampInit, RampTypeCorrect, NoNote
<1>5. \A f \in Flows : FlowKnows(f) /\ NoteKnows(f)
  BY <1>1 DEF RampInit, FlowKnows, NoteKnows, WithOrder, NoNote
<1> QED
  BY <1>2, <1>3, <1>4, <1>5 DEF RampInit, RampInv, SessionKnows, NetworkKnows, CreditsKnow

\* What is known of the orders holds in every reachable state, for any flows, amounts,
\* number of restarts and behaviour of the anchor and the network.
THEOREM RampInvariant == RampSpec => []RampInv
<1> QED
  BY RampInvStarts, RampInvSteps, PTL DEF RampSpec

\* An order is paid what it was placed for, whichever flow of the shared session pays it
\* (session.ts:391-393).
THEOREM OrdersArePaidTheirAmount == RampSpec => []PaymentsMatchTheirOrder
<1>1. RampInv => PaymentsMatchTheirOrder
  BY DEF RampInv, NetworkKnows, IsFor, PaymentsMatchTheirOrder
<1> QED
  BY <1>1, RampInvariant, PTL

\* A payout is credited once and only when the anchor paid it, whatever stopped in between
\* and however often it is reconciled (bankFlow.ts:483-486, 560-566).
THEOREM PayoutsCreditedOnce == RampSpec => []PayoutsAreCreditedOnce
<1>1. RampInv => PayoutsAreCreditedOnce
  BY DEF RampInv, CreditsKnow, PayoutsAreCreditedOnce
<1> QED
  BY <1>1, RampInvariant, PTL

\* What is paid to the anchor and what it pays out both follow the orders, whichever flows
\* share the session and wherever they stop (session.ts, bankFlow.ts).
THEOREM TransfersAreForTheirOrders == RampSpec => []TransfersFollowTheirOrders
  BY OrdersArePaidTheirAmount, PayoutsCreditedOnce, PTL DEF TransfersFollowTheirOrders

-----------------------------------------------------------------------------
(* The clocks of standing orders.                                          *)

Hours == -12 .. 14
Zones == [before : Hours, after : Hours]

\* Both offsets are looked at wherever they count: the instants shown are all at which
\* the zone shows the clock.
LEMMA InstantsAreShown ==
    ASSUME NEW z \in Zones, NEW wall \in Int
    PROVE  /\ possibleInstants(z, wall) =
                {t \in {wall - z.before, wall - z.after} : t + offsetSecondsAt(z, t) = wall}
           /\ \A t \in Int : t + offsetSecondsAt(z, t) = wall => t \in possibleInstants(z, wall)
<1> DEFINE early == wall - z.before
           late  == wall - z.after
<1>1. z.before \in Hours /\ z.after \in Hours /\ early \in Int /\ late \in Int
  BY DEF Zones, Hours
<1>2. OffsetsNear(z, wall) \subseteq {z.before, z.after}
  BY DEF OffsetsNear, offsetSecondsAt
<1>3. ASSUME NEW t \in Int, t + offsetSecondsAt(z, t) = wall
      PROVE  t \in possibleInstants(z, wall) /\ t \in {early, late}
  <2>1. CASE t < 0
    <3>1. t = wall - z.before /\ offsetSecondsAt(z, t) = z.before
      BY <1>1, <1>3, <2>1 DEF offsetSecondsAt, Jump, Hours
    <3>2. offsetSecondsAt(z, wall - Day) = z.before
      BY <1>1, <2>1, <3>1 DEF offsetSecondsAt, Jump, Hours, Day
    <3>3. z.before \in OffsetsNear(z, wall)
      BY <3>2 DEF OffsetsNear
    <3> QED
      BY <1>1, <1>3, <3>1, <3>3 DEF possibleInstants, wallAt, Hours
  <2>2. CASE t >= 0
    <3>1. t = wall - z.after /\ offsetSecondsAt(z, t) = z.after
      BY <1>1, <1>3, <2>2 DEF offsetSecondsAt, Jump, Hours
    <3>2. offsetSecondsAt(z, wall + Day) = z.after
      BY <1>1, <2>2, <3>1 DEF offsetSecondsAt, Jump, Hours, Day
    <3>3. z.after \in OffsetsNear(z, wall)
      BY <3>2 DEF OffsetsNear
    <3> QED
      BY <1>1, <1>3, <3>1, <3>3 DEF possibleInstants, wallAt, Hours
  <2> QED
    BY <2>1, <2>2
<1>4. ASSUME NEW t \in possibleInstants(z, wall)
      PROVE  t \in {early, late} /\ t + offsetSecondsAt(z, t) = wall
  BY <1>2, <1>4 DEF possibleInstants, wallAt
<1> QED
  BY <1>1, <1>3, <1>4

\* What the bisection between two different offsets must compute.
Bisects(z, wall, bisect) ==
    LET before == offsetSecondsAt(z, wall - Span)
        near   == (wall - Span) .. (wall + Span)
    IN  bisect =
          [gap \in [lo : near, hi : near] |->
            LET mid == (gap.lo + gap.hi) \div 2 IN
            IF gap.hi - gap.lo <= 1 THEN gap.hi
            ELSE IF offsetSecondsAt(z, mid) = before THEN bisect[[lo |-> mid, hi |-> gap.hi]]
                                                     ELSE bisect[[lo |-> gap.lo, hi |-> mid]]]

\* It stops at the first instant of the new offset, a gap twice as wide after one step more.
LEMMA BisectionFinds ==
    ASSUME NEW z \in Zones, z.before # z.after, NEW wall \in Int,
           wall - Span < 0, wall + Span >= 0, NEW bisect, Bisects(z, wall, bisect)
    PROVE  bisect[[lo |-> wall - Span, hi |-> wall + Span]] = 0
<1> DEFINE near     == (wall - Span) .. (wall + Span)
           At(lo, hi) == bisect[[lo |-> lo, hi |-> hi]]
           Finds(w) == \A lo, hi \in near :
                          lo < 0 /\ 0 <= hi /\ hi - lo <= w => At(lo, hi) = 0
<1>1. /\ near \subseteq Int /\ Span = 36
      /\ \A lo, hi \in near, mid \in Int : lo < mid /\ mid < hi => mid \in near
  BY DEF Span
<1>2. offsetSecondsAt(z, wall - Span) = z.before
  BY <1>1 DEF offsetSecondsAt, Jump
<1>3. \A lo, hi \in near :
         /\ hi - lo <= 1 => At(lo, hi) = hi
         /\ hi - lo > 1 /\ (lo + hi) \div 2 < 0 => At(lo, hi) = At((lo + hi) \div 2, hi)
         /\ hi - lo > 1 /\ (lo + hi) \div 2 >= 0 => At(lo, hi) = At(lo, (lo + hi) \div 2)
  <2> SUFFICES ASSUME NEW lo \in near, NEW hi \in near
               PROVE  /\ hi - lo <= 1 => At(lo, hi) = hi
                      /\ hi - lo > 1 /\ (lo + hi) \div 2 < 0
                         => At(lo, hi) = At((lo + hi) \div 2, hi)
                      /\ hi - lo > 1 /\ (lo + hi) \div 2 >= 0
                         => At(lo, hi) = At(lo, (lo + hi) \div 2)
    BY Zenon
  <2> DEFINE gap == [lo |-> lo, hi |-> hi]
             mid == (lo + hi) \div 2
  <2>1. gap \in [lo : near, hi : near] /\ gap.lo = lo /\ gap.hi = hi
    OBVIOUS
  <2> HIDE DEF gap
  <2>2. bisect[gap] =
            IF gap.hi - gap.lo <= 1 THEN gap.hi
            ELSE IF offsetSecondsAt(z, (gap.lo + gap.hi) \div 2) = z.before
                 THEN bisect[[lo |-> (gap.lo + gap.hi) \div 2, hi |-> gap.hi]]
                 ELSE bisect[[lo |-> gap.lo, hi |-> (gap.lo + gap.hi) \div 2]]
    BY <1>2, <2>1 DEF Bisects
  <2>3. At(lo, hi) = IF hi - lo <= 1 THEN hi
                     ELSE IF offsetSecondsAt(z, mid) = z.before THEN At(mid, hi) ELSE At(lo, mid)
    BY <2>1, <2>2 DEF gap
  <2> HIDE DEF At
  <2>4. lo \in Int /\ hi \in Int /\ mid \in Int
    BY <1>1
  <2>5. offsetSecondsAt(z, mid) = z.before <=> mid < 0
    BY <2>4 DEF offsetSecondsAt, Jump
  <2> HIDE DEF mid
  <2>6. /\ hi - lo <= 1 => At(lo, hi) = hi
        /\ hi - lo > 1 /\ mid < 0 => At(lo, hi) = At(mid, hi)
        /\ hi - lo > 1 /\ mid >= 0 => At(lo, hi) = At(lo, mid)
    BY <2>3, <2>4, <2>5
  <2> QED
    BY <2>6 DEF mid
<1> HIDE DEF near, At
<1>4. Finds(1)
  <2> SUFFICES ASSUME NEW lo \in near, NEW hi \in near, lo < 0, 0 <= hi, hi - lo <= 1
               PROVE  At(lo, hi) = 0
    OBVIOUS
  <2>1. At(lo, hi) = hi /\ lo \in Int /\ hi \in Int
    BY <1>1, <1>3
  <2> QED
    BY <2>1
<1>5. ASSUME NEW w \in Nat \ {0}, Finds(w)
      PROVE  Finds(2 * w)
  <2> SUFFICES ASSUME NEW lo \in near, NEW hi \in near, lo < 0, 0 <= hi, hi - lo <= 2 * w
               PROVE  At(lo, hi) = 0
    OBVIOUS
  <2> DEFINE mid == (lo + hi) \div 2
  <2>0. lo \in Int /\ hi \in Int /\ mid \in Int
    BY <1>1
  <2>1. CASE hi - lo <= 1
    BY <1>3, <2>0, <2>1
  <2>2. CASE hi - lo > 1
    <3>1. lo < mid /\ mid < hi /\ hi - mid <= w /\ mid - lo <= w
      BY <2>0, <2>2
    <3>2. mid \in near
      BY <1>1, <2>0, <3>1
    <3>3. CASE mid < 0
      <4>1. At(lo, hi) = At(mid, hi)
        BY <1>3, <2>2, <3>3
      <4> QED
        BY <1>5, <3>1, <3>2, <3>3, <4>1
    <3>4. CASE mid >= 0
      <4>1. At(lo, hi) = At(lo, mid)
        BY <1>3, <2>2, <3>4
      <4> QED
        BY <1>5, <3>1, <3>2, <3>4, <4>1
    <3> QED
      BY <2>0, <3>3, <3>4
  <2> QED
    BY <2>0, <2>1, <2>2
<1> HIDE DEF Finds
<1>6. Finds(2) /\ Finds(4) /\ Finds(8)
  <2>1. Finds(2 * 1)
    BY <1>4, <1>5
  <2>2. Finds(2 * 2)
    BY <1>5, <2>1
  <2>3. Finds(2 * 4)
    BY <1>5, <2>2
  <2> QED
    BY <2>1, <2>2, <2>3
<1>7. Finds(128)
  <2>1. Finds(2 * 8)
    BY <1>5, <1>6
  <2>2. Finds(2 * 16)
    BY <1>5, <2>1
  <2>3. Finds(2 * 32)
    BY <1>5, <2>2
  <2>4. Finds(2 * 64)
    BY <1>5, <2>3
  <2> QED
    BY <2>4
<1>8. wall - Span \in near /\ wall + Span \in near /\ (wall + Span) - (wall - Span) <= 128
  BY <1>1 DEF near
<1>9. At(wall - Span, wall + Span) = 0
  BY <1>7, <1>8 DEF Finds
<1> QED
  BY <1>9 DEF At

\* The nearest times are those around the transition, wherever the offsets differ.
LEMMA TransitionIsFound ==
    ASSUME NEW z \in Zones, z.before # z.after, NEW wall \in Int,
           wall - Span < 0, wall + Span >= 0
    PROVE  findTransition(z, wall) = 0
<1> DEFINE near  == (wall - Span) .. (wall + Span)
           Closed(lo, hi) == IF hi - lo <= 1 \/ hi < 0 THEN hi
                             ELSE IF lo >= 0 THEN lo + 1 ELSE 0
           whole == [gap \in [lo : near, hi : near] |-> Closed(gap.lo, gap.hi)]
           shown == CHOOSE bisect : Bisects(z, wall, bisect)
<1>1. offsetSecondsAt(z, wall - Span) = z.before /\ offsetSecondsAt(z, wall + Span) = z.after
  BY DEF offsetSecondsAt, Jump, Span
<1>2. Bisects(z, wall, whole)
  <2>1. ASSUME NEW lo \in near, NEW hi \in near
        PROVE  LET mid == (lo + hi) \div 2 IN
               /\ mid \in near \/ hi - lo <= 1
               /\ Closed(lo, hi) = IF hi - lo <= 1 THEN hi
                                   ELSE IF offsetSecondsAt(z, mid) = z.before
                                        THEN Closed(mid, hi) ELSE Closed(lo, mid)
    <3>1. lo \in Int /\ hi \in Int /\ (lo + hi) \div 2 \in Int
      BY DEF Span
    <3>2. offsetSecondsAt(z, (lo + hi) \div 2) = z.before <=> (lo + hi) \div 2 < 0
      BY <3>1 DEF offsetSecondsAt, Jump
    <3>3. CASE hi - lo <= 1
      BY <3>3
    <3>4. CASE hi - lo > 1
      <4>1. lo < (lo + hi) \div 2 /\ (lo + hi) \div 2 < hi
        BY <3>1, <3>4
      <4> QED
        BY <3>1, <3>2, <3>4, <4>1 DEF Span
    <3> QED
      BY <3>1, <3>3, <3>4
  <2>2. ASSUME NEW gap \in [lo : near, hi : near]
        PROVE  Closed(gap.lo, gap.hi) =
                 LET mid == (gap.lo + gap.hi) \div 2 IN
                 IF gap.hi - gap.lo <= 1 THEN gap.hi
                 ELSE IF offsetSecondsAt(z, mid) = z.before
                      THEN whole[[lo |-> mid, hi |-> gap.hi]]
                      ELSE whole[[lo |-> gap.lo, hi |-> mid]]
    <3> DEFINE mid == (gap.lo + gap.hi) \div 2
    <3>1. gap.lo \in near /\ gap.hi \in near
      OBVIOUS
    <3> HIDE DEF Closed
    <3>2. mid \in near =>
            /\ whole[[lo |-> mid, hi |-> gap.hi]] = Closed(mid, gap.hi)
            /\ whole[[lo |-> gap.lo, hi |-> mid]] = Closed(gap.lo, mid)
      BY <3>1
    <3> HIDE DEF whole
    <3> QED
      BY <2>1, <3>1, <3>2
  <2> HIDE DEF Closed
  <2> QED
    BY <1>1, <2>2 DEF Bisects
<1>3. Bisects(z, wall, shown)
  <2> HIDE DEF whole
  <2> QED
    BY <1>2
<1>4. findTransition(z, wall) = shown[[lo |-> wall - Span, hi |-> wall + Span]]
  BY <1>1 DEF findTransition, Bisects
<1> HIDE DEF shown
<1> QED
  BY <1>3, <1>4, BisectionFinds

\* The earliest of a set of one or two instants.
LEMMA EarliestIsLeast ==
    ASSUME NEW times \in SUBSET Int, times # {}, NEW a \in Int, NEW b \in Int, times \subseteq {a, b}
    PROVE  EarliestOf(times) \in times /\ \A t \in times : EarliestOf(times) <= t
<1>1. \E t \in times : \A u \in times : t <= u
  <2>1. CASE a \in times /\ (b \notin times \/ a <= b)
    BY <2>1
  <2>2. CASE ~ (a \in times /\ (b \notin times \/ a <= b))
    <3>1. b \in times
      <4>1. PICK t \in times : t = a \/ t = b
        OBVIOUS
      <4> QED
        BY <2>2, <4>1
    <3>2. a \in times => b <= a
      BY <2>2, <3>1
    <3>3. \A u \in times : b <= u
      BY <3>2
    <3> QED
      BY <3>1, <3>3
  <2> QED
    BY <2>1, <2>2
<1> QED
  BY <1>1 DEF EarliestOf

LEMMA OneOrTwo ==
    ASSUME NEW times, times # {}, NEW a, NEW b, times \subseteq {a, b}
    PROVE  (Cardinality(times) > 1) = (Cardinality(times) = 2)
<1>1. PICK t \in times : TRUE
  OBVIOUS
<1>2. CASE times = {t}
  <2>1. Cardinality(times) = 1
    BY <1>2, FS_Singleton
  <2> QED
    BY <2>1
<1>3. CASE times # {t}
  <2>1. times = {a, b} /\ a # b
    BY <1>1, <1>3
  <2>2. IsFiniteSet({b}) /\ Cardinality({b}) = 1 /\ a \notin {b} /\ times = {b} \cup {a}
    BY <2>1, FS_Singleton
  <2>3. Cardinality(times) = 2
    BY <2>2, FS_AddElement
  <2> QED
    BY <2>3
<1> QED
  BY <1>2, <1>3

\* What is answered to a time that some calendar has.
LEMMA AnswersRightly ==
    ASSUME zone \in Zones, ask.wall \in Int, ask.now \in Int,
           answer = resolveLocalTime(zone, ask.wall, ask.now)
    PROVE  WallClockIsRead
<1> DEFINE z     == zone
           wall  == ask.wall
           shown == possibleInstants(z, wall)
           early == wall - z.before
           late  == wall - z.after
           t     == EarliestOf(shown)
<1>1. z.before \in Hours /\ z.after \in Hours /\ early \in Int /\ late \in Int /\ wall \in Int
  BY DEF Zones, Hours
<1>2. shown = {u \in {early, late} : u + offsetSecondsAt(z, u) = wall}
  BY InstantsAreShown
<1>3. shown \in SUBSET Int /\ shown \subseteq {early, late}
  BY <1>1, <1>2
<1>4. Shown(wall) = shown
  <2>1. \A u \in {early, late} : u \in (wall - Day) .. (wall + Day)
    BY <1>1 DEF Hours, Day
  <2>2. \A u \in Shown(wall) : u \in shown
    BY <1>1, InstantsAreShown DEF Shown, Day
  <2>3. \A u \in shown : u \in Shown(wall)
    BY <1>2, <2>1 DEF Shown
  <2> QED
    BY <2>2, <2>3
<1>5. answer = IF shown = {} THEN Around(z, wall)
               ELSE IF t < ask.now + Lead THEN [kind |-> "time_in_past"]
               ELSE [kind |-> "ok", at |-> t, ambiguous |-> Cardinality(shown) > 1]
  BY DEF resolveLocalTime
<1> HIDE DEF shown
<1>6. CASE shown # {}
  <2>1. t \in shown /\ t \in Int /\ \A u \in shown : t <= u
    BY <1>1, <1>3, <1>6, EarliestIsLeast
  <2>2. (Cardinality(shown) > 1) = (Cardinality(shown) = 2)
    BY <1>3, <1>6, OneOrTwo
  <2> HIDE DEF t
  <2>3. CASE t < ask.now + Lead
    <3>1. answer = [kind |-> "time_in_past"]
      BY <1>5, <1>6, <2>3
    <3> QED
      BY <3>1 DEF WallClockIsRead, StartsWhenAsked, OnlyGapsAreRefused
  <2>4. CASE ~ (t < ask.now + Lead)
    <3>1. answer = [kind |-> "ok", at |-> t, ambiguous |-> Cardinality(shown) > 1]
      BY <1>5, <1>6, <2>4
    <3>2. answer.kind = "ok" /\ answer.at = t /\ answer.ambiguous = (Cardinality(shown) > 1)
      BY <3>1
    <3>3. t >= ask.now + Lead
      BY <2>1, <2>4, TimeAssumption
    <3> QED
      BY <1>4, <2>1, <2>2, <3>2, <3>3
      DEF WallClockIsRead, StartsWhenAsked, OnlyGapsAreRefused
  <2> QED
    BY <2>3, <2>4
<1>7. CASE shown = {}
  <2>1. early >= 0 /\ late < 0 /\ z.before # z.after
    <3>1. early + offsetSecondsAt(z, early) # wall /\ late + offsetSecondsAt(z, late) # wall
      BY <1>2, <1>7
    <3> QED
      BY <1>1, <3>1 DEF offsetSecondsAt, Jump, Hours
  <2>2. wall - Span < 0 /\ wall + Span >= 0
    BY <1>1, <2>1 DEF Span, Hours
  <2>3. findTransition(z, wall) = 0
    BY <1>1, <2>1, <2>2, TransitionIsFound
  <2>4. answer = [kind |-> "time_does_not_exist", before |-> -1, after |-> 0]
    BY <1>5, <1>7, <2>3 DEF Around, Nowhere
  <2>5. answer.kind = "time_does_not_exist" /\ answer.before = -1 /\ answer.after = 0
    BY <2>4
  <2>6. wallAt(z, -1) < wall /\ wall < wallAt(z, 0)
    BY <1>1, <2>1 DEF wallAt, offsetSecondsAt, Jump, Hours
  <2> QED
    BY <1>4, <1>7, <2>5, <2>6 DEF WallClockIsRead, StartsWhenAsked, OnlyGapsAreRefused
<1> QED
  BY <1>6, <1>7

\* What was asked for, and what was answered to it.
TimeInv ==
    /\ zone \in Zones /\ ask.wall \in Int /\ ask.now \in Int
    /\ \/ answer \in {Unanswered, [kind |-> "invalid_time"]}
       \/ answer = resolveLocalTime(zone, ask.wall, ask.now)

\* Whatever clock of whatever zone is asked for, the order starts at the first instant
\* that shows it, and only a clock that is never shown is refused as one, with the two
\* instants around the transition: the offsets of the day before, of the day and of the
\* day after suffice, and the bisection of three days finds the second of the change.
THEOREM WallClocksAreRead == TimeSpec => []WallClockIsRead
<1>1. TimeInit => TimeInv
  <2> SUFFICES ASSUME TimeInit  PROVE TimeInv
    OBVIOUS
  <2>1. PICK o \in Offsets, s \in Shifts : zone = [before |-> o, after |-> o + s]
                                         /\ zone.after \in -12 .. 14
    BY DEF TimeInit
  <2>2. zone \in Zones
    BY <2>1, TimeAssumption DEF Zones, Hours
  <2>3. ask.wall \in Int /\ ask.now \in Int /\ answer = Unanswered
    <3>1. ask \in [wall : Asked, now : Clocks, real : BOOLEAN] /\ answer = Unanswered
      BY DEF TimeInit
    <3>2. ask.wall \in Asked /\ ask.now \in Clocks
      BY <3>1
    <3> QED
      BY <3>1, <3>2, TimeAssumption
  <2> QED
    BY <2>2, <2>3 DEF TimeInv
<1>2. TimeInv /\ [TimeNext]_timeVars => TimeInv'
  <2>1. ASSUME TimeInv, ReadsWallClock  PROVE TimeInv'
    BY <2>1 DEF TimeInv, ReadsWallClock
  <2>2. ASSUME TimeInv, UNCHANGED timeVars  PROVE TimeInv'
    BY <2>2 DEF TimeInv, timeVars
  <2> QED
    BY <2>1, <2>2 DEF TimeNext
<1>3. TimeInv => WallClockIsRead
  <2>1. ASSUME answer \in {Unanswered, [kind |-> "invalid_time"]}  PROVE WallClockIsRead
    <3>1. answer.kind \notin {"ok", "time_does_not_exist"}
      BY <2>1 DEF Unanswered
    <3> QED
      BY <3>1 DEF WallClockIsRead, StartsWhenAsked, OnlyGapsAreRefused
  <2> QED
    BY <2>1, AnswersRightly DEF TimeInv
<1> QED
  BY <1>1, <1>2, <1>3, PTL DEF TimeSpec

-----------------------------------------------------------------------------
(* The live set-up and its suite.                                          *)

TxKinds == {"mint", "approve", "set_rule", "set_alias", "set_executor", "revoke_executor",
            "payment", "create", "cancel", "pay_owner", "pay_executor"}
Rules   == [auto_approve_limit : Nat, per_tx_limit : Nat, daily_limit : Nat]
Chains  == [funded : BOOLEAN, trust : SUBSET {"owner", "recipient"}, sac : BOOLEAN, owner : Int,
            recipient : Int, sequence : Nat, issued : Nat, rule : Rules, executor : BOOLEAN,
            alias : BOOLEAN, allowance : Int, spent : Int,
            schedules : SUBSET [id : Nat, amount : Nat, due : BOOLEAN], nextId : Nat]
SetupPlaces == {"idle", "fund", "trust", "balance", "mint", "sac", "record"}
SuitePlaces == {"idle", "begin", "sign", "keeper", "assert", "over"}

SuiteTypeCorrect ==
    /\ keysFile \in [of : Nat, asset : BOOLEAN]
    /\ liveSetup \in [at : SetupPlaces, mint : Nat]
    /\ suite \in [at : SuitePlaces, scenario : 0 .. 11, tx : Nat, before : Int, id : Nat,
                  passed : SUBSET (0 .. 11)]
    /\ chain \in Chains
    /\ unheard \subseteq [kind : TxKinds, amount : Nat, seq : Nat, rule : Rules]
    /\ faults \in Nat /\ given \in Nat

\* What the setup's step shows of the accounts.
SetupKnows ==
    /\ liveSetup.at \in {"trust", "balance", "mint", "sac", "record"} => chain.funded
    /\ liveSetup.at \in {"balance", "mint", "sac", "record"} => chain.trust = {"owner", "recipient"}
    /\ liveSetup.at \in {"sac", "record"} => chain.issued > 0
    /\ liveSetup.at = "record" => chain.sac

OnlyIssuedIsOwned == chain.issued = 0 => chain.owner <= 0

UnderWay == suite.at \notin {"idle", "over"}

\* Where the suite is within its scenario.
SuitePlace ==
    /\ suite.at = "begin"  => suite.tx = 1
    /\ suite.at = "sign"   => suite.tx \in 1 .. Len(TransactionsOf(suite.scenario))
    /\ suite.at \in {"keeper", "assert"} => suite.tx = Len(TransactionsOf(suite.scenario)) + 1
    /\ suite.at = "keeper" => suite.scenario = 8
    /\ UnderWay => liveSetup.at = "idle" /\ suite.passed \subseteq 0 .. (suite.scenario - 1)
    /\ suite.at = "over" => liveSetup.at = "idle"

\* Transactions of the owner nobody heard of that can still be applied, and that cannot.
SignedLast == \A u \in unheard : u.kind # "mint" => u.seq <= chain.sequence + 1
NoneLands  == \A u \in unheard : u.kind # "mint" => u.seq <= chain.sequence

\* What a suite that passed everything so far has reached: from its first transaction on
\* nothing of an earlier run lands; then no schedule, no executor, the tightened rule.
Reached ==
    /\ suite.scenario >= 2 \/ (suite.scenario = 1 /\ suite.tx >= 2) => NoneLands
    /\ suite.scenario >= 10 \/ (suite.scenario = 9 /\ suite.at = "assert") => chain.schedules = {}
    /\ suite.scenario = 11 \/ (suite.scenario = 10 /\ suite.tx >= 2) => ~chain.executor
    /\ suite.scenario = 11 \/ (suite.scenario = 10 /\ suite.tx >= 3) => chain.rule = nextRule

PassedSoFar == UnderWay /\ suite.passed = 0 .. (suite.scenario - 1)
PassedAll   == suite.at = "over" /\ suite.passed = 0 .. 11
Disarmed    == ~chain.executor /\ chain.rule = nextRule /\ chain.schedules = {}

SuiteInv ==
    /\ SuiteTypeCorrect
    /\ SetupKnows /\ OnlyIssuedIsOwned /\ RecordMeansReady
    /\ SuitePlace /\ SignedLast
    /\ PassedSoFar => Reached
    /\ PassedAll => NoneLands /\ Disarmed

LEMMA RulesAreRules ==
    NoRule \in Rules /\ baselineRule \in Rules /\ autoRule \in Rules /\ nextRule \in Rules
<1>1. NoRule \in Rules /\ baselineRule \in Rules
  BY DEF NoRule, baselineRule, Rules
<1> QED
  BY <1>1 DEF autoRule, nextRule, Rules

\* How many transactions each scenario signs, and which.
LEMMA ScenariosSign ==
    ASSUME NEW s \in 0 .. 11
    PROVE  /\ Len(TransactionsOf(s)) =
                IF s \in {0, 5, 11} THEN 0 ELSE IF s \in {2, 3, 4, 8} THEN 1
                ELSE IF s = 6 THEN 3 ELSE 2
           /\ (TransactionsOf(s) = <<>>) <=> s \in {0, 5, 11}
           /\ \A n \in 1 .. Len(TransactionsOf(s)) :
                /\ TransactionsOf(s)[n] \in [kind : TxKinds \ {"mint"}, amount : Nat, rule : Rules]
                /\ s = 9 => TransactionsOf(s)[n].kind = IF n = 1 THEN "create" ELSE "cancel"
                /\ s = 10 => TransactionsOf(s)[n] =
                               IF n = 1 THEN T("revoke_executor", 0) ELSE SetRule(nextRule)
                /\ s = 1 => TransactionsOf(s)[n].kind # "pay_executor"
<1>1. CASE s = 0
  BY <1>1, RulesAreRules DEF TransactionsOf, Transactions, T, SetRule, TxKinds
<1>2. CASE s = 1
  BY <1>2, RulesAreRules DEF TransactionsOf, Transactions, T, SetRule, TxKinds
<1>3. CASE s = 2
  BY <1>3, RulesAreRules DEF TransactionsOf, Transactions, T, SetRule, TxKinds
<1>4. CASE s = 3
  BY <1>4, RulesAreRules DEF TransactionsOf, Transactions, T, SetRule, TxKinds
<1>5. CASE s = 4
  BY <1>5, RulesAreRules DEF TransactionsOf, Transactions, T, SetRule, TxKinds
<1>6. CASE s = 5
  BY <1>6, RulesAreRules DEF TransactionsOf, Transactions, T, SetRule, TxKinds
<1>7. CASE s = 6
  BY <1>7, RulesAreRules DEF TransactionsOf, Transactions, T, SetRule, TxKinds
<1>8. CASE s = 7
  BY <1>8, RulesAreRules DEF TransactionsOf, Transactions, T, SetRule, TxKinds
<1>9. CASE s = 8
  BY <1>9, RulesAreRules DEF TransactionsOf, Transactions, T, SetRule, TxKinds
<1>10. CASE s = 9
  BY <1>10, RulesAreRules DEF TransactionsOf, Transactions, T, SetRule, TxKinds
<1>11. CASE s = 10
  BY <1>11, RulesAreRules DEF TransactionsOf, Transactions, T, SetRule, TxKinds
<1>12. CASE s = 11
  BY <1>12, RulesAreRules DEF TransactionsOf, Transactions, T, SetRule, TxKinds
<1> QED
  BY <1>1, <1>2, <1>3, <1>4, <1>5, <1>6, <1>7, <1>8, <1>9, <1>10, <1>11, <1>12

\* The schedule a transaction of that amount makes.
Scheduled(amount) == [id |-> chain.nextId, amount |-> amount, due |-> amount = 4]

\* What a transaction of the suite changes.
LEMMA TransactionChanges ==
    ASSUME chain \in Chains, NEW tx, tx.kind \in TxKinds, tx.amount \in Nat, tx.rule \in Rules,
           suite.id \in Nat
    PROVE  /\ After(tx) \in Chains
           /\ chain.funded => After(tx).funded
           /\ After(tx).trust = chain.trust
           /\ chain.sac => After(tx).sac
           /\ After(tx).sequence = IF tx.kind \in {"pay_executor", "mint"} THEN chain.sequence
                                   ELSE chain.sequence + 1
           /\ After(tx).issued = IF tx.kind = "mint" THEN chain.issued + 1 ELSE chain.issued
           /\ tx.kind # "mint" => After(tx).owner <= chain.owner
           /\ After(tx).rule = IF tx.kind = "set_rule" THEN tx.rule ELSE chain.rule
           /\ tx.kind = "revoke_executor" => ~After(tx).executor
           /\ tx.kind # "set_executor" /\ ~chain.executor => ~After(tx).executor
           /\ tx.kind = "cancel" =>
                After(tx).schedules = { s \in chain.schedules : s.id # suite.id }
           /\ tx.kind \notin {"create", "cancel"} => After(tx).schedules = chain.schedules
           /\ tx.kind \in {"payment", "pay_owner", "pay_executor"} =>
                /\ After(tx).owner = chain.owner - tx.amount
                /\ After(tx).recipient = chain.recipient + tx.amount
           /\ tx.kind \notin {"payment", "pay_owner", "pay_executor", "mint"} =>
                After(tx).owner = chain.owner /\ After(tx).recipient = chain.recipient
           /\ tx.kind \in {"pay_owner", "pay_executor"} =>
                /\ After(tx).allowance = chain.allowance - tx.amount
                /\ After(tx).spent = chain.spent + tx.amount
           /\ tx.kind \notin {"pay_owner", "pay_executor"} => After(tx).spent = chain.spent
           /\ tx.kind \notin {"pay_owner", "pay_executor", "approve"} =>
                After(tx).allowance = chain.allowance
           /\ tx.kind = "approve" => After(tx).allowance = allowanceRaw
           /\ tx.kind = "set_alias" => After(tx).alias
           /\ chain.executor /\ tx.kind # "revoke_executor" => After(tx).executor
           /\ tx.kind = "set_executor" => After(tx).executor
           /\ tx.kind = "create" =>
                After(tx).schedules = chain.schedules \cup {Scheduled(tx.amount)}
<1> DEFINE n == IF tx.kind \in {"pay_executor", "mint"} THEN chain.sequence ELSE chain.sequence + 1
           c == IF tx.kind \in {"pay_executor", "mint"} THEN chain
                ELSE [chain EXCEPT !.sequence = @ + 1]
<1>1. /\ c \in Chains /\ c.sequence = n /\ c.funded = chain.funded /\ c.trust = chain.trust
      /\ c.sac = chain.sac /\ c.owner = chain.owner /\ c.recipient = chain.recipient
      /\ c.issued = chain.issued /\ c.rule = chain.rule /\ c.executor = chain.executor
      /\ c.alias = chain.alias /\ c.allowance = chain.allowance /\ c.spent = chain.spent
      /\ c.schedules = chain.schedules /\ c.nextId = chain.nextId
  BY DEF Chains
<1>2. allowanceRaw \in Int
  BY DEF allowanceRaw
<1>3. After(tx) =
        CASE tx.kind = "mint"            -> [c EXCEPT !.owner = @ + tx.amount, !.issued = @ + 1]
          [] tx.kind = "approve"         -> [c EXCEPT !.allowance = allowanceRaw]
          [] tx.kind = "set_rule"        -> [c EXCEPT !.rule = tx.rule]
          [] tx.kind = "set_alias"       -> [c EXCEPT !.alias = TRUE]
          [] tx.kind = "set_executor"    -> [c EXCEPT !.executor = TRUE]
          [] tx.kind = "revoke_executor" -> [c EXCEPT !.executor = FALSE]
          [] tx.kind = "payment"         -> [c EXCEPT !.owner = @ - tx.amount,
                                                      !.recipient = @ + tx.amount]
          [] tx.kind = "create"          -> [c EXCEPT !.nextId = @ + 1, !.schedules = @ \cup
                                               {[id |-> c.nextId, amount |-> tx.amount,
                                                 due |-> tx.amount = 4]}]
          [] tx.kind = "cancel"          -> [c EXCEPT !.schedules = { s \in @ : s.id # suite.id }]
          [] OTHER                       -> Pays(c, tx.amount)
  BY DEF After
<1> HIDE DEF c
<1>4. CASE tx.kind = "mint"
  <2> DEFINE owner     == c.owner + tx.amount
             issued    == c.issued + 1
  <2>1. After(tx) = [c EXCEPT !.owner = owner, !.issued = issued]
    BY <1>3, <1>4
  <2>2. owner \in Int /\ issued \in Nat
    BY <1>1 DEF Chains
  <2> HIDE DEF owner, issued
  <2>4. After(tx) \in Chains
    BY <1>1, <2>1, <2>2 DEF Chains
  <2> QED
    BY <1>1, <1>4, <2>1, <2>4 DEF Chains, issued
<1>5. CASE tx.kind = "approve"
  <2>1. After(tx) = [c EXCEPT !.allowance = allowanceRaw]
    BY <1>3, <1>5
  <2>2. After(tx) \in Chains
    BY <1>1, <1>2, <2>1 DEF Chains
  <2> QED
    BY <1>1, <1>5, <2>1, <2>2 DEF Chains
<1>6. CASE tx.kind = "set_rule"
  <2>1. After(tx) = [c EXCEPT !.rule = tx.rule]
    BY <1>3, <1>6
  <2>2. After(tx) \in Chains
    BY <1>1, <1>2, <2>1 DEF Chains
  <2> QED
    BY <1>1, <1>6, <2>1, <2>2 DEF Chains
<1>7. CASE tx.kind = "set_alias"
  <2>1. After(tx) = [c EXCEPT !.alias = TRUE]
    BY <1>3, <1>7
  <2>2. After(tx) \in Chains
    BY <1>1, <1>2, <2>1 DEF Chains
  <2> QED
    BY <1>1, <1>7, <2>1, <2>2 DEF Chains
<1>8. CASE tx.kind = "set_executor"
  <2>1. After(tx) = [c EXCEPT !.executor = TRUE]
    BY <1>3, <1>8
  <2>2. After(tx) \in Chains
    BY <1>1, <1>2, <2>1 DEF Chains
  <2> QED
    BY <1>1, <1>8, <2>1, <2>2 DEF Chains
<1>9. CASE tx.kind = "revoke_executor"
  <2>1. After(tx) = [c EXCEPT !.executor = FALSE]
    BY <1>3, <1>9
  <2>2. After(tx) \in Chains
    BY <1>1, <1>2, <2>1 DEF Chains
  <2> QED
    BY <1>1, <1>9, <2>1, <2>2 DEF Chains
<1>10. CASE tx.kind = "payment"
  <2> DEFINE owner     == c.owner - tx.amount
             recipient == c.recipient + tx.amount
  <2>1. After(tx) = [c EXCEPT !.owner = owner, !.recipient = recipient]
    BY <1>3, <1>10
  <2>2. owner \in Int /\ recipient \in Int
    BY <1>1 DEF Chains
  <2>3. owner <= c.owner /\ owner = chain.owner - tx.amount /\ recipient = chain.recipient + tx.amount
    BY <1>1 DEF Chains
  <2> HIDE DEF owner, recipient
  <2>4. After(tx) \in Chains
    BY <1>1, <2>1, <2>2 DEF Chains
  <2> QED
    BY <1>1, <1>10, <2>1, <2>3, <2>4 DEF Chains
<1>11. CASE tx.kind = "create"
  <2> DEFINE next      == c.nextId + 1
             all       == c.schedules \cup {[id |-> c.nextId, amount |-> tx.amount, due |-> tx.amount = 4]}
  <2>1. After(tx) = [c EXCEPT !.nextId = next, !.schedules = all]
    BY <1>3, <1>11
  <2>2. next \in Nat /\ all \in SUBSET [id : Nat, amount : Nat, due : BOOLEAN]
    <3> DEFINE new == [id |-> c.nextId, amount |-> tx.amount, due |-> tx.amount = 4]
    <3>1. c.nextId \in Nat /\ c.schedules \in SUBSET [id : Nat, amount : Nat, due : BOOLEAN]
      BY <1>1 DEF Chains
    <3>2. new \in [id : Nat, amount : Nat, due : BOOLEAN] /\ all = c.schedules \cup {new}
      BY <3>1
    <3> HIDE DEF new, all
    <3> QED
      BY <3>1, <3>2 DEF next
  <2>3. all = chain.schedules \cup {Scheduled(tx.amount)}
    BY <1>1 DEF Scheduled
  <2> HIDE DEF next, all
  <2>4. After(tx) \in Chains
    BY <1>1, <2>1, <2>2 DEF Chains
  <2>5. After(tx).schedules = all
    BY <1>1, <2>1 DEF Chains
  <2> QED
    BY <1>1, <1>11, <2>1, <2>3, <2>4, <2>5 DEF Chains
<1>12. CASE tx.kind = "cancel"
  <2>1. After(tx) = [c EXCEPT !.schedules = { s \in @ : s.id # suite.id }]
    BY <1>3, <1>12
  <2>2. After(tx) \in Chains
    BY <1>1, <1>2, <2>1 DEF Chains
  <2> QED
    BY <1>1, <1>12, <2>1, <2>2 DEF Chains
<1>13. CASE tx.kind \in {"pay_owner", "pay_executor"}
  <2> DEFINE owner     == c.owner - tx.amount
             recipient == c.recipient + tx.amount
             allowance == c.allowance - tx.amount
             spent     == c.spent + tx.amount
  <2>1. After(tx) = [c EXCEPT !.owner = owner, !.recipient = recipient,
                                    !.allowance = allowance, !.spent = spent]
    BY <1>3, <1>13 DEF Pays
  <2>2. owner \in Int /\ recipient \in Int /\ allowance \in Int /\ spent \in Int
    BY <1>1 DEF Chains
  <2>3. /\ owner <= c.owner
        /\ owner = chain.owner - tx.amount /\ recipient = chain.recipient + tx.amount
        /\ allowance = chain.allowance - tx.amount /\ spent = chain.spent + tx.amount
    BY <1>1 DEF Chains
  <2> HIDE DEF owner, recipient, allowance, spent
  <2>4. After(tx) \in Chains
    BY <1>1, <2>1, <2>2 DEF Chains
  <2> QED
    BY <1>1, <1>13, <2>1, <2>3, <2>4 DEF Chains
<1> QED
  BY <1>4, <1>5, <1>6, <1>7, <1>8, <1>9, <1>10, <1>11, <1>12, <1>13 DEF TxKinds

\* What the keeper's run of a schedule changes.
LEMMA KeeperChanges ==
    ASSUME chain \in Chains, NEW s \in chain.schedules
    PROVE  /\ Runs(s) \in Chains
           /\ Runs(s).trust = chain.trust /\ Runs(s).owner <= chain.owner
           /\ Runs(s).sequence = chain.sequence /\ Runs(s).issued = chain.issued
           /\ chain.funded => Runs(s).funded
           /\ chain.sac => Runs(s).sac
<1> DEFINE owner     == chain.owner - s.amount
           recipient == chain.recipient + s.amount
           allowance == chain.allowance - s.amount
           spent     == chain.spent + s.amount
           paid      == [chain EXCEPT !.owner = owner, !.recipient = recipient,
                                      !.allowance = allowance, !.spent = spent]
<1>1. s.amount \in Nat
  BY DEF Chains
<1>2. owner \in Int /\ recipient \in Int /\ allowance \in Int /\ spent \in Int
      /\ owner <= chain.owner
  BY <1>1 DEF Chains
<1>3. Runs(s) = [paid EXCEPT !.schedules = @ \ {s}]
  BY DEF Runs, Pays
<1> HIDE DEF owner, recipient, allowance, spent
<1>4. /\ paid \in Chains /\ paid.trust = chain.trust /\ paid.owner = owner
      /\ paid.sequence = chain.sequence /\ paid.issued = chain.issued
      /\ paid.funded = chain.funded /\ paid.sac = chain.sac
  BY <1>2 DEF Chains
<1> HIDE DEF paid
<1>5. Runs(s) \in Chains
  BY <1>3, <1>4 DEF Chains
<1> QED
  BY <1>2, <1>3, <1>4, <1>5 DEF Chains

\* Whatever lands, the accounts keep what they have.
LEMMA AccountsGrow ==
    ASSUME SuiteInv, chain'.trust = chain.trust, chain.funded => chain'.funded,
           chain.sac => chain'.sac, chain'.issued \in Nat, chain'.issued >= chain.issued,
           chain'.issued = 0 => chain'.owner <= chain.owner, chain'.owner \in Int,
           liveSetup' = liveSetup, keysFile' = keysFile
    PROVE  SetupKnows' /\ OnlyIssuedIsOwned' /\ RecordMeansReady'
<1>1. chain.issued \in Nat /\ chain.owner \in Int
  BY DEF SuiteInv, SuiteTypeCorrect, Chains
<1> QED
  BY <1>1 DEF SuiteInv, SetupKnows, OnlyIssuedIsOwned, RecordMeansReady

\* A scenario's verdict, and the next one: none passes but at its assertions.
LEMMA VerdictIsNoted ==
    ASSUME SuiteInv, UnderWay, NEW pass, Records(pass),
           pass => suite.at = "assert" /\ unheard' = unheard,
           chain' = chain, liveSetup' = liveSetup, keysFile' = keysFile, SignedLast',
           unheard' \subseteq [kind : TxKinds, amount : Nat, seq : Nat, rule : Rules],
           given' \in Nat, faults' \in Nat
    PROVE  SuiteInv'
<1> DEFINE s    == suite.scenario
           done == IF pass THEN suite.passed \cup {s} ELSE suite.passed
           next == IF s < 11 THEN s + 1 ELSE 11
           then == IF s < 11 THEN "begin" ELSE "over"
<1>1. suite' = [NoSuite EXCEPT !.passed = done, !.scenario = next, !.at = then]
  BY DEF Records
<1>2. /\ s \in 0 .. 11 /\ suite.passed \in SUBSET (0 .. 11) /\ suite.passed \subseteq 0 .. (s - 1)
      /\ liveSetup.at = "idle"
  BY DEF SuiteInv, SuiteTypeCorrect, SuitePlace
<1>3. /\ done \subseteq 0 .. s /\ next \in 0 .. 11 /\ then \in SuitePlaces
      /\ ~pass => s \notin done
  BY <1>2 DEF SuitePlaces
<1>4. suite' = [at |-> then, scenario |-> next, tx |-> 1, before |-> 0, id |-> 0, passed |-> done]
  BY <1>1 DEF NoSuite
<1>5. /\ suite'.at = then /\ suite'.scenario = next /\ suite'.tx = 1 /\ suite'.passed = done
      /\ suite' \in [at : SuitePlaces, scenario : 0 .. 11, tx : Nat, before : Int, id : Nat,
                     passed : SUBSET (0 .. 11)]
  <2>1. done \in SUBSET (0 .. 11)
    BY <1>2, <1>3
  <2> HIDE DEF done, next, then
  <2> QED
    BY <1>3, <1>4, <2>1
<1>6. /\ s < 11 => then = "begin" /\ next = s + 1
      /\ s = 11 => then = "over" /\ next = 11
  BY <1>2
<1>7. ASSUME pass, done = 0 .. s
      PROVE  suite.passed = 0 .. (s - 1)
  <2>1. \A x \in 0 .. (s - 1) : x \in suite.passed
    <3> TAKE x \in 0 .. (s - 1)
    <3>1. x \in done /\ x # s
      BY <1>2, <1>7
    <3> QED
      BY <1>7, <3>1
  <2> QED
    BY <1>2, <2>1
<1> HIDE DEF s, done, next, then
<1>8. s < 11 \/ s = 11
  BY <1>2
<1>9. SuiteTypeCorrect'
  BY <1>5 DEF SuiteInv, SuiteTypeCorrect
<1>10. SuitePlace'
  BY <1>2, <1>3, <1>5, <1>6, <1>8 DEF SuitePlace, UnderWay
<1>11. ASSUME pass, done = 0 .. s
       PROVE  /\ s >= 1 => NoneLands'
              /\ s >= 9 => chain.schedules = {}
              /\ s >= 10 => ~chain.executor /\ chain.rule = nextRule
  <2>1. PassedSoFar /\ suite.at = "assert" /\ unheard' = unheard
    BY <1>7, <1>11 DEF PassedSoFar, s
  <2>2. suite.tx = Len(TransactionsOf(s)) + 1
    BY <2>1 DEF SuiteInv, SuitePlace, s
  <2>3. s \in {1, 10} => suite.tx = 3
    <3> DEFINE len == Len(TransactionsOf(s))
    <3>1. s \in {1, 10} => len = 2
      BY <1>2, ScenariosSign
    <3>2. suite.tx = len + 1
      BY <2>2
    <3> HIDE DEF len
    <3> QED
      BY <3>1, <3>2
  <2>4. s >= 1 => NoneLands
    BY <1>2, <2>1, <2>3 DEF SuiteInv, Reached, s
  <2>5. s >= 1 => NoneLands'
    BY <2>1, <2>4 DEF NoneLands
  <2> QED
    BY <1>2, <2>1, <2>3, <2>5 DEF SuiteInv, Reached, s
<1>12. PassedSoFar' => Reached'
  <2> SUFFICES ASSUME PassedSoFar'
               PROVE  Reached'
    OBVIOUS
  <2>1. s < 11 /\ done = 0 .. s /\ next = s + 1
    BY <1>2, <1>5, <1>6, <1>8 DEF PassedSoFar, UnderWay
  <2>2. pass
    BY <1>2, <1>3, <2>1
  <2> QED
    BY <1>2, <1>5, <1>6, <1>11, <2>1, <2>2 DEF Reached
<1>13. PassedAll' => NoneLands' /\ Disarmed'
  <2> SUFFICES ASSUME PassedAll'
               PROVE  NoneLands' /\ Disarmed'
    OBVIOUS
  <2>1. s = 11 /\ done = 0 .. s
    BY <1>2, <1>5, <1>6, <1>8 DEF PassedAll
  <2>2. pass
    BY <1>3, <2>1
  <2> QED
    BY <1>11, <2>1, <2>2 DEF Disarmed
<1>14. SetupKnows' /\ OnlyIssuedIsOwned' /\ RecordMeansReady'
  BY DEF SuiteInv, SetupKnows, OnlyIssuedIsOwned, RecordMeansReady
<1> QED
  BY <1>9, <1>10, <1>12, <1>13, <1>14 DEF SuiteInv

LEMMA SuiteBegins == SuiteInit => SuiteInv
<1> SUFFICES ASSUME SuiteInit
             PROVE  SuiteInv
  OBVIOUS
<1>1. NewAccounts \in Chains /\ NewAccounts.owner = 0
  BY RulesAreRules DEF NewAccounts, Chains
<1>2. SuiteTypeCorrect
  BY <1>1 DEF SuiteInit, SuiteTypeCorrect, NoSetup, NoSuite, SetupPlaces, SuitePlaces
<1> QED
  BY <1>1, <1>2 DEF SuiteInit, SuiteInv, SetupKnows, OnlyIssuedIsOwned, RecordMeansReady, SuitePlace,
     UnderWay, SignedLast, PassedSoFar, PassedAll, NoSetup, NoSuite

\* A step of the set-up: it runs with the suite at rest.
LEMMA SetupKeepsSuite ==
    ASSUME SuiteInv,
           \/ \E reset \in BOOLEAN : setupStarts(reset)
           \/ fundWithFriendbot \/ ensureTrustline \/ getAssetBalance \/ ensureSac \/ recordsAsset
           \/ \E heard \in BOOLEAN : issueAsset(heard)
           \/ setupFails
    PROVE  SuiteInv'
<1>1. /\ SuiteTypeCorrect /\ SetupKnows /\ OnlyIssuedIsOwned /\ RecordMeansReady /\ SignedLast
      /\ liveSetup.at # "idle" => suite.at = "idle"
  BY DEF SuiteInv, SuitePlace, UnderWay
<1>2. suite' = suite /\ suite.at = "idle"
  BY <1>1 DEF setupStarts, fundWithFriendbot, ensureTrustline, getAssetBalance, ensureSac,
     recordsAsset, issueAsset, setupFails
<1>3. SuitePlace' /\ ~PassedSoFar' /\ ~PassedAll'
  BY <1>2 DEF SuitePlace, PassedSoFar, PassedAll, UnderWay
<1>4. ASSUME NEW reset \in BOOLEAN, setupStarts(reset)
      PROVE  SuiteInv'
  <2>1. /\ keysFile' = IF reset \/ keysFile.of = 0
                       THEN [of |-> keysFile.of + 1, asset |-> FALSE] ELSE keysFile
        /\ liveSetup' = [at |-> "fund", mint |-> 0]
        /\ given' = given + 1 /\ faults' = faults
    BY <1>4 DEF setupStarts, NoSetup
  <2>2. \/ reset /\ chain' = NewAccounts /\ unheard' = {}
        \/ chain' = chain /\ unheard' = unheard
    BY <1>4 DEF setupStarts
  <2>3. NewAccounts \in Chains /\ NewAccounts.owner = 0
    BY RulesAreRules DEF NewAccounts, Chains
  <2>4. SuiteTypeCorrect'
    BY <1>1, <1>2, <2>1, <2>2, <2>3 DEF SuiteTypeCorrect, SetupPlaces
  <2>5. RecordMeansReady'
    BY <1>1, <2>1, <2>2 DEF RecordMeansReady
  <2>6. SetupKnows' /\ OnlyIssuedIsOwned' /\ SignedLast'
    BY <1>1, <2>1, <2>2, <2>3 DEF SetupKnows, OnlyIssuedIsOwned, SignedLast
  <2> QED
    BY <1>3, <2>4, <2>5, <2>6 DEF SuiteInv
<1>5. CASE fundWithFriendbot
  <2>1. /\ chain' = [chain EXCEPT !.funded = TRUE] /\ liveSetup' = [liveSetup EXCEPT !.at = "trust"]
        /\ UNCHANGED <<keysFile, unheard, faults, given>>
    BY <1>5 DEF fundWithFriendbot, SetupGoes
  <2>2. /\ chain' \in Chains /\ chain'.funded /\ chain'.trust = chain.trust /\ chain'.sac = chain.sac
        /\ chain'.owner = chain.owner /\ chain'.issued = chain.issued
        /\ chain'.sequence = chain.sequence
    BY <1>1, <2>1 DEF SuiteTypeCorrect, Chains
  <2>3. liveSetup' \in [at : SetupPlaces, mint : Nat] /\ liveSetup'.at = "trust"
    BY <1>1, <2>1 DEF SuiteTypeCorrect, SetupPlaces
  <2>4. SuiteTypeCorrect'
    BY <1>1, <1>2, <2>1, <2>2, <2>3 DEF SuiteTypeCorrect
  <2> QED
    BY <1>1, <1>3, <2>1, <2>2, <2>3, <2>4
    DEF SuiteInv, SetupKnows, OnlyIssuedIsOwned, RecordMeansReady, SignedLast
<1>6. CASE ensureTrustline
  <2>1. liveSetup.at = "trust" /\ UNCHANGED <<keysFile, unheard, faults, given>>
    BY <1>6 DEF ensureTrustline
  <2>2. CASE {"owner", "recipient"} \ chain.trust = {}
    <3>1. chain' = chain /\ liveSetup' = [liveSetup EXCEPT !.at = "balance"]
      BY <1>6, <2>2 DEF ensureTrustline, SetupGoes
    <3>2. liveSetup' \in [at : SetupPlaces, mint : Nat] /\ liveSetup'.at = "balance"
      BY <1>1, <3>1 DEF SuiteTypeCorrect, SetupPlaces
    <3>3. chain.trust = {"owner", "recipient"}
      BY <1>1, <2>2 DEF SuiteTypeCorrect, Chains
    <3>4. SuiteTypeCorrect'
      BY <1>1, <1>2, <2>1, <3>1, <3>2 DEF SuiteTypeCorrect
    <3> QED
      BY <1>1, <1>3, <2>1, <3>1, <3>2, <3>3, <3>4
      DEF SuiteInv, SetupKnows, OnlyIssuedIsOwned, RecordMeansReady, SignedLast
  <2>3. CASE {"owner", "recipient"} \ chain.trust # {}
    <3> DEFINE who   == IF "owner" \in {"owner", "recipient"} \ chain.trust THEN "owner"
                                                                           ELSE "recipient"
               trust == chain.trust \cup {who}
    <3>1. chain' = [chain EXCEPT !.trust = trust] /\ liveSetup' = liveSetup
      BY <1>6, <2>3 DEF ensureTrustline
    <3>2. trust \in SUBSET {"owner", "recipient"}
          /\ (chain.trust = {"owner", "recipient"} => trust = chain.trust)
      BY <1>1 DEF SuiteTypeCorrect, Chains
    <3> HIDE DEF trust
    <3>3. /\ chain' \in Chains /\ chain'.trust = trust /\ chain'.funded = chain.funded
          /\ chain'.sac = chain.sac /\ chain'.owner = chain.owner
          /\ chain'.issued = chain.issued /\ chain'.sequence = chain.sequence
      BY <1>1, <3>1, <3>2 DEF SuiteTypeCorrect, Chains
    <3>4. SuiteTypeCorrect'
      BY <1>1, <1>2, <2>1, <3>1, <3>3 DEF SuiteTypeCorrect
    <3> QED
      BY <1>1, <1>3, <2>1, <3>1, <3>2, <3>3, <3>4
      DEF SuiteInv, SetupKnows, OnlyIssuedIsOwned, RecordMeansReady, SignedLast
  <2> QED
    BY <2>2, <2>3
<1>7. CASE getAssetBalance
  <2>1. /\ liveSetup.at = "balance" /\ UNCHANGED <<keysFile, chain, unheard, faults, given>>
        /\ \/ /\ chain.owner < OWNER_TARGET_RAW
              /\ liveSetup' = [at |-> "mint", mint |-> OWNER_TARGET_RAW - chain.owner]
           \/ chain.owner >= OWNER_TARGET_RAW /\ liveSetup' = [at |-> "sac", mint |-> 0]
    BY <1>1, <1>7 DEF getAssetBalance, SuiteTypeCorrect, Chains, OWNER_TARGET_RAW
  <2>2. chain.owner \in Int /\ chain.issued \in Nat
    BY <1>1 DEF SuiteTypeCorrect, Chains
  <2>3. /\ liveSetup' \in [at : SetupPlaces, mint : Nat]
        /\ liveSetup'.at = "mint" \/ (liveSetup'.at = "sac" /\ chain.issued > 0)
    BY <1>1, <2>1, <2>2 DEF SetupPlaces, OWNER_TARGET_RAW, OnlyIssuedIsOwned
  <2>4. SuiteTypeCorrect'
    BY <1>1, <1>2, <2>1, <2>3 DEF SuiteTypeCorrect
  <2> QED
    BY <1>1, <1>3, <2>1, <2>3, <2>4
    DEF SuiteInv, SetupKnows, OnlyIssuedIsOwned, RecordMeansReady, SignedLast
<1>8. CASE ensureSac
  <2>1. /\ liveSetup.at = "sac" /\ UNCHANGED <<keysFile, unheard, faults, given>>
        /\ liveSetup' = [liveSetup EXCEPT !.at = "record"]
        /\ chain' = IF chain.sac THEN chain ELSE [chain EXCEPT !.sac = TRUE, !.sequence = @ + 1]
    BY <1>8 DEF ensureSac, SetupGoes
  <2>2. /\ chain' \in Chains /\ chain'.funded = chain.funded /\ chain'.trust = chain.trust
        /\ chain'.sac /\ chain'.owner = chain.owner /\ chain'.issued = chain.issued
        /\ chain'.sequence >= chain.sequence /\ chain.sequence \in Nat
    <3>1. CASE chain.sac
      BY <1>1, <2>1, <3>1 DEF SuiteTypeCorrect, Chains
    <3>2. CASE ~chain.sac
      <4> DEFINE n == chain.sequence + 1
      <4>1. chain' = [chain EXCEPT !.sac = TRUE, !.sequence = n]
        BY <2>1, <3>2
      <4>2. n \in Nat /\ n >= chain.sequence /\ chain.sequence \in Nat
        BY <1>1 DEF SuiteTypeCorrect, Chains
      <4> HIDE DEF n
      <4>3. chain \in Chains
        BY <1>1 DEF SuiteTypeCorrect
      <4> QED
        BY <4>1, <4>2, <4>3 DEF Chains
    <3> QED
      BY <3>1, <3>2
  <2>3. liveSetup' \in [at : SetupPlaces, mint : Nat] /\ liveSetup'.at = "record"
    BY <1>1, <2>1 DEF SuiteTypeCorrect, SetupPlaces
  <2>4. SuiteTypeCorrect'
    BY <1>1, <1>2, <2>1, <2>2, <2>3 DEF SuiteTypeCorrect
  <2>5. SignedLast'
    BY <1>1, <2>1, <2>2 DEF SignedLast, SuiteTypeCorrect, Chains
  <2> QED
    BY <1>1, <1>3, <2>1, <2>2, <2>3, <2>4, <2>5
    DEF SuiteInv, SetupKnows, OnlyIssuedIsOwned, RecordMeansReady
<1>9. CASE recordsAsset
  <2>1. /\ liveSetup.at = "record" /\ UNCHANGED <<chain, unheard, faults, given>>
        /\ keysFile' = [keysFile EXCEPT !.asset = TRUE] /\ liveSetup' = [at |-> "idle", mint |-> 0]
    BY <1>9 DEF recordsAsset, NoSetup
  <2>2. SuiteTypeCorrect'
    BY <1>1, <1>2, <2>1 DEF SuiteTypeCorrect, SetupPlaces
  <2> QED
    BY <1>1, <1>3, <2>1, <2>2
    DEF SuiteInv, SetupKnows, OnlyIssuedIsOwned, RecordMeansReady, SignedLast
<1>10. ASSUME NEW heard \in BOOLEAN, issueAsset(heard)
       PROVE  SuiteInv'
  <2>1. liveSetup.at = "mint" /\ UNCHANGED <<keysFile, given>> /\ liveSetup.mint \in Nat
    BY <1>1, <1>10 DEF issueAsset, SuiteTypeCorrect
  <2>2. CASE heard
    <3> DEFINE owner  == chain.owner + liveSetup.mint
               issued == chain.issued + 1
    <3>1. /\ chain' = [chain EXCEPT !.owner = owner, !.issued = issued]
          /\ liveSetup' = [at |-> "sac", mint |-> 0] /\ UNCHANGED <<unheard, faults>>
      BY <1>10, <2>2 DEF issueAsset
    <3>2. owner \in Int /\ issued \in Nat /\ issued > 0
      BY <1>1, <2>1 DEF SuiteTypeCorrect, Chains
    <3> HIDE DEF owner, issued
    <3>3. /\ chain' \in Chains /\ chain'.funded = chain.funded /\ chain'.trust = chain.trust
          /\ chain'.sac = chain.sac /\ chain'.issued > 0 /\ chain'.sequence = chain.sequence
      BY <1>1, <3>1, <3>2 DEF SuiteTypeCorrect, Chains
    <3>4. SuiteTypeCorrect'
      BY <1>1, <1>2, <2>1, <3>1, <3>3 DEF SuiteTypeCorrect, SetupPlaces
    <3>5. liveSetup'.at = "sac"
      BY <3>1
    <3> QED
      BY <1>1, <1>3, <2>1, <3>1, <3>3, <3>4, <3>5
      DEF SuiteInv, SetupKnows, OnlyIssuedIsOwned, RecordMeansReady, SignedLast
  <2>3. CASE ~heard
    <3>1. /\ unheard' = unheard \cup {Mint} /\ liveSetup' = [at |-> "idle", mint |-> 0]
          /\ chain' = chain /\ faults' = faults + 1
      BY <1>10, <2>3 DEF issueAsset, Spoils, NoSetup
    <3>2. Mint \in [kind : TxKinds, amount : Nat, seq : Nat, rule : Rules] /\ Mint.kind = "mint"
      BY <1>1, <2>1, RulesAreRules DEF Mint, TxKinds, SuiteTypeCorrect, Chains
    <3>3. SuiteTypeCorrect'
      BY <1>1, <1>2, <2>1, <3>1, <3>2 DEF SuiteTypeCorrect, SetupPlaces
    <3>4. liveSetup'.at = "idle" /\ SignedLast'
      BY <1>1, <3>1, <3>2 DEF SignedLast
    <3> QED
      BY <1>1, <1>3, <2>1, <3>1, <3>3, <3>4
      DEF SuiteInv, SetupKnows, OnlyIssuedIsOwned, RecordMeansReady
  <2> QED
    BY <2>2, <2>3
<1>11. CASE setupFails
  <2>1. /\ liveSetup' = [at |-> "idle", mint |-> 0] /\ faults' = faults + 1
        /\ UNCHANGED <<keysFile, chain, unheard, given>>
    BY <1>11 DEF setupFails, Spoils, NoSetup
  <2>2. SuiteTypeCorrect'
    BY <1>1, <1>2, <2>1 DEF SuiteTypeCorrect, SetupPlaces
  <2> QED
    BY <1>1, <1>3, <2>1, <2>2
    DEF SuiteInv, SetupKnows, OnlyIssuedIsOwned, RecordMeansReady, SignedLast
<1> QED
  BY <1>4, <1>5, <1>6, <1>7, <1>8, <1>9, <1>10, <1>11

\* A transaction that is signed and heard of.
LEMMA SignedAndHeard ==
    ASSUME SuiteInv, suite.at = "sign", ~CancelsAnother, suite' = NextTx,
           chain' = After(CurrentTx), UNCHANGED <<keysFile, liveSetup, unheard, faults, given>>
    PROVE  SuiteInv'
<1> DEFINE s   == suite.scenario
           len == Len(TransactionsOf(s))
           tx  == CurrentTx
           at  == IF suite.tx < len THEN "sign" ELSE IF s = 8 THEN "keeper" ELSE "assert"
           id  == IF tx.kind = "create" THEN chain.nextId ELSE suite.id
           n   == suite.tx + 1
<1>1. /\ SuiteTypeCorrect /\ SignedLast /\ s \in 0 .. 11 /\ suite.tx \in 1 .. len /\ suite.id \in Nat
      /\ chain \in Chains /\ liveSetup.at = "idle" /\ suite.passed \subseteq 0 .. (s - 1)
  BY DEF SuiteInv, SuiteTypeCorrect, SuitePlace, UnderWay
<1>2. /\ len = IF s \in {0, 5, 11} THEN 0 ELSE IF s \in {2, 3, 4, 8} THEN 1
               ELSE IF s = 6 THEN 3 ELSE 2
      /\ tx \in [kind : TxKinds \ {"mint"}, amount : Nat, rule : Rules]
      /\ s = 9 => tx.kind = IF suite.tx = 1 THEN "create" ELSE "cancel"
      /\ s = 10 => tx = IF suite.tx = 1 THEN T("revoke_executor", 0) ELSE SetRule(nextRule)
      /\ s = 1 => tx.kind # "pay_executor"
  BY <1>1, ScenariosSign DEF CurrentTx
<1>3. len \in Nat
  BY <1>2
<1>4. tx.kind \in TxKinds /\ tx.kind # "mint" /\ tx.amount \in Nat /\ tx.rule \in Rules
  BY <1>2
<1>5. suite' = [suite EXCEPT !.tx = n, !.id = id, !.at = at]
  BY DEF NextTx
<1>6. n \in Nat /\ id \in Nat /\ at \in SuitePlaces
  BY <1>1, <1>3 DEF Chains, SuitePlaces
<1>7. /\ at = "sign" => n \in 1 .. len
      /\ at \in {"keeper", "assert"} => n = len + 1
      /\ at = "keeper" => s = 8
      /\ at \in {"sign", "keeper", "assert"}
  BY <1>1, <1>3
<1> HIDE DEF len, tx, at, id, n
<1>8. /\ suite'.scenario = s /\ suite'.passed = suite.passed /\ suite'.tx = n /\ suite'.at = at
      /\ suite' \in [at : SuitePlaces, scenario : 0 .. 11, tx : Nat, before : Int, id : Nat,
                     passed : SUBSET (0 .. 11)]
  BY <1>1, <1>5, <1>6 DEF SuiteTypeCorrect
<1>9. /\ chain' \in Chains /\ chain'.trust = chain.trust /\ chain'.owner <= chain.owner
      /\ chain.funded => chain'.funded
      /\ chain.sac => chain'.sac
      /\ chain'.sequence = IF tx.kind = "pay_executor" THEN chain.sequence ELSE chain.sequence + 1
      /\ chain'.issued = chain.issued
      /\ chain'.rule = IF tx.kind = "set_rule" THEN tx.rule ELSE chain.rule
      /\ tx.kind = "revoke_executor" => ~chain'.executor
      /\ tx.kind # "set_executor" /\ ~chain.executor => ~chain'.executor
      /\ tx.kind = "cancel" => chain'.schedules = { x \in chain.schedules : x.id # suite.id }
      /\ tx.kind \notin {"create", "cancel"} => chain'.schedules = chain.schedules
  BY <1>1, <1>4, TransactionChanges DEF tx
<1>10. SuiteTypeCorrect'
  BY <1>1, <1>8, <1>9 DEF SuiteTypeCorrect
<1>11. SuitePlace'
  BY <1>1, <1>7, <1>8 DEF SuitePlace, UnderWay, len
<1>12. /\ chain.sequence \in Nat /\ chain.issued \in Nat
       /\ chain'.issued \in Nat /\ chain'.owner \in Int
  BY <1>1, <1>9 DEF Chains
<1>13. SetupKnows' /\ OnlyIssuedIsOwned' /\ RecordMeansReady'
  BY <1>9, <1>12, AccountsGrow
<1>14. SignedLast'
  BY <1>1, <1>9, <1>12 DEF SignedLast, SuiteTypeCorrect
<1>15. /\ NoneLands => NoneLands'
       /\ tx.kind # "pay_executor" => NoneLands'
  BY <1>1, <1>9, <1>12 DEF SignedLast, NoneLands, SuiteTypeCorrect
<1>16. ASSUME PassedSoFar
       PROVE  Reached'
  <2>1. Reached
    BY <1>16 DEF SuiteInv
  <2>2. s >= 1 => NoneLands'
    BY <1>1, <1>2, <1>15, <2>1 DEF Reached, s
  <2>3. s >= 9 /\ at = "assert" => chain'.schedules = {}
    <3>1. CASE s = 9 /\ at = "assert"
      <4>1. tx.kind = "cancel"
        BY <1>1, <1>2, <1>7, <3>1 DEF n
      <4>2. { x.id : x \in chain.schedules } = {suite.id}
        BY <4>1 DEF CancelsAnother, tx
      <4> QED
        BY <1>9, <4>1, <4>2
    <3>2. CASE s >= 10
      <4>1. tx.kind \notin {"create", "cancel"}
        BY <1>1, <1>2, <3>2 DEF T, SetRule
      <4> QED
        BY <1>9, <2>1, <3>2, <4>1 DEF Reached, s
    <3> QED
      BY <1>1, <3>1, <3>2
  <2>4. s >= 10 => chain'.schedules = {}
    <3>1. ASSUME s >= 10
          PROVE  tx.kind \notin {"create", "cancel"}
      BY <1>1, <1>2, <3>1 DEF T, SetRule
    <3> QED
      BY <1>9, <2>1, <3>1 DEF Reached, s
  <2>5. s >= 10 => s = 10 /\ suite.tx \in {1, 2}
    BY <1>1, <1>2
  <2>6. s = 10 => ~chain'.executor
    <3>1. CASE s = 10 /\ suite.tx = 1
      BY <1>2, <1>9, <3>1 DEF T
    <3>2. CASE s = 10 /\ suite.tx = 2
      BY <1>2, <1>9, <2>1, <3>2 DEF SetRule, Reached, s
    <3> QED
      BY <2>5, <3>1, <3>2
  <2>7. s = 10 /\ n >= 3 => chain'.rule = nextRule
    <3>1. s = 10 /\ n >= 3 => suite.tx = 2
      BY <2>5 DEF n
    <3> QED
      BY <1>2, <1>9, <3>1 DEF SetRule
  <2> HIDE DEF s
  <2> QED
    BY <1>1, <1>8, <2>2, <2>3, <2>4, <2>5, <2>6, <2>7 DEF Reached
<1>17. UnderWay
  BY DEF UnderWay
<1>18. (PassedSoFar' => PassedSoFar) /\ ~PassedAll'
  BY <1>7, <1>8, <1>17 DEF PassedSoFar, PassedAll
<1> QED
  BY <1>10, <1>11, <1>13, <1>14, <1>16, <1>18 DEF SuiteInv

\* A step of the suite.
LEMMA SuiteGoesOn ==
    ASSUME SuiteInv,
           \/ suiteStarts \/ ScenarioBegins \/ runKeeperUntil \/ keeperTimesOut \/ Assert
           \/ Ends \/ Interrupted
           \/ \E heard \in BOOLEAN : signAndSubmit(heard)
    PROVE  SuiteInv'
<1>1. /\ SuiteTypeCorrect /\ SetupKnows /\ OnlyIssuedIsOwned /\ RecordMeansReady /\ SignedLast
      /\ SuitePlace /\ chain \in Chains /\ given \in Nat /\ faults \in Nat
      /\ unheard \subseteq [kind : TxKinds, amount : Nat, seq : Nat, rule : Rules]
  BY DEF SuiteInv, SuiteTypeCorrect
<1>2. keysFile' = keysFile /\ liveSetup' = liveSetup
  BY DEF suiteStarts, ScenarioBegins, runKeeperUntil, keeperTimesOut, Assert, Ends, Interrupted,
     signAndSubmit
<1>3. ASSUME UNCHANGED <<chain, unheard>>
      PROVE  SetupKnows' /\ OnlyIssuedIsOwned' /\ RecordMeansReady' /\ SignedLast'
  BY <1>1, <1>2, <1>3 DEF SetupKnows, OnlyIssuedIsOwned, RecordMeansReady, SignedLast
<1>4. NoSuite \in [at : SuitePlaces, scenario : 0 .. 11, tx : Nat, before : Int, id : Nat,
                   passed : SUBSET (0 .. 11)]
  BY DEF NoSuite, SuitePlaces
<1>5. CASE suiteStarts
  <2>1. /\ liveSetup.at = "idle" /\ UNCHANGED <<chain, unheard, faults>> /\ given' = given + 1
        /\ suite' = [NoSuite EXCEPT !.at = "begin"]
    BY <1>5 DEF suiteStarts
  <2>2. suite' = [at |-> "begin", scenario |-> 0, tx |-> 1, before |-> 0, id |-> 0, passed |-> {}]
    BY <2>1 DEF NoSuite
  <2>3. SuiteTypeCorrect'
    <3>1. suite' \in [at : SuitePlaces, scenario : 0 .. 11, tx : Nat, before : Int, id : Nat,
                     passed : SUBSET (0 .. 11)]
      BY <2>2 DEF SuitePlaces
    <3> QED
      BY <1>1, <1>2, <2>1, <3>1 DEF SuiteTypeCorrect
  <2>4. SuitePlace' /\ Reached' /\ ~PassedAll'
    BY <1>2, <2>1, <2>2 DEF SuitePlace, UnderWay, Reached, PassedAll
  <2> QED
    BY <1>3, <2>1, <2>3, <2>4 DEF SuiteInv
<1>6. CASE ScenarioBegins
  <2>1. suite.at = "begin" /\ UNCHANGED <<chain, unheard, faults, given>>
    BY <1>6 DEF ScenarioBegins
  <2>2. CASE ~Begins(suite.scenario)
    <3>1. Records(FALSE)
      BY <1>6, <2>2 DEF ScenarioBegins
    <3>2. UnderWay
      BY <2>1 DEF UnderWay
    <3>3. SignedLast'
      BY <1>3, <2>1
    <3> QED
      BY <1>1, <1>2, <2>1, <3>1, <3>2, <3>3, VerdictIsNoted
  <2>3. CASE Begins(suite.scenario)
    <3> DEFINE at == IF TransactionsOf(suite.scenario) = <<>> THEN "assert" ELSE "sign"
               len == Len(TransactionsOf(suite.scenario))
    <3>1. suite' = [suite EXCEPT !.before = chain.recipient, !.at = at]
      BY <1>6, <2>3 DEF ScenarioBegins
    <3>2. /\ suite.scenario \in 0 .. 11 /\ suite.tx = 1 /\ chain.recipient \in Int
          /\ UnderWay /\ liveSetup.at = "idle" /\ suite.passed \subseteq 0 .. (suite.scenario - 1)
      BY <1>1, <2>1 DEF SuiteTypeCorrect, SuitePlace, UnderWay, Chains
    <3>3. /\ at = "sign" => 1 \in 1 .. len
          /\ at = "assert" => 1 = len + 1 /\ suite.scenario \in {0, 5, 11}
          /\ at \in {"sign", "assert"}
      BY <3>2, ScenariosSign
    <3> HIDE DEF at, len
    <3>4. /\ suite' \in [at : SuitePlaces, scenario : 0 .. 11, tx : Nat, before : Int, id : Nat,
                         passed : SUBSET (0 .. 11)]
          /\ suite'.at = at /\ suite'.scenario = suite.scenario /\ suite'.tx = suite.tx
          /\ suite'.passed = suite.passed
      BY <1>1, <3>1, <3>2, <3>3 DEF SuiteTypeCorrect, SuitePlaces
    <3>5. SuiteTypeCorrect'
      BY <1>1, <1>2, <2>1, <3>4 DEF SuiteTypeCorrect
    <3>6. SuitePlace'
      BY <1>2, <3>2, <3>3, <3>4 DEF SuitePlace, UnderWay, len
    <3>7. (PassedSoFar' => PassedSoFar) /\ ~PassedAll'
      BY <3>2, <3>3, <3>4 DEF PassedSoFar, PassedAll
    <3>8. NoneLands' <=> NoneLands
      BY <2>1 DEF NoneLands
    <3>9. PassedSoFar => Reached'
      BY <2>1, <3>2, <3>3, <3>4, <3>8 DEF SuiteInv, Reached
    <3> QED
      BY <1>3, <2>1, <3>5, <3>6, <3>7, <3>9 DEF SuiteInv
  <2> QED
    BY <2>2, <2>3
<1>7. CASE runKeeperUntil
  <2>1. PICK s \in Due :
             /\ chain' = Runs(s)
             /\ suite' = IF s.id = suite.id THEN [suite EXCEPT !.at = "assert"] ELSE suite
    BY <1>7 DEF runKeeperUntil
  <2>2. suite.at = "keeper" /\ UNCHANGED <<unheard, faults, given>>
    BY <1>7 DEF runKeeperUntil
  <2>3. s \in chain.schedules
    BY DEF Due
  <2>4. /\ chain' \in Chains /\ chain'.trust = chain.trust /\ chain'.owner <= chain.owner
        /\ chain'.sequence = chain.sequence /\ chain'.issued = chain.issued
        /\ chain.funded => chain'.funded
        /\ chain.sac => chain'.sac
    BY <1>1, <2>1, <2>3, KeeperChanges
  <2>5. /\ suite.scenario = 8 /\ UnderWay
        /\ suite.tx = Len(TransactionsOf(suite.scenario)) + 1
        /\ liveSetup.at = "idle" /\ suite.passed \subseteq 0 .. (suite.scenario - 1)
    BY <1>1, <2>2 DEF SuitePlace, UnderWay
  <2>6. /\ suite' \in [at : SuitePlaces, scenario : 0 .. 11, tx : Nat, before : Int, id : Nat,
                       passed : SUBSET (0 .. 11)]
        /\ suite'.at \in {"keeper", "assert"} /\ suite'.scenario = suite.scenario
        /\ suite'.tx = suite.tx /\ suite'.passed = suite.passed
    BY <1>1, <2>1, <2>2 DEF SuiteTypeCorrect, SuitePlaces
  <2>7. SuiteTypeCorrect'
    BY <1>1, <1>2, <2>2, <2>4, <2>6 DEF SuiteTypeCorrect
  <2>8. chain'.issued \in Nat /\ chain'.owner \in Int /\ chain'.issued >= chain.issued
    BY <2>4 DEF Chains
  <2>9. SetupKnows' /\ OnlyIssuedIsOwned' /\ RecordMeansReady'
    BY <1>2, <2>4, <2>8, AccountsGrow
  <2>10. SuitePlace'
    BY <1>2, <2>5, <2>6 DEF SuitePlace, UnderWay
  <2>11. SignedLast' /\ (NoneLands' <=> NoneLands)
    BY <1>1, <2>2, <2>4 DEF SignedLast, NoneLands
  <2>12. (PassedSoFar' => PassedSoFar) /\ ~PassedAll'
    BY <2>5, <2>6 DEF PassedSoFar, PassedAll
  <2>13. PassedSoFar => Reached'
    BY <2>5, <2>6, <2>11 DEF SuiteInv, Reached
  <2> QED
    BY <2>7, <2>9, <2>10, <2>11, <2>12, <2>13 DEF SuiteInv
<1>8. CASE keeperTimesOut
  <2>1. /\ suite.at = "keeper" /\ Records(FALSE) /\ faults' = faults + 1
        /\ UNCHANGED <<chain, unheard, given>>
    BY <1>8 DEF keeperTimesOut, Spoils
  <2>2. UnderWay /\ SignedLast' /\ faults' \in Nat
    BY <1>1, <1>3, <2>1 DEF UnderWay
  <2> QED
    BY <1>1, <1>2, <2>1, <2>2, VerdictIsNoted
<1>9. CASE Assert
  <2>1. /\ suite.at = "assert" /\ Records(Asserts(suite.scenario))
        /\ UNCHANGED <<chain, unheard, faults, given>>
    BY <1>9 DEF Assert
  <2>2. UnderWay /\ SignedLast'
    BY <1>3, <2>1 DEF UnderWay
  <2> QED
    BY <1>1, <1>2, <2>1, <2>2, VerdictIsNoted
<1>10. CASE Ends \/ Interrupted
  <2>1. /\ suite' = NoSuite /\ faults' \in Nat /\ UNCHANGED <<chain, unheard, given>>
    BY <1>1, <1>10 DEF Ends, Interrupted, Spoils
  <2>2. SuiteTypeCorrect'
    BY <1>1, <1>2, <1>4, <2>1 DEF SuiteTypeCorrect
  <2>3. SuitePlace' /\ ~PassedSoFar' /\ ~PassedAll'
    BY <2>1 DEF NoSuite, SuitePlace, PassedSoFar, PassedAll, UnderWay
  <2> QED
    BY <1>3, <2>1, <2>2, <2>3 DEF SuiteInv
<1>11. ASSUME NEW heard \in BOOLEAN, signAndSubmit(heard)
       PROVE  SuiteInv'
  <2>1. suite.at = "sign" /\ given' = given /\ UnderWay
    BY <1>11 DEF signAndSubmit, UnderWay
  <2>2. CASE RefusedTx(CurrentTx) \/ CancelsAnother
    <3>1. Records(FALSE) /\ UNCHANGED <<chain, unheard, faults>>
      BY <1>11, <2>2 DEF signAndSubmit
    <3>2. SignedLast'
      BY <1>3, <3>1
    <3> QED
      BY <1>1, <1>2, <2>1, <3>1, <3>2, VerdictIsNoted
  <2>3. CASE ~(RefusedTx(CurrentTx) \/ CancelsAnother) /\ heard
    <3>1. suite' = NextTx /\ chain' = After(CurrentTx) /\ UNCHANGED <<unheard, faults>>
      BY <1>11, <2>3 DEF signAndSubmit
    <3> QED
      BY <1>2, <2>1, <2>3, <3>1, SignedAndHeard
  <2>4. CASE ~(RefusedTx(CurrentTx) \/ CancelsAnother) /\ ~heard
    <3> DEFINE new == [kind |-> CurrentTx.kind, amount |-> CurrentTx.amount,
                       seq |-> chain.sequence + 1, rule |-> CurrentTx.rule]
    <3>1. /\ Records(FALSE) /\ chain' = chain /\ faults' = faults + 1
          /\ unheard' = unheard \/ unheard' = unheard \cup {new}
      BY <1>11, <2>4 DEF signAndSubmit, Spoils
    <3>2. CurrentTx \in [kind : TxKinds \ {"mint"}, amount : Nat, rule : Rules]
      BY <1>1, <2>1, ScenariosSign DEF CurrentTx, SuitePlace, SuiteTypeCorrect
    <3>3. new \in [kind : TxKinds, amount : Nat, seq : Nat, rule : Rules]
          /\ new.seq = chain.sequence + 1
      BY <1>1, <3>2 DEF Chains
    <3> HIDE DEF new
    <3>4. SignedLast' /\ faults' \in Nat
          /\ unheard' \subseteq [kind : TxKinds, amount : Nat, seq : Nat, rule : Rules]
      BY <1>1, <3>1, <3>3 DEF SignedLast
    <3> QED
      BY <1>1, <1>2, <2>1, <3>1, <3>4, VerdictIsNoted
  <2> QED
    BY <2>2, <2>3, <2>4
<1> QED
  BY <1>5, <1>6, <1>7, <1>8, <1>9, <1>10, <1>11

\* The network and the calendar take their time.
LEMMA NetworkGoesOn ==
    ASSUME SuiteInv, NextDay \/ \E tx \in unheard : LandsLate(tx)
    PROVE  SuiteInv'
<1>1. /\ SuiteTypeCorrect /\ SignedLast /\ SuitePlace /\ chain \in Chains /\ suite.id \in Nat
      /\ chain.sequence \in Nat /\ chain.issued \in Nat
  BY DEF SuiteInv, SuiteTypeCorrect, Chains
<1>2. UNCHANGED <<keysFile, liveSetup, suite, given>>
  BY DEF NextDay, LandsLate
<1> DEFINE Kept ==
             /\ chain' \in Chains /\ chain'.trust = chain.trust
             /\ chain.funded => chain'.funded
             /\ chain.sac => chain'.sac
             /\ chain'.issued >= chain.issued
             /\ chain'.issued = 0 => chain'.owner <= chain.owner
             /\ chain'.sequence >= chain.sequence
             /\ unheard' \subseteq unheard /\ faults' \in Nat
             /\ NoneLands => /\ ~chain.executor => ~chain'.executor
                            /\ chain'.rule = chain.rule /\ chain'.schedules = chain.schedules
<1>3. ASSUME NextDay
      PROVE  Kept
  <2>1. chain' = [chain EXCEPT !.spent = 0] /\ unheard' = unheard /\ faults' = faults + 1
    BY <1>3 DEF NextDay, Spoils
  <2>2. chain.owner \in Int
    BY <1>1 DEF Chains
  <2> QED
    BY <1>1, <2>1, <2>2 DEF SuiteTypeCorrect, Chains
<1>4. ASSUME NEW tx \in unheard, LandsLate(tx)
      PROVE  Kept
  <2>1. unheard' \subseteq unheard /\ faults' = faults /\ faults \in Nat
    BY <1>1, <1>4 DEF LandsLate, SuiteTypeCorrect
  <2>2. CASE chain' = chain
    <3>1. chain.owner \in Int
      BY <1>1 DEF Chains
    <3> QED
      BY <1>1, <2>1, <2>2, <3>1
  <2>3. CASE chain' # chain
    <3>1. /\ tx.seq = 1 + IF tx.kind = "mint" THEN chain.issued ELSE chain.sequence
          /\ chain' = After(tx)
      BY <1>4, <2>3 DEF LandsLate
    <3>2. /\ tx.kind \in TxKinds /\ tx.amount \in Nat /\ tx.rule \in Rules /\ tx.seq \in Nat
      BY <1>1 DEF SuiteTypeCorrect
    <3>3. NoneLands => tx.kind = "mint"
      BY <1>1, <3>1, <3>2 DEF NoneLands
    <3>4. /\ After(tx) \in Chains
          /\ chain.funded => After(tx).funded
          /\ After(tx).trust = chain.trust
          /\ chain.sac => After(tx).sac
          /\ After(tx).sequence = IF tx.kind \in {"pay_executor", "mint"} THEN chain.sequence
                                  ELSE chain.sequence + 1
          /\ After(tx).issued = IF tx.kind = "mint" THEN chain.issued + 1 ELSE chain.issued
          /\ tx.kind # "mint" => After(tx).owner <= chain.owner
          /\ After(tx).rule = IF tx.kind = "set_rule" THEN tx.rule ELSE chain.rule
          /\ tx.kind # "set_executor" /\ ~chain.executor => ~After(tx).executor
          /\ tx.kind \notin {"create", "cancel"} => After(tx).schedules = chain.schedules
      BY <1>1, <3>2, TransactionChanges
    <3>5. tx.kind = "mint" => chain'.issued # 0
      BY <1>1, <3>1, <3>4
    <3> QED
      BY <1>1, <2>1, <3>1, <3>3, <3>4, <3>5
  <2> QED
    BY <2>2, <2>3
<1>5. Kept
  BY <1>3, <1>4
<1> HIDE DEF Kept
<1>6. chain'.issued \in Nat /\ chain'.owner \in Int /\ chain'.sequence \in Nat
  BY <1>5 DEF Kept, Chains
<1>7. SetupKnows' /\ OnlyIssuedIsOwned' /\ RecordMeansReady'
  BY <1>2, <1>5, <1>6, AccountsGrow DEF Kept
<1>8. SuiteTypeCorrect'
  BY <1>1, <1>2, <1>5 DEF Kept, SuiteTypeCorrect
<1>9. SuitePlace'
  BY <1>1, <1>2 DEF SuitePlace, UnderWay
<1>10. SignedLast' /\ (NoneLands => NoneLands')
  BY <1>1, <1>5, <1>6 DEF Kept, SuiteTypeCorrect, SignedLast, NoneLands
<1>11. PassedSoFar' => Reached'
  <2>1. PassedSoFar' => PassedSoFar
    BY <1>2 DEF PassedSoFar, UnderWay
  <2>2. suite.scenario \in 0 .. 11 /\ suite.tx \in Nat
    BY <1>1 DEF SuiteTypeCorrect
  <2> QED
    BY <1>2, <1>5, <1>10, <2>1, <2>2 DEF SuiteInv, Reached, Kept
<1>12. PassedAll' => NoneLands' /\ Disarmed'
  BY <1>2, <1>5, <1>10 DEF SuiteInv, PassedAll, Disarmed, Kept
<1> QED
  BY <1>7, <1>8, <1>9, <1>10, <1>11, <1>12 DEF SuiteInv

-----------------------------------------------------------------------------
(* The suite on new accounts.                                              *)

\* How many transactions come before each scenario (the keeper's is one more), and what the
\* accounts hold before each: the owner's tokens, her allowance and what counts as spent.
SignedBefore == << 0, 0, 2, 3, 4, 5, 5, 8, 10, 12, 14, 16 >>
OwnedThen    == << 2000, 2000, 2000, 2000, 1995, 1987, 1987, 1987, 1987, 1981, 1951, 1951, 1947,
                   1947, 1947, 1947, 1947 >>
AllowedThen  == << 0, 1000, 1000, 1000, 1000, 992, 1000, 1000, 1000, 994, 964, 964, 960, 960, 960,
                   960, 960 >>
SpentThen    == << 0, 0, 0, 0, 0, 8, 8, 8, 8, 14, 44, 44, 48, 48, 48, 48, 48 >>

Signed == SignedBefore[suite.scenario + 1] + suite.tx - 1
          + IF suite.scenario = 8 /\ suite.at = "assert" THEN 1 ELSE 0

Accounted(c, n) ==
    /\ c.owner = OwnedThen[n + 1] /\ c.recipient = 2000 - c.owner
    /\ c.allowance = AllowedThen[n + 1] /\ c.spent = SpentThen[n + 1]
    /\ c.rule = IF n < 2 THEN NoRule ELSE IF n < 7 THEN baselineRule
                ELSE IF n < 16 THEN autoRule ELSE nextRule
    /\ c.executor <=> n \in 8 .. 14

OnTrack ==
    /\ Accounted(chain, Signed)
    /\ suite.at # "begin" => suite.before = 2000 - OwnedThen[SignedBefore[suite.scenario + 1] + 1]
    /\ suite.scenario = 2 /\ suite.tx = 2 => chain.alias
    /\ Signed \in {11, 13} => \E x : chain.schedules = {x} /\ x.id = suite.id
    /\ Signed = 11 => \A x \in chain.schedules : x.amount = 4 /\ x.due
    /\ Signed \notin {11, 13} => chain.schedules = {}

LEMMA FreshBegins ==
    ASSUME SuiteInv, suite.at = "begin", OnTrack
    PROVE  Begins(suite.scenario)
<1>1. suite.scenario \in 0 .. 11 /\ suite.tx = 1
  BY DEF SuiteInv, SuiteTypeCorrect, SuitePlace
<1>2. suite.scenario \notin {6, 7, 10} => Begins(suite.scenario)
  BY DEF Begins
<1>3. CASE suite.scenario = 6
  <2>1. Signed = 5
    BY <1>1, <1>3 DEF Signed, SignedBefore
  <2>2. ~chain.executor
    BY <2>1 DEF OnTrack, Accounted
  <2> QED
    BY <1>3, <2>2 DEF Begins
<1>4. CASE suite.scenario = 7
  <2>1. Signed = 8
    BY <1>1, <1>4 DEF Signed, SignedBefore
  <2>2. chain.executor /\ chain.rule = autoRule
    BY <2>1 DEF OnTrack, Accounted
  <2>3. chain.rule.auto_approve_limit = 20
    BY <2>2 DEF autoRule, baselineRule
  <2> QED
    BY <1>4, <2>2, <2>3 DEF Begins
<1>5. CASE suite.scenario = 10
  <2>1. Signed = 14
    BY <1>1, <1>5 DEF Signed, SignedBefore
  <2>2. chain.rule = autoRule
    BY <2>1 DEF OnTrack, Accounted
  <2>3. /\ chain.rule.auto_approve_limit = 20 /\ chain.rule.per_tx_limit = 100
        /\ chain.rule.daily_limit = 400
    BY <2>2 DEF autoRule, baselineRule
  <2> QED
    BY <1>5, <2>3 DEF Begins
<1> QED
  BY <1>2, <1>3, <1>4, <1>5

\* Every scenario asserts what is so.
LEMMA FreshAsserts ==
    ASSUME SuiteInv, RecordMeansReady, keysFile.asset, suite.at = "assert", OnTrack
    PROVE  Asserts(suite.scenario)
<1> DEFINE len == Len(TransactionsOf(suite.scenario))
<1>0. suite.scenario \in 0 .. 11 /\ suite.tx = len + 1 /\ chain.sac
  BY DEF SuiteInv, SuiteTypeCorrect, SuitePlace, RecordMeansReady
<1>14. len = IF suite.scenario \in {0, 5, 11} THEN 0 ELSE IF suite.scenario \in {2, 3, 4, 8} THEN 1
            ELSE IF suite.scenario = 6 THEN 3 ELSE 2
  BY <1>0, ScenariosSign
<1> HIDE DEF len
<1>1. suite.scenario \in 0 .. 11 /\ chain.sac
  BY <1>0
<1>2. CASE suite.scenario = 0
  <2>1. suite.tx = 1
    BY <1>0, <1>2, <1>14
  <2>2. Signed = 0
    BY <1>2, <2>1 DEF Signed, SignedBefore
  <2>3. /\ chain.owner = 2000 /\ chain.recipient = 0 /\ chain.allowance = 0 /\ chain.spent = 0
        /\ chain.rule = NoRule /\ ~chain.executor /\ suite.before = 0
        /\ chain.schedules = {}
    BY <1>2, <2>2 DEF OnTrack, Accounted, OwnedThen, AllowedThen, SpentThen, SignedBefore
  <2>4. S0
    BY <1>1, <2>3 DEF S0, OWNER_TARGET_RAW
  <2> QED
    BY <1>2, <2>4 DEF Asserts
<1>3. CASE suite.scenario = 1
  <2>1. suite.tx = 3
    BY <1>0, <1>3, <1>14
  <2>2. Signed = 2
    BY <1>3, <2>1 DEF Signed, SignedBefore
  <2>3. /\ chain.owner = 2000 /\ chain.recipient = 0 /\ chain.allowance = 1000 /\ chain.spent = 0
        /\ chain.rule = baselineRule /\ ~chain.executor /\ suite.before = 0
        /\ chain.schedules = {}
    BY <1>3, <2>2 DEF OnTrack, Accounted, OwnedThen, AllowedThen, SpentThen, SignedBefore
  <2>4. S1
    BY <1>1, <2>3 DEF S1, allowanceRaw
  <2> QED
    BY <1>3, <2>4 DEF Asserts
<1>4. CASE suite.scenario = 2
  <2>1. suite.tx = 2
    BY <1>0, <1>4, <1>14
  <2>2. Signed = 3
    BY <1>4, <2>1 DEF Signed, SignedBefore
  <2>3. /\ chain.owner = 2000 /\ chain.recipient = 0 /\ chain.allowance = 1000 /\ chain.spent = 0
        /\ chain.rule = baselineRule /\ ~chain.executor /\ suite.before = 0
        /\ chain.schedules = {}
    BY <1>4, <2>2 DEF OnTrack, Accounted, OwnedThen, AllowedThen, SpentThen, SignedBefore
  <2>5. chain.alias
    BY <1>1, <1>4, <2>1 DEF OnTrack
  <2>4. S2
    BY <1>1, <2>3, <2>5 DEF S2
  <2> QED
    BY <1>4, <2>4 DEF Asserts
<1>5. CASE suite.scenario = 3
  <2>1. suite.tx = 2
    BY <1>0, <1>5, <1>14
  <2>2. Signed = 4
    BY <1>5, <2>1 DEF Signed, SignedBefore
  <2>3. /\ chain.owner = 1995 /\ chain.recipient = 5 /\ chain.allowance = 1000 /\ chain.spent = 0
        /\ chain.rule = baselineRule /\ ~chain.executor /\ suite.before = 0
        /\ chain.schedules = {}
    BY <1>5, <2>2 DEF OnTrack, Accounted, OwnedThen, AllowedThen, SpentThen, SignedBefore
  <2>4. S3
    BY <1>1, <2>3 DEF S3, Delta
  <2> QED
    BY <1>5, <2>4 DEF Asserts
<1>6. CASE suite.scenario = 4
  <2>1. suite.tx = 2
    BY <1>0, <1>6, <1>14
  <2>2. Signed = 5
    BY <1>6, <2>1 DEF Signed, SignedBefore
  <2>3. /\ chain.owner = 1987 /\ chain.recipient = 13 /\ chain.allowance = 992 /\ chain.spent = 8
        /\ chain.rule = baselineRule /\ ~chain.executor /\ suite.before = 5
        /\ chain.schedules = {}
    BY <1>6, <2>2 DEF OnTrack, Accounted, OwnedThen, AllowedThen, SpentThen, SignedBefore
  <2>4. S4
    BY <1>1, <2>3 DEF S4, Delta
  <2> QED
    BY <1>6, <2>4 DEF Asserts
<1>7. CASE suite.scenario = 5
  <2>1. suite.tx = 1
    BY <1>0, <1>7, <1>14
  <2>2. Signed = 5
    BY <1>7, <2>1 DEF Signed, SignedBefore
  <2>3. /\ chain.owner = 1987 /\ chain.recipient = 13 /\ chain.allowance = 992 /\ chain.spent = 8
        /\ chain.rule = baselineRule /\ ~chain.executor /\ suite.before = 13
        /\ chain.schedules = {}
    BY <1>7, <2>2 DEF OnTrack, Accounted, OwnedThen, AllowedThen, SpentThen, SignedBefore
  <2>4. S5
    BY <1>1, <2>3 DEF S5, RefusalOwner, baselineRule
  <2> QED
    BY <1>7, <2>4 DEF Asserts
<1>8. CASE suite.scenario = 6
  <2>1. suite.tx = 4
    BY <1>0, <1>8, <1>14
  <2>2. Signed = 8
    BY <1>8, <2>1 DEF Signed, SignedBefore
  <2>3. /\ chain.owner = 1987 /\ chain.recipient = 13 /\ chain.allowance = 1000 /\ chain.spent = 8
        /\ chain.rule = autoRule /\ chain.executor /\ suite.before = 13
        /\ chain.schedules = {}
    BY <1>8, <2>2 DEF OnTrack, Accounted, OwnedThen, AllowedThen, SpentThen, SignedBefore
  <2>4. S6
    BY <1>1, <2>3 DEF S6, autoRule
  <2> QED
    BY <1>8, <2>4 DEF Asserts
<1>9. CASE suite.scenario = 7
  <2>1. suite.tx = 3
    BY <1>0, <1>9, <1>14
  <2>2. Signed = 10
    BY <1>9, <2>1 DEF Signed, SignedBefore
  <2>3. /\ chain.owner = 1951 /\ chain.recipient = 49 /\ chain.allowance = 964 /\ chain.spent = 44
        /\ chain.rule = autoRule /\ chain.executor /\ suite.before = 13
        /\ chain.schedules = {}
    BY <1>9, <2>2 DEF OnTrack, Accounted, OwnedThen, AllowedThen, SpentThen, SignedBefore
  <2>4. S7
    BY <1>1, <2>3 DEF S7, Delta, RefusalOwner, baselineRule, RefusalExecutor, autoRule, nextRule
  <2> QED
    BY <1>9, <2>4 DEF Asserts
<1>10. CASE suite.scenario = 8
  <2>1. suite.tx = 2
    BY <1>0, <1>10, <1>14
  <2>2. Signed = 12
    BY <1>10, <2>1 DEF Signed, SignedBefore
  <2>3. /\ chain.owner = 1947 /\ chain.recipient = 53 /\ chain.allowance = 960 /\ chain.spent = 48
        /\ chain.rule = autoRule /\ chain.executor /\ suite.before = 49
        /\ chain.schedules = {}
    BY <1>10, <2>2 DEF OnTrack, Accounted, OwnedThen, AllowedThen, SpentThen, SignedBefore
  <2>4. S8
    BY <1>1, <2>3 DEF S8, Delta, Inactive
  <2> QED
    BY <1>10, <2>4 DEF Asserts
<1>11. CASE suite.scenario = 9
  <2>1. suite.tx = 3
    BY <1>0, <1>11, <1>14
  <2>2. Signed = 14
    BY <1>11, <2>1 DEF Signed, SignedBefore
  <2>3. /\ chain.owner = 1947 /\ chain.recipient = 53 /\ chain.allowance = 960 /\ chain.spent = 48
        /\ chain.rule = autoRule /\ chain.executor /\ suite.before = 53
        /\ chain.schedules = {}
    BY <1>11, <2>2 DEF OnTrack, Accounted, OwnedThen, AllowedThen, SpentThen, SignedBefore
  <2>4. S9
    BY <1>1, <2>3 DEF S9, Inactive
  <2> QED
    BY <1>11, <2>4 DEF Asserts
<1>12. CASE suite.scenario = 10
  <2>1. suite.tx = 3
    BY <1>0, <1>12, <1>14
  <2>2. Signed = 16
    BY <1>12, <2>1 DEF Signed, SignedBefore
  <2>3. /\ chain.owner = 1947 /\ chain.recipient = 53 /\ chain.allowance = 960 /\ chain.spent = 48
        /\ chain.rule = nextRule /\ ~chain.executor /\ suite.before = 53
        /\ chain.schedules = {}
    BY <1>12, <2>2 DEF OnTrack, Accounted, OwnedThen, AllowedThen, SpentThen, SignedBefore
  <2>5. chain.rule.per_tx_limit = 20
    BY <2>3 DEF nextRule, baselineRule
  <2>6. RefusalExecutor(2) = "NoExecutor"
    BY <2>3 DEF RefusalExecutor
  <2>7. RefusalOwner(40) = "OverPerTxLimit"
    BY <2>5 DEF RefusalOwner
  <2>4. S10
    BY <2>5, <2>6, <2>7 DEF S10
  <2> QED
    BY <1>12, <2>4 DEF Asserts
<1>13. CASE suite.scenario = 11
  <2>1. suite.tx = 1
    BY <1>0, <1>13, <1>14
  <2>2. Signed = 16
    BY <1>13, <2>1 DEF Signed, SignedBefore
  <2>3. /\ chain.owner = 1947 /\ chain.recipient = 53 /\ chain.allowance = 960 /\ chain.spent = 48
        /\ chain.rule = nextRule /\ ~chain.executor /\ suite.before = 53
        /\ chain.schedules = {}
    BY <1>13, <2>2 DEF OnTrack, Accounted, OwnedThen, AllowedThen, SpentThen, SignedBefore
  <2>4. S11
    BY <1>1, <2>3 DEF S11
  <2> QED
    BY <1>13, <2>4 DEF Asserts
<1> QED
  BY <1>1, <1>2, <1>3, <1>4, <1>5, <1>6, <1>7, <1>8, <1>9, <1>10, <1>11, <1>12, <1>13

\* No transaction of it is refused, and each moves what it should.
LEMMA FreshTransactions ==
    ASSUME SuiteInv, suite.at = "sign", OnTrack
    PROVE  /\ ~RefusedTx(CurrentTx) /\ ~CancelsAnother
           /\ Accounted(After(CurrentTx), Signed + 1)
           /\ suite.scenario = 2 => After(CurrentTx).alias
           /\ Signed + 1 \in {11, 13} =>
                \E x : After(CurrentTx).schedules = {x} /\ x.id = chain.nextId
           /\ Signed + 1 = 11 => \A x \in After(CurrentTx).schedules : x.amount = 4 /\ x.due
           /\ Signed + 1 \notin {11, 13} => After(CurrentTx).schedules = {}
           /\ CurrentTx.kind = "create" <=> Signed + 1 \in {11, 13}
<1> DEFINE tx   == CurrentTx
           next == After(CurrentTx)
           n    == Signed
           len  == Len(TransactionsOf(suite.scenario))
           Fine == /\ ~RefusedTx(tx) /\ ~CancelsAnother /\ Accounted(next, n + 1)
                   /\ suite.scenario = 2 => next.alias
                   /\ n + 1 \in {11, 13} => \E x : next.schedules = {x} /\ x.id = chain.nextId
                   /\ n + 1 = 11 => \A x \in next.schedules : x.amount = 4 /\ x.due
                   /\ n + 1 \notin {11, 13} => next.schedules = {}
                   /\ tx.kind = "create" <=> n + 1 \in {11, 13}
<1>1. /\ suite.scenario \in 0 .. 11 /\ suite.tx \in 1 .. len /\ suite.id \in Nat /\ chain \in Chains
  BY DEF SuiteInv, SuiteTypeCorrect, SuitePlace
<1>2. len = IF suite.scenario \in {0, 5, 11} THEN 0 ELSE IF suite.scenario \in {2, 3, 4, 8} THEN 1
            ELSE IF suite.scenario = 6 THEN 3 ELSE 2
  BY <1>1, ScenariosSign
<1>3. tx \in [kind : TxKinds \ {"mint"}, amount : Nat, rule : Rules]
  BY <1>1, ScenariosSign DEF CurrentTx
<1>4. /\ next.rule = IF tx.kind = "set_rule" THEN tx.rule ELSE chain.rule
      /\ tx.kind = "revoke_executor" => ~next.executor
      /\ tx.kind # "set_executor" /\ ~chain.executor => ~next.executor
      /\ tx.kind = "cancel" => next.schedules = { x \in chain.schedules : x.id # suite.id }
      /\ tx.kind \notin {"create", "cancel"} => next.schedules = chain.schedules
      /\ tx.kind \in {"payment", "pay_owner", "pay_executor"} =>
           next.owner = chain.owner - tx.amount /\ next.recipient = chain.recipient + tx.amount
      /\ tx.kind \notin {"payment", "pay_owner", "pay_executor"} =>
           next.owner = chain.owner /\ next.recipient = chain.recipient
      /\ tx.kind \in {"pay_owner", "pay_executor"} =>
           next.allowance = chain.allowance - tx.amount /\ next.spent = chain.spent + tx.amount
      /\ tx.kind \notin {"pay_owner", "pay_executor"} => next.spent = chain.spent
      /\ tx.kind \notin {"pay_owner", "pay_executor", "approve"} => next.allowance = chain.allowance
      /\ tx.kind = "approve" => next.allowance = 1000
      /\ tx.kind = "set_alias" => next.alias
      /\ chain.executor /\ tx.kind # "revoke_executor" => next.executor
      /\ tx.kind = "set_executor" => next.executor
  <2>1. tx.kind \in TxKinds /\ tx.kind # "mint" /\ tx.amount \in Nat /\ tx.rule \in Rules
    BY <1>3
  <2> QED
    BY <1>1, <2>1, TransactionChanges DEF allowanceRaw
<1>5. tx.kind = "create" => next.schedules = chain.schedules \cup {Scheduled(tx.amount)}
  <2>1. tx.kind \in TxKinds /\ tx.kind # "mint" /\ tx.amount \in Nat /\ tx.rule \in Rules
    BY <1>3
  <2> QED
    BY <1>1, <2>1, TransactionChanges
<1> HIDE DEF next, len
<1>6. ASSUME suite.scenario = 1 /\ suite.tx = 1
      PROVE  Fine
  <2>1. tx.kind = "approve" /\ tx.amount = 0
    BY <1>6 DEF CurrentTx, TransactionsOf, Transactions, T
  <2>2. n = 0
    BY <1>6 DEF Signed, SignedBefore
  <2>3. /\ chain.owner = 2000 /\ chain.recipient = 0 /\ chain.allowance = 0 /\ chain.spent = 0
        /\ chain.rule = NoRule /\ ~chain.executor /\ chain.schedules = {}
    BY <2>2 DEF OnTrack, Accounted, OwnedThen, AllowedThen, SpentThen
  <2>4. ~RefusedTx(tx) /\ ~CancelsAnother
    BY <2>1, <2>2, <2>3 DEF RefusedTx, CancelsAnother
  <2> HIDE DEF tx, n
  <2>6. Accounted(next, n + 1)
    BY <1>4, <2>1, <2>2, <2>3 DEF Accounted, OwnedThen, AllowedThen, SpentThen
  <2> QED
    BY <1>4, <1>6, <2>1, <2>2, <2>3, <2>4, <2>6
<1>7. ASSUME suite.scenario = 1 /\ suite.tx = 2
      PROVE  Fine
  <2>1. tx.kind = "set_rule" /\ tx.amount = 0 /\ tx.rule = baselineRule
    BY <1>7 DEF CurrentTx, TransactionsOf, Transactions, SetRule
  <2>2. n = 1
    BY <1>7 DEF Signed, SignedBefore
  <2>3. /\ chain.owner = 2000 /\ chain.recipient = 0 /\ chain.allowance = 1000 /\ chain.spent = 0
        /\ chain.rule = NoRule /\ ~chain.executor /\ chain.schedules = {}
    BY <2>2 DEF OnTrack, Accounted, OwnedThen, AllowedThen, SpentThen
  <2>4. ~RefusedTx(tx) /\ ~CancelsAnother
    BY <2>1, <2>2, <2>3 DEF RefusedTx, CancelsAnother
  <2> HIDE DEF tx, n
  <2>6. Accounted(next, n + 1)
    BY <1>4, <2>1, <2>2, <2>3 DEF Accounted, OwnedThen, AllowedThen, SpentThen
  <2> QED
    BY <1>4, <1>7, <2>1, <2>2, <2>3, <2>4, <2>6
<1>8. ASSUME suite.scenario = 2 /\ suite.tx = 1
      PROVE  Fine
  <2>1. tx.kind = "set_alias" /\ tx.amount = 0
    BY <1>8 DEF CurrentTx, TransactionsOf, Transactions, T
  <2>2. n = 2
    BY <1>8 DEF Signed, SignedBefore
  <2>3. /\ chain.owner = 2000 /\ chain.recipient = 0 /\ chain.allowance = 1000 /\ chain.spent = 0
        /\ chain.rule = baselineRule /\ ~chain.executor /\ chain.schedules = {}
    BY <2>2 DEF OnTrack, Accounted, OwnedThen, AllowedThen, SpentThen
  <2>4. ~RefusedTx(tx) /\ ~CancelsAnother
    BY <2>1, <2>2, <2>3 DEF RefusedTx, CancelsAnother
  <2> HIDE DEF tx, n
  <2>6. Accounted(next, n + 1)
    BY <1>4, <2>1, <2>2, <2>3 DEF Accounted, OwnedThen, AllowedThen, SpentThen
  <2> QED
    BY <1>4, <1>8, <2>1, <2>2, <2>3, <2>4, <2>6
<1>9. ASSUME suite.scenario = 3 /\ suite.tx = 1
      PROVE  Fine
  <2>1. tx.kind = "payment" /\ tx.amount = 5
    BY <1>9 DEF CurrentTx, TransactionsOf, Transactions, T
  <2>2. n = 3
    BY <1>9 DEF Signed, SignedBefore
  <2>3. /\ chain.owner = 2000 /\ chain.recipient = 0 /\ chain.allowance = 1000 /\ chain.spent = 0
        /\ chain.rule = baselineRule /\ ~chain.executor /\ chain.schedules = {}
    BY <2>2 DEF OnTrack, Accounted, OwnedThen, AllowedThen, SpentThen
  <2>4. ~RefusedTx(tx) /\ ~CancelsAnother
    BY <2>1, <2>2, <2>3 DEF RefusedTx, CancelsAnother
  <2> HIDE DEF tx, n
  <2>6. Accounted(next, n + 1)
    BY <1>4, <2>1, <2>2, <2>3 DEF Accounted, OwnedThen, AllowedThen, SpentThen
  <2> QED
    BY <1>4, <1>9, <2>1, <2>2, <2>3, <2>4, <2>6
<1>10. ASSUME suite.scenario = 4 /\ suite.tx = 1
      PROVE  Fine
  <2>1. tx.kind = "pay_owner" /\ tx.amount = 8
    BY <1>10 DEF CurrentTx, TransactionsOf, Transactions, T
  <2>2. n = 4
    BY <1>10 DEF Signed, SignedBefore
  <2>3. /\ chain.owner = 1995 /\ chain.recipient = 5 /\ chain.allowance = 1000 /\ chain.spent = 0
        /\ chain.rule = baselineRule /\ ~chain.executor /\ chain.schedules = {}
    BY <2>2 DEF OnTrack, Accounted, OwnedThen, AllowedThen, SpentThen
  <2>5. /\ chain.rule.auto_approve_limit = 0 /\ chain.rule.per_tx_limit = 100
        /\ chain.rule.daily_limit = 400
    BY <2>3 DEF baselineRule
  <2>4. ~RefusedTx(tx) /\ ~CancelsAnother
    BY <2>1, <2>2, <2>3, <2>5 DEF RefusedTx, RefusalOwner, CancelsAnother
  <2> HIDE DEF tx, n
  <2>6. Accounted(next, n + 1)
    BY <1>4, <2>1, <2>2, <2>3 DEF Accounted, OwnedThen, AllowedThen, SpentThen
  <2> QED
    BY <1>4, <1>10, <2>1, <2>2, <2>3, <2>4, <2>6
<1>11. ASSUME suite.scenario = 6 /\ suite.tx = 1
      PROVE  Fine
  <2>1. tx.kind = "approve" /\ tx.amount = 0
    BY <1>11 DEF CurrentTx, TransactionsOf, Transactions, T
  <2>2. n = 5
    BY <1>11 DEF Signed, SignedBefore
  <2>3. /\ chain.owner = 1987 /\ chain.recipient = 13 /\ chain.allowance = 992 /\ chain.spent = 8
        /\ chain.rule = baselineRule /\ ~chain.executor /\ chain.schedules = {}
    BY <2>2 DEF OnTrack, Accounted, OwnedThen, AllowedThen, SpentThen
  <2>4. ~RefusedTx(tx) /\ ~CancelsAnother
    BY <2>1, <2>2, <2>3 DEF RefusedTx, CancelsAnother
  <2> HIDE DEF tx, n
  <2>6. Accounted(next, n + 1)
    BY <1>4, <2>1, <2>2, <2>3 DEF Accounted, OwnedThen, AllowedThen, SpentThen
  <2> QED
    BY <1>4, <1>11, <2>1, <2>2, <2>3, <2>4, <2>6
<1>12. ASSUME suite.scenario = 6 /\ suite.tx = 2
      PROVE  Fine
  <2>1. tx.kind = "set_rule" /\ tx.amount = 0 /\ tx.rule = autoRule
    BY <1>12 DEF CurrentTx, TransactionsOf, Transactions, SetRule
  <2>2. n = 6
    BY <1>12 DEF Signed, SignedBefore
  <2>3. /\ chain.owner = 1987 /\ chain.recipient = 13 /\ chain.allowance = 1000 /\ chain.spent = 8
        /\ chain.rule = baselineRule /\ ~chain.executor /\ chain.schedules = {}
    BY <2>2 DEF OnTrack, Accounted, OwnedThen, AllowedThen, SpentThen
  <2>4. ~RefusedTx(tx) /\ ~CancelsAnother
    BY <2>1, <2>2, <2>3 DEF RefusedTx, CancelsAnother
  <2> HIDE DEF tx, n
  <2>6. Accounted(next, n + 1)
    BY <1>4, <2>1, <2>2, <2>3 DEF Accounted, OwnedThen, AllowedThen, SpentThen
  <2> QED
    BY <1>4, <1>12, <2>1, <2>2, <2>3, <2>4, <2>6
<1>13. ASSUME suite.scenario = 6 /\ suite.tx = 3
      PROVE  Fine
  <2>1. tx.kind = "set_executor" /\ tx.amount = 0
    BY <1>13 DEF CurrentTx, TransactionsOf, Transactions, T
  <2>2. n = 7
    BY <1>13 DEF Signed, SignedBefore
  <2>3. /\ chain.owner = 1987 /\ chain.recipient = 13 /\ chain.allowance = 1000 /\ chain.spent = 8
        /\ chain.rule = autoRule /\ ~chain.executor /\ chain.schedules = {}
    BY <2>2 DEF OnTrack, Accounted, OwnedThen, AllowedThen, SpentThen
  <2>4. ~RefusedTx(tx) /\ ~CancelsAnother
    BY <2>1, <2>2, <2>3 DEF RefusedTx, CancelsAnother
  <2> HIDE DEF tx, n
  <2>6. Accounted(next, n + 1)
    BY <1>4, <2>1, <2>2, <2>3 DEF Accounted, OwnedThen, AllowedThen, SpentThen
  <2> QED
    BY <1>4, <1>13, <2>1, <2>2, <2>3, <2>4, <2>6
<1>14. ASSUME suite.scenario = 7 /\ suite.tx = 1
      PROVE  Fine
  <2>1. tx.kind = "pay_executor" /\ tx.amount = 6
    BY <1>14 DEF CurrentTx, TransactionsOf, Transactions, T
  <2>2. n = 8
    BY <1>14 DEF Signed, SignedBefore
  <2>3. /\ chain.owner = 1987 /\ chain.recipient = 13 /\ chain.allowance = 1000 /\ chain.spent = 8
        /\ chain.rule = autoRule /\ chain.executor /\ chain.schedules = {}
    BY <2>2 DEF OnTrack, Accounted, OwnedThen, AllowedThen, SpentThen
  <2>5. /\ chain.rule.auto_approve_limit = 20 /\ chain.rule.per_tx_limit = 100
        /\ chain.rule.daily_limit = 400
    BY <2>3 DEF autoRule, baselineRule
  <2>4. ~RefusedTx(tx) /\ ~CancelsAnother
    BY <2>1, <2>2, <2>3, <2>5 DEF RefusedTx, RefusalOwner, RefusalExecutor, CancelsAnother
  <2> HIDE DEF tx, n
  <2>6. Accounted(next, n + 1)
    BY <1>4, <2>1, <2>2, <2>3 DEF Accounted, OwnedThen, AllowedThen, SpentThen
  <2> QED
    BY <1>4, <1>14, <2>1, <2>2, <2>3, <2>4, <2>6
<1>15. ASSUME suite.scenario = 7 /\ suite.tx = 2
      PROVE  Fine
  <2>1. tx.kind = "pay_owner" /\ tx.amount = 30
    BY <1>15 DEF CurrentTx, TransactionsOf, Transactions, T
  <2>2. n = 9
    BY <1>15 DEF Signed, SignedBefore
  <2>3. /\ chain.owner = 1981 /\ chain.recipient = 19 /\ chain.allowance = 994 /\ chain.spent = 14
        /\ chain.rule = autoRule /\ chain.executor /\ chain.schedules = {}
    BY <2>2 DEF OnTrack, Accounted, OwnedThen, AllowedThen, SpentThen
  <2>5. /\ chain.rule.auto_approve_limit = 20 /\ chain.rule.per_tx_limit = 100
        /\ chain.rule.daily_limit = 400
    BY <2>3 DEF autoRule, baselineRule
  <2>4. ~RefusedTx(tx) /\ ~CancelsAnother
    BY <2>1, <2>2, <2>3, <2>5 DEF RefusedTx, RefusalOwner, CancelsAnother
  <2> HIDE DEF tx, n
  <2>6. Accounted(next, n + 1)
    BY <1>4, <2>1, <2>2, <2>3 DEF Accounted, OwnedThen, AllowedThen, SpentThen
  <2> QED
    BY <1>4, <1>15, <2>1, <2>2, <2>3, <2>4, <2>6
<1>16. ASSUME suite.scenario = 8 /\ suite.tx = 1
      PROVE  Fine
  <2>1. tx.kind = "create" /\ tx.amount = 4
    BY <1>16 DEF CurrentTx, TransactionsOf, Transactions, T
  <2>2. n = 10
    BY <1>16 DEF Signed, SignedBefore
  <2>3. /\ chain.owner = 1951 /\ chain.recipient = 49 /\ chain.allowance = 964 /\ chain.spent = 44
        /\ chain.rule = autoRule /\ chain.executor /\ chain.schedules = {}
    BY <2>2 DEF OnTrack, Accounted, OwnedThen, AllowedThen, SpentThen
  <2>4. ~RefusedTx(tx) /\ ~CancelsAnother
    BY <2>1, <2>2, <2>3 DEF RefusedTx, CancelsAnother
  <2> HIDE DEF tx, n
  <2>6. Accounted(next, n + 1)
    BY <1>4, <2>1, <2>2, <2>3 DEF Accounted, OwnedThen, AllowedThen, SpentThen
  <2>7. /\ \E x : next.schedules = {x} /\ x.id = chain.nextId
        /\ n + 1 = 11 => \A x \in next.schedules : x.amount = 4 /\ x.due
    <3> DEFINE x == Scheduled(tx.amount)
    <3>1. next.schedules = {x}
      BY <1>5, <2>1, <2>3
    <3>2. x.id = chain.nextId /\ x.amount = tx.amount /\ (tx.amount = 4 => x.due)
      BY DEF Scheduled
    <3> HIDE DEF x
    <3> QED
      BY <2>1, <2>2, <3>1, <3>2
  <2> QED
    BY <1>4, <1>16, <2>1, <2>2, <2>3, <2>4, <2>6, <2>7
<1>17. ASSUME suite.scenario = 9 /\ suite.tx = 1
      PROVE  Fine
  <2>1. tx.kind = "create" /\ tx.amount = 1
    BY <1>17 DEF CurrentTx, TransactionsOf, Transactions, T
  <2>2. n = 12
    BY <1>17 DEF Signed, SignedBefore
  <2>3. /\ chain.owner = 1947 /\ chain.recipient = 53 /\ chain.allowance = 960 /\ chain.spent = 48
        /\ chain.rule = autoRule /\ chain.executor /\ chain.schedules = {}
    BY <2>2 DEF OnTrack, Accounted, OwnedThen, AllowedThen, SpentThen
  <2>4. ~RefusedTx(tx) /\ ~CancelsAnother
    BY <2>1, <2>2, <2>3 DEF RefusedTx, CancelsAnother
  <2> HIDE DEF tx, n
  <2>6. Accounted(next, n + 1)
    BY <1>4, <2>1, <2>2, <2>3 DEF Accounted, OwnedThen, AllowedThen, SpentThen
  <2>7. /\ \E x : next.schedules = {x} /\ x.id = chain.nextId
        /\ n + 1 = 11 => \A x \in next.schedules : x.amount = 4 /\ x.due
    <3> DEFINE x == Scheduled(tx.amount)
    <3>1. next.schedules = {x}
      BY <1>5, <2>1, <2>3
    <3>2. x.id = chain.nextId /\ x.amount = tx.amount /\ (tx.amount = 4 => x.due)
      BY DEF Scheduled
    <3> HIDE DEF x
    <3> QED
      BY <2>1, <2>2, <3>1, <3>2
  <2> QED
    BY <1>4, <1>17, <2>1, <2>2, <2>3, <2>4, <2>6, <2>7
<1>18. ASSUME suite.scenario = 9 /\ suite.tx = 2
      PROVE  Fine
  <2>1. tx.kind = "cancel" /\ tx.amount = 0
    BY <1>18 DEF CurrentTx, TransactionsOf, Transactions, T
  <2>2. n = 13
    BY <1>18 DEF Signed, SignedBefore
  <2>3. /\ chain.owner = 1947 /\ chain.recipient = 53 /\ chain.allowance = 960 /\ chain.spent = 48
        /\ chain.rule = autoRule /\ chain.executor /\ \E x : chain.schedules = {x} /\ x.id = suite.id
    <3>1. \E x : chain.schedules = {x} /\ x.id = suite.id
      BY <2>2 DEF OnTrack
    <3>2. /\ chain.owner = 1947 /\ chain.recipient = 53 /\ chain.allowance = 960 /\ chain.spent = 48
          /\ chain.rule = autoRule /\ chain.executor
      BY <2>2 DEF OnTrack, Accounted, OwnedThen, AllowedThen, SpentThen
    <3> QED
      BY <3>1, <3>2
  <2>4. ~RefusedTx(tx) /\ ~CancelsAnother
    BY <2>1, <2>2, <2>3 DEF RefusedTx, CancelsAnother
  <2> HIDE DEF tx, n
  <2>6. Accounted(next, n + 1)
    BY <1>4, <2>1, <2>2, <2>3 DEF Accounted, OwnedThen, AllowedThen, SpentThen
  <2> QED
    BY <1>4, <1>18, <2>1, <2>2, <2>3, <2>4, <2>6
<1>19. ASSUME suite.scenario = 10 /\ suite.tx = 1
      PROVE  Fine
  <2>1. tx.kind = "revoke_executor" /\ tx.amount = 0
    BY <1>19 DEF CurrentTx, TransactionsOf, Transactions, T
  <2>2. n = 14
    BY <1>19 DEF Signed, SignedBefore
  <2>3. /\ chain.owner = 1947 /\ chain.recipient = 53 /\ chain.allowance = 960 /\ chain.spent = 48
        /\ chain.rule = autoRule /\ chain.executor /\ chain.schedules = {}
    BY <2>2 DEF OnTrack, Accounted, OwnedThen, AllowedThen, SpentThen
  <2>4. ~RefusedTx(tx) /\ ~CancelsAnother
    BY <2>1, <2>2, <2>3 DEF RefusedTx, CancelsAnother
  <2> HIDE DEF tx, n
  <2>6. Accounted(next, n + 1)
    BY <1>4, <2>1, <2>2, <2>3 DEF Accounted, OwnedThen, AllowedThen, SpentThen
  <2> QED
    BY <1>4, <1>19, <2>1, <2>2, <2>3, <2>4, <2>6
<1>20. ASSUME suite.scenario = 10 /\ suite.tx = 2
      PROVE  Fine
  <2>1. tx.kind = "set_rule" /\ tx.amount = 0 /\ tx.rule = nextRule
    BY <1>20 DEF CurrentTx, TransactionsOf, Transactions, SetRule
  <2>2. n = 15
    BY <1>20 DEF Signed, SignedBefore
  <2>3. /\ chain.owner = 1947 /\ chain.recipient = 53 /\ chain.allowance = 960 /\ chain.spent = 48
        /\ chain.rule = autoRule /\ ~chain.executor /\ chain.schedules = {}
    BY <2>2 DEF OnTrack, Accounted, OwnedThen, AllowedThen, SpentThen
  <2>4. ~RefusedTx(tx) /\ ~CancelsAnother
    BY <2>1, <2>2, <2>3 DEF RefusedTx, CancelsAnother
  <2> HIDE DEF tx, n
  <2>6. Accounted(next, n + 1)
    BY <1>4, <2>1, <2>2, <2>3 DEF Accounted, OwnedThen, AllowedThen, SpentThen
  <2> QED
    BY <1>4, <1>20, <2>1, <2>2, <2>3, <2>4, <2>6
<1>21. suite.scenario \notin {0, 5, 11}
  BY <1>1, <1>2
<1>22. Fine
  <2> HIDE DEF Fine
  <2> QED
    BY <1>1, <1>2, <1>21, <1>6, <1>7, <1>8, <1>9, <1>10, <1>11, <1>12, <1>13, <1>14, <1>15, <1>16, <1>17, <1>18, <1>19, <1>20
<1> QED
  BY <1>22 DEF next

\* The first command sets new accounts up; the second, if it is the suite, finds them so.
Provisioned ==
    /\ chain.owner = IF liveSetup.at \in {"sac", "record", "idle"} THEN 2000 ELSE 0
    /\ chain.recipient = 0 /\ chain.allowance = 0 /\ chain.spent = 0 /\ chain.rule = NoRule
    /\ ~chain.executor /\ chain.schedules = {}
    /\ liveSetup.at = "mint" => liveSetup.mint = 2000

FreshRun ==
    /\ unheard = {}
    /\ given = 0 => /\ keysFile = [of |-> 0, asset |-> FALSE] /\ liveSetup.at = "idle"
                    /\ suite.at = "idle" /\ chain = NewAccounts
    /\ given = 1 => suite.at = "idle" /\ Provisioned
    /\ given = 2 /\ suite.at # "idle" =>
         /\ keysFile.asset
         /\ suite.at = "over" => suite.passed = 0 .. 11
         /\ UnderWay => suite.passed = 0 .. (suite.scenario - 1) /\ OnTrack

Fresh == faults = 0 => FreshRun

\* The set-up of the first command.
LEMMA FreshSetup ==
    ASSUME SuiteInv, FreshRun, given \in {0, 1}, suite' = suite, unheard' = unheard,
           \/ fundWithFriendbot \/ ensureTrustline \/ getAssetBalance \/ ensureSac \/ recordsAsset
           \/ issueAsset(TRUE)
    PROVE  FreshRun'
<1>1. /\ given' = given /\ liveSetup.at # "idle" /\ liveSetup \in [at : SetupPlaces, mint : Nat]
      /\ chain \in Chains
  BY DEF SuiteInv, SuiteTypeCorrect, fundWithFriendbot, ensureTrustline, getAssetBalance, ensureSac,
     recordsAsset, issueAsset
<1>2. given = 1 /\ suite.at = "idle" /\ Provisioned
  BY <1>1 DEF FreshRun
<1> DEFINE Same == /\ chain'.owner = chain.owner /\ chain'.recipient = 0 /\ chain'.allowance = 0
                   /\ chain'.spent = 0 /\ chain'.rule = NoRule
                   /\ ~chain'.executor
                   /\ chain'.schedules = {}
<1>3. CASE fundWithFriendbot
  <2>1. chain' = [chain EXCEPT !.funded = TRUE] /\ liveSetup' = [liveSetup EXCEPT !.at = "trust"]
        /\ liveSetup.at = "fund"
    BY <1>3 DEF fundWithFriendbot, SetupGoes
  <2>2. Same /\ liveSetup'.at = "trust"
    BY <1>1, <1>2, <2>1 DEF Provisioned, Chains
  <2> QED
    BY <1>1, <1>2, <2>1, <2>2 DEF FreshRun, Provisioned
<1>4. CASE ensureTrustline
  <2>1. /\ liveSetup.at = "trust"
        /\ liveSetup' = liveSetup \/ liveSetup' = [liveSetup EXCEPT !.at = "balance"]
        /\ chain' = chain \/ \E t : chain' = [chain EXCEPT !.trust = t]
    BY <1>4 DEF ensureTrustline, SetupGoes
  <2>2. Same /\ liveSetup'.at \in {"trust", "balance"}
    BY <1>1, <1>2, <2>1 DEF Provisioned, Chains
  <2> QED
    BY <1>1, <1>2, <2>1, <2>2 DEF FreshRun, Provisioned
<1>5. CASE getAssetBalance
  <2>1. liveSetup.at = "balance" /\ chain' = chain /\ chain.owner = 0
    BY <1>2, <1>5 DEF getAssetBalance, Provisioned
  <2>2. liveSetup' = [at |-> "mint", mint |-> 2000]
    BY <1>5, <2>1 DEF getAssetBalance, OWNER_TARGET_RAW
  <2> QED
    BY <1>1, <1>2, <2>1, <2>2 DEF FreshRun, Provisioned
<1>6. CASE issueAsset(TRUE)
  <2> DEFINE owner  == chain.owner + liveSetup.mint
             issued == chain.issued + 1
  <2>1. /\ liveSetup.at = "mint" /\ liveSetup' = [at |-> "sac", mint |-> 0]
        /\ chain' = [chain EXCEPT !.owner = owner, !.issued = issued]
    BY <1>6 DEF issueAsset
  <2>2. owner = 2000
    BY <1>2, <2>1 DEF Provisioned
  <2> HIDE DEF owner, issued
  <2>3. /\ chain'.owner = owner /\ chain'.recipient = 0 /\ chain'.allowance = 0
        /\ chain'.spent = 0 /\ chain'.rule = NoRule
        /\ ~chain'.executor
        /\ chain'.schedules = {}
    BY <1>1, <1>2, <2>1 DEF Provisioned, Chains
  <2> QED
    BY <1>1, <1>2, <2>1, <2>2, <2>3 DEF FreshRun, Provisioned
<1>7. CASE ensureSac
  <2>5. liveSetup.at = "sac" /\ liveSetup' = [liveSetup EXCEPT !.at = "record"]
    BY <1>7 DEF ensureSac, SetupGoes
  <2>1. chain' = chain \/ \E n : chain' = [chain EXCEPT !.sac = TRUE, !.sequence = n]
    BY <1>7 DEF ensureSac
  <2>2. Same
    <3>1. CASE chain' = chain
      BY <1>2, <3>1 DEF Provisioned
    <3>2. ASSUME NEW n, chain' = [chain EXCEPT !.sac = TRUE, !.sequence = n]
          PROVE  Same
      BY <1>1, <1>2, <3>2 DEF Provisioned, Chains
    <3> QED
      BY <2>1, <3>1, <3>2
  <2>3. liveSetup'.at = "record"
    BY <1>1, <2>5
  <2>4. chain.owner = 2000
    BY <1>2, <2>5 DEF Provisioned
  <2> QED
    BY <1>1, <1>2, <2>2, <2>3, <2>4 DEF FreshRun, Provisioned
<1>8. CASE recordsAsset
  <2>1. liveSetup.at = "record" /\ liveSetup'.at = "idle" /\ chain' = chain
    BY <1>8 DEF recordsAsset, NoSetup
  <2> QED
    BY <1>1, <1>2, <2>1 DEF FreshRun, Provisioned
<1> QED
  BY <1>3, <1>4, <1>5, <1>6, <1>7, <1>8

\* The suite begins on what the first command made.
LEMMA FreshStarts ==
    ASSUME SuiteInv, FreshRun, given \in Nat, suiteStarts
    PROVE  FreshRun'
<1>1. /\ liveSetup.at = "idle" /\ keysFile.asset /\ given' = given + 1
      /\ suite' = [NoSuite EXCEPT !.at = "begin"]
      /\ UNCHANGED <<keysFile, liveSetup, chain, unheard>>
  BY DEF suiteStarts
<1>2. given # 0
  BY <1>1 DEF FreshRun
<1>3. suite' = [at |-> "begin", scenario |-> 0, tx |-> 1, before |-> 0, id |-> 0, passed |-> {}]
  BY <1>1 DEF NoSuite
<1>4. ASSUME given = 1
      PROVE  suite'.passed = 0 .. (suite'.scenario - 1) /\ OnTrack'
  <2>1. Signed' = 0
    BY <1>3 DEF Signed, SignedBefore
  <2>2. Provisioned
    BY <1>4 DEF FreshRun
  <2>3. Accounted(chain', 0)
    BY <1>1, <2>2 DEF Provisioned, Accounted, OwnedThen, AllowedThen, SpentThen
  <2>4. OnTrack'
    BY <1>1, <1>3, <2>1, <2>2, <2>3 DEF OnTrack, Provisioned
  <2> QED
    BY <1>3, <2>4
<1>5. given' = 2 <=> given = 1
  BY <1>1
<1> QED
  BY <1>1, <1>2, <1>3, <1>4, <1>5 DEF FreshRun

\* A scenario of it begins.
LEMMA FreshScenarioBegins ==
    ASSUME SuiteInv, suite.at = "begin", OnTrack, ScenarioBegins
    PROVE  OnTrack' /\ suite'.at \in {"sign", "assert"} /\ suite'.scenario = suite.scenario
           /\ suite'.passed = suite.passed
<1> DEFINE at == IF TransactionsOf(suite.scenario) = <<>> THEN "assert" ELSE "sign"
           n  == SignedBefore[suite.scenario + 1]
<1>1. suite' = [suite EXCEPT !.before = chain.recipient, !.at = at] /\ chain' = chain
  BY FreshBegins DEF ScenarioBegins
<1>2. /\ suite.scenario \in 0 .. 11 /\ suite.tx = 1
      /\ suite \in [at : SuitePlaces, scenario : 0 .. 11, tx : Nat, before : Int, id : Nat,
                    passed : SUBSET (0 .. 11)]
  BY DEF SuiteInv, SuiteTypeCorrect, SuitePlace
<1>3. at \in {"sign", "assert"} /\ (suite.scenario = 8 => at = "sign")
  BY <1>2, ScenariosSign
<1> HIDE DEF at
<1>4. /\ suite'.at = at /\ suite'.scenario = suite.scenario /\ suite'.tx = 1
      /\ suite'.before = chain.recipient /\ suite'.id = suite.id /\ suite'.passed = suite.passed
  BY <1>1, <1>2
<1>5. n \in Nat
  BY <1>2 DEF SignedBefore
<1> HIDE DEF n
<1>6. Signed = n
  BY <1>2, <1>5 DEF Signed, n
<1>7. Signed' = n
  BY <1>3, <1>4, <1>5 DEF Signed, n
<1>8. chain.recipient = 2000 - OwnedThen[n + 1]
  BY <1>6 DEF OnTrack, Accounted
<1>9. n = SignedBefore[suite'.scenario + 1]
  BY <1>4 DEF n
<1>10. Accounted(chain', n)
  BY <1>1, <1>6 DEF OnTrack
<1>11. OnTrack'
  <2>1. suite'.before = 2000 - OwnedThen[SignedBefore[suite'.scenario + 1] + 1]
    BY <1>4, <1>8, <1>9
  <2> QED
    BY <1>1, <1>4, <1>6, <1>7, <1>10, <2>1 DEF OnTrack
<1> QED
  BY <1>3, <1>4, <1>11

\* A transaction of it is applied.
LEMMA FreshSigns ==
    ASSUME SuiteInv, suite.at = "sign", OnTrack, suite' = NextTx, chain' = After(CurrentTx)
    PROVE  OnTrack' /\ suite'.at \in {"sign", "keeper", "assert"}
           /\ suite'.scenario = suite.scenario /\ suite'.passed = suite.passed
<1> DEFINE len == Len(TransactionsOf(suite.scenario))
           at  == IF suite.tx < len THEN "sign"
                  ELSE IF suite.scenario = 8 THEN "keeper" ELSE "assert"
           id  == IF CurrentTx.kind = "create" THEN chain.nextId ELSE suite.id
           tx  == suite.tx + 1
           n   == SignedBefore[suite.scenario + 1]
<1>1. suite' = [suite EXCEPT !.tx = tx, !.id = id, !.at = at]
  BY DEF NextTx
<1>2. /\ suite.scenario \in 0 .. 11 /\ suite.tx \in Nat
      /\ suite \in [at : SuitePlaces, scenario : 0 .. 11, tx : Nat, before : Int, id : Nat,
                    passed : SUBSET (0 .. 11)]
  BY DEF SuiteInv, SuiteTypeCorrect, SuitePlace
<1>3. len = 1 /\ suite.tx \in 1 .. len => at # "sign"
  OBVIOUS
<1>4. at \in {"sign", "keeper", "assert"} /\ (suite.scenario = 8 => at # "assert")
  OBVIOUS
<1>5. n \in Nat
  BY <1>2 DEF SignedBefore
<1> HIDE DEF at, id, tx, n
<1>6. /\ suite'.at = at /\ suite'.scenario = suite.scenario /\ suite'.tx = tx
      /\ suite'.before = suite.before /\ suite'.id = id /\ suite'.passed = suite.passed
  BY <1>1, <1>2
<1>7. Signed = n + suite.tx - 1 /\ Signed' = Signed + 1
  <2>1. Signed = n + suite.tx - 1
    BY <1>2, <1>5 DEF Signed, n
  <2>2. Signed' = n + tx - 1
    BY <1>2, <1>4, <1>5, <1>6 DEF Signed, n, tx
  <2> QED
    BY <1>2, <1>5, <2>1, <2>2 DEF tx
<1>8. Signed \in Int /\ suite.before = 2000 - OwnedThen[SignedBefore[suite.scenario + 1] + 1]
  BY <1>2, <1>5, <1>7 DEF OnTrack
<1> HIDE DEF len
<1>9. /\ Accounted(chain', Signed')
      /\ suite.scenario = 2 => chain'.alias
      /\ Signed' \in {11, 13} => \E x : chain'.schedules = {x} /\ x.id = id
      /\ Signed' = 11 => \A x \in chain'.schedules : x.amount = 4 /\ x.due
      /\ Signed' \notin {11, 13} => chain'.schedules = {}
  BY <1>7, FreshTransactions DEF id
<1>10. OnTrack'
  BY <1>6, <1>8, <1>9 DEF OnTrack
<1> QED
  BY <1>4, <1>6, <1>10

\* The keeper runs the one schedule there is.
LEMMA FreshKeeper ==
    ASSUME SuiteInv, suite.at = "keeper", OnTrack, runKeeperUntil
    PROVE  OnTrack' /\ suite'.at = "assert" /\ suite'.scenario = suite.scenario
           /\ suite'.passed = suite.passed
<1>1. /\ suite.scenario = 8 /\ suite.tx = Len(TransactionsOf(8)) + 1 /\ chain \in Chains
      /\ suite \in [at : SuitePlaces, scenario : 0 .. 11, tx : Nat, before : Int, id : Nat,
                    passed : SUBSET (0 .. 11)]
  BY DEF SuiteInv, SuiteTypeCorrect, SuitePlace
<1>2. suite.tx = 2
  <2> DEFINE len == Len(TransactionsOf(8))
  <2>1. len = 1
    BY ScenariosSign
  <2>2. suite.tx = len + 1
    BY <1>1
  <2> HIDE DEF len
  <2> QED
    BY <2>1, <2>2
<1>3. Signed = 11
  BY <1>1, <1>2 DEF Signed, SignedBefore
<1>4. PICK x \in chain.schedules : /\ chain' = Runs(x)
                                   /\ suite' = IF x.id = suite.id
                                               THEN [suite EXCEPT !.at = "assert"] ELSE suite
  BY DEF runKeeperUntil, Due
<1>5. chain.schedules = {x} /\ x.id = suite.id /\ x.amount = 4
  BY <1>3, <1>4 DEF OnTrack
<1>6. /\ suite'.at = "assert" /\ suite'.scenario = 8 /\ suite'.tx = 2 /\ suite'.id = suite.id
      /\ suite'.before = suite.before /\ suite'.passed = suite.passed
  BY <1>1, <1>2, <1>4, <1>5
<1>7. Signed' = 12
  BY <1>6 DEF Signed, SignedBefore
<1>8. /\ chain.owner = 1951 /\ chain.recipient = 49 /\ chain.allowance = 964 /\ chain.spent = 44
      /\ chain.rule = autoRule /\ chain.executor /\ suite.before = 2000 - OwnedThen[SignedBefore[9] + 1]
  BY <1>1, <1>3 DEF OnTrack, Accounted, OwnedThen, AllowedThen, SpentThen
<1>9. /\ chain'.owner = 1947 /\ chain'.recipient = 53 /\ chain'.allowance = 960
      /\ chain'.spent = 48 /\ chain'.rule = autoRule /\ chain'.executor /\ chain'.schedules = {}
  <2> DEFINE owner     == chain.owner - x.amount
             recipient == chain.recipient + x.amount
             allowance == chain.allowance - x.amount
             spent     == chain.spent + x.amount
             left      == chain.schedules \ {x}
  <2>1. chain' = [chain EXCEPT !.owner = owner, !.recipient = recipient,
                               !.allowance = allowance, !.spent = spent, !.schedules = left]
    <3> DEFINE paid == [chain EXCEPT !.owner = owner, !.recipient = recipient,
                                     !.allowance = allowance, !.spent = spent]
    <3>1. chain' = [paid EXCEPT !.schedules = @ \ {x}]
      BY <1>4 DEF Runs, Pays
    <3>2. paid.schedules = chain.schedules
      BY <1>1 DEF Chains
    <3>3. chain' = [paid EXCEPT !.schedules = left]
      BY <3>1, <3>2
    <3> HIDE DEF owner, recipient, allowance, spent, left
    <3> QED
      BY <1>1, <3>3 DEF Chains
  <2>2. owner = 1947 /\ recipient = 53 /\ allowance = 960 /\ spent = 48 /\ left = {}
    BY <1>5, <1>8
  <2> HIDE DEF owner, recipient, allowance, spent, left
  <2> QED
    BY <1>1, <1>8, <2>1, <2>2 DEF Chains
<1>10. Accounted(chain', 12)
  BY <1>9 DEF Accounted, OwnedThen, AllowedThen, SpentThen
<1>11. OnTrack'
  BY <1>6, <1>7, <1>8, <1>9, <1>10 DEF OnTrack
<1> QED
  BY <1>1, <1>6, <1>11

\* A scenario of it passes, and the next one finds what it expects.
LEMMA FreshPasses ==
    ASSUME SuiteInv, keysFile.asset, suite.at = "assert", OnTrack, Assert,
           suite.passed = 0 .. (suite.scenario - 1)
    PROVE  \/ /\ suite'.at = "over" /\ suite'.passed = 0 .. 11
           \/ /\ suite'.at = "begin" /\ suite'.passed = 0 .. (suite'.scenario - 1) /\ OnTrack'
<1> DEFINE s   == suite.scenario
           len == Len(TransactionsOf(s))
<1>1. /\ s \in 0 .. 11 /\ suite.tx = len + 1 /\ RecordMeansReady
  BY DEF SuiteInv, SuiteTypeCorrect, SuitePlace
<1>2. Asserts(s)
  BY <1>1, FreshAsserts
<1>3. /\ suite' = [at       |-> IF s < 11 THEN "begin" ELSE "over",
                   scenario |-> IF s < 11 THEN s + 1 ELSE 11,
                   tx |-> 1, before |-> 0, id |-> 0, passed |-> suite.passed \cup {s}]
      /\ chain' = chain
  BY <1>2 DEF Assert, Records, NoSuite
<1>4. suite.passed \cup {s} = 0 .. s
  BY <1>1
<1>5. len = IF s \in {0, 5, 11} THEN 0 ELSE IF s \in {2, 3, 4, 8} THEN 1
            ELSE IF s = 6 THEN 3 ELSE 2
  BY <1>1, ScenariosSign
<1> HIDE DEF len
<1>6. CASE s = 11
  BY <1>3, <1>4, <1>6
<1>7. CASE s < 11
  <2>1. /\ suite'.at = "begin" /\ suite'.scenario = s + 1 /\ suite'.tx = 1
        /\ suite'.passed = 0 .. s
    BY <1>3, <1>4, <1>7
  <2>2. Signed = SignedBefore[s + 2] /\ SignedBefore[s + 2] \in Nat \ {11, 13}
    <3> DEFINE more == IF s = 8 THEN 1 ELSE 0
    <3>1. Signed = SignedBefore[s + 1] + (len + 1) - 1 + more
      BY <1>1 DEF Signed
    <3>2. /\ SignedBefore[s + 1] \in Nat /\ SignedBefore[s + 2] \in Nat \ {11, 13}
          /\ SignedBefore[s + 2] = SignedBefore[s + 1] + len + more
      <4>1. CASE s = 0
        BY <1>5, <4>1 DEF SignedBefore
      <4>6. CASE s = 1
        BY <1>5, <4>6 DEF SignedBefore
      <4>2. CASE s \in {2, 3}
        BY <1>5, <4>2 DEF SignedBefore
      <4>3. CASE s \in {4, 5}
        BY <1>5, <4>3 DEF SignedBefore
      <4>4. CASE s \in {6, 7}
        BY <1>5, <4>4 DEF SignedBefore
      <4>5. CASE s \in {8, 9, 10}
        BY <1>5, <4>5 DEF SignedBefore
      <4> QED
        BY <1>1, <1>7, <4>1, <4>2, <4>3, <4>4, <4>5, <4>6
    <3>3. len \in Nat /\ more \in Nat
      BY <1>5
    <3> QED
      BY <3>1, <3>2, <3>3
  <2>3. Signed' = SignedBefore[s + 2]
    BY <1>1, <2>1, <2>2 DEF Signed
  <2>4. Accounted(chain', Signed') /\ chain'.schedules = {}
    BY <1>3, <2>2, <2>3 DEF OnTrack
  <2>5. OnTrack'
    BY <2>1, <2>2, <2>3, <2>4 DEF OnTrack
  <2>6. (s + 1) - 1 = s
    BY <1>1
  <2> QED
    BY <2>1, <2>5, <2>6
<1> QED
  BY <1>1, <1>6, <1>7

\* Any step of a run in which nothing failed yet.
LEMMA FreshGoesOn ==
    ASSUME SuiteInv, Fresh, [SuiteNext]_suiteVars
    PROVE  Fresh'
<1> SUFFICES ASSUME faults' = 0
             PROVE  FreshRun'
  BY DEF Fresh
<1>1. faults \in Nat /\ given \in Nat
  BY DEF SuiteInv, SuiteTypeCorrect
<1>2. ~Spoils
  BY <1>1 DEF Spoils
<1>3. faults' = faults
  BY <1>2 DEF SuiteNext, suiteVars, setupStarts, fundWithFriendbot, ensureTrustline,
     getAssetBalance, ensureSac, recordsAsset, issueAsset, signAndSubmit, setupFails, suiteStarts,
     ScenarioBegins, runKeeperUntil, keeperTimesOut, Assert, Ends, Interrupted, NextDay, LandsLate
<1>4. FreshRun
  BY <1>3 DEF Fresh
<1>5. ASSUME NEW reset \in BOOLEAN, setupStarts(reset)
      PROVE  FreshRun'
  <2>1. /\ suite.at = "idle" /\ suite' = suite /\ given' = given + 1 /\ liveSetup'.at = "fund"
        /\ unheard' = {}
        /\ chain' = NewAccounts \/ chain' = chain
    BY <1>4, <1>5 DEF setupStarts, NoSetup, FreshRun
  <2>2. given = 0 => chain' = NewAccounts
    BY <1>4, <2>1 DEF FreshRun
  <2>3. given = 0 => Provisioned'
    BY <2>1, <2>2 DEF Provisioned, NewAccounts
  <2>4. given' = 1 <=> given = 0
    BY <1>1, <2>1
  <2>5. given' # 0
    BY <1>1, <2>1
  <2> QED
    BY <2>1, <2>3, <2>4, <2>5 DEF FreshRun
<1>6. CASE \/ fundWithFriendbot \/ ensureTrustline \/ getAssetBalance \/ ensureSac \/ recordsAsset
           \/ \E heard \in BOOLEAN : issueAsset(heard)
  <2>1. /\ \/ fundWithFriendbot \/ ensureTrustline \/ getAssetBalance \/ ensureSac \/ recordsAsset
           \/ issueAsset(TRUE)
        /\ unheard' = unheard
    BY <1>2, <1>6 DEF fundWithFriendbot, ensureTrustline, getAssetBalance, ensureSac, recordsAsset,
       issueAsset
  <2>2. /\ liveSetup.at # "idle" /\ suite' = suite /\ given' = given
    BY <2>1 DEF fundWithFriendbot, ensureTrustline, getAssetBalance, ensureSac, recordsAsset,
       issueAsset
  <2>3. suite.at = "idle"
    BY <2>2 DEF SuiteInv, SuitePlace, UnderWay
  <2>4. CASE given \in {0, 1}
    BY <1>4, <2>1, <2>2, <2>4, FreshSetup
  <2>5. CASE given \notin {0, 1}
    BY <1>4, <2>1, <2>2, <2>3, <2>5 DEF FreshRun
  <2> QED
    BY <2>4, <2>5
<1>7. CASE suiteStarts
  BY <1>1, <1>4, <1>7, FreshStarts
<1>8. ASSUME UnderWay, given' = given, keysFile' = keysFile, unheard' = unheard,
             given = 2 =>
               \/ /\ UnderWay' /\ suite'.scenario = suite.scenario /\ suite'.passed = suite.passed
                  /\ OnTrack'
               \/ UnderWay' /\ suite'.passed = 0 .. (suite'.scenario - 1) /\ OnTrack'
               \/ suite'.at = "over" /\ suite'.passed = 0 .. 11
      PROVE  FreshRun'
  <2>1. given \notin {0, 1}
    BY <1>4, <1>8 DEF FreshRun, UnderWay
  <2>2. given = 2 => keysFile.asset /\ suite.passed = 0 .. (suite.scenario - 1)
    BY <1>4, <1>8 DEF FreshRun, UnderWay
  <2> QED
    BY <1>4, <1>8, <2>1, <2>2 DEF FreshRun, UnderWay
<1>9. ASSUME UnderWay, given = 2
      PROVE  keysFile.asset /\ OnTrack /\ suite.passed = 0 .. (suite.scenario - 1)
  BY <1>4, <1>9 DEF FreshRun, UnderWay
<1>10. CASE ScenarioBegins
  <2>1. suite.at = "begin" /\ UnderWay /\ given' = given /\ keysFile' = keysFile
        /\ unheard' = unheard
    BY <1>10 DEF ScenarioBegins, UnderWay
  <2>2. given = 2 => UnderWay' /\ suite'.scenario = suite.scenario /\ suite'.passed = suite.passed
                     /\ OnTrack'
    BY <1>9, <1>10, <2>1, FreshScenarioBegins DEF UnderWay
  <2> QED
    BY <1>8, <2>1, <2>2
<1>11. ASSUME NEW heard \in BOOLEAN, signAndSubmit(heard)
       PROVE  FreshRun'
  <2>1. suite.at = "sign" /\ UnderWay /\ given' = given /\ keysFile' = keysFile
    BY <1>11 DEF signAndSubmit, UnderWay
  <2>2. unheard' = unheard
    BY <1>2, <1>11 DEF signAndSubmit
  <2>3. ASSUME given = 2
        PROVE  UnderWay' /\ suite'.scenario = suite.scenario /\ suite'.passed = suite.passed
               /\ OnTrack'
    <3>1. OnTrack
      BY <1>9, <2>1, <2>3
    <3>2. suite' = NextTx /\ chain' = After(CurrentTx)
      BY <1>2, <1>11, <2>1, <3>1, FreshTransactions DEF signAndSubmit
    <3> QED
      BY <2>1, <3>1, <3>2, FreshSigns DEF UnderWay
  <2> QED
    BY <1>8, <2>1, <2>2, <2>3
<1>12. CASE runKeeperUntil
  <2>1. suite.at = "keeper" /\ UnderWay /\ given' = given /\ keysFile' = keysFile
        /\ unheard' = unheard
    BY <1>12 DEF runKeeperUntil, UnderWay
  <2>2. given = 2 => UnderWay' /\ suite'.scenario = suite.scenario /\ suite'.passed = suite.passed
                     /\ OnTrack'
    BY <1>9, <1>12, <2>1, FreshKeeper DEF UnderWay
  <2> QED
    BY <1>8, <2>1, <2>2
<1>13. CASE Assert
  <2>1. suite.at = "assert" /\ UnderWay /\ given' = given /\ keysFile' = keysFile
        /\ unheard' = unheard
    BY <1>13 DEF Assert, UnderWay
  <2>2. given = 2 =>
          \/ UnderWay' /\ suite'.passed = 0 .. (suite'.scenario - 1) /\ OnTrack'
          \/ suite'.at = "over" /\ suite'.passed = 0 .. 11
    BY <1>9, <1>13, <2>1, FreshPasses DEF UnderWay
  <2> QED
    BY <1>8, <2>1, <2>2
<1>14. CASE Ends
  <2>1. suite.at = "over" /\ suite'.at = "idle" /\ UNCHANGED <<keysFile, unheard, given>>
    BY <1>14 DEF Ends, NoSuite
  <2>2. given \notin {0, 1}
    BY <1>4, <2>1 DEF FreshRun
  <2> QED
    BY <1>4, <2>1, <2>2 DEF FreshRun
<1>15. ~setupFails /\ ~keeperTimesOut /\ ~Interrupted /\ ~NextDay
  BY <1>2 DEF setupFails, keeperTimesOut, Interrupted, NextDay
<1>16. ~\E tx \in unheard : LandsLate(tx)
  BY <1>4 DEF FreshRun
<1>17. CASE UNCHANGED suiteVars
  BY <1>4, <1>17 DEF suiteVars, FreshRun, Provisioned, OnTrack, Signed, UnderWay
<1> QED
  BY <1>5, <1>6, <1>7, <1>10, <1>11, <1>12, <1>13, <1>14, <1>15, <1>16, <1>17 DEF SuiteNext

\* The record of the set-up tells what there is for its keys; a suite on new accounts passes
\* whole when nothing fails; and one that passed whole left nothing armed (setup.ts, run.ts).
THEOREM SuiteIsTruthful == SuiteSpec => []SuiteTellsTheTruth
<1>1. SuiteInit => SuiteInv /\ Fresh
  BY SuiteBegins
  DEF SuiteInit, Fresh, FreshRun, NoSetup, NoSuite, UnderWay
<1>2. SuiteInv /\ Fresh /\ [SuiteNext]_suiteVars => SuiteInv' /\ Fresh'
  <2> SUFFICES ASSUME SuiteInv, Fresh, [SuiteNext]_suiteVars
               PROVE  SuiteInv'
    BY FreshGoesOn
  <2>1. CASE UNCHANGED suiteVars
    BY <2>1 DEF suiteVars, SuiteInv, SuiteTypeCorrect, SetupKnows, OnlyIssuedIsOwned,
       RecordMeansReady, SuitePlace, SignedLast, NoneLands, Reached, PassedSoFar, PassedAll,
       Disarmed, UnderWay
  <2> QED
    BY <2>1, SetupKeepsSuite, SuiteGoesOn, NetworkGoesOn DEF SuiteNext
<1>3. SuiteInv /\ Fresh => SuiteTellsTheTruth
  <2> SUFFICES ASSUME SuiteInv, Fresh
               PROVE  SuiteTellsTheTruth
    OBVIOUS
  <2>1. RecordMeansReady /\ PassLeavesNothingArmed
    BY DEF SuiteInv, PassedAll, Disarmed, PassLeavesNothingArmed
  <2>2. FreshSuitePasses
    BY DEF Fresh, FreshRun, FreshSuitePasses
  <2> QED
    BY <2>1, <2>2 DEF SuiteTellsTheTruth
<1> QED
  BY <1>1, <1>2, <1>3, PTL DEF SuiteSpec

=============================================================================
