------------------------ MODULE PolarisEscrowProofs ------------------------
(***************************************************************************)
(* The life of an offer, for any traders, tokens, amounts and windows: it  *)
(* ends once, and a buyer keeps what it reserved until its deadline.       *)
(* Both need that create_offer writes an entry nobody uses: ids are given  *)
(* in order (OffersAreNumbered).  So does the account of the tokens, which *)
(* is a sum over the offers: one call changes one entry, and the sums by   *)
(* what that entry held, took and brought.                                 *)
(*                                                                         *)
(* The app's side (P2pTrade) adds its own calls to those of everybody      *)
(* else.  They are calls of a trader whatever the page and the voice had   *)
(* in mind (CallsAreTyped), so the contract's invariant holds beside them, *)
(* and what the app offers to do is what the contract would take.          *)
(***************************************************************************)
EXTENDS P2pTrade, FiniteSetTheorems, TLAPS

OffersAreNumbered == \A id \in Ids : offer[id] # None => id < nextOfferId

\* Nobody buys its own offer.
BuyersAreOthers == \A id \in Ids : offer[id] # None => offer[id].buyer # offer[id].seller

EscrowInv == TypeOK /\ OffersAreNumbered /\ BuyersAreOthers

-----------------------------------------------------------------------------
(* Sums over a finite set.                                                  *)

\* Induction without an operator parameter: of finite sets some is smallest.
LEMMA SmallestSet ==
    ASSUME NEW S, NEW T \in SUBSET FiniteSubsetsOf(S), T # {}
    PROVE  \E x \in T : \A y \in T : y \subseteq x => y = x
<1>1. IsWellFoundedOn(StrictSubsetOrdering(S), FiniteSubsetsOf(S))
  BY FS_StrictSubsetOrderingWellFounded
<1>2. PICK x \in T : \A y \in T : ~ (<<y, x>> \in StrictSubsetOrdering(S))
  BY <1>1, WFMin
<1> QED
  BY <1>2 DEF StrictSubsetOrdering, FiniteSubsetsOf

\* The element a sum begins with, and what it makes of the sums over smaller sets.
First(s) == CHOOSE x \in s : TRUE
Rest(s)  == s \ {First(s)}
AddsUp(f, D, g) ==
    g = [s \in SUBSET D |-> IF s = {} THEN 0 ELSE f[First(s)] + g[Rest(s)]]

SumOver(f, D) == (CHOOSE g : AddsUp(f, D, g))[D]

LEMMA SumFunctionIsSumOver == ASSUME NEW f  PROVE SumFunction(f) = SumOver(f, DOMAIN f)
BY DEF SumFunction, SumFunctionOnSet, FoldFunctionOnSet, MapThenFoldSet, SumOver, AddsUp,
       First, Rest

LEMMA FirstAndRest ==
    ASSUME NEW s, s # {}
    PROVE  First(s) \in s /\ Rest(s) \subseteq s /\ Rest(s) # s /\ s = Rest(s) \cup {First(s)}
<1>1. First(s) \in s
  BY DEF First
<1> QED
  BY <1>1 DEF Rest

\* What a sum adds up does not depend on the set around it.
LEMMA SumsAgree ==
    ASSUME NEW f, NEW D, NEW E, NEW g, NEW h, AddsUp(f, D, g), AddsUp(f, E, h),
           NEW s \in SUBSET D, s \in SUBSET E, IsFiniteSet(s)
    PROVE  g[s] = h[s]
<1> SUFFICES ASSUME g[s] # h[s]  PROVE FALSE
  OBVIOUS
<1> DEFINE T == {u \in SUBSET s : g[u] # h[u]}
<1>1. T \in SUBSET FiniteSubsetsOf(s) /\ T # {}
  <2>1. FiniteSubsetsOf(s) = SUBSET s
    BY FS_FiniteSubsetsOfFinite
  <2>2. s \in T
    OBVIOUS
  <2> QED BY <2>1, <2>2
<1>2. PICK u \in T : \A v \in T : v \subseteq u => v = u
  <2> HIDE DEF T
  <2> QED BY <1>1, SmallestSet
<1>3. u \in SUBSET D /\ u \in SUBSET E
  BY <1>2
<1>4. /\ g[u] = IF u = {} THEN 0 ELSE f[First(u)] + g[Rest(u)]
      /\ h[u] = IF u = {} THEN 0 ELSE f[First(u)] + h[Rest(u)]
  BY <1>3 DEF AddsUp
<1>5. CASE u = {}
  BY <1>2, <1>4, <1>5
<1>6. CASE u # {}
  <2>1. Rest(u) \subseteq u /\ Rest(u) # u /\ Rest(u) \in SUBSET s
    BY <1>2, <1>6, FirstAndRest
  <2>2. g[Rest(u)] = h[Rest(u)]
    BY <1>2, <2>1
  <2> QED BY <1>2, <1>4, <1>6, <2>2
<1> QED BY <1>5, <1>6

\* A finite set has its sums.
LEMMA SumsExist ==
    ASSUME NEW f, NEW D, IsFiniteSet(D)
    PROVE  \E g : AddsUp(f, D, g)
<1> SUFFICES ASSUME ~ \E g : AddsUp(f, D, g)  PROVE FALSE
  OBVIOUS
<1> DEFINE T == {s \in SUBSET D : ~ \E g : AddsUp(f, s, g)}
<1>1. T \in SUBSET FiniteSubsetsOf(D) /\ T # {}
  <2>1. FiniteSubsetsOf(D) = SUBSET D
    BY FS_FiniteSubsetsOfFinite
  <2>2. D \in T
    OBVIOUS
  <2> QED BY <2>1, <2>2
<1>2. PICK s \in T : \A v \in T : v \subseteq s => v = s
  <2> HIDE DEF T
  <2> QED BY <1>1, SmallestSet
<1>3. \A v \in SUBSET s : v # s => AddsUp(f, v, CHOOSE g : AddsUp(f, v, g))
  <2>1. \A v \in SUBSET s : v # s => \E g : AddsUp(f, v, g)
    BY <1>2
  <2> QED BY <2>1
<1>4. s \in SUBSET D /\ IsFiniteSet(s)
  BY <1>2, FS_Subset
<1> HIDE DEF T
<1> DEFINE G(v) == SumOver(f, v)
           h == [u \in SUBSET s |-> IF u = {} THEN 0 ELSE f[First(u)] + G(Rest(u))]
<1>5. ASSUME NEW v \in SUBSET s, v # s
      PROVE  G(v) = IF v = {} THEN 0 ELSE f[First(v)] + G(Rest(v))
  <2> DEFINE gv == CHOOSE g : AddsUp(f, v, g)
             gr == CHOOSE g : AddsUp(f, Rest(v), g)
  <2>1. AddsUp(f, v, gv)
    BY <1>3, <1>5
  <2>2. G(v) = gv[v]
    BY DEF SumOver
  <2> HIDE DEF G
  <2>3. gv[v] = IF v = {} THEN 0 ELSE f[First(v)] + gv[Rest(v)]
    BY <2>1 DEF AddsUp
  <2>4. CASE v = {}
    BY <2>2, <2>3, <2>4
  <2>5. CASE v # {}
    <3>1. Rest(v) \in SUBSET v /\ Rest(v) \in SUBSET s /\ Rest(v) # s
      BY <2>5, FirstAndRest
    <3>2. AddsUp(f, Rest(v), gr)
      BY <1>3, <3>1
    <3>3. IsFiniteSet(Rest(v))
      BY <1>4, <3>1, FS_Subset
    <3> HIDE DEF gv, gr
    <3>4. gv[Rest(v)] = gr[Rest(v)]
      BY <2>1, <3>1, <3>2, <3>3, SumsAgree
    <3>5. G(Rest(v)) = gr[Rest(v)]
      BY DEF G, gr, SumOver
    <3> QED BY <2>2, <2>3, <2>5, <3>4, <3>5
  <2> QED BY <2>4, <2>5
<1>6. \A v \in SUBSET s : v # s => h[v] = G(v)
  BY <1>5
<1>7. ASSUME NEW u \in SUBSET s, u # {}  PROVE G(Rest(u)) = h[Rest(u)]
  <2>1. Rest(u) \in SUBSET s /\ Rest(u) # s
    BY <1>7, FirstAndRest
  <2> QED BY <1>6, <2>1
<1> HIDE DEF G
<1>8. AddsUp(f, s, h)
  <2>1. h = [u \in SUBSET s |-> IF u = {} THEN 0 ELSE f[First(u)] + h[Rest(u)]]
    BY <1>7
  <2> QED BY <2>1 DEF AddsUp
<1> QED BY <1>2, <1>8 DEF T

\* A sum is what its first element adds to the sum over the rest.
LEMMA SumOverRest ==
    ASSUME NEW f, NEW D, IsFiniteSet(D)
    PROVE  SumOver(f, D) = IF D = {} THEN 0 ELSE f[First(D)] + SumOver(f, Rest(D))
<1> DEFINE g == CHOOSE g : AddsUp(f, D, g)
           r == CHOOSE r : AddsUp(f, Rest(D), r)
<1>1. AddsUp(f, D, g)
  BY SumsExist
<1>2. g[D] = IF D = {} THEN 0 ELSE f[First(D)] + g[Rest(D)]
  BY <1>1 DEF AddsUp
<1>3. SumOver(f, D) = g[D] /\ SumOver(f, Rest(D)) = r[Rest(D)]
  BY DEF SumOver
<1>4. ASSUME D # {}  PROVE g[Rest(D)] = r[Rest(D)]
  <2>1. Rest(D) \in SUBSET D
    BY <1>4, FirstAndRest
  <2>2. IsFiniteSet(Rest(D))
    BY <2>1, FS_Subset
  <2>3. AddsUp(f, Rest(D), r)
    BY <2>2, SumsExist
  <2> HIDE DEF g, r
  <2> QED BY <1>1, <2>1, <2>2, <2>3, SumsAgree
<1> HIDE DEF g, r
<1> QED BY <1>2, <1>3, <1>4

LEMMA SumOverType ==
    ASSUME NEW D, NEW f \in [D -> Int], IsFiniteSet(D), NEW S \in SUBSET D
    PROVE  SumOver(f, S) \in Int
<1> SUFFICES ASSUME SumOver(f, S) \notin Int  PROVE FALSE
  OBVIOUS
<1> DEFINE T == {u \in SUBSET D : SumOver(f, u) \notin Int}
<1>1. T \in SUBSET FiniteSubsetsOf(D) /\ T # {}
  <2>1. FiniteSubsetsOf(D) = SUBSET D
    BY FS_FiniteSubsetsOfFinite
  <2>2. S \in T
    OBVIOUS
  <2> QED BY <2>1, <2>2
<1>2. PICK u \in T : \A v \in T : v \subseteq u => v = u
  <2> HIDE DEF T
  <2> QED BY <1>1, SmallestSet
<1>3. IsFiniteSet(u) /\ u \in SUBSET D /\ SumOver(f, u) \notin Int
  BY <1>2, FS_Subset
<1>4. u # {} /\ SumOver(f, u) = f[First(u)] + SumOver(f, Rest(u))
  <2>1. SumOver(f, u) = IF u = {} THEN 0 ELSE f[First(u)] + SumOver(f, Rest(u))
    BY <1>3, SumOverRest
  <2>2. CASE u = {}
    BY <1>3, <2>1, <2>2
  <2> QED BY <2>1, <2>2
<1>5. Rest(u) \subseteq u /\ Rest(u) # u /\ First(u) \in D
  BY <1>3, <1>4, FirstAndRest
<1>6. SumOver(f, Rest(u)) \in Int
  BY <1>2, <1>3, <1>5
<1> QED BY <1>3, <1>4, <1>5, <1>6

\* A sum depends on the values it adds up only.
LEMMA SumsOfTheSame ==
    ASSUME NEW f, NEW h, NEW S, IsFiniteSet(S), \A x \in S : f[x] = h[x]
    PROVE  SumOver(f, S) = SumOver(h, S)
<1> SUFFICES ASSUME SumOver(f, S) # SumOver(h, S)  PROVE FALSE
  OBVIOUS
<1> DEFINE T == {u \in SUBSET S : SumOver(f, u) # SumOver(h, u)}
<1>1. T \in SUBSET FiniteSubsetsOf(S) /\ T # {}
  <2>1. FiniteSubsetsOf(S) = SUBSET S
    BY FS_FiniteSubsetsOfFinite
  <2>2. S \in T
    OBVIOUS
  <2> QED BY <2>1, <2>2
<1>2. PICK u \in T : \A v \in T : v \subseteq u => v = u
  <2> HIDE DEF T
  <2> QED BY <1>1, SmallestSet
<1>3. IsFiniteSet(u) /\ u \in SUBSET S /\ SumOver(f, u) # SumOver(h, u)
  BY <1>2, FS_Subset
<1>4. /\ SumOver(f, u) = IF u = {} THEN 0 ELSE f[First(u)] + SumOver(f, Rest(u))
      /\ SumOver(h, u) = IF u = {} THEN 0 ELSE h[First(u)] + SumOver(h, Rest(u))
  BY <1>3, SumOverRest
<1>5. u # {}
  BY <1>3, <1>4
<1>6. Rest(u) \subseteq u /\ Rest(u) # u /\ First(u) \in S
  BY <1>3, <1>5, FirstAndRest
<1>7. SumOver(f, Rest(u)) = SumOver(h, Rest(u)) /\ f[First(u)] = h[First(u)]
  BY <1>2, <1>3, <1>6
<1> QED BY <1>3, <1>4, <1>5, <1>7

\* Any element may be the first.
LEMMA SumWithout ==
    ASSUME NEW D, NEW f \in [D -> Int], IsFiniteSet(D), NEW S \in SUBSET D, NEW z \in S
    PROVE  SumOver(f, S) = f[z] + SumOver(f, S \ {z})
<1> DEFINE Splits(u, x) == SumOver(f, u) = f[x] + SumOver(f, u \ {x})
<1> SUFFICES ASSUME ~ Splits(S, z)  PROVE FALSE
  OBVIOUS
<1> DEFINE T == {u \in SUBSET D : \E x \in u : ~ Splits(u, x)}
<1> HIDE DEF Splits
<1>1. T \in SUBSET FiniteSubsetsOf(D) /\ T # {}
  <2>1. FiniteSubsetsOf(D) = SUBSET D
    BY FS_FiniteSubsetsOfFinite
  <2>2. S \in T
    OBVIOUS
  <2> QED BY <2>1, <2>2
<1>2. PICK u \in T : \A v \in T : v \subseteq u => v = u
  <2> HIDE DEF T
  <2> QED BY <1>1, SmallestSet
<1>3. IsFiniteSet(u) /\ u \in SUBSET D
  BY <1>2, FS_Subset
<1>4. PICK x \in u : ~ Splits(u, x)
  BY <1>2
<1>5. \A v \in SUBSET u : v # u => \A y \in v : Splits(v, y)
  BY <1>2, <1>3
<1> DEFINE c == First(u)
           r == Rest(u)
           w == u \ {x}
<1>6. /\ c \in u /\ r \in SUBSET u /\ r # u /\ r = u \ {c}
      /\ SumOver(f, u) = f[c] + SumOver(f, r)
  BY <1>3, <1>4, SumOverRest, FirstAndRest DEF Rest
<1> HIDE DEF c, r
<1>7. c # x
  BY <1>4, <1>6 DEF Splits
<1>8. SumOver(f, r) = f[x] + SumOver(f, r \ {x})
  BY <1>4, <1>5, <1>6, <1>7 DEF Splits
<1>9. SumOver(f, w) = f[c] + SumOver(f, w \ {c})
  BY <1>4, <1>5, <1>6, <1>7 DEF Splits
<1>10. w \ {c} = r \ {x}
  BY <1>6
<1>11. f[x] \in Int /\ f[c] \in Int /\ SumOver(f, r \ {x}) \in Int
  <2>1. r \ {x} \in SUBSET D /\ x \in D /\ c \in D
    BY <1>3, <1>4, <1>6
  <2>2. SumOver(f, r \ {x}) \in Int
    BY <2>1, SumOverType
  <2> QED BY <2>1, <2>2
<1>12. SumOver(f, u) = f[x] + SumOver(f, w)
  <2> DEFINE k == SumOver(f, r \ {x})
  <2>1. /\ SumOver(f, u) = f[c] + (f[x] + k) /\ SumOver(f, w) = f[c] + k
        /\ f[x] \in Int /\ f[c] \in Int /\ k \in Int
    BY <1>6, <1>8, <1>9, <1>10, <1>11
  <2> HIDE DEF k, w
  <2> QED BY <2>1
<1> QED BY <1>4, <1>12 DEF Splits

\* One value changes, and the sum with it.
LEMMA SumChanges ==
    ASSUME NEW D, IsFiniteSet(D), NEW f \in [D -> Int], NEW h \in [D -> Int], NEW x \in D,
           \A y \in D \ {x} : h[y] = f[y]
    PROVE  /\ SumFunction(f) \in Int /\ SumFunction(h) \in Int
           /\ SumFunction(h) = SumFunction(f) - f[x] + h[x]
<1>1. SumFunction(f) = SumOver(f, D) /\ SumFunction(h) = SumOver(h, D)
  BY SumFunctionIsSumOver
<1>2. /\ SumOver(f, D) = f[x] + SumOver(f, D \ {x})
      /\ SumOver(h, D) = h[x] + SumOver(h, D \ {x})
  BY SumWithout
<1>3. SumOver(h, D \ {x}) = SumOver(f, D \ {x})
  <2>1. IsFiniteSet(D \ {x})
    BY FS_Subset
  <2> QED BY <2>1, SumsOfTheSame
<1>4. SumOver(f, D \ {x}) \in Int
  BY SumOverType
<1> QED BY <1>1, <1>2, <1>3, <1>4

\* Nothing adds up to nothing.
LEMMA SumOfZeros ==
    ASSUME NEW D, IsFiniteSet(D), NEW f \in [D -> Int], \A x \in D : f[x] = 0
    PROVE  SumFunction(f) = 0
<1> SUFFICES ASSUME SumOver(f, D) # 0  PROVE FALSE
  BY SumFunctionIsSumOver
<1> DEFINE T == {u \in SUBSET D : SumOver(f, u) # 0}
<1>1. T \in SUBSET FiniteSubsetsOf(D) /\ T # {}
  <2>1. FiniteSubsetsOf(D) = SUBSET D
    BY FS_FiniteSubsetsOfFinite
  <2>2. D \in T
    OBVIOUS
  <2> QED BY <2>1, <2>2
<1>2. PICK u \in T : \A v \in T : v \subseteq u => v = u
  <2> HIDE DEF T
  <2> QED BY <1>1, SmallestSet
<1>3. IsFiniteSet(u) /\ u \in SUBSET D /\ SumOver(f, u) # 0
  BY <1>2, FS_Subset
<1>4. SumOver(f, u) = IF u = {} THEN 0 ELSE f[First(u)] + SumOver(f, Rest(u))
  BY <1>3, SumOverRest
<1>5. u # {} /\ Rest(u) \subseteq u /\ Rest(u) # u /\ First(u) \in D
  BY <1>3, <1>4, FirstAndRest
<1>6. SumOver(f, Rest(u)) = 0
  BY <1>2, <1>3, <1>5
<1> QED BY <1>3, <1>4, <1>5, <1>6

-----------------------------------------------------------------------------

\* A transfer out of a large enough balance leaves balances.
LEMMA TransferType ==
    ASSUME balance \in [Tokens -> [Holders -> Nat]], NEW t \in Tokens,
           NEW a \in Holders, NEW b \in Holders, NEW amount \in Nat,
           Transfer(t, a, b, amount)
    PROVE  balance' \in [Tokens -> [Holders -> Nat]]
<1>1. balance[t] \in [Holders -> Nat] /\ balance[t][a] - amount \in Nat
  BY DEF Transfer
<1>2. balance' = [balance EXCEPT ![t][a] = balance[t][a] - amount,
                                ![t][b] = @ + amount]
  BY DEF Transfer
<1>3. balance' \in [Tokens -> [Holders -> Nat]]
  BY <1>1, <1>2
<1> QED
  BY <1>3

\* How one offer may change in one step.
OfferStep(id) ==
    \/ offer'[id] = offer[id]
    \/ offer[id] = None
    \/ /\ offer[id].state = "Open"
       /\ \/ \E buyer \in Traders :
               offer'[id] = [offer[id] EXCEPT !.buyer = buyer,
                                              !.pay_deadline = now + PAY_WINDOW_SECS,
                                              !.state = "Accepted"]
          \/ \E s \in {"Cancelled", "Expired"} : offer'[id] = [offer[id] EXCEPT !.state = s]
    \/ /\ offer[id].state = "Accepted"
       /\ \/ offer'[id] = [offer[id] EXCEPT !.state = "Settled"]
          \/ now > offer[id].pay_deadline /\ offer'[id] = [offer[id] EXCEPT !.state = "Expired"]

\* What the actions that touch one offer have in common.
LEMMA OneOffer ==
    ASSUME EscrowInv, NEW id \in Ids, NEW o \in Offer, offer[id] # None,
           o.buyer # o.seller, offer' = [offer EXCEPT ![id] = o], UNCHANGED nextOfferId, now' \in Nat,
           balance' \in [Tokens -> [Holders -> Nat]]
    PROVE  /\ EscrowInv'
           /\ offer'[id] = o
           /\ \A i \in Ids : i # id => offer'[i] = offer[i]
<1>1. offer \in [Ids -> Offer \cup {None}] /\ nextOfferId \in Nat \ {0}
  BY DEF EscrowInv, TypeOK
<1>2. offer'[id] = o /\ \A i \in Ids : i # id => offer'[i] = offer[i]
  BY <1>1
<1>3. TypeOK'
  BY <1>1 DEF EscrowInv, TypeOK
<1>4. OffersAreNumbered'
  BY <1>2 DEF EscrowInv, OffersAreNumbered
<1>5. BuyersAreOthers'
  BY <1>2 DEF EscrowInv, BuyersAreOthers
<1> QED
  BY <1>2, <1>3, <1>4, <1>5 DEF EscrowInv

\* Closing an offer in a final state.
LEMMA CloseStep ==
    ASSUME EscrowInv, NEW id \in Ids, offer[id] # None,
           NEW s \in {"Settled", "Cancelled", "Expired"}, NEW to \in Traders, Close(id, s, to)
    PROVE  /\ EscrowInv'
           /\ offer'[id] = [offer[id] EXCEPT !.state = s]
           /\ \A i \in Ids : i # id => offer'[i] = offer[i]
<1> DEFINE o == [offer[id] EXCEPT !.state = s]
<1>1. offer[id] \in Offer /\ offer \in [Ids -> Offer \cup {None}]
  BY DEF EscrowInv, TypeOK
<1>2. o \in Offer /\ o.buyer # o.seller
  BY <1>1 DEF Offer, OfferState, EscrowInv, BuyersAreOthers
<1>3. offer' = [offer EXCEPT ![id] = o]
  BY <1>1 DEF Close
<1>4. balance' \in [Tokens -> [Holders -> Nat]]
  <2>1. offer[id].token \in Tokens /\ offer[id].amount \in Nat
    BY <1>1 DEF Offer
  <2>2. Escrow \in Holders /\ to \in Holders
    BY DEF Holders
  <2>3. balance \in [Tokens -> [Holders -> Nat]]
    BY DEF EscrowInv, TypeOK
  <2> QED
    BY <2>1, <2>2, <2>3, TransferType DEF Close
<1>5. UNCHANGED nextOfferId /\ now' \in Nat
  BY DEF Close, EscrowInv, TypeOK
<1> HIDE DEF o
<1>6. EscrowInv' /\ offer'[id] = o /\ \A i \in Ids : i # id => offer'[i] = offer[i]
  BY <1>2, <1>3, <1>4, <1>5, OneOffer
<1> QED
  BY <1>6 DEF o

\* A new offer takes an entry of its own.
LEMMA CreateStep ==
    ASSUME EscrowInv, NEW p \in Traders, NEW t \in Tokens, NEW amount \in Int,
           NEW ttl \in Nat, CreateOffer(p, t, amount, ttl)
    PROVE  EscrowInv' /\ \A id \in Ids : OfferStep(id)
<1>1. /\ amount \in Nat /\ ttl \in Nat /\ now \in Nat /\ now + ttl \in Nat
      /\ nextOfferId \in Ids /\ nextOfferId' = nextOfferId + 1
  BY EscrowAssumption DEF CreateOffer, EscrowInv, TypeOK, Ids
<1> DEFINE o == [seller |-> p, token |-> t, amount |-> amount, expires_at |-> now + ttl,
                 buyer |-> None, pay_deadline |-> 0, state |-> "Open"]
<1>2. o \in Offer /\ o.buyer # o.seller
  BY <1>1, EscrowAssumption DEF Offer, OfferState
<1>3. offer \in [Ids -> Offer \cup {None}] /\ offer' = [offer EXCEPT ![nextOfferId] = o]
  BY DEF CreateOffer, EscrowInv, TypeOK
<1> HIDE DEF o
<1>4. balance' \in [Tokens -> [Holders -> Nat]]
  BY <1>1, TransferType DEF CreateOffer, EscrowInv, TypeOK, Holders
<1>5. TypeOK'
  BY <1>1, <1>2, <1>3, <1>4 DEF CreateOffer, EscrowInv, TypeOK
<1>6. OffersAreNumbered'
  BY <1>1, <1>3 DEF EscrowInv, OffersAreNumbered, Ids
<1>7. BuyersAreOthers'
  BY <1>1, <1>2, <1>3 DEF EscrowInv, BuyersAreOthers
<1>8. offer[nextOfferId] = None
  BY <1>1 DEF EscrowInv, OffersAreNumbered, Ids
<1>9. \A id \in Ids : OfferStep(id)
  BY <1>1, <1>3, <1>8 DEF OfferStep
<1> QED
  BY <1>5, <1>6, <1>7, <1>9 DEF EscrowInv

\* Reserving an offer.
LEMMA AcceptStep ==
    ASSUME EscrowInv, NEW p \in Traders, NEW id \in Ids, Accept(p, id)
    PROVE  EscrowInv' /\ \A i \in Ids : OfferStep(i)
<1> DEFINE o == [offer[id] EXCEPT !.buyer = p, !.pay_deadline = now + PAY_WINDOW_SECS,
                                  !.state = "Accepted"]
<1>1. /\ offer[id] # None /\ offer[id].state = "Open"
      /\ offer[id] \in Offer /\ offer \in [Ids -> Offer \cup {None}]
      /\ now + PAY_WINDOW_SECS \in Nat
  BY EscrowAssumption DEF Accept, Acceptable, IsOpen, EscrowInv, TypeOK
<1>2. o \in Offer /\ o.buyer # o.seller
  BY <1>1 DEF Offer, OfferState, Accept, Acceptable
<1>3. offer' = [offer EXCEPT ![id] = o]
  BY <1>1 DEF Accept
<1>4. /\ UNCHANGED nextOfferId /\ now' \in Nat
      /\ balance' \in [Tokens -> [Holders -> Nat]]
  BY DEF Accept, EscrowInv, TypeOK
<1>5. EscrowInv' /\ offer'[id] = o /\ \A i \in Ids : i # id => offer'[i] = offer[i]
  <2> HIDE DEF o
  <2> QED
    BY <1>1, <1>2, <1>3, <1>4, OneOffer
<1> QED
  BY <1>1, <1>5 DEF OfferStep

\* The calls on one offer.
LEMMA OneCallStep ==
    ASSUME EscrowInv, NEW p \in Traders, NEW id \in Ids,
           Accept(p, id) \/ ConfirmFiat(p, id) \/ Cancel(p, id) \/ Reclaim(p, id)
    PROVE  EscrowInv' /\ \A i \in Ids : OfferStep(i)
<1>1. CASE ConfirmFiat(p, id)
  <2>1. offer[id] # None /\ offer[id] \in Offer /\ offer[id].state = "Accepted"
    BY <1>1 DEF ConfirmFiat, IsSellerOf, EscrowInv, TypeOK
  <2>2. offer[id].buyer \in Traders
    BY <1>1, <2>1 DEF ConfirmFiat, Offer
  <2>3. Close(id, "Settled", offer[id].buyer)
    BY <1>1 DEF ConfirmFiat
  <2> QED
    BY <2>1, <2>2, <2>3, CloseStep DEF OfferStep
<1>2. CASE Cancel(p, id)
  BY <1>2, CloseStep DEF Cancel, IsSellerOf, OfferStep
<1>3. CASE Reclaim(p, id)
  BY <1>3, CloseStep DEF Reclaim, Refundable, IsSellerOf, OfferStep
<1> QED
  BY <1>1, <1>2, <1>3, AcceptStep

\* Every step keeps the invariant and moves each offer along its life.
LEMMA EscrowStep ==
    ASSUME EscrowInv, [Next]_vars
    PROVE  EscrowInv' /\ \A id \in Ids : OfferStep(id)
<1>1. CASE Tick \/ UNCHANGED vars
  <2>1. UNCHANGED <<offer, nextOfferId, balance>> /\ now' \in Nat
    BY <1>1, EscrowAssumption DEF Tick, vars, EscrowInv, TypeOK
  <2> QED
    BY <2>1 DEF EscrowInv, TypeOK, OffersAreNumbered, BuyersAreOthers, OfferStep
<1>2. ASSUME NEW p \in Traders, NEW t \in Tokens, NEW amount \in Amounts, NEW ttl \in Ttls,
             CreateOffer(p, t, amount, ttl)
      PROVE  EscrowInv' /\ \A i \in Ids : OfferStep(i)
  BY <1>2, CreateStep, EscrowAssumption
<1> QED
  BY <1>1, <1>2, OneCallStep DEF Next

-----------------------------------------------------------------------------

\* The invariant holds in every state of the contract.
THEOREM EscrowInvariant == Spec => []EscrowInv
<1>1. Init => EscrowInv
  <2>1. \A h \in Holders : (IF h = Escrow THEN 0 ELSE Endowment) \in Nat
    BY EscrowAssumption
  <2> QED
    BY <2>1 DEF Init, EscrowInv, TypeOK, OffersAreNumbered, BuyersAreOthers
<1>2. EscrowInv /\ [Next]_vars => EscrowInv'
  BY EscrowStep
<1> QED
  BY <1>1, <1>2, PTL DEF Spec

\* Offers and balances are well formed: no balance is ever overdrawn.
THEOREM EscrowTypeCorrect == Spec => []TypeOK
<1>1. EscrowInv => TypeOK
  BY DEF EscrowInv
<1> QED
  BY <1>1, EscrowInvariant, PTL

\* Settled, cancelled and expired offers never change again (lib.rs:120-132).
THEOREM EndedIsFinal == Spec => EndedOffersAreFinal
<1>1. ASSUME EscrowInv, [Next]_vars
      PROVE  [\A id \in Ids : offer[id] # None /\ ~IsLive(id) => offer'[id] = offer[id]]_vars
  BY <1>1, EscrowStep DEF OfferStep, IsLive, Live
<1> QED
  BY <1>1, EscrowInvariant, PTL DEF Spec, EndedOffersAreFinal

\* A reserved offer keeps its terms and its buyer, who has until the deadline.
THEOREM ReservationHolds == Spec => ReservedForTheBuyer
<1>1. ASSUME EscrowInv, [Next]_vars
      PROVE  [\A id \in Ids : offer[id] # None /\ offer[id].state = "Accepted" =>
                /\ [offer'[id] EXCEPT !.state = "Accepted"] = offer[id]
                /\ now <= offer[id].pay_deadline =>
                       offer'[id].state \in {"Accepted", "Settled"}]_vars
  <2> SUFFICES ASSUME NEW id \in Ids, offer[id] # None, offer[id].state = "Accepted"
               PROVE  /\ [offer'[id] EXCEPT !.state = "Accepted"] = offer[id]
                      /\ now <= offer[id].pay_deadline =>
                             offer'[id].state \in {"Accepted", "Settled"}
    OBVIOUS
  <2>1. offer[id] \in Offer /\ offer[id].pay_deadline \in Nat /\ now \in Nat
    BY <1>1 DEF EscrowInv, TypeOK, Offer
  <2>2. \/ offer'[id] = offer[id]
        \/ offer'[id] = [offer[id] EXCEPT !.state = "Settled"]
        \/ /\ now > offer[id].pay_deadline
           /\ offer'[id] = [offer[id] EXCEPT !.state = "Expired"]
    BY <1>1, EscrowStep DEF OfferStep
  <2> QED
    BY <2>1, <2>2 DEF Offer
<1> QED
  BY <1>1, EscrowInvariant, PTL DEF Spec, ReservedForTheBuyer

-----------------------------------------------------------------------------
(* Where the tokens are.                                                    *)

\* What an entry holds in the contract, has taken from p, and has brought p.
Holds(o, t)    == IF o # None /\ (o.token = t /\ o.state \in Live) THEN o.amount ELSE 0
Takes(o, t, p) ==
    IF o # None /\ (o.token = t /\ o.seller = p /\ o.state \in Live \cup {"Settled"})
    THEN o.amount ELSE 0
Brings(o, t, p) ==
    IF o # None /\ (o.token = t /\ o.buyer = p /\ o.state = "Settled") THEN o.amount ELSE 0

AccountsMatch ==
    \A t \in Tokens :
        /\ balance[t][Escrow] = SumFunction([id \in Ids |-> Holds(offer[id], t)])
        /\ \A p \in Traders :
             balance[t][p] = Endowment - SumFunction([id \in Ids |-> Takes(offer[id], t, p)])
                                       + SumFunction([id \in Ids |-> Brings(offer[id], t, p)])

LEMMA EntriesAreAmounts ==
    ASSUME NEW o \in Offer \cup {None}, NEW t, NEW p
    PROVE  Holds(o, t) \in Int /\ Takes(o, t, p) \in Int /\ Brings(o, t, p) \in Int
BY DEF Holds, Takes, Brings, Offer

LEMMA IdsAreFinite == IsFiniteSet(Ids)
BY EscrowAssumption, FS_Interval DEF Ids

\* When one entry changes and the balances change as much, the accounts match again.
LEMMA OneEntryChanges ==
    ASSUME TypeOK, TypeOK', AccountsMatch, NEW id \in Ids,
           \A i \in Ids : i # id => offer'[i] = offer[i],
           \A t \in Tokens :
              balance'[t][Escrow]
                = balance[t][Escrow] - Holds(offer[id], t) + Holds(offer'[id], t),
           \A t \in Tokens : \A p \in Traders :
              balance'[t][p]
                = balance[t][p] + Takes(offer[id], t, p) - Takes(offer'[id], t, p)
                                - Brings(offer[id], t, p) + Brings(offer'[id], t, p)
    PROVE  AccountsMatch'
<1>1. offer \in [Ids -> Offer \cup {None}] /\ offer' \in [Ids -> Offer \cup {None}]
  BY DEF TypeOK
<1>2. ASSUME NEW t \in Tokens
      PROVE  balance'[t][Escrow] = SumFunction([i \in Ids |-> Holds(offer'[i], t)])
  <2> DEFINE f == [i \in Ids |-> Holds(offer[i], t)]
             h == [i \in Ids |-> Holds(offer'[i], t)]
  <2>1. f \in [Ids -> Int] /\ h \in [Ids -> Int] /\ \A i \in Ids \ {id} : h[i] = f[i]
    BY <1>1, EntriesAreAmounts
  <2>2. f[id] = Holds(offer[id], t) /\ h[id] = Holds(offer'[id], t)
    OBVIOUS
  <2>3. balance[t][Escrow] = SumFunction(f)
    BY DEF AccountsMatch
  <2> HIDE DEF f, h
  <2>4. SumFunction(h) = SumFunction(f) - f[id] + h[id]
    BY <2>1, IdsAreFinite, SumChanges
  <2> QED BY <2>2, <2>3, <2>4 DEF h
<1>3. ASSUME NEW t \in Tokens, NEW p \in Traders
      PROVE  balance'[t][p] = Endowment - SumFunction([i \in Ids |-> Takes(offer'[i], t, p)])
                                        + SumFunction([i \in Ids |-> Brings(offer'[i], t, p)])
  <2> DEFINE f == [i \in Ids |-> Takes(offer[i], t, p)]
             h == [i \in Ids |-> Takes(offer'[i], t, p)]
             k == [i \in Ids |-> Brings(offer[i], t, p)]
             l == [i \in Ids |-> Brings(offer'[i], t, p)]
  <2>1. /\ f \in [Ids -> Int] /\ h \in [Ids -> Int] /\ \A i \in Ids \ {id} : h[i] = f[i]
        /\ k \in [Ids -> Int] /\ l \in [Ids -> Int] /\ \A i \in Ids \ {id} : l[i] = k[i]
    BY <1>1, EntriesAreAmounts
  <2>2. /\ f[id] = Takes(offer[id], t, p) /\ h[id] = Takes(offer'[id], t, p)
        /\ k[id] = Brings(offer[id], t, p) /\ l[id] = Brings(offer'[id], t, p)
    OBVIOUS
  <2>3. balance[t][p] = Endowment - SumFunction(f) + SumFunction(k)
    BY DEF AccountsMatch
  <2>4. balance'[t][p] = balance[t][p] + f[id] - h[id] - k[id] + l[id]
    BY <2>2
  <2>5. f[id] \in Int /\ h[id] \in Int /\ k[id] \in Int /\ l[id] \in Int
    BY <2>1
  <2> HIDE DEF f, h, k, l
  <2>6. /\ SumFunction(f) \in Int /\ SumFunction(h) = SumFunction(f) - f[id] + h[id]
        /\ SumFunction(k) \in Int /\ SumFunction(l) = SumFunction(k) - k[id] + l[id]
    BY <2>1, IdsAreFinite, SumChanges
  <2>7. balance'[t][p] = Endowment - SumFunction(h) + SumFunction(l)
    BY <2>3, <2>4, <2>5, <2>6, EscrowAssumption
  <2> QED BY <2>7 DEF h, l
<1> QED BY <1>2, <1>3 DEF AccountsMatch

\* A transfer between two holders.
LEMMA TransferMoves ==
    ASSUME TypeOK, NEW t \in Tokens, NEW a \in Holders, NEW b \in Holders, a # b,
           NEW amount \in Nat, Transfer(t, a, b, amount)
    PROVE  \A u \in Tokens : \A h \in Holders :
              balance'[u][h] = balance[u][h] + (IF u = t /\ h = b THEN amount ELSE 0)
                                             - (IF u = t /\ h = a THEN amount ELSE 0)
<1>1. balance \in [Tokens -> [Holders -> Nat]]
  BY DEF TypeOK
<1>2. balance' = [balance EXCEPT ![t][a] = balance[t][a] - amount,
                                ![t][b] = @ + amount]
  BY DEF Transfer
<1>3. balance' = [balance EXCEPT ![t] = [balance[t] EXCEPT ![a] = balance[t][a] - amount,
                                                          ![b] = balance[t][b] + amount]]
  BY <1>1, <1>2
<1>4. ASSUME NEW u \in Tokens, NEW h \in Holders
      PROVE  balance'[u][h] = balance[u][h] + (IF u = t /\ h = b THEN amount ELSE 0)
                                            - (IF u = t /\ h = a THEN amount ELSE 0)
  <2>1. balance[u] \in [Holders -> Nat] /\ balance[u][h] \in Nat
    BY <1>1
  <2>2. CASE u # t
    BY <1>1, <1>3, <2>1, <2>2
  <2>3. CASE u = t
    <3>1. balance'[u] = [balance[t] EXCEPT ![a] = balance[t][a] - amount,
                                           ![b] = balance[t][b] + amount]
      BY <1>1, <1>3, <2>3
    <3> QED BY <2>1, <2>3, <3>1
  <2> QED BY <2>2, <2>3
<1> QED BY <1>4

\* An offer that ends pays its amount to its seller or, settled, to its buyer.
LEMMA ClosingKeepsAccounts ==
    ASSUME EscrowInv, AccountsMatch, NEW id \in Ids, offer[id] # None, offer[id].state \in Live,
           NEW s \in {"Settled", "Cancelled", "Expired"}, NEW to \in Traders, Close(id, s, to),
           to = IF s = "Settled" THEN offer[id].buyer ELSE offer[id].seller
    PROVE  AccountsMatch'
<1> DEFINE o == offer[id]
<1>1. o \in Offer /\ TypeOK
  BY DEF EscrowInv, TypeOK
<1>2. /\ EscrowInv' /\ offer'[id] = [o EXCEPT !.state = s]
      /\ \A i \in Ids : i # id => offer'[i] = offer[i]
  BY CloseStep
<1>3. /\ o.token \in Tokens /\ o.amount \in Nat /\ o.seller \in Traders
      /\ to \in Holders /\ Escrow \in Holders /\ to # Escrow /\ Traders \subseteq Holders
  BY <1>1, EscrowAssumption DEF Offer, Holders
<1>4. \A u \in Tokens : \A h \in Holders :
          balance'[u][h] = balance[u][h] + (IF u = o.token /\ h = to THEN o.amount ELSE 0)
                                         - (IF u = o.token /\ h = Escrow THEN o.amount ELSE 0)
  BY <1>1, <1>3, TransferMoves DEF Close
<1>5. /\ offer'[id] # None /\ offer'[id].state = s /\ offer'[id].token = o.token
      /\ offer'[id].amount = o.amount /\ offer'[id].seller = o.seller
      /\ offer'[id].buyer = o.buyer
  BY <1>1, <1>2, EscrowAssumption DEF Offer, EscrowInv, TypeOK, OfferState
<1> HIDE DEF o
<1>6. o # None /\ o.state \in Live /\ o.state # "Settled"
  BY DEF o, Live
<1>7. ASSUME NEW t \in Tokens
      PROVE  balance'[t][Escrow] = balance[t][Escrow] - Holds(o, t) + Holds(offer'[id], t)
  <2>1. Holds(o, t) = IF o.token = t THEN o.amount ELSE 0
    BY <1>6 DEF Holds
  <2>2. Holds(offer'[id], t) = 0
    BY <1>5 DEF Holds, Live
  <2>3. balance[t][Escrow] \in Nat
    BY <1>1, <1>3 DEF TypeOK
  <2>4. balance'[t][Escrow] = balance[t][Escrow] - (IF t = o.token THEN o.amount ELSE 0)
    BY <1>3, <1>4, <2>3
  <2> QED BY <1>3, <2>1, <2>2, <2>3, <2>4
<1>8. ASSUME NEW t \in Tokens, NEW p \in Traders
      PROVE  balance'[t][p] = balance[t][p] + Takes(o, t, p) - Takes(offer'[id], t, p)
                                            - Brings(o, t, p) + Brings(offer'[id], t, p)
  <2>1. balance[t][p] \in Nat /\ p # Escrow /\ p \in Holders
    BY <1>1, <1>3, EscrowAssumption DEF TypeOK
  <2>2. balance'[t][p] = balance[t][p] + (IF t = o.token /\ p = to THEN o.amount ELSE 0)
    BY <1>3, <1>4, <2>1
  <2>3. Brings(o, t, p) = 0
    BY <1>6 DEF Brings
  <2>4. Takes(o, t, p) = IF o.token = t /\ o.seller = p THEN o.amount ELSE 0
    BY <1>6 DEF Takes
  <2>5. CASE s = "Settled"
    <3>1. Takes(offer'[id], t, p) = IF o.token = t /\ o.seller = p THEN o.amount ELSE 0
      BY <1>5, <2>5 DEF Takes
    <3>2. Brings(offer'[id], t, p) = IF o.token = t /\ p = to THEN o.amount ELSE 0
      BY <1>5, <2>5 DEF Brings, o
    <3> QED BY <1>3, <2>1, <2>2, <2>3, <2>4, <3>1, <3>2
  <2>6. CASE s # "Settled"
    <3>1. Takes(offer'[id], t, p) = 0 /\ Brings(offer'[id], t, p) = 0
      BY <1>5, <2>6 DEF Takes, Brings, Live
    <3>2. to = o.seller
      BY <2>6 DEF o
    <3> QED BY <1>3, <2>1, <2>2, <2>3, <2>4, <3>1, <3>2
  <2> QED BY <2>5, <2>6
<1>9. \A t \in Tokens : balance'[t][Escrow]
                           = balance[t][Escrow] - Holds(offer[id], t) + Holds(offer'[id], t)
  BY <1>7 DEF o
<1>10. \A t \in Tokens : \A p \in Traders :
          balance'[t][p] = balance[t][p] + Takes(offer[id], t, p) - Takes(offer'[id], t, p)
                                         - Brings(offer[id], t, p) + Brings(offer'[id], t, p)
  BY <1>8 DEF o
<1>11. TypeOK /\ TypeOK'
  BY <1>2 DEF EscrowInv
<1> QED BY <1>2, <1>9, <1>10, <1>11, OneEntryChanges

\* A new offer takes its amount from its seller.
LEMMA CreatingKeepsAccounts ==
    ASSUME EscrowInv, AccountsMatch, NEW p \in Traders, NEW t \in Tokens, NEW amount \in Int,
           NEW ttl \in Nat, CreateOffer(p, t, amount, ttl)
    PROVE  AccountsMatch'
<1> DEFINE id == nextOfferId
           o == [seller |-> p, token |-> t, amount |-> amount, expires_at |-> now + ttl,
                 buyer |-> None, pay_deadline |-> 0, state |-> "Open"]
<1>1. /\ EscrowInv' /\ TypeOK /\ amount \in Nat /\ id \in Ids /\ offer[id] = None
      /\ p \in Holders /\ Escrow \in Holders /\ p # Escrow /\ Traders \subseteq Holders
  <2>1. EscrowInv'
    BY CreateStep
  <2>2. TypeOK /\ amount \in Nat /\ id \in Ids
    BY EscrowAssumption DEF CreateOffer, EscrowInv, TypeOK, Ids
  <2>3. offer[id] = None
    BY <2>2 DEF EscrowInv, OffersAreNumbered, Ids
  <2> QED BY <2>1, <2>2, <2>3, EscrowAssumption DEF Holders
<1>2. /\ offer' = [offer EXCEPT ![id] = o] /\ Transfer(t, p, Escrow, amount)
  BY DEF CreateOffer
<1>3. offer'[id] = o /\ \A i \in Ids : i # id => offer'[i] = offer[i]
  BY <1>1, <1>2 DEF TypeOK
<1>4. \A u \in Tokens : \A h \in Holders :
          balance'[u][h] = balance[u][h] + (IF u = t /\ h = Escrow THEN amount ELSE 0)
                                         - (IF u = t /\ h = p THEN amount ELSE 0)
  BY <1>1, <1>2, TransferMoves
<1>5. o \in Offer /\ o # None
  BY <1>1, EscrowAssumption DEF Offer, OfferState, CreateOffer, EscrowInv, TypeOK
<1>6. \A u \in Tokens : Holds(offer[id], u) = 0 /\ \A q \in Traders :
          Takes(offer[id], u, q) = 0 /\ Brings(offer[id], u, q) = 0
  BY <1>1 DEF Holds, Takes, Brings
<1>7. /\ \A u \in Tokens : Holds(o, u) = IF u = t THEN amount ELSE 0
      /\ \A u \in Tokens : \A q \in Traders :
            /\ Takes(o, u, q) = IF u = t /\ q = p THEN amount ELSE 0
            /\ Brings(o, u, q) = 0
  BY <1>5 DEF Holds, Takes, Brings, Live
<1>8. \A u \in Tokens : \A h \in Holders : balance[u][h] \in Nat
  BY <1>1 DEF TypeOK
<1> HIDE DEF o, id
<1>9. \A u \in Tokens : balance'[u][Escrow]
                           = balance[u][Escrow] - Holds(offer[id], u) + Holds(offer'[id], u)
  BY <1>1, <1>3, <1>4, <1>6, <1>7, <1>8
<1>10. \A u \in Tokens : \A q \in Traders :
          balance'[u][q] = balance[u][q] + Takes(offer[id], u, q) - Takes(offer'[id], u, q)
                                         - Brings(offer[id], u, q) + Brings(offer'[id], u, q)
  <2> SUFFICES ASSUME NEW u \in Tokens, NEW q \in Traders
      PROVE  balance'[u][q] = balance[u][q] + Takes(offer[id], u, q) - Takes(offer'[id], u, q)
                                - Brings(offer[id], u, q) + Brings(offer'[id], u, q)
    OBVIOUS
  <2>1. q # Escrow /\ q \in Holders /\ balance[u][q] \in Nat
    BY <1>1, <1>8, EscrowAssumption
  <2>2. balance'[u][q] = balance[u][q] - (IF u = t /\ q = p THEN amount ELSE 0)
    BY <1>1, <1>4, <2>1
  <2> QED BY <1>1, <1>3, <1>6, <1>7, <2>1, <2>2
<1>11. TypeOK'
  BY <1>1 DEF EscrowInv
<1> QED BY <1>1, <1>3, <1>9, <1>10, <1>11, OneEntryChanges

\* A reservation moves nothing.
LEMMA AcceptingKeepsAccounts ==
    ASSUME EscrowInv, AccountsMatch, NEW p \in Traders, NEW id \in Ids, Accept(p, id)
    PROVE  AccountsMatch'
<1>1. EscrowInv'
  BY AcceptStep
<1>2. /\ offer[id] # None /\ offer[id] \in Offer /\ offer[id].state = "Open"
      /\ offer \in [Ids -> Offer \cup {None}] /\ balance' = balance
      /\ balance \in [Tokens -> [Holders -> Nat]]
  BY DEF Accept, Acceptable, IsOpen, EscrowInv, TypeOK
<1>3. /\ offer'[id] = [offer[id] EXCEPT !.buyer = p, !.pay_deadline = now + PAY_WINDOW_SECS,
                                        !.state = "Accepted"]
      /\ \A i \in Ids : i # id => offer'[i] = offer[i]
  BY <1>2 DEF Accept
<1>4. /\ offer'[id] # None /\ offer'[id].state = "Accepted"
      /\ offer'[id].token = offer[id].token /\ offer'[id].amount = offer[id].amount
      /\ offer'[id].seller = offer[id].seller
  <2>1. offer'[id] \in Offer
    <3>1. offer'[id] \in Offer \cup {None}
      BY <1>1 DEF EscrowInv, TypeOK
    <3>2. now + PAY_WINDOW_SECS \in Nat
      BY EscrowAssumption DEF EscrowInv, TypeOK
    <3> QED BY <1>2, <1>3, <3>2 DEF Offer, OfferState
  <2> QED BY <1>2, <1>3, <2>1, EscrowAssumption DEF Offer
<1>5. ASSUME NEW t \in Tokens, NEW q \in Traders
      PROVE  /\ Holds(offer'[id], t) = Holds(offer[id], t)
             /\ Takes(offer'[id], t, q) = Takes(offer[id], t, q)
             /\ Brings(offer'[id], t, q) = Brings(offer[id], t, q)
  BY <1>2, <1>4 DEF Holds, Takes, Brings, Live
<1>6. ASSUME NEW t \in Tokens
      PROVE  balance'[t][Escrow]
                = balance[t][Escrow] - Holds(offer[id], t) + Holds(offer'[id], t)
  <2>1. Holds(offer'[id], t) = Holds(offer[id], t)
    BY <1>2, <1>4 DEF Holds, Live
  <2>2. balance[t][Escrow] \in Nat /\ Holds(offer[id], t) \in Int
    BY <1>2, EntriesAreAmounts DEF Holders
  <2> QED BY <1>2, <2>1, <2>2
<1>7. ASSUME NEW t \in Tokens, NEW q \in Traders
      PROVE  balance'[t][q]
                = balance[t][q] + Takes(offer[id], t, q) - Takes(offer'[id], t, q)
                                - Brings(offer[id], t, q) + Brings(offer'[id], t, q)
  <2>1. /\ balance[t][q] \in Nat /\ Takes(offer[id], t, q) \in Int
        /\ Brings(offer[id], t, q) \in Int
    BY <1>2, EntriesAreAmounts DEF Holders
  <2> QED BY <1>2, <1>5, <2>1
<1>8. TypeOK /\ TypeOK'
  BY <1>1 DEF EscrowInv
<1> QED BY <1>3, <1>6, <1>7, <1>8, OneEntryChanges

LEMMA AccountsStep ==
    ASSUME EscrowInv, AccountsMatch, [Next]_vars
    PROVE  AccountsMatch'
<1>1. CASE Tick \/ UNCHANGED vars
  BY <1>1 DEF Tick, vars, AccountsMatch
<1>2. ASSUME NEW p \in Traders, NEW t \in Tokens, NEW amount \in Amounts, NEW ttl \in Ttls,
             CreateOffer(p, t, amount, ttl)
      PROVE  AccountsMatch'
  BY <1>2, CreatingKeepsAccounts, EscrowAssumption
<1>3. ASSUME NEW p \in Traders, NEW id \in Ids, ConfirmFiat(p, id)
      PROVE  AccountsMatch'
  <2>1. offer[id] # None /\ offer[id] \in Offer /\ offer[id].state = "Accepted"
    BY <1>3 DEF ConfirmFiat, IsSellerOf, EscrowInv, TypeOK
  <2>2. offer[id].buyer \in Traders /\ Close(id, "Settled", offer[id].buyer)
    BY <1>3, <2>1 DEF ConfirmFiat, Offer
  <2> QED BY <2>1, <2>2, ClosingKeepsAccounts DEF Live
<1>4. ASSUME NEW p \in Traders, NEW id \in Ids, Cancel(p, id)
      PROVE  AccountsMatch'
  BY <1>4, ClosingKeepsAccounts DEF Cancel, IsSellerOf, Live
<1>5. ASSUME NEW p \in Traders, NEW id \in Ids, Reclaim(p, id)
      PROVE  AccountsMatch'
  BY <1>5, ClosingKeepsAccounts DEF Reclaim, Refundable, IsSellerOf, Live
<1> QED
  BY <1>1, <1>2, <1>3, <1>4, <1>5, AcceptingKeepsAccounts DEF Next

LEMMA AccountsStart == Init => AccountsMatch
<1> SUFFICES ASSUME Init, NEW t \in Tokens
             PROVE  /\ balance[t][Escrow] = SumFunction([id \in Ids |-> Holds(offer[id], t)])
                    /\ \A p \in Traders :
                         balance[t][p]
                           = Endowment - SumFunction([id \in Ids |-> Takes(offer[id], t, p)])
                                       + SumFunction([id \in Ids |-> Brings(offer[id], t, p)])
  BY DEF AccountsMatch
<1>1. /\ balance[t][Escrow] = 0 /\ \A p \in Traders : balance[t][p] = Endowment
      /\ \A id \in Ids : offer[id] = None
  BY EscrowAssumption DEF Init, Holders
<1>2. SumFunction([id \in Ids |-> Holds(offer[id], t)]) = 0
  <2> DEFINE f == [id \in Ids |-> Holds(offer[id], t)]
  <2>1. f \in [Ids -> Int] /\ \A id \in Ids : f[id] = 0
    BY <1>1 DEF Holds
  <2> HIDE DEF f
  <2>2. SumFunction(f) = 0
    BY <2>1, IdsAreFinite, SumOfZeros
  <2> QED BY <2>2 DEF f
<1>3. ASSUME NEW p \in Traders
      PROVE  /\ SumFunction([id \in Ids |-> Takes(offer[id], t, p)]) = 0
             /\ SumFunction([id \in Ids |-> Brings(offer[id], t, p)]) = 0
  <2> DEFINE f == [id \in Ids |-> Takes(offer[id], t, p)]
             h == [id \in Ids |-> Brings(offer[id], t, p)]
  <2>1. /\ f \in [Ids -> Int] /\ \A id \in Ids : f[id] = 0
        /\ h \in [Ids -> Int] /\ \A id \in Ids : h[id] = 0
    BY <1>1 DEF Takes, Brings
  <2> HIDE DEF f, h
  <2>2. SumFunction(f) = 0 /\ SumFunction(h) = 0
    BY <2>1, IdsAreFinite, SumOfZeros
  <2> QED BY <2>2 DEF f, h
<1> QED BY <1>1, <1>2, <1>3, EscrowAssumption

\* The contract holds exactly the live offers' tokens and every trader what the offers
\* say, whatever the traders, tokens, amounts and times: no deposit is paid out twice, to
\* two parties, or out of another's (lib.rs, create_offer to reclaim).
THEOREM TokensAreAccountedFor == Spec => []BalancesFollowOffers
<1>1. EscrowInv /\ AccountsMatch /\ [Next]_vars => AccountsMatch'
  BY AccountsStep
<1>2. Spec => []AccountsMatch
  BY <1>1, AccountsStart, EscrowInvariant, PTL DEF Spec
<1>3. AccountsMatch => BalancesFollowOffers
  BY DEF AccountsMatch, BalancesFollowOffers, Locked, Holds, Takes, Brings
<1> QED
  BY <1>2, <1>3, PTL

-----------------------------------------------------------------------------
(* The order book, read page by page.                                       *)

\* Every number from 1 on is on one page.
LEMMA PageOf ==
    ASSUME NEW limit \in Nat \ {0}, NEW id \in Nat \ {0}
    PROVE  \E k \in 0 .. id - 1 : id \in (1 + k * limit) .. (1 + k * limit + limit - 1)
<1> DEFINE k == (id - 1) \div limit
<1>1. k \in Nat /\ k * limit <= id - 1 /\ id - 1 < k * limit + limit
  OBVIOUS
<1> HIDE DEF k
<1>2. k * limit \in Nat /\ k <= k * limit
  BY <1>1
<1>3. k \in 0 .. id - 1 /\ id \in (1 + k * limit) .. (1 + k * limit + limit - 1)
  BY <1>1, <1>2
<1> QED
  BY <1>3

\* A page that is not clamped shows the acceptable offers of its window.
LEMMA PageShows ==
    ASSUME NEW limit \in 1 .. MAX_PAGE, NEW k \in Nat
    PROVE  ListOpen(1 + k * limit, limit) =
             {id \in (1 + k * limit) .. (1 + k * limit + limit - 1) :
                id \in Ids /\ IsOpen(id) /\ now < offer[id].expires_at}
<1>1. limit \in Nat /\ limit <= MAX_PAGE /\ MAX_PAGE \in Nat
  BY EscrowAssumption
<1>2. k * limit \in Nat
  BY <1>1
<1>3. ~(1 + k * limit < 1) /\ ~(limit > MAX_PAGE)
  BY <1>1, <1>2
<1> QED
  BY <1>3 DEF ListOpen

LEMMA BookFollows ==
    ASSUME EscrowInv, \A p \in Traders : \E q \in Traders : q # p
    PROVE  OrderBookIsActionable
<1> SUFFICES ASSUME NEW limit \in 1 .. MAX_PAGE
             PROVE  UNION {ListOpen(1 + k * limit, limit) : k \in 0 .. nextOfferId}
                      = {id \in Ids : \E p \in Traders : Acceptable(p, id)}
  BY DEF OrderBookIsActionable
<1>1. limit \in Nat \ {0} /\ nextOfferId \in Nat
  BY EscrowAssumption DEF EscrowInv, TypeOK
<1>2. ASSUME NEW k \in 0 .. nextOfferId, NEW id \in ListOpen(1 + k * limit, limit)
      PROVE  id \in Ids /\ \E p \in Traders : Acceptable(p, id)
  <2>1. id \in Ids /\ IsOpen(id) /\ now < offer[id].expires_at
    BY <1>1, <1>2, PageShows
  <2>2. offer[id].seller \in Traders
    BY <2>1 DEF IsOpen, EscrowInv, TypeOK, Offer
  <2>3. PICK p \in Traders : p # offer[id].seller
    BY <2>2
  <2> QED
    BY <2>1, <2>3 DEF Acceptable
<1>3. ASSUME NEW id \in Ids, NEW p \in Traders, Acceptable(p, id)
      PROVE  \E k \in 0 .. nextOfferId : id \in ListOpen(1 + k * limit, limit)
  <2>1. IsOpen(id) /\ now < offer[id].expires_at
    BY <1>3 DEF Acceptable
  <2>2. id \in Nat \ {0} /\ id < nextOfferId
    BY <2>1 DEF IsOpen, EscrowInv, OffersAreNumbered, Ids
  <2>3. PICK k \in 0 .. id - 1 : id \in (1 + k * limit) .. (1 + k * limit + limit - 1)
    BY <1>1, <2>2, PageOf
  <2>4. k \in 0 .. nextOfferId /\ k \in Nat
    BY <1>1, <2>2
  <2>5. id \in ListOpen(1 + k * limit, limit)
    BY <2>1, <2>3, <2>4, PageShows
  <2> QED
    BY <2>4, <2>5
<1> QED
  BY <1>2, <1>3

\* Where every seller has somebody to sell to, the book that list_open shows page by page
\* is the set of offers that can be accepted, for pages of any size.
THEOREM OrderBookShowsTheActionable ==
    ASSUME \A p \in Traders : \E q \in Traders : q # p
    PROVE  Spec => []OrderBookIsActionable
<1>1. EscrowInv => OrderBookIsActionable
  BY BookFollows
<1> QED
  BY <1>1, EscrowInvariant, PTL

-----------------------------------------------------------------------------
(* The app's calls.                                                         *)

OneOfferCalls == {"accept", "confirm", "cancel", "reclaim"}

\* A call under way was built for one of the user's accounts.
CallIsTyped(c) ==
    \/ c = NoCall
    \/ /\ c.source \in Wallets
       /\ \/ c.do = "offer" /\ c.shown.token \in Tokens /\ c.shown.amount \in Amounts
          \/ c.do \in OneOfferCalls /\ c.id \in Ids

CallsAreTyped ==
    /\ wallet \in Wallets \cup {None} /\ owner \in Wallets \cup {None}
    /\ calls = [o \in Origins |-> calls[o]]
    /\ \A o \in Origins : CallIsTyped(calls[o])

TradeInv == EscrowInv /\ CallsAreTyped

\* What a signed call does is a call of the contract.
LEMMA ExecuteStep ==
    ASSUME EscrowInv, Wallets \subseteq Traders, TtlAsked \in Nat,
           NEW c, CallIsTyped(c), c # NoCall, Executes(c)
    PROVE  EscrowInv' /\ \A id \in Ids : OfferStep(id)
<1>1. c.source \in Traders
  BY DEF CallIsTyped
<1>2. CASE c.do = "offer" /\ c.shown.token \in Tokens /\ c.shown.amount \in Amounts
  <2>1. CreateOffer(c.source, c.shown.token, c.shown.amount, TtlAsked)
    BY <1>2 DEF Executes
  <2>2. c.shown.amount \in Int
    BY <1>2, EscrowAssumption
  <2> QED
    BY <1>1, <1>2, <2>1, <2>2, CreateStep
<1>3. CASE c.do \in OneOfferCalls /\ c.id \in Ids
  <2>1. \/ Accept(c.source, c.id) \/ ConfirmFiat(c.source, c.id)
        \/ Cancel(c.source, c.id) \/ Reclaim(c.source, c.id)
    BY <1>3 DEF Executes, OneOfferCalls
  <2> QED
    BY <1>1, <1>3, <2>1, OneCallStep
<1> QED
  BY <1>2, <1>3 DEF CallIsTyped

\* A call that is built is one for the context's account.
LEMMA CallBuilt ==
    ASSUME CallsAreTyped, NEW origin \in Origins, NEW c, CallIsTyped(c),
           calls' = [calls EXCEPT ![origin] = c],
           wallet' \in Wallets \cup {None}, owner' \in Wallets \cup {None}
    PROVE  CallsAreTyped'
<1>1. calls' = [o \in Origins |-> IF o = origin THEN c ELSE calls[o]]
  BY DEF CallsAreTyped
<1>2. \A o \in Origins : CallIsTyped(calls'[o])
  BY <1>1 DEF CallsAreTyped
<1> QED
  BY <1>1, <1>2 DEF CallsAreTyped, CallIsTyped

LEMMA BuildStep ==
    ASSUME CallsAreTyped, NEW origin \in Origins, NEW do \in OneOfferCalls, NEW id \in Ids,
           NEW shown, BuildsCall(origin, do, id, shown)
    PROVE  CallsAreTyped'
<1> DEFINE who == getP2pContext
           c   == write(do, id, who, shown)
<1>1. who \in Wallets \cup {None}
  BY DEF getP2pContext, CallsAreTyped
<1>2. wallet' = wallet /\ owner' = who
  BY DEF BuildsCall, pageVars
<1>3. CASE Simulates(do, who, id)
  <2>1. who \in Wallets
    BY <1>1, <1>3 DEF Simulates
  <2>2. CallIsTyped(c)
    BY <2>1 DEF CallIsTyped, write
  <2>3. calls' = [calls EXCEPT ![origin] = c]
    BY <1>3 DEF BuildsCall
  <2> HIDE DEF c, who
  <2> QED
    BY <1>1, <1>2, <2>2, <2>3, CallBuilt DEF CallsAreTyped
<1>4. CASE ~Simulates(do, who, id)
  BY <1>1, <1>2, <1>4 DEF BuildsCall, CallsAreTyped, CallIsTyped
<1> QED
  BY <1>3, <1>4

LEMMA SellStep ==
    ASSUME CallsAreTyped, NEW origin \in Origins, NEW t \in Tokens, NEW amount \in Amounts,
           OffersToSell(origin, t, amount)
    PROVE  CallsAreTyped'
<1>1. owner' \in Wallets \cup {None} /\ wallet' = wallet
  BY DEF OffersToSell, getP2pContext, CallsAreTyped
<1> DEFINE c == createOffer(owner', t, amount)
<1>2. \/ calls' = [calls EXCEPT ![origin] = c] /\ owner' # None
      \/ calls' = calls
  BY DEF OffersToSell, checkHeldBalance
<1>3. CASE calls' = [calls EXCEPT ![origin] = c] /\ owner' # None
  <2>1. CallIsTyped(c)
    BY <1>1, <1>3 DEF CallIsTyped, createOffer, write
  <2> HIDE DEF c
  <2> QED
    BY <1>1, <1>3, <2>1, CallBuilt DEF CallsAreTyped
<1>4. CASE calls' = calls
  BY <1>1, <1>4 DEF CallsAreTyped, CallIsTyped
<1> QED
  BY <1>2, <1>3, <1>4

\* The contract's offers and the app's calls after one step.
LEMMA TradeStep ==
    ASSUME TradeInv, [TradeNext]_tradeVars, Wallets \subseteq Traders, TtlAsked \in Nat
    PROVE  TradeInv' /\ \A id \in Ids : OfferStep(id)
<1>1. UNCHANGED vars => EscrowInv' /\ \A id \in Ids : OfferStep(id)
  BY EscrowStep DEF TradeInv
<1>2. /\ calls' = calls /\ wallet' \in Wallets \cup {None} /\ owner' \in Wallets \cup {None}
      => CallsAreTyped'
  BY DEF TradeInv, CallsAreTyped, CallIsTyped
<1>3. getP2pContext \in Wallets \cup {None}
  BY DEF TradeInv, CallsAreTyped, getP2pContext
<1>4. CASE \/ ReadsBook \/ Refreshes \/ \E rows \in reads : ShowsBook(rows) \/ LosesBook(rows)
           \/ \E w \in Wallets \cup {None} : SwitchesWallet(w)
  <2>1. /\ UNCHANGED vars /\ calls' = calls
        /\ wallet' \in Wallets \cup {None} /\ owner' \in Wallets \cup {None}
    BY <1>3, <1>4 DEF ReadsBook, Refreshes, ShowsBook, LosesBook, SwitchesWallet, TradeInv,
       CallsAreTyped
  <2> QED
    BY <1>1, <1>2, <2>1 DEF TradeInv
<1>5. ASSUME NEW id \in Ids, AcceptsRow(id) \/ AcceptsByVoice(id)
      PROVE  TradeInv' /\ \A i \in Ids : OfferStep(i)
  <2>1. PICK origin \in Origins, shown \in {acceptTerms(page.rows[id]), acceptTerms(offer[id])} :
           BuildsCall(origin, "accept", id, shown)
    BY <1>5 DEF AcceptsRow, AcceptsByVoice, Origins
  <2>2. UNCHANGED vars
    BY <2>1 DEF BuildsCall
  <2>3. CallsAreTyped'
    BY <2>1, BuildStep DEF TradeInv, OneOfferCalls
  <2> QED
    BY <1>1, <2>2, <2>3 DEF TradeInv
<1>6. ASSUME NEW id \in Ids, NEW do \in {"confirm", "cancel", "reclaim"}, ActsByVoice(do, id)
      PROVE  TradeInv' /\ \A i \in Ids : OfferStep(i)
  <2>1. UNCHANGED vars
    BY <1>6 DEF ActsByVoice, BuildsCall
  <2>2. CallsAreTyped'
    BY <1>6, BuildStep DEF TradeInv, OneOfferCalls, ActsByVoice, Origins
  <2> QED
    BY <1>1, <2>1, <2>2 DEF TradeInv
<1>7. ASSUME NEW origin \in Origins, NEW t \in Tokens, NEW amount \in Amounts,
             OffersToSell(origin, t, amount)
      PROVE  TradeInv' /\ \A i \in Ids : OfferStep(i)
  BY <1>1, <1>7, SellStep DEF TradeInv, OffersToSell
<1>8. ASSUME NEW origin \in Origins, LandsHeard(origin) \/ LandsUnheard(origin)
      PROVE  TradeInv' /\ \A i \in Ids : OfferStep(i)
  <2>1. EscrowInv' /\ \A i \in Ids : OfferStep(i)
    BY <1>8, ExecuteStep DEF LandsHeard, LandsUnheard, TradeInv, CallsAreTyped
  <2>2. CallsAreTyped'
    BY <1>8, CallBuilt DEF LandsHeard, LandsUnheard, TradeInv, CallsAreTyped, CallIsTyped
  <2> QED
    BY <2>1, <2>2 DEF TradeInv
<1>9. ASSUME NEW origin \in Origins, Fails(origin)
      PROVE  TradeInv' /\ \A i \in Ids : OfferStep(i)
  <2>1. CallsAreTyped'
    BY <1>9, CallBuilt DEF Fails, TradeInv, CallsAreTyped, CallIsTyped
  <2> QED
    BY <1>1, <1>9, <2>1 DEF Fails, TradeInv
<1>10. CASE Elsewhere \/ UNCHANGED tradeVars
  BY <1>2, <1>10, EscrowStep DEF Elsewhere, pageVars, tradeVars, TradeInv, CallsAreTyped
<1> QED
  BY <1>4, <1>5, <1>6, <1>7, <1>8, <1>9, <1>10 DEF TradeNext

\* The app's reading of an offer and the contract's, at any second.
LEMMA ReadingsAgree ==
    ASSUME EscrowInv
    PROVE  OfferedActionsWork
<1> SUFFICES ASSUME NEW id \in Ids, NEW p \in Traders, offer[id] # None
             PROVE  LET offered == nextActions(offer[id], p, now) IN
                    /\ \A do \in {"accept", "confirm", "reclaim"} :
                          do \in offered <=> Simulates(do, p, id)
                    /\ "cancel" \in offered => Simulates("cancel", p, id)
  BY DEF OfferedActionsWork
<1> DEFINE o == offer[id]
           offered == nextActions(o, p, now)
<1>1. /\ o \in Offer /\ o.expires_at \in Nat /\ o.pay_deadline \in Nat /\ now \in Nat
      /\ o.state \in OfferState /\ o.seller \in Traders /\ o.buyer # o.seller /\ p # None
  BY EscrowAssumption DEF EscrowInv, TypeOK, BuyersAreOthers, Offer
<1>2. roleOf(o, p) \in {"seller", "buyer", "other"} /\ (roleOf(o, p) = "seller" <=> o.seller = p)
  BY <1>1 DEF roleOf
<1>3. /\ Simulates("accept", p, id) <=> o.state = "Open" /\ now < o.expires_at /\ p # o.seller
      /\ Simulates("confirm", p, id) <=> o.seller = p /\ o.state = "Accepted"
      /\ Simulates("cancel", p, id) <=> o.seller = p /\ o.state = "Open"
      /\ Simulates("reclaim", p, id) <=>
            /\ o.seller = p
            /\ \/ o.state = "Open" /\ now >= o.expires_at
               \/ o.state = "Accepted" /\ now > o.pay_deadline
  BY <1>1 DEF Simulates, Acceptable, IsOpen, IsSellerOf, Refundable
<1> HIDE DEF o
<1>4. CASE o.state = "Open" /\ o.seller = p
  <2>1. offered = IF now >= o.expires_at THEN {"reclaim"} ELSE {"cancel"}
    BY <1>2, <1>4 DEF nextActions
  <2> QED
    BY <1>1, <1>3, <1>4, <2>1 DEF o
<1>5. CASE o.state = "Open" /\ o.seller # p
  <2>1. offered = IF now >= o.expires_at THEN {} ELSE {"accept"}
    BY <1>2, <1>5 DEF nextActions
  <2> QED
    BY <1>1, <1>3, <1>5, <2>1 DEF o
<1>6. CASE o.state = "Accepted" /\ o.seller = p
  <2>1. offered = IF now > o.pay_deadline THEN {"confirm", "reclaim"} ELSE {"confirm"}
    BY <1>2, <1>6 DEF nextActions
  <2> QED
    BY <1>1, <1>3, <1>6, <2>1 DEF o
<1>7. CASE o.state # "Open" /\ ~(o.state = "Accepted" /\ o.seller = p)
  <2>1. offered = {} \/ offered = {"wait"}
    BY <1>2, <1>7 DEF nextActions
  <2> QED
    BY <1>1, <1>3, <1>7, <2>1 DEF o
<1> HIDE DEF offered
<1> QED
  BY <1>4, <1>5, <1>6, <1>7

\* The contract's invariant holds beside the app's own calls, for any number of wallets.
THEOREM TradeInvariant ==
    ASSUME Wallets \subseteq Traders, TtlAsked \in Nat
    PROVE  TradeSpec => []TradeInv
<1>1. TradeInit => TradeInv
  <2>1. \A h \in Holders : (IF h = Escrow THEN 0 ELSE Endowment) \in Nat
    BY EscrowAssumption
  <2>2. Init => EscrowInv
    BY <2>1 DEF Init, EscrowInv, TypeOK, OffersAreNumbered, BuyersAreOthers
  <2> QED
    BY <2>2 DEF TradeInit, TradeInv, CallsAreTyped, CallIsTyped
<1>2. TradeInv /\ [TradeNext]_tradeVars => TradeInv'
  BY TradeStep
<1> QED
  BY <1>1, <1>2, PTL DEF TradeSpec

\* What the app offers to do with an offer is what the contract would take, at every second,
\* whoever looks and whichever wallet is active (p2p.ts nextActions, lib.rs accept,
\* confirm_fiat, cancel and reclaim).
THEOREM OfferedActionsAlwaysWork ==
    ASSUME Wallets \subseteq Traders, TtlAsked \in Nat
    PROVE  TradeSpec => []OfferedActionsWork
<1>1. TradeInv => OfferedActionsWork
  BY ReadingsAgree DEF TradeInv
<1> QED
  BY <1>1, TradeInvariant, PTL
=============================================================================
