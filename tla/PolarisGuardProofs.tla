------------------------- MODULE PolarisGuardProofs -------------------------
(***************************************************************************)
(* The markers of the alias book follow the book, for any owners, any      *)
(* finite set of names and any addresses.  The guard's state is well       *)
(* formed, its daily counter is the money moved since midnight, and it     *)
(* implements SpendingBudget: for any owners, agent keys, rules, amounts,  *)
(* orders and length of day.  Its standing orders are run as they were     *)
(* ordered, for any number of owners, orders, keepers, intervals and runs. *)
(***************************************************************************)
EXTENDS PolarisGuard, FiniteSetTheorems, SequenceTheorems, TLAPS

-----------------------------------------------------------------------------
(* The alias book on its own (GuardAliasBook).                              *)

\* The count of an address that loses one name: the step of remove_alias and
\* of the first half of a re-pointing.
LEMMA NameLeaves ==
    ASSUME NEW S, IsFiniteSet(S), NEW n \in S
    PROVE  /\ IsFiniteSet(S \ {n})
           /\ Cardinality(S \ {n}) = Cardinality(S) - 1
           /\ Cardinality(S) \in Nat
           /\ Cardinality(S) # 0
<1>1. IsFiniteSet(S \ {n}) /\ Cardinality(S \ {n}) = Cardinality(S) - 1
  BY FS_RemoveElement
<1>2. Cardinality(S) \in Nat
  BY FS_CardinalityType
<1>3. Cardinality(S) # 0
  BY FS_EmptySet
<1> QED
  BY <1>1, <1>2, <1>3

\* The count of an address that gains a name: the step of set_alias.
LEMMA NameJoins ==
    ASSUME NEW S, IsFiniteSet(S), NEW n, n \notin S
    PROVE  /\ IsFiniteSet(S \cup {n})
           /\ Cardinality(S \cup {n}) = Cardinality(S) + 1
           /\ Cardinality(S) \in Nat
BY FS_AddElement, FS_CardinalityType

\* Only finitely many of the owner's names resolve to an address.
LEMMA NamesOfFinite ==
    ASSUME NEW o, NEW a
    PROVE  /\ IsFiniteSet(NamesOf(o, a))
           /\ Cardinality(NamesOf(o, a)) \in Nat
<1>1. NamesOf(o, a) \subseteq Names /\ IsFiniteSet(Names)
  BY AliasBookAssumption DEF NamesOf
<1>2. IsFiniteSet(NamesOf(o, a))
  BY <1>1, FS_Subset
<1> QED
  BY <1>2, FS_CardinalityType

-----------------------------------------------------------------------------

\* Initially nobody has a name, and nothing is counted or marked.
LEMMA BookInitEstablishes == BookInit => BookInv
<1> SUFFICES ASSUME BookInit PROVE BookInv
  OBVIOUS
<1>1. BookTypeOK
  BY DEF BookInit, BookTypeOK, Marks, NoMarks
<1>2. ASSUME NEW o \in Owners, NEW a \in Addrs
      PROVE  NamesOf(o, a) = {}
  BY AliasBookAssumption DEF BookInit, NamesOf
<1>3. Cardinality({}) = 0
  BY FS_EmptySet
<1>4. RefsCountAliases
  BY <1>2, <1>3 DEF RefsCountAliases, BookInit, NoMarks
<1>5. KnownIffAliased
  BY AliasBookAssumption DEF KnownIffAliased, IsKnownRecipient, BookInit, NoMarks
<1> QED
  BY <1>1, <1>4, <1>5 DEF BookInv

\* A count is zero exactly when no name resolves to the address.
LEMMA CountZero ==
    ASSUME BookInv, NEW o \in Owners, NEW a \in Addrs
    PROVE  /\ marks[o].refs[a] \in Nat
           /\ marks[o].refs[a] = Cardinality(NamesOf(o, a))
           /\ marks[o].refs[a] = 0 <=> NamesOf(o, a) = {}
<1>1. marks[o].refs[a] = Cardinality(NamesOf(o, a))
  BY DEF BookInv, RefsCountAliases
<1>2. IsFiniteSet(NamesOf(o, a)) /\ Cardinality(NamesOf(o, a)) \in Nat
  BY NamesOfFinite
<1>3. Cardinality(NamesOf(o, a)) = 0 <=> NamesOf(o, a) = {}
  BY <1>2, FS_EmptySet
<1> QED
  BY <1>1, <1>2, <1>3

\* The two invariants together, for one owner and one address.
Agrees(o, a) ==
    /\ marks[o].refs[a] = Cardinality(NamesOf(o, a))
    /\ a \in marks[o].known <=> NamesOf(o, a) # {}

LEMMA InvIsAgreement ==
    BookInv <=> BookTypeOK /\ \A o \in Owners : \A a \in Addrs : Agrees(o, a)
BY DEF BookInv, RefsCountAliases, KnownIffAliased, Agrees, NamesOf, IsKnownRecipient

\* The same after a step, where it is the goal.
LEMMA AgreementSuffices ==
    ASSUME BookTypeOK', \A o \in Owners : \A a \in Addrs : Agrees(o, a)'
    PROVE  BookInv'
<1>1. RefsCountAliases'
  BY DEF RefsCountAliases, Agrees
<1>2. \A o \in Owners : \A a \in Addrs : (a \in marks[o].known <=> NamesOf(o, a) # {})'
  BY DEF Agrees
<1>3. KnownIffAliased'
  BY <1>2 DEF KnownIffAliased, NamesOf, IsKnownRecipient
<1> QED
  BY <1>1, <1>3 DEF BookInv

\* set_alias keeps count and marker: a new name adds a reference, a re-pointed
\* one moves it, a repeated one changes nothing.
LEMMA SetAliasPreserves ==
    ASSUME BookInv, NEW o \in Owners, NEW n \in Names, NEW to \in Addrs,
           SetAlias(o, n, to)
    PROVE  BookInv'
<1> DEFINE previous == alias[o][n]
<1>1. /\ BookTypeOK
      /\ previous \in Addrs \cup {Null}
      /\ Null \notin Addrs
  BY AliasBookAssumption DEF BookInv, BookTypeOK
<1>2. /\ alias' = [alias EXCEPT ![o][n] = to]
      /\ marks' = [marks EXCEPT ![o] = Repoint(@, previous, to)]
  BY DEF SetAlias
<1>3. Repoint(marks[o], previous, to) \in Marks
  <2>1. ASSUME NEW m \in Marks, NEW a \in Addrs
        PROVE  RefKnown(m, a) \in Marks /\ UnrefKnown(m, a) \in Marks
    BY <2>1 DEF Marks, RefKnown, UnrefKnown
  <2>2. marks[o] \in Marks
    BY <1>1 DEF BookTypeOK
  <2> QED
    BY <1>1, <2>1, <2>2 DEF Repoint
<1>4. BookTypeOK'
  BY <1>1, <1>2, <1>3 DEF BookTypeOK
<1>5. ASSUME NEW p \in Owners, NEW a \in Addrs
      PROVE  Agrees(p, a)'
  <2>1. NamesOf(p, a)' = IF p # o THEN NamesOf(p, a)
                         ELSE IF a = to THEN NamesOf(p, a) \cup {n}
                         ELSE NamesOf(p, a) \ {n}
    BY <1>1, <1>2 DEF NamesOf, BookTypeOK
  <2>2. /\ marks[p].refs[a] \in Nat
        /\ marks[p].refs[a] = Cardinality(NamesOf(p, a))
        /\ marks[p].refs[a] = 0 <=> NamesOf(p, a) = {}
        /\ a \in marks[p].known <=> NamesOf(p, a) # {}
    BY CountZero, InvIsAgreement DEF Agrees
  <2>3. n \in NamesOf(o, a) <=> a = previous
    BY <1>1 DEF NamesOf
  <2>4. /\ marks[o] \in Marks
        /\ marks[p]' = IF p = o THEN Repoint(marks[o], previous, to) ELSE marks[p]
    BY <1>1, <1>2 DEF BookTypeOK
  <2>5. IsFiniteSet(NamesOf(p, a))
    BY NamesOfFinite
  <2>6. CASE p # o
    BY <2>1, <2>2, <2>4, <2>6 DEF Agrees
  <2>7. CASE p = o /\ previous = to
    <3>1. NamesOf(p, a)' = NamesOf(p, a)
      BY <2>1, <2>3, <2>7
    <3>2. marks[p]' = marks[p]
      BY <1>1, <2>4, <2>7 DEF Repoint
    <3> QED
      BY <2>2, <3>1, <3>2 DEF Agrees
  <2>8. CASE p = o /\ previous # to /\ a = to
    <3>1. Cardinality(NamesOf(p, a)') = Cardinality(NamesOf(p, a)) + 1
      BY <2>1, <2>3, <2>5, <2>8, NameJoins
    <3>2. /\ marks[p]'.refs[a] = marks[p].refs[a] + 1
          /\ a \in marks[p]'.known
      BY <1>1, <2>2, <2>4, <2>8 DEF Repoint, RefKnown, UnrefKnown, Marks
    <3> QED
      BY <2>1, <2>2, <2>8, <3>1, <3>2 DEF Agrees
  <2>9. CASE p = o /\ previous # to /\ a # to /\ a = previous
    <3>1. /\ Cardinality(NamesOf(p, a)') = Cardinality(NamesOf(p, a)) - 1
          /\ IsFiniteSet(NamesOf(p, a)')
          /\ marks[p].refs[a] # 0
      BY <2>1, <2>2, <2>3, <2>5, <2>9, NameLeaves
    <3>2. Cardinality(NamesOf(p, a)') = 0 <=> NamesOf(p, a)' = {}
      BY <3>1, FS_EmptySet
    <3>3. /\ marks[p]'.refs[a] = marks[p].refs[a] - 1
          /\ a \in marks[p]'.known <=> marks[p].refs[a] # 1
      BY <1>1, <2>2, <2>4, <2>9, <3>1 DEF Repoint, RefKnown, UnrefKnown, Marks
    <3> QED
      BY <2>2, <3>1, <3>2, <3>3 DEF Agrees
  <2>10. CASE p = o /\ previous # to /\ a # to /\ a # previous
    <3>1. NamesOf(p, a)' = NamesOf(p, a)
      BY <2>1, <2>3, <2>10
    <3>2. /\ marks[p]'.refs[a] = marks[p].refs[a]
          /\ a \in marks[p]'.known <=> a \in marks[p].known
      BY <1>1, <2>4, <2>10 DEF Repoint, RefKnown, UnrefKnown, Marks
    <3> QED
      BY <2>2, <3>1, <3>2 DEF Agrees
  <2> QED
    BY <2>6, <2>7, <2>8, <2>9, <2>10
<1> QED
  BY <1>4, <1>5, AgreementSuffices

\* remove_alias keeps count and marker: one reference less, the marker gone
\* with the last one.
LEMMA RemoveAliasPreserves ==
    ASSUME BookInv, NEW o \in Owners, NEW n \in Names, RemoveAlias(o, n)
    PROVE  BookInv'
<1> DEFINE old == alias[o][n]
<1>1. /\ BookTypeOK
      /\ old \in Addrs
      /\ Null \notin Addrs
  BY AliasBookAssumption DEF BookInv, BookTypeOK, RemoveAlias
<1>2. /\ alias' = [alias EXCEPT ![o][n] = Null]
      /\ marks' = [marks EXCEPT ![o] = UnrefKnown(@, old)]
  BY DEF RemoveAlias
<1>3. marks[o] \in Marks /\ UnrefKnown(marks[o], old) \in Marks
  BY <1>1 DEF BookTypeOK, Marks, UnrefKnown
<1>4. BookTypeOK'
  BY <1>1, <1>2, <1>3 DEF BookTypeOK
<1>5. ASSUME NEW p \in Owners, NEW a \in Addrs
      PROVE  Agrees(p, a)'
  <2>1. NamesOf(p, a)' = IF p = o THEN NamesOf(p, a) \ {n} ELSE NamesOf(p, a)
    BY <1>1, <1>2 DEF NamesOf, BookTypeOK
  <2>2. /\ marks[p].refs[a] \in Nat
        /\ marks[p].refs[a] = Cardinality(NamesOf(p, a))
        /\ marks[p].refs[a] = 0 <=> NamesOf(p, a) = {}
        /\ a \in marks[p].known <=> NamesOf(p, a) # {}
    BY CountZero, InvIsAgreement DEF Agrees
  <2>3. n \in NamesOf(o, a) <=> a = old
    BY <1>1 DEF NamesOf
  <2>4. marks[p]' = IF p = o THEN UnrefKnown(marks[o], old) ELSE marks[p]
    BY <1>1, <1>2 DEF BookTypeOK
  <2>5. CASE p # o \/ a # old
    <3>1. NamesOf(p, a)' = NamesOf(p, a)
      BY <2>1, <2>3, <2>5
    <3>2. /\ marks[p]'.refs[a] = marks[p].refs[a]
          /\ a \in marks[p]'.known <=> a \in marks[p].known
      BY <1>1, <1>3, <2>4, <2>5 DEF UnrefKnown, Marks
    <3> QED
      BY <2>2, <3>1, <3>2 DEF Agrees
  <2>6. CASE p = o /\ a = old
    <3>1. /\ Cardinality(NamesOf(p, a)') = Cardinality(NamesOf(p, a)) - 1
          /\ IsFiniteSet(NamesOf(p, a)')
          /\ marks[p].refs[a] # 0
      BY <2>1, <2>2, <2>3, <2>6, NamesOfFinite, NameLeaves
    <3>2. Cardinality(NamesOf(p, a)') = 0 <=> NamesOf(p, a)' = {}
      BY <3>1, FS_EmptySet
    <3>3. /\ marks[p]'.refs[a] = marks[p].refs[a] - 1
          /\ a \in marks[p]'.known <=> marks[p].refs[a] # 1
      BY <1>3, <2>2, <2>4, <2>6, <3>1 DEF UnrefKnown, Marks
    <3> QED
      BY <2>2, <3>1, <3>2, <3>3 DEF Agrees
  <2> QED
    BY <2>5, <2>6
<1> QED
  BY <1>4, <1>5, AgreementSuffices

\* The entries keep their types, whether or not they agree.
LEMMA BookStepKeepsType == BookTypeOK /\ BookNext => BookTypeOK'
<1> SUFFICES ASSUME BookTypeOK, BookNext PROVE BookTypeOK'
  OBVIOUS
<1>1. ASSUME NEW m \in Marks, NEW a \in Addrs
      PROVE  RefKnown(m, a) \in Marks /\ UnrefKnown(m, a) \in Marks
  BY <1>1 DEF Marks, RefKnown, UnrefKnown
<1>2. ASSUME NEW o \in Owners, NEW n \in Names, NEW to \in Addrs, SetAlias(o, n, to)
      PROVE  BookTypeOK'
  <2>1. Repoint(marks[o], alias[o][n], to) \in Marks
    BY <1>1 DEF BookTypeOK, Repoint
  <2> QED
    BY <1>2, <2>1 DEF SetAlias, BookTypeOK
<1>3. ASSUME NEW o \in Owners, NEW n \in Names, RemoveAlias(o, n)
      PROVE  BookTypeOK'
  <2>1. UnrefKnown(marks[o], alias[o][n]) \in Marks
    BY <1>1, <1>3 DEF BookTypeOK, RemoveAlias
  <2> QED
    BY <1>3, <2>1 DEF RemoveAlias, BookTypeOK
<1> QED
  BY <1>2, <1>3 DEF BookNext

\* Every step of the book keeps the invariant.
LEMMA BookStepPreserves == BookInv /\ [BookNext]_bookVars => BookInv'
<1> SUFFICES ASSUME BookInv, [BookNext]_bookVars PROVE BookInv'
  OBVIOUS
<1>1. CASE UNCHANGED bookVars
  BY <1>1 DEF bookVars, BookInv, BookTypeOK, RefsCountAliases, KnownIffAliased,
              NamesOf, IsKnownRecipient
<1>2. CASE BookNext
  <2>1. ASSUME NEW o \in Owners, NEW n \in Names, NEW to \in Addrs, SetAlias(o, n, to)
        PROVE  BookInv'
    BY <2>1, SetAliasPreserves
  <2>2. ASSUME NEW o \in Owners, NEW n \in Names, RemoveAlias(o, n)
        PROVE  BookInv'
    BY <2>2, RemoveAliasPreserves
  <2> QED
    BY <1>2, <2>1, <2>2 DEF BookNext
<1> QED
  BY <1>1, <1>2

-----------------------------------------------------------------------------

\* The book is well formed and its three entries agree in every reachable
\* state: BookInv is inductive as it stands.
THEOREM BookInvariant == BookSpec => []BookInv
<1>1. BookInit => BookInv
  BY BookInitEstablishes
<1>2. BookInv /\ [BookNext]_bookVars => BookInv'
  BY BookStepPreserves
<1> QED
  BY <1>1, <1>2, PTL DEF BookSpec

\* A reference count never drifts from the number of names it stands for, in
\* any sequence of set_alias and remove_alias calls.
THEOREM RefcountsExact == BookSpec => []RefsCountAliases
<1>1. BookInv => RefsCountAliases
  BY DEF BookInv
<1> QED
  BY <1>1, BookInvariant, PTL

\* The marker that lets the agent pay an address without the owner's approval
\* is there exactly while a name of the owner resolves to the address.
THEOREM MarkersExact == BookSpec => []KnownIffAliased
<1>1. BookInv => KnownIffAliased
  BY DEF BookInv
<1> QED
  BY <1>1, BookInvariant, PTL


-----------------------------------------------------------------------------
(* Days, sequences and outcomes.                                            *)

\* Days are numbers, and a later second is of the same day or a later one.
LEMMA DaysPass ==
    ASSUME NEW s \in Nat, NEW t \in Nat, s <= t, NEW d \in Nat \ {0}
    PROVE  s \div d \in Nat /\ t \div d \in Nat /\ s \div d <= t \div d
OBVIOUS

\* Taking an element out of a sequence leaves a sequence over the same set.
LEMMA RemoveAtType ==
    ASSUME NEW S, NEW s \in Seq(S), NEW i \in 1 .. Len(s)
    PROVE  RemoveAt(s, i) \in Seq(S)
<1>1. SubSeq(s, 1, i - 1) \in Seq(S)
  OBVIOUS
<1>2. SubSeq(s, i + 1, Len(s)) \in Seq(S)
  OBVIOUS
<1> QED
  BY <1>1, <1>2 DEF RemoveAt

\* A chain of checks succeeds when each does.
LEMMA ThenOk ==
    ASSUME NEW a, NEW b
    PROVE  Then(a, b) = Ok <=> a = Ok /\ b = Ok
BY DEF Then

\* A rule as stored: what every payment may rely on once LoadRule passes.
LEMMA LoadRuleOk ==
    ASSUME PolicyTypeOK, NEW o \in Owners, LoadRule(o) = Ok
    PROVE  rule[o] \in Rule
BY DEF PolicyTypeOK, LoadRule, FailIf, Ok

\* What a payment within the hard caps satisfies.
LEMMA HardCapsOk ==
    ASSUME NEW o, NEW amount \in Int, rule[o] \in Rule, ReadSpend(o) \in Int,
           CheckHardCaps(o, amount) = Ok
    PROVE  /\ amount > 0
           /\ amount <= rule[o].per_tx_limit
           /\ ReadSpend(o) + amount <= rule[o].daily_limit
BY DEF CheckHardCaps, Then, FailIf, Ok, Rule

-----------------------------------------------------------------------------
(* The inductive invariant.  CounterMatchesDebits is not inductive alone: a  *)
(* counter stamped with a day to come would turn current at that midnight.   *)

GuardInv == TypeOK /\ CounterDayIsPast /\ CounterMatchesDebits

MoneyInv == MoneyTypeOK /\ CounterDayIsPast /\ CounterMatchesDebits

\* Days and what the counter reads are numbers.
LEMMA MoneyNumbers ==
    ASSUME MoneyTypeOK, now \in Nat
    PROVE  /\ Today \in Nat
           /\ \A o \in Owners : ReadSpend(o) \in Int
<1>1. Today \in Nat
  BY DaysPass, GuardAssumption DEF Today
<1> QED
  BY <1>1 DEF MoneyTypeOK, ReadSpend

\* The common part of the three payment paths: the counter and the token move
\* together.
LEMMA PaymentPreserves ==
    ASSUME MoneyInv, now \in Nat, now' = now,
           NEW o \in Owners, NEW asset \in Assets, NEW amount \in Int, amount > 0,
           CheckAllowance(o, asset, amount) = Ok,
           RecordSpend(o, amount), Settle(o, asset, amount)
    PROVE  MoneyInv'
<1>1. Today \in Nat /\ ReadSpend(o) \in Int /\ Today' = Today
  BY MoneyNumbers DEF MoneyInv, Today
<1>2. amount <= allowance[o][asset]
  BY DEF CheckAllowance, FailIf, Ok, MoneyInv, MoneyTypeOK
<1>3. spent' = [spent EXCEPT ![o] = [day |-> Today, amount |-> ReadSpend(o) + amount]]
  BY DEF RecordSpend
<1>4. /\ allowance' = [allowance EXCEPT ![o][asset] = @ - amount]
      /\ debited' = [debited EXCEPT ![o] = @ + amount]
  BY DEF Settle
<1>5. MoneyTypeOK'
  BY <1>1, <1>2, <1>3, <1>4 DEF MoneyInv, MoneyTypeOK
<1>6. CounterDayIsPast'
  BY <1>1, <1>3 DEF MoneyInv, MoneyTypeOK, CounterDayIsPast
<1>7. CounterMatchesDebits'
  BY <1>1, <1>3, <1>4 DEF MoneyInv, MoneyTypeOK, CounterMatchesDebits, ReadSpend
<1> QED
  BY <1>5, <1>6, <1>7 DEF MoneyInv

\* A step that leaves the counter, the token and the clock alone.
LEMMA MoneyUntouched ==
    ASSUME MoneyInv, UNCHANGED <<moneyVars, now>>
    PROVE  MoneyInv'
BY DEF MoneyInv, MoneyTypeOK, CounterDayIsPast, CounterMatchesDebits, ReadSpend, Today,
       moneyVars

\* The clock: on the same day nothing changes, and a new day finds the counter
\* stale and nothing moved yet.
LEMMA TickPreserves ==
    ASSUME MoneyInv, now \in Nat, Tick
    PROVE  MoneyInv' /\ now' \in Nat
<1>1. PICK t \in (now + 1) .. MaxTime : now' = t
  BY DEF Tick
<1>2. /\ now' \in Nat /\ Today \in Nat /\ Today' \in Nat /\ Today <= Today'
      /\ Today' = now' \div DAY_SECS
  BY <1>1, DaysPass, GuardAssumption DEF Today
<1>3. /\ spent' = spent /\ allowance' = allowance
      /\ debited' = IF Today' = Today THEN debited ELSE [o \in Owners |-> 0]
  BY <1>2 DEF Tick
<1>4. MoneyTypeOK'
  BY <1>3 DEF MoneyInv, MoneyTypeOK
<1>5. CounterDayIsPast'
  BY <1>2, <1>3 DEF MoneyInv, MoneyTypeOK, CounterDayIsPast
<1>6. ASSUME NEW o \in Owners
      PROVE  ReadSpend(o)' = debited'[o]
  <2>1. CASE Today' = Today
    BY <1>3, <2>1 DEF MoneyInv, CounterMatchesDebits, ReadSpend
  <2>2. CASE Today' # Today
    <3>1. spent[o].day \in Nat /\ spent[o].day <= Today
      BY DEF MoneyInv, MoneyTypeOK, CounterDayIsPast
    <3> QED
      BY <1>2, <1>3, <2>2, <3>1 DEF ReadSpend
  <2> QED
    BY <2>1, <2>2
<1>7. CounterMatchesDebits'
  BY <1>6 DEF CounterMatchesDebits
<1> QED
  BY <1>2, <1>4, <1>5, <1>7 DEF MoneyInv

-----------------------------------------------------------------------------
(* The standing orders keep their types.                                    *)

\* Leaving the index keeps it a sequence of ids.
LEMMA DeindexType ==
    ASSUME OrdersTypeOK, NEW o \in Owners, NEW id \in Ids, Deindex(o, id)
    PROVE  ownerScheds' \in [Owners -> Seq(Ids)]
<1>1. CASE UNCHANGED ownerScheds
  BY <1>1 DEF OrdersTypeOK
<1>2. ASSUME NEW i \in 1 .. Len(ownerScheds[o]),
             ownerScheds' = [ownerScheds EXCEPT ![o] = RemoveAt(ownerScheds[o], i)]
      PROVE  ownerScheds' \in [Owners -> Seq(Ids)]
  <2>1. RemoveAt(ownerScheds[o], i) \in Seq(Ids)
    BY RemoveAtType DEF OrdersTypeOK
  <2> QED
    BY <1>2, <2>1 DEF OrdersTypeOK
<1> QED
  BY <1>1, <1>2 DEF Deindex

\* create_schedule hands out an id there is room for.
LEMMA CreateKeepsOrderTypes ==
    ASSUME TypeOK, NEW o \in Owners, NEW asset \in Assets, NEW amount \in Int,
           NEW first \in Nat, NEW interval \in Nat, NEW runs \in Nat,
           CreateSchedule(o, asset, amount, first, interval, runs)
    PROVE  OrdersTypeOK'
<1> DEFINE s == [owner |-> o, asset |-> asset, amount |-> amount, next_run_at |-> first,
                 interval_secs |-> interval, runs_left |-> runs, active |-> TRUE]
<1>1. nextSchedId + 1 <= U32Max
  BY GuardAssumption, ThenOk DEF CreateSchedule, CreateScheduleOutcome, FailIf, Ok,
     TypeOK, OrdersTypeOK
<1>2. nextSchedId \in Ids /\ nextSchedId + 1 \in Nat \ {0}
  BY <1>1, GuardAssumption DEF TypeOK, OrdersTypeOK, Ids
<1>3. s \in Schedule
  BY DEF Schedule
<1>4. schedule' = [schedule EXCEPT ![nextSchedId] = s]
  BY DEF CreateSchedule
<1>5. schedule' \in [Ids -> Schedule \cup {Null}]
  BY <1>2, <1>3, <1>4 DEF TypeOK, OrdersTypeOK
<1>6. ownerScheds' \in [Owners -> Seq(Ids)]
  <2>1. Append(ownerScheds[o], nextSchedId) \in Seq(Ids)
    BY <1>2 DEF TypeOK, OrdersTypeOK
  <2> QED
    BY <2>1 DEF CreateSchedule, TypeOK, OrdersTypeOK
<1>7. orders' \in [Ids -> [first : Nat, runs : Nat, ranAt : SUBSET Nat]]
  BY <1>2 DEF CreateSchedule, TypeOK, OrdersTypeOK
<1> QED
  BY <1>2, <1>5, <1>6, <1>7 DEF CreateSchedule, OrdersTypeOK

\* cancel_schedule only clears the flag.
LEMMA CancelKeepsOrderTypes ==
    ASSUME TypeOK, NEW o \in Owners, NEW id \in Ids, CancelSchedule(o, id)
    PROVE  OrdersTypeOK'
<1>1. schedule[id] \in Schedule
  BY ThenOk DEF CancelSchedule, CancelScheduleOutcome, LoadSchedule, FailIf, Ok,
     TypeOK, OrdersTypeOK
<1>2. schedule' \in [Ids -> Schedule \cup {Null}]
  <2>1. [schedule[id] EXCEPT !.active = FALSE] \in Schedule
    BY <1>1 DEF Schedule
  <2>2. schedule' = [schedule EXCEPT ![id] = [schedule[id] EXCEPT !.active = FALSE]]
    BY DEF CancelSchedule
  <2> QED
    BY <2>1, <2>2 DEF TypeOK, OrdersTypeOK
<1>3. ownerScheds' \in [Owners -> Seq(Ids)]
  BY DeindexType DEF CancelSchedule, TypeOK
<1> QED
  BY <1>2, <1>3 DEF CancelSchedule, TypeOK, OrdersTypeOK

\* What a successful execute_schedule call has checked.
LEMMA ExecuteChecked ==
    ASSUME TypeOK, NEW id \in Ids, ExecuteScheduleOutcome(id) = Ok
    PROVE  /\ schedule[id] \in Schedule
           /\ schedule[id].active
           /\ schedule[id].next_run_at <= now
           /\ schedule[id].runs_left >= 1
           /\ LoadRule(schedule[id].owner) = Ok
           /\ CheckHardCaps(schedule[id].owner, schedule[id].amount) = Ok
           /\ CheckAllowance(schedule[id].owner, schedule[id].asset, schedule[id].amount) = Ok
<1> DEFINE s == schedule[id]
<1>1. /\ LoadSchedule(id) = Ok
      /\ FailIf(~s.active, "ScheduleInactive") = Ok
      /\ FailIf(now < s.next_run_at, "ScheduleNotDue") = Ok
      /\ LoadRule(s.owner) = Ok
      /\ CheckHardCaps(s.owner, s.amount) = Ok
      /\ FailIf(s.runs_left = 0, "Overflow") = Ok
      /\ CheckAllowance(s.owner, s.asset, s.amount) = Ok
  BY ThenOk DEF ExecuteScheduleOutcome
<1>2. s \in Schedule
  BY <1>1 DEF LoadSchedule, FailIf, Ok, TypeOK, OrdersTypeOK
<1> QED
  BY <1>1, <1>2 DEF FailIf, Ok, Schedule, TypeOK

\* The next slot is a time, and it is after now: the doc of execute_schedule.
LEMMA NextSlotIsAhead ==
    ASSUME now \in Nat, NEW s \in Schedule, s.next_run_at <= now, s.interval_secs # 0
    PROVE  NextSlot(s) \in Nat /\ NextSlot(s) > now
<1> DEFINE late == now - s.next_run_at
           every == s.interval_secs
<1>1. late \in Nat /\ every \in Nat \ {0} /\ s.next_run_at \in Nat
  BY DEF Schedule
<1>2. (late \div every + 1) * every \in Nat /\ (late \div every + 1) * every > late
  BY <1>1
<1>3. NextSlot(s) = s.next_run_at + (late \div every + 1) * every
  BY DEF NextSlot
<1> QED
  BY <1>1, <1>2, <1>3

\* execute_schedule spends one run and moves the order to a slot ahead.
LEMMA ExecuteKeepsOrderTypes ==
    ASSUME TypeOK, NEW id \in Ids, ExecuteSchedule(id)
    PROVE  OrdersTypeOK'
<1> DEFINE s == schedule[id]
<1>1. s \in Schedule /\ s.next_run_at <= now /\ s.runs_left >= 1
  BY ExecuteChecked DEF ExecuteSchedule
<1>2. AfterRun(s) \in Schedule
  <2>1. s.runs_left - 1 \in Nat /\ (~IsLastRun(s)) \in BOOLEAN
    BY <1>1 DEF Schedule
  <2>2. (IF IsLastRun(s) THEN s.next_run_at ELSE NextSlot(s)) \in Nat
    BY <1>1, NextSlotIsAhead DEF TypeOK, IsLastRun, Schedule
  <2> QED
    BY <1>1, <2>1, <2>2 DEF AfterRun, Schedule
<1>3. schedule' \in [Ids -> Schedule \cup {Null}]
  BY <1>2 DEF ExecuteSchedule, TypeOK, OrdersTypeOK
<1>4. ownerScheds' \in [Owners -> Seq(Ids)]
  <2>1. CASE IsLastRun(s)
    BY <1>1, <2>1, DeindexType DEF ExecuteSchedule, TypeOK, Schedule
  <2>2. CASE ~IsLastRun(s)
    BY <2>2 DEF ExecuteSchedule, TypeOK, OrdersTypeOK
  <2> QED
    BY <2>1, <2>2
<1>5. orders' \in [Ids -> [first : Nat, runs : Nat, ranAt : SUBSET Nat]]
  BY DEF ExecuteSchedule, TypeOK, OrdersTypeOK
<1> QED
  BY <1>3, <1>4, <1>5 DEF ExecuteSchedule, TypeOK, OrdersTypeOK

-----------------------------------------------------------------------------
(* The three payment paths, reduced to what they have in common.            *)

\* A payment of the amount by o within the rule, checked against the counter.
Pays(o, asset, amount) ==
    /\ rule[o] \in Rule
    /\ amount > 0
    /\ ReadSpend(o) + amount <= rule[o].daily_limit
    /\ CheckAllowance(o, asset, amount) = Ok
    /\ RecordSpend(o, amount)
    /\ Settle(o, asset, amount)
    /\ UNCHANGED <<rule, now>>

LEMMA PayOwnerPays ==
    ASSUME TypeOK, NEW o \in Owners, NEW asset \in Assets, NEW amount \in Int,
           PayOwner(o, asset, amount)
    PROVE  Pays(o, asset, amount)
<1>1. /\ LoadRule(o) = Ok
      /\ CheckHardCaps(o, amount) = Ok
      /\ CheckAllowance(o, asset, amount) = Ok
  BY ThenOk DEF PayOwner, PayOwnerOutcome
<1> QED
  BY <1>1, LoadRuleOk, HardCapsOk, MoneyNumbers DEF PayOwner, Pays, TypeOK, ruleVars

LEMMA PayExecutorPays ==
    ASSUME TypeOK, NEW e, NEW o \in Owners, NEW to, NEW asset \in Assets,
           NEW amount \in Int, PayExecutor(e, o, to, asset, amount)
    PROVE  Pays(o, asset, amount)
<1>1. /\ LoadRule(o) = Ok
      /\ CheckHardCaps(o, amount) = Ok
      /\ CheckAllowance(o, asset, amount) = Ok
  BY ThenOk DEF PayExecutor, PayExecutorOutcome
<1> QED
  BY <1>1, LoadRuleOk, HardCapsOk, MoneyNumbers DEF PayExecutor, Pays, TypeOK, ruleVars

LEMMA ExecuteSchedulePays ==
    ASSUME TypeOK, NEW id \in Ids, ExecuteSchedule(id)
    PROVE  \E o \in Owners, asset \in Assets, amount \in Int : Pays(o, asset, amount)
<1> DEFINE s == schedule[id]
<1>1. /\ s.owner \in Owners /\ s.asset \in Assets /\ s.amount \in Int
      /\ LoadRule(s.owner) = Ok
      /\ CheckHardCaps(s.owner, s.amount) = Ok
      /\ CheckAllowance(s.owner, s.asset, s.amount) = Ok
  BY ExecuteChecked DEF ExecuteSchedule, Schedule
<1>2. rule[s.owner] \in Rule /\ ReadSpend(s.owner) \in Int
  BY <1>1, LoadRuleOk, MoneyNumbers DEF TypeOK
<1>3. /\ s.amount > 0
      /\ ReadSpend(s.owner) + s.amount <= rule[s.owner].daily_limit
  BY <1>1, <1>2, HardCapsOk
<1>4. Pays(s.owner, s.asset, s.amount)
  BY <1>1, <1>2, <1>3 DEF ExecuteSchedule, Pays, ruleVars
<1> QED
  BY <1>1, <1>4

\* A payment keeps the counter with the money, and is a Spend of the budget.
LEMMA PaysKeepsMoney ==
    ASSUME MoneyInv, now \in Nat, NEW o \in Owners, NEW asset \in Assets, NEW amount \in Int,
           Pays(o, asset, amount)
    PROVE  MoneyInv' /\ now' \in Nat
BY PaymentPreserves DEF Pays

LEMMA PaysIsSpend ==
    ASSUME GuardInv, NEW o \in Owners, NEW asset \in Assets, NEW amount \in Int,
           Pays(o, asset, amount)
    PROVE  Budget!Spend(o)
<1>1. /\ debited \in [Owners -> Nat]
      /\ debited' = [debited EXCEPT ![o] = @ + amount]
      /\ ReadSpend(o) = debited[o]
      /\ rule[o] \in Rule /\ rule[o] # Null /\ rule' = rule
      /\ amount > 0 /\ ReadSpend(o) + amount <= rule[o].daily_limit
  BY GuardAssumption DEF GuardInv, TypeOK, MoneyTypeOK, CounterMatchesDebits, Pays, Settle
<1>2. debited'[o] = debited[o] + amount /\ debited[o] \in Nat
  BY <1>1
<1>3. debited'[o] > debited[o] /\ debited'[o] <= rule[o].daily_limit
  BY <1>1, <1>2
<1> QED
  BY <1>1, <1>3 DEF Budget!Spend

-----------------------------------------------------------------------------
(* Every step keeps the invariant and is a step of the budget.               *)

LEMMA InitEstablishes == Init => GuardInv
<1> SUFFICES ASSUME Init PROVE GuardInv
  OBVIOUS
<1>1. BookTypeOK
  BY BookInitEstablishes DEF Init, BookInv
<1>2. PolicyTypeOK
  BY <1>1 DEF Init, PolicyTypeOK
<1>3. OrdersTypeOK
  BY DEF Init, OrdersTypeOK
<1>4. MoneyTypeOK
  BY DEF Init, MoneyTypeOK
<1>5. Today \in Nat
  BY <1>4, MoneyNumbers DEF Init
<1>6. CounterDayIsPast /\ CounterMatchesDebits
  BY <1>5 DEF Init, CounterDayIsPast, CounterMatchesDebits, ReadSpend
<1> QED
  BY <1>2, <1>3, <1>4, <1>6 DEF Init, GuardInv, TypeOK

LEMMA StepPreserves == GuardInv /\ [Next]_vars => GuardInv'
<1> SUFFICES ASSUME GuardInv, [Next]_vars PROVE GuardInv'
  OBVIOUS
<1> USE DEF GuardInv
<1>1. TypeOK /\ PolicyTypeOK /\ OrdersTypeOK /\ BookTypeOK /\ MoneyInv /\ now \in Nat
  BY DEF TypeOK, PolicyTypeOK, MoneyInv
<1>2. ASSUME PolicyTypeOK', OrdersTypeOK', MoneyInv', now' \in Nat
      PROVE  GuardInv'
  BY <1>2 DEF TypeOK, MoneyInv
<1>3. ASSUME UNCHANGED <<moneyVars, now>>
      PROVE  MoneyInv' /\ now' \in Nat
  BY <1>1, <1>3, MoneyUntouched
<1>4. ASSUME UNCHANGED <<bookVars, ruleVars>>
      PROVE  PolicyTypeOK'
  BY <1>1, <1>4 DEF PolicyTypeOK, BookTypeOK, bookVars, ruleVars
<1>5. ASSUME UNCHANGED scheduleVars
      PROVE  OrdersTypeOK'
  BY <1>1, <1>5 DEF OrdersTypeOK, scheduleVars
<1>6. CASE UNCHANGED vars
  BY <1>2, <1>3, <1>4, <1>5, <1>6 DEF vars
<1>7. ASSUME NEW o \in Owners, NEW r \in RuleChoices, SetRule(o, r)
      PROVE  GuardInv'
  <2>1. PolicyTypeOK'
    BY <1>1, <1>7, GuardAssumption DEF SetRule, PolicyTypeOK, BookTypeOK, bookVars
  <2> QED
    BY <1>2, <1>3, <1>5, <1>7, <2>1 DEF SetRule
<1>8. ASSUME NEW o \in Owners, NEW e \in Executors, SetExecutor(o, e)
      PROVE  GuardInv'
  <2>1. PolicyTypeOK'
    BY <1>1, <1>8 DEF SetExecutor, PolicyTypeOK, BookTypeOK, bookVars
  <2> QED
    BY <1>2, <1>3, <1>5, <1>8, <2>1 DEF SetExecutor
<1>9. ASSUME NEW o \in Owners, RevokeExecutor(o)
      PROVE  GuardInv'
  <2>1. PolicyTypeOK'
    BY <1>1, <1>9 DEF RevokeExecutor, PolicyTypeOK, BookTypeOK, bookVars
  <2> QED
    BY <1>2, <1>3, <1>5, <1>9, <2>1 DEF RevokeExecutor
<1>10. ASSUME NEW o \in Owners, NEW id \in Ids, CancelSchedule(o, id)
       PROVE  GuardInv'
  <2>1. OrdersTypeOK'
    BY <1>1, <1>10, CancelKeepsOrderTypes
  <2> QED
    BY <1>2, <1>3, <1>4, <1>10, <2>1 DEF CancelSchedule
<1>11. ASSUME NEW o \in Owners, NEW asset \in Assets, NEW amount \in Amounts,
              PayOwner(o, asset, amount)
       PROVE  GuardInv'
  <2>1. MoneyInv' /\ now' \in Nat
    BY <1>1, <1>11, PayOwnerPays, PaysKeepsMoney, GuardAssumption
  <2> QED
    BY <1>2, <1>4, <1>5, <1>11, <2>1 DEF PayOwner
<1>12. ASSUME NEW o \in Owners, NEW asset \in Assets, NEW amount \in Amounts,
              NEW first \in StartTimes, NEW interval \in Intervals, NEW runs \in RunCounts,
              CreateSchedule(o, asset, amount, first, interval, runs)
       PROVE  GuardInv'
  <2>1. OrdersTypeOK'
    BY <1>1, <1>12, CreateKeepsOrderTypes, GuardAssumption
  <2> QED
    BY <1>2, <1>3, <1>4, <1>12, <2>1 DEF CreateSchedule
<1>13. CASE ChangeBook
  <2>1. PolicyTypeOK'
    <3>1. BookTypeOK'
      BY <1>1, <1>13, BookStepKeepsType DEF ChangeBook
    <3> QED
      BY <1>1, <1>13, <3>1 DEF ChangeBook, PolicyTypeOK, ruleVars
  <2> QED
    BY <1>2, <1>3, <1>5, <1>13, <2>1 DEF ChangeBook
<1>14. ASSUME NEW e \in Executors, NEW o \in Owners, NEW to \in Addrs, NEW asset \in Assets,
              NEW amount \in Amounts, PayExecutor(e, o, to, asset, amount)
       PROVE  GuardInv'
  <2>1. MoneyInv' /\ now' \in Nat
    BY <1>1, <1>14, PayExecutorPays, PaysKeepsMoney, GuardAssumption
  <2> QED
    BY <1>2, <1>4, <1>5, <1>14, <2>1 DEF PayExecutor
<1>15. ASSUME NEW id \in Ids, ExecuteSchedule(id)
       PROVE  GuardInv'
  <2>1. MoneyInv' /\ now' \in Nat
    BY <1>1, <1>15, ExecuteSchedulePays, PaysKeepsMoney
  <2>2. OrdersTypeOK'
    BY <1>1, <1>15, ExecuteKeepsOrderTypes
  <2> QED
    BY <1>2, <1>4, <1>15, <2>1, <2>2 DEF ExecuteSchedule
<1>16. ASSUME NEW o \in Owners, NEW asset \in Assets, NEW amount \in AllowanceChoices,
              Approve(o, asset, amount)
       PROVE  GuardInv'
  <2>1. MoneyInv'
    BY <1>1, <1>16, GuardAssumption DEF Approve, MoneyInv, MoneyTypeOK, CounterDayIsPast,
       CounterMatchesDebits, ReadSpend, Today
  <2> QED
    BY <1>1, <1>2, <1>4, <1>5, <1>16, <2>1 DEF Approve
<1>17. CASE Tick
  <2>1. MoneyInv' /\ now' \in Nat
    BY <1>1, <1>17, TickPreserves
  <2> QED
    BY <1>2, <1>4, <1>5, <1>17, <2>1 DEF Tick
<1> QED
  BY <1>6, <1>7, <1>8, <1>9, <1>10, <1>11, <1>12, <1>13, <1>14, <1>15, <1>16, <1>17
  DEF Next, OwnerCall, AgentCall, KeeperCall, TokenCall

-----------------------------------------------------------------------------

\* The guard's state is well formed in every reachable state; in particular the
\* token is never asked for more than its allowance, whichever path pays.
THEOREM TypeCorrect == Spec => []TypeOK
<1>1. GuardInv => TypeOK
  BY DEF GuardInv
<1> QED
  BY <1>1, InitEstablishes, StepPreserves, PTL DEF Spec

\* What the guard counts is what has left the account since midnight, for every
\* owner, path, amount and length of day.
THEOREM CounterExact == Spec => []CounterMatchesDebits
<1>1. GuardInv => CounterMatchesDebits
  BY DEF GuardInv
<1> QED
  BY <1>1, InitEstablishes, StepPreserves, PTL DEF Spec

LEMMA InitIsBudgetInit == Init => Budget!BudgetInit
BY DEF Init, Budget!BudgetInit

\* A payment is a Spend of its owner, a rule a SetLimit, a new day a Midnight;
\* every other call leaves limits and money alone.
LEMMA StepIsBudgetStep ==
    GuardInv /\ [Next]_vars => [Budget!BudgetNext]_(Budget!budgetVars)
<1> SUFFICES ASSUME GuardInv, [Next]_vars
             PROVE  [Budget!BudgetNext]_(Budget!budgetVars)
  OBVIOUS
<1>1. TypeOK /\ PolicyTypeOK /\ now \in Nat
  BY DEF GuardInv, TypeOK
<1>2. ASSUME UNCHANGED <<rule, debited>>
      PROVE  UNCHANGED Budget!budgetVars
  BY <1>2 DEF Budget!budgetVars
<1>3. ASSUME NEW o \in Owners, NEW asset \in Assets, NEW amount \in Int,
             Pays(o, asset, amount)
      PROVE  Budget!BudgetNext
  BY <1>3, PaysIsSpend DEF Budget!BudgetNext
<1>4. CASE UNCHANGED vars
  BY <1>2, <1>4 DEF vars, ruleVars, moneyVars
<1>5. ASSUME NEW o \in Owners, NEW r \in RuleChoices, SetRule(o, r)
      PROVE  Budget!SetLimit(o)
  <2>1. r \in Rule /\ r # Null /\ r.daily_limit \in Nat
    BY <1>5, GuardAssumption DEF SetRule, ValidRule, Rule
  <2>2. /\ rule' = [rule EXCEPT ![o] = r] /\ rule \in [Owners -> Rule \cup {Null}]
        /\ debited' = debited
    BY <1>1, <1>5 DEF SetRule, PolicyTypeOK, moneyVars
  <2> QED
    BY <2>1, <2>2 DEF Budget!SetLimit
<1>6. ASSUME NEW o \in Owners, NEW e \in Executors, SetExecutor(o, e)
      PROVE  UNCHANGED Budget!budgetVars
  BY <1>2, <1>6 DEF SetExecutor, moneyVars
<1>7. ASSUME NEW o \in Owners, RevokeExecutor(o)
      PROVE  UNCHANGED Budget!budgetVars
  BY <1>2, <1>7 DEF RevokeExecutor, moneyVars
<1>8. ASSUME NEW o \in Owners, NEW id \in Ids, CancelSchedule(o, id)
      PROVE  UNCHANGED Budget!budgetVars
  BY <1>2, <1>8 DEF CancelSchedule, ruleVars, moneyVars
<1>9. ASSUME NEW o \in Owners, NEW asset \in Assets, NEW amount \in Amounts,
             PayOwner(o, asset, amount)
      PROVE  Budget!BudgetNext
  BY <1>1, <1>3, <1>9, PayOwnerPays, GuardAssumption
<1>10. ASSUME NEW o \in Owners, NEW asset \in Assets, NEW amount \in Amounts,
              NEW first \in StartTimes, NEW interval \in Intervals, NEW runs \in RunCounts,
              CreateSchedule(o, asset, amount, first, interval, runs)
       PROVE  UNCHANGED Budget!budgetVars
  BY <1>2, <1>10 DEF CreateSchedule, ruleVars, moneyVars
<1>11. CASE ChangeBook
  BY <1>2, <1>11 DEF ChangeBook, ruleVars, moneyVars
<1>12. ASSUME NEW e \in Executors, NEW o \in Owners, NEW to \in Addrs, NEW asset \in Assets,
              NEW amount \in Amounts, PayExecutor(e, o, to, asset, amount)
       PROVE  Budget!BudgetNext
  BY <1>1, <1>3, <1>12, PayExecutorPays, GuardAssumption
<1>13. ASSUME NEW id \in Ids, ExecuteSchedule(id)
       PROVE  Budget!BudgetNext
  BY <1>1, <1>3, <1>13, ExecuteSchedulePays
<1>14. ASSUME NEW o \in Owners, NEW asset \in Assets, NEW amount \in AllowanceChoices,
              Approve(o, asset, amount)
       PROVE  UNCHANGED Budget!budgetVars
  BY <1>2, <1>14 DEF Approve, ruleVars
<1>15. CASE Tick
  <2>1. rule' = rule /\ (debited' = debited \/ debited' = [o \in Owners |-> 0])
    BY <1>15 DEF Tick, ruleVars
  <2> QED
    BY <1>2, <2>1 DEF Budget!BudgetNext, Budget!Midnight
<1> QED
  BY <1>4, <1>5, <1>6, <1>7, <1>8, <1>9, <1>10, <1>11, <1>12, <1>13, <1>14, <1>15
  DEF Next, OwnerCall, AgentCall, KeeperCall, TokenCall, Budget!BudgetNext

\* The guard implements the daily budget: no interleaving of the owner, the
\* agent and the keepers, and no change of the rule, moves more than the limit
\* in force between two midnights.
THEOREM GuardImplementsBudget == Spec => ImplementsBudget
BY InitEstablishes, StepPreserves, InitIsBudgetInit, StepIsBudgetStep, PTL
   DEF Spec, ImplementsBudget, Budget!BudgetSpec

\* Payments and standing orders do not touch the alias book: inside the guard it
\* behaves as it does on its own.
LEMMA GuardStepIsBookStep == [Next]_vars => [BookNext]_bookVars
BY DEF Next, OwnerCall, AgentCall, KeeperCall, TokenCall, vars, SetRule, SetExecutor,
       RevokeExecutor, CancelSchedule, PayOwner, CreateSchedule, ChangeBook, PayExecutor,
       ExecuteSchedule, Approve, Tick

\* So pay_executor's test for a known recipient reads an exact marker.
THEOREM GuardMarkersExact == Spec => []KnownIffAliased
<1>1. Init => BookInit
  BY DEF Init
<1>2. Spec => BookSpec
  BY <1>1, GuardStepIsBookStep, PTL DEF Spec, BookSpec
<1> QED
  BY <1>2, MarkersExact, PTL

\* "Ask the owner" is the last thing pay_executor says: every rule that pay_owner has was
\* tried before it, so a signature can indeed answer it, whatever the rule and the spend.
THEOREM EscalationAnswerable == Spec => []EscalationIsAnswerable
<1>1. ASSUME NEW o \in Owners, NEW e \in Executors, NEW to \in Addrs, NEW asset \in Assets,
             NEW amount \in Amounts,
             PayExecutorOutcome(e, o, to, asset, amount) = "NeedsOwnerApproval"
      PROVE  PayOwnerOutcome(o, asset, amount) \in {Ok, "InsufficientAllowance"}
  <2>1. LoadRule(o) = Ok /\ CheckHardCaps(o, amount) = Ok
    BY <1>1 DEF PayExecutorOutcome, CheckExecutor, LoadRule, CheckAsset, CheckHardCaps,
       CheckUnattended, CheckAllowance, Then, FailIf, Ok
  <2>2. PayOwnerOutcome(o, asset, amount) = CheckAllowance(o, asset, amount)
    BY <2>1 DEF PayOwnerOutcome, Then
  <2> QED
    BY <2>2 DEF CheckAllowance, FailIf
<1>2. EscalationIsAnswerable
  BY <1>1 DEF EscalationIsAnswerable
<1> QED
  BY <1>2, PTL

-----------------------------------------------------------------------------
(* Standing orders: an ended order is final, every run is accounted for, no *)
(* slot is paid twice, the owner's index lists exactly the active orders,   *)
(* and a sweep over the pages of list_due meets every one that is due.      *)

(* The inductive invariant.                                                 *)

\* Only ids that were handed out name an order.
FreshIds == \A id \in Ids : schedule[id] # Null => id < nextSchedId

\* An order's next slot lies behind every run of it, on the grid that begins with its
\* first one; an order that is to run once and is active has not run.
AheadOfItsRuns(id) ==
    /\ schedule[id].runs_left >= 1
    /\ \A t \in orders[id].ranAt : t < schedule[id].next_run_at
    /\ schedule[id].interval_secs = 0 => orders[id].ranAt = {}
    /\ \E k \in Int :
          schedule[id].next_run_at = orders[id].first + k * schedule[id].interval_secs

RunsKept(id) ==
    /\ IsFiniteSet(orders[id].ranAt)
    /\ schedule[id].runs_left + Cardinality(orders[id].ranAt) = orders[id].runs
    /\ schedule[id].active => AheadOfItsRuns(id)
    /\ \A t, u \in orders[id].ranAt : t # u => SlotAt(id, t) # SlotAt(id, u)

RunsInv == \A id \in Ids : schedule[id] # Null => RunsKept(id)

\* An order that has its slot in the owner's index.
Lists(o, id) == \E i \in 1 .. Len(ownerScheds[o]) : ownerScheds[o][i] = id
IsActive(o, id) == schedule[id] # Null /\ schedule[id].owner = o /\ schedule[id].active

IndexKept(o) ==
    /\ \A i, j \in 1 .. Len(ownerScheds[o]) : ownerScheds[o][i] = ownerScheds[o][j] => i = j
    /\ \A id \in Ids : Lists(o, id) <=> IsActive(o, id)
    /\ Len(ownerScheds[o]) <= MAX_ACTIVE_PER_OWNER

IndexInv == \A o \in Owners : IndexKept(o)

OrdersInv == GuardInv /\ FreshIds /\ RunsInv /\ IndexInv

-----------------------------------------------------------------------------
(* Arithmetic of slots.                                                     *)

\* A slot's number is the quotient of the time since the first.
LEMMA SlotBounds ==
    ASSUME NEW a \in Int, NEW d \in Nat \ {0}
    PROVE  a \div d \in Int /\ (a \div d) * d <= a /\ a < (a \div d) * d + d
OBVIOUS

\* Multiples of an interval are ordered as their factors are.
LEMMA SmallerFactor ==
    ASSUME NEW x \in Int, NEW y \in Int, NEW d \in Nat \ {0}, x * d < y * d
    PROVE  x < y
OBVIOUS

\* Times on the two sides of a slot's beginning are of different slots.
LEMMA SlotsApart ==
    ASSUME NEW a \in Int, NEW b \in Int, NEW d \in Nat \ {0}, NEW k \in Int,
           a < k * d, k * d <= b
    PROVE  a \div d # b \div d
<1> DEFINE p == a \div d
           q == b \div d
<1>1. p \in Int /\ q \in Int /\ p * d <= a /\ b < q * d + d
  BY SlotBounds
<1> HIDE DEF p, q
<1>2. p * d < k * d
  <2>1. p * d \in Int /\ k * d \in Int
    BY <1>1
  <2> QED
    BY <1>1, <2>1
<1>3. p < k
  BY <1>1, <1>2, SmallerFactor
<1>4. k * d < (q + 1) * d
  <2>1. (q + 1) * d = q * d + d /\ q * d \in Int /\ k * d \in Int
    BY <1>1
  <2> QED
    BY <1>1, <2>1
<1>5. k < q + 1
  BY <1>1, <1>4, SmallerFactor
<1>6. p # q
  BY <1>1, <1>3, <1>5
<1> QED
  BY <1>6 DEF p, q

-----------------------------------------------------------------------------
(* The calls that touch the orders.                                         *)

\* Every other call, and the token and the clock, leave them alone.
LEMMA ScheduleStep ==
    ASSUME [Next]_vars
    PROVE  \/ UNCHANGED scheduleVars
           \/ \E o \in Owners, id \in Ids : CancelSchedule(o, id)
           \/ \E id \in Ids : ExecuteSchedule(id)
           \/ \E o \in Owners, asset \in Assets, amount \in Amounts, first \in StartTimes,
                 interval \in Intervals, runs \in RunCounts :
                 CreateSchedule(o, asset, amount, first, interval, runs)
<1>1. CASE UNCHANGED vars
  BY <1>1 DEF vars
<1>2. CASE ChangeBook \/ AgentCall \/ TokenCall \/ Tick
  BY <1>2 DEF ChangeBook, AgentCall, TokenCall, Tick, PayExecutor, Approve
<1>3. CASE KeeperCall
  BY <1>3 DEF KeeperCall
<1>4. ASSUME NEW o \in Owners, OwnerCall(o)
      PROVE  \/ UNCHANGED scheduleVars
             \/ \E id \in Ids : CancelSchedule(o, id)
             \/ \E asset \in Assets, amount \in Amounts, first \in StartTimes,
                   interval \in Intervals, runs \in RunCounts :
                   CreateSchedule(o, asset, amount, first, interval, runs)
  BY <1>4 DEF OwnerCall, SetRule, SetExecutor, RevokeExecutor, PayOwner
<1> QED
  BY <1>1, <1>2, <1>3, <1>4 DEF Next

\* create_schedule takes an unused id, a positive number of runs, one for an order
\* without interval, and a free slot of the index.
LEMMA CreateChecked ==
    ASSUME TypeOK, NEW o \in Owners, NEW asset, NEW amount, NEW first,
           NEW interval \in Nat, NEW runs \in Nat,
           CreateSchedule(o, asset, amount, first, interval, runs)
    PROVE  /\ nextSchedId \in Ids
           /\ runs >= 1
           /\ Len(ownerScheds[o]) < MAX_ACTIVE_PER_OWNER
<1>1. /\ FailIf(runs = 0 \/ (interval = 0 /\ runs # 1), "InvalidSchedule") = Ok
      /\ FailIf(Len(ownerScheds[o]) >= MAX_ACTIVE_PER_OWNER, "TooManySchedules") = Ok
      /\ FailIf(nextSchedId + 1 > U32Max, "Overflow") = Ok
  BY ThenOk DEF CreateSchedule, CreateScheduleOutcome
<1>2. /\ runs # 0
      /\ ~(Len(ownerScheds[o]) >= MAX_ACTIVE_PER_OWNER)
      /\ ~(nextSchedId + 1 > U32Max)
  BY <1>1 DEF FailIf, Ok
<1>3. Len(ownerScheds[o]) \in Nat
  BY DEF TypeOK, OrdersTypeOK
<1> QED
  BY <1>2, <1>3, GuardAssumption DEF TypeOK, OrdersTypeOK, Ids

\* cancel_schedule takes an active order of the caller's.
LEMMA CancelChecked ==
    ASSUME TypeOK, NEW o \in Owners, NEW id \in Ids, CancelSchedule(o, id)
    PROVE  schedule[id] \in Schedule /\ schedule[id].active /\ schedule[id].owner = o
<1>1. /\ LoadSchedule(id) = Ok
      /\ FailIf(schedule[id].owner # o, "NotScheduleOwner") = Ok
      /\ FailIf(~schedule[id].active, "ScheduleInactive") = Ok
  BY ThenOk DEF CancelSchedule, CancelScheduleOutcome
<1> QED
  BY <1>1 DEF LoadSchedule, FailIf, Ok, TypeOK, OrdersTypeOK

-----------------------------------------------------------------------------
(* Runs.                                                                    *)

\* A successful run: what it found, and what it left.
LEMMA ExecuteEffect ==
    ASSUME TypeOK, NEW id \in Ids, ExecuteSchedule(id)
    PROVE  /\ schedule[id] \in Schedule /\ schedule[id].active
           /\ schedule[id].next_run_at <= now /\ schedule[id].runs_left >= 1
           /\ schedule' = [schedule EXCEPT ![id] = AfterRun(schedule[id])]
           /\ orders' = [orders EXCEPT ![id] = [orders[id] EXCEPT !.ranAt = @ \cup {now}]]
           /\ nextSchedId' = nextSchedId
BY ExecuteChecked DEF ExecuteSchedule, TypeOK, OrdersTypeOK

\* An order that is not touched keeps its accounts.
LEMMA OthersKeepRuns ==
    ASSUME NEW id \in Ids, RunsKept(id),
           schedule'[id] = schedule[id], orders'[id] = orders[id]
    PROVE  RunsKept(id)'
BY DEF RunsKept, AheadOfItsRuns, SlotAt

\* The next slot after a run is on the order's grid.
LEMMA NextSlotOnGrid ==
    ASSUME now \in Nat, NEW s \in Schedule, s.next_run_at <= now, s.interval_secs # 0,
           NEW first \in Nat, NEW k \in Int, s.next_run_at = first + k * s.interval_secs
    PROVE  \E j \in Int : NextSlot(s) = first + j * s.interval_secs
<1> DEFINE d == s.interval_secs
           m == (now - s.next_run_at) \div d + 1
<1>1. d \in Nat \ {0} /\ s.next_run_at \in Nat
  BY DEF Schedule
<1>2. m \in Int
  BY <1>1
<1>3. NextSlot(s) = s.next_run_at + m * d
  BY DEF NextSlot
<1> HIDE DEF m
<1>4. (k + m) * d = k * d + m * d /\ k * d \in Int /\ m * d \in Int
  BY <1>1, <1>2
<1>5. NextSlot(s) = first + (k + m) * d
  BY <1>1, <1>3, <1>4
<1>6. k + m \in Int
  BY <1>2
<1> QED
  BY <1>5, <1>6

\* A run is added to the accounts once, in a slot of its own.
LEMMA ExecuteKeepsRuns ==
    ASSUME TypeOK, RunsInv, NEW id \in Ids, ExecuteSchedule(id)
    PROVE  RunsKept(id)'
<1> DEFINE s == schedule[id]
           o == orders[id]
           R == orders[id].ranAt
           every == schedule[id].interval_secs
<1>1. /\ s \in Schedule /\ s.active /\ s.next_run_at <= now /\ s.runs_left >= 1
      /\ schedule'[id] = AfterRun(s)
      /\ orders'[id] = [o EXCEPT !.ranAt = R \cup {now}]
  BY ExecuteEffect DEF TypeOK, OrdersTypeOK
<1>2. /\ o \in [first : Nat, runs : Nat, ranAt : SUBSET Nat]
      /\ now \in Nat /\ s.next_run_at \in Nat /\ s.runs_left \in Nat /\ every \in Nat
  BY <1>1 DEF TypeOK, OrdersTypeOK, Schedule
<1>3. /\ schedule'[id].runs_left = s.runs_left - 1
      /\ schedule'[id].active = ~IsLastRun(s)
      /\ schedule'[id].interval_secs = every
      /\ schedule'[id].next_run_at = IF IsLastRun(s) THEN s.next_run_at ELSE NextSlot(s)
  BY <1>1 DEF AfterRun, Schedule
<1>4. /\ orders'[id].first = o.first /\ orders'[id].runs = o.runs
      /\ orders'[id].ranAt = R \cup {now}
  BY <1>1, <1>2
<1>5. s # Null
  BY <1>1, GuardAssumption
<1>6. /\ RunsKept(id) /\ AheadOfItsRuns(id)
  BY <1>1, <1>5 DEF RunsInv, RunsKept
<1>7. \A t \in R : t \in Nat /\ t < s.next_run_at
  BY <1>2, <1>6 DEF AheadOfItsRuns
<1>8. now \notin R
  BY <1>1, <1>2, <1>7
<1>9. /\ IsFiniteSet(R) /\ Cardinality(R) \in Nat
      /\ IsFiniteSet(R \cup {now})
      /\ Cardinality(R \cup {now}) = Cardinality(R) + 1
  BY <1>6, <1>8, FS_AddElement, FS_CardinalityType DEF RunsKept
<1>10. schedule'[id].runs_left + Cardinality(orders'[id].ranAt) = orders'[id].runs
  BY <1>2, <1>3, <1>4, <1>6, <1>9 DEF RunsKept
<1>11. PICK k \in Int : s.next_run_at = o.first + k * every
  BY <1>6 DEF AheadOfItsRuns
<1>12. ASSUME ~IsLastRun(s)
       PROVE  AheadOfItsRuns(id)'
  <2>1. every # 0 /\ s.runs_left # 1
    BY <1>12 DEF IsLastRun
  <2>2. NextSlot(s) \in Nat /\ NextSlot(s) > now
    BY <1>1, <1>2, <2>1, NextSlotIsAhead
  <2>3. \A t \in R \cup {now} : t < NextSlot(s)
    BY <1>1, <1>2, <1>7, <2>2
  <2>4. \E j \in Int : NextSlot(s) = o.first + j * every
    BY <1>1, <1>2, <1>11, <2>1, NextSlotOnGrid
  <2>5. schedule'[id].runs_left >= 1
    BY <1>1, <1>2, <1>3, <2>1
  <2> QED
    BY <1>3, <1>4, <1>12, <2>1, <2>3, <2>4, <2>5 DEF AheadOfItsRuns
<1>13. \A t \in R : (t - o.first) \div every # (now - o.first) \div every
  <2> SUFFICES ASSUME NEW t \in R
               PROVE  (t - o.first) \div every # (now - o.first) \div every
    OBVIOUS
  <2>1. every \in Nat \ {0}
    BY <1>2, <1>6 DEF AheadOfItsRuns
  <2>2. k * every \in Int /\ t \in Nat /\ t < s.next_run_at
    BY <1>2, <1>7
  <2>3. /\ t - o.first \in Int /\ now - o.first \in Int
        /\ t - o.first < k * every /\ k * every <= now - o.first
    BY <1>1, <1>2, <1>11, <2>2
  <2> QED
    BY <2>1, <2>3, SlotsApart
<1>14. \A t, u \in R \cup {now} :
          t # u => (t - o.first) \div every # (u - o.first) \div every
  BY <1>6, <1>13 DEF RunsKept, SlotAt
<1> QED
  BY <1>3, <1>4, <1>9, <1>10, <1>12, <1>14 DEF RunsKept, SlotAt

\* A new order has all its runs before it.
LEMMA CreateKeepsRuns ==
    ASSUME TypeOK, NEW o \in Owners, NEW asset \in Assets, NEW amount \in Int,
           NEW first \in Nat, NEW interval \in Nat, NEW runs \in Nat,
           CreateSchedule(o, asset, amount, first, interval, runs),
           NEW n, n = nextSchedId
    PROVE  RunsKept(n)'
<1>1. n \in Ids /\ runs >= 1
  BY CreateChecked
<1>2. /\ schedule'[n] = [owner |-> o, asset |-> asset, amount |-> amount,
                          next_run_at |-> first, interval_secs |-> interval,
                          runs_left |-> runs, active |-> TRUE]
      /\ orders'[n] = [first |-> first, runs |-> runs, ranAt |-> {}]
  BY <1>1 DEF CreateSchedule, TypeOK, OrdersTypeOK
<1>3. IsFiniteSet({}) /\ Cardinality({}) = 0
  BY FS_EmptySet
<1>4. first = first + 0 * interval
  OBVIOUS
<1>5. IsFiniteSet(orders'[n].ranAt) /\ orders'[n].ranAt = {}
  BY <1>2, <1>3
<1>6. schedule'[n].runs_left + Cardinality(orders'[n].ranAt) = orders'[n].runs
  BY <1>2, <1>3
<1>7. /\ schedule'[n].runs_left >= 1
      /\ \E k \in Int : schedule'[n].next_run_at
                            = orders'[n].first + k * schedule'[n].interval_secs
  BY <1>1, <1>2, <1>4
<1> QED
  BY <1>2, <1>5, <1>6, <1>7 DEF RunsKept, AheadOfItsRuns

\* The ids handed out stay those below the counter, and every account is kept.
LEMMA RunsStep ==
    ASSUME GuardInv, FreshIds, RunsInv, [Next]_vars
    PROVE  FreshIds' /\ RunsInv'
<1>1. TypeOK
  BY DEF GuardInv
<1>2. CASE UNCHANGED scheduleVars
  <2>1. schedule' = schedule /\ orders' = orders /\ nextSchedId' = nextSchedId
    BY <1>2 DEF scheduleVars
  <2>2. FreshIds'
    BY <2>1 DEF FreshIds
  <2> QED
    BY <2>1, <2>2, OthersKeepRuns DEF RunsInv
<1>3. ASSUME NEW o \in Owners, NEW id \in Ids, CancelSchedule(o, id)
      PROVE  FreshIds' /\ RunsInv'
  <2>1. schedule[id] \in Schedule /\ schedule[id] # Null
    BY <1>1, <1>3, CancelChecked, GuardAssumption
  <2>2. /\ schedule' = [schedule EXCEPT ![id] = [schedule[id] EXCEPT !.active = FALSE]]
        /\ orders' = orders /\ nextSchedId' = nextSchedId
    BY <1>3 DEF CancelSchedule
  <2>3. \A j \in Ids : j # id => schedule'[j] = schedule[j]
    BY <1>1, <2>2 DEF TypeOK, OrdersTypeOK
  <2>4. FreshIds'
    BY <2>1, <2>2, <2>3 DEF FreshIds
  <2>5. RunsKept(id)'
    <3>1. /\ schedule'[id].runs_left = schedule[id].runs_left
          /\ schedule'[id].interval_secs = schedule[id].interval_secs
          /\ ~schedule'[id].active
      BY <1>1, <2>1, <2>2 DEF TypeOK, OrdersTypeOK, Schedule
    <3>2. RunsKept(id)
      BY <2>1 DEF RunsInv
    <3> QED
      BY <2>2, <3>1, <3>2 DEF RunsKept, SlotAt
  <2>6. \A j \in Ids : j # id /\ schedule'[j] # Null => RunsKept(j)'
    BY <2>2, <2>3, OthersKeepRuns DEF RunsInv
  <2> QED
    BY <2>4, <2>5, <2>6 DEF RunsInv
<1>4. ASSUME NEW id \in Ids, ExecuteSchedule(id)
      PROVE  FreshIds' /\ RunsInv'
  <2>1. schedule[id] \in Schedule /\ schedule[id] # Null
    BY <1>1, <1>4, ExecuteEffect, GuardAssumption
  <2>2. \A j \in Ids : j # id => schedule'[j] = schedule[j] /\ orders'[j] = orders[j]
    BY <1>1, <1>4, ExecuteEffect DEF TypeOK, OrdersTypeOK
  <2>3. FreshIds'
    BY <1>1, <1>4, <2>1, <2>2, ExecuteEffect DEF FreshIds
  <2>4. RunsKept(id)'
    BY <1>1, <1>4, ExecuteKeepsRuns
  <2>5. \A j \in Ids : j # id /\ schedule'[j] # Null => RunsKept(j)'
    BY <2>2, OthersKeepRuns DEF RunsInv
  <2> QED
    BY <2>3, <2>4, <2>5 DEF RunsInv
<1>5. ASSUME NEW o \in Owners, NEW asset \in Assets, NEW amount \in Amounts,
             NEW first \in StartTimes, NEW interval \in Intervals, NEW runs \in RunCounts,
             CreateSchedule(o, asset, amount, first, interval, runs)
      PROVE  FreshIds' /\ RunsInv'
  <2>1. amount \in Int /\ first \in Nat /\ interval \in Nat /\ runs \in Nat
    BY GuardAssumption
  <2>2. PICK n : n = nextSchedId
    OBVIOUS
  <2>3. n \in Ids /\ n \in Nat
    BY <1>1, <1>5, <2>1, <2>2, CreateChecked DEF TypeOK, OrdersTypeOK
  <2>4. RunsKept(n)'
    BY <1>1, <1>5, <2>1, <2>2, CreateKeepsRuns
  <2>5. /\ nextSchedId' = n + 1
        /\ \A j \in Ids : j # n => schedule'[j] = schedule[j] /\ orders'[j] = orders[j]
    BY <1>1, <1>5, <2>2 DEF CreateSchedule, TypeOK, OrdersTypeOK
  <2>6. FreshIds'
    BY <2>2, <2>3, <2>5 DEF FreshIds, Ids
  <2>7. \A j \in Ids : j # n /\ schedule'[j] # Null => RunsKept(j)'
    BY <2>5, OthersKeepRuns DEF RunsInv
  <2> QED
    BY <2>4, <2>6, <2>7 DEF RunsInv
<1> QED
  BY <1>2, <1>3, <1>4, <1>5, ScheduleStep

-----------------------------------------------------------------------------
(* The owner's index.                                                       *)

\* What is left of a sequence once one place is taken out.
LEMMA RemoveAtKeeps ==
    ASSUME NEW S, NEW s \in Seq(S), NEW i \in 1 .. Len(s)
    PROVE  /\ RemoveAt(s, i) \in Seq(S)
           /\ Len(RemoveAt(s, i)) = Len(s) - 1
           /\ \A k \in 1 .. (Len(s) - 1) :
                 RemoveAt(s, i)[k] = IF k < i THEN s[k] ELSE s[k + 1]
<1> DEFINE a == SubSeq(s, 1, i - 1)
           b == SubSeq(s, i + 1, Len(s))
<1>1. a \in Seq(S) /\ Len(a) = i - 1 /\ \A k \in 1 .. (i - 1) : a[k] = s[k]
  OBVIOUS
<1>2. b \in Seq(S) /\ Len(b) = Len(s) - i /\ \A k \in 1 .. (Len(s) - i) : b[k] = s[i + k]
  OBVIOUS
<1>3. RemoveAt(s, i) = a \o b
  BY DEF RemoveAt
<1> HIDE DEF a, b
<1>4. a \o b \in Seq(S) /\ Len(a \o b) = Len(s) - 1
  <2>1. Len(s) \in Nat /\ i \in Int
    OBVIOUS
  <2>2. a \o b \in Seq(S) /\ Len(a \o b) = Len(a) + Len(b)
    BY <1>1, <1>2, ConcatProperties
  <2> QED
    BY <1>1, <1>2, <2>1, <2>2
<1>5. ASSUME NEW k \in 1 .. (Len(s) - 1)
      PROVE  (a \o b)[k] = IF k < i THEN s[k] ELSE s[k + 1]
  <2>1. CASE k < i
    BY <1>1, <1>2, <2>1
  <2>2. CASE ~(k < i)
    <3>1. k - (i - 1) \in 1 .. (Len(s) - i) /\ i + (k - (i - 1)) = k + 1
      BY <2>2
    <3>2. (a \o b)[k] = b[k - (i - 1)]
      BY <1>1, <1>2, <2>2, <3>1, ConcatProperties
    <3> QED
      BY <1>2, <2>2, <3>1, <3>2
  <2> QED
    BY <2>1, <2>2
<1> QED
  BY <1>3, <1>4, <1>5

\* Taking a listed order out leaves the others, each once.
LEMMA DeindexKeeps ==
    ASSUME TypeOK, NEW o \in Owners, IndexKept(o), NEW id \in Ids, IsActive(o, id),
           Deindex(o, id)
    PROVE  LET t == ownerScheds'[o] IN
           /\ t \in Seq(Ids)
           /\ \A i, j \in 1 .. Len(t) : t[i] = t[j] => i = j
           /\ \A x \in Ids : (\E i \in 1 .. Len(t) : t[i] = x) <=> IsActive(o, x) /\ x # id
           /\ Len(t) <= MAX_ACTIVE_PER_OWNER
           /\ \A p \in Owners \ {o} : ownerScheds'[p] = ownerScheds[p]
<1> DEFINE s == ownerScheds[o]
           t == ownerScheds'[o]
<1>1. s \in Seq(Ids) /\ Len(s) \in Nat
  BY DEF TypeOK, OrdersTypeOK
<1>2. /\ \A i, j \in 1 .. Len(s) : s[i] = s[j] => i = j
      /\ \A x \in Ids : (\E i \in 1 .. Len(s) : s[i] = x) <=> IsActive(o, x)
      /\ Len(s) <= MAX_ACTIVE_PER_OWNER
  BY DEF IndexKept, Lists
<1>3. PICK i \in 1 .. Len(s) : s[i] = id
                              /\ ownerScheds' = [ownerScheds EXCEPT ![o] = RemoveAt(s, i)]
  BY <1>2 DEF Deindex
<1>4. /\ t = RemoveAt(s, i)
      /\ \A p \in Owners \ {o} : ownerScheds'[p] = ownerScheds[p]
  BY <1>3 DEF TypeOK, OrdersTypeOK
<1>5. /\ t \in Seq(Ids) /\ Len(t) = Len(s) - 1
      /\ \A k \in 1 .. (Len(s) - 1) : t[k] = IF k < i THEN s[k] ELSE s[k + 1]
  BY <1>1, <1>4, RemoveAtKeeps
<1> HIDE DEF s, t
<1>6. \A k, l \in 1 .. Len(t) : t[k] = t[l] => k = l
  <2> SUFFICES ASSUME NEW k \in 1 .. Len(t), NEW l \in 1 .. Len(t), t[k] = t[l]
               PROVE  k = l
    OBVIOUS
  <2> DEFINE at(m) == IF m < i THEN m ELSE m + 1
  <2>1. at(k) \in 1 .. Len(s) /\ at(l) \in 1 .. Len(s)
    BY <1>1, <1>5
  <2>2. t[k] = s[at(k)] /\ t[l] = s[at(l)]
    BY <1>1, <1>5
  <2>3. at(k) = at(l)
    BY <1>2, <2>1, <2>2
  <2> QED
    BY <1>1, <1>5, <2>3
<1>7. ASSUME NEW x \in Ids
      PROVE  (\E k \in 1 .. Len(t) : t[k] = x) <=> IsActive(o, x) /\ x # id
  <2>1. ASSUME NEW k \in 1 .. Len(t), t[k] = x
        PROVE  IsActive(o, x) /\ x # id
    <3>1. PICK m \in 1 .. Len(s) : m # i /\ s[m] = x
      <4>1. CASE k < i
        <5>1. k \in 1 .. Len(s) /\ k # i /\ s[k] = x
          BY <1>1, <1>5, <2>1, <4>1
        <5> QED
          BY <5>1
      <4>2. CASE ~(k < i)
        <5>1. k + 1 \in 1 .. Len(s) /\ k + 1 # i /\ s[k + 1] = x
          BY <1>1, <1>5, <2>1, <4>2
        <5> QED
          BY <5>1
      <4> QED
        BY <4>1, <4>2
    <3> QED
      BY <1>2, <1>3, <3>1
  <2>2. ASSUME IsActive(o, x), x # id
        PROVE  \E k \in 1 .. Len(t) : t[k] = x
    <3>1. PICK m \in 1 .. Len(s) : s[m] = x
      BY <1>2, <2>2
    <3>2. m # i
      BY <1>3, <2>2, <3>1
    <3>3. CASE m < i
      <4>1. m \in 1 .. Len(t) /\ t[m] = x
        BY <1>1, <1>5, <3>1, <3>3
      <4> QED
        BY <4>1
    <3>4. CASE ~(m < i)
      <4>1. m - 1 \in 1 .. Len(t) /\ ~(m - 1 < i) /\ (m - 1) + 1 = m
        BY <1>1, <1>5, <3>2, <3>4
      <4>2. t[m - 1] = x
        BY <1>5, <3>1, <4>1
      <4> QED
        BY <4>1, <4>2
    <3> QED
      BY <3>3, <3>4
  <2> QED
    BY <2>1, <2>2
<1>8. Len(t) <= MAX_ACTIVE_PER_OWNER
  BY <1>1, <1>2, <1>5, GuardAssumption
<1> QED
  BY <1>4, <1>5, <1>6, <1>7, <1>8 DEF s, t

\* An owner's index depends on his orders alone.
LEMMA OthersKeepIndex ==
    ASSUME NEW o \in Owners, IndexKept(o), ownerScheds'[o] = ownerScheds[o],
           \A id \in Ids : IsActive(o, id)' <=> IsActive(o, id)
    PROVE  IndexKept(o)'
BY DEF IndexKept, Lists

\* An order that ends leaves its owner's index, and nobody else's.
LEMMA EndingKeepsIndex ==
    ASSUME TypeOK, IndexInv, NEW o \in Owners, NEW id \in Ids, IsActive(o, id),
           Deindex(o, id), schedule'[id].active = FALSE,
           \A j \in Ids : j # id => schedule'[j] = schedule[j]
    PROVE  IndexInv'
<1>1. \A p \in Owners, j \in Ids :
         IsActive(p, j)' <=> IsActive(p, j) /\ j # id
  BY DEF IsActive
<1>2. IndexKept(o)'
  BY <1>1, DeindexKeeps DEF IndexInv, IndexKept, Lists
<1>3. \A p \in Owners \ {o} : ownerScheds'[p] = ownerScheds[p]
  BY DeindexKeeps DEF IndexInv
<1>4. \A p \in Owners \ {o} : \A j \in Ids : IsActive(p, j)' <=> IsActive(p, j)
  BY <1>1 DEF IsActive
<1>5. \A p \in Owners \ {o} : IndexKept(p)'
  BY <1>3, <1>4, OthersKeepIndex DEF IndexInv
<1> QED
  BY <1>2, <1>5 DEF IndexInv

\* A new order takes a slot of its owner's index.
LEMMA CreateKeepsIndex ==
    ASSUME TypeOK, FreshIds, IndexInv, NEW o \in Owners, NEW asset \in Assets,
           NEW amount \in Int, NEW first \in Nat, NEW interval \in Nat, NEW runs \in Nat,
           CreateSchedule(o, asset, amount, first, interval, runs)
    PROVE  IndexInv'
<1> DEFINE s == ownerScheds[o]
           t == ownerScheds'[o]
<1>1. PICK n : n = nextSchedId
  OBVIOUS
<1>2. n \in Ids /\ n \in Nat /\ Len(s) < MAX_ACTIVE_PER_OWNER
  BY <1>1, CreateChecked DEF TypeOK, OrdersTypeOK
<1>3. schedule[n] = Null
  BY <1>1, <1>2 DEF FreshIds
<1>4. /\ schedule'[n].owner = o /\ schedule'[n].active /\ schedule'[n] \in Schedule
      /\ \A j \in Ids : j # n => schedule'[j] = schedule[j]
  BY <1>1, <1>2 DEF CreateSchedule, TypeOK, OrdersTypeOK, Schedule
<1>5. schedule'[n] # Null
  BY <1>4, GuardAssumption
<1>6. \A p \in Owners, j \in Ids : IsActive(p, j)' <=> IsActive(p, j) \/ (p = o /\ j = n)
  BY <1>3, <1>4, <1>5 DEF IsActive
<1>7. /\ t = Append(s, n) /\ s \in Seq(Ids)
      /\ \A p \in Owners \ {o} : ownerScheds'[p] = ownerScheds[p]
  BY <1>1 DEF CreateSchedule, TypeOK, OrdersTypeOK
<1>8. /\ \A i, j \in 1 .. Len(s) : s[i] = s[j] => i = j
      /\ \A x \in Ids : (\E i \in 1 .. Len(s) : s[i] = x) <=> IsActive(o, x)
  BY DEF IndexInv, IndexKept, Lists
<1>9. ~IsActive(o, n)
  BY <1>3 DEF IsActive
<1> HIDE DEF s, t
<1>10. /\ Len(s) \in Nat /\ Len(t) = Len(s) + 1 /\ t[Len(s) + 1] = n
       /\ \A i \in 1 .. Len(s) : t[i] = s[i]
  BY <1>2, <1>7
<1>11. \A i \in 1 .. Len(s) : s[i] # n
  BY <1>2, <1>8, <1>9
<1>12. \A i, j \in 1 .. Len(t) : t[i] = t[j] => i = j
  BY <1>8, <1>10, <1>11
<1>13. \A x \in Ids : (\E i \in 1 .. Len(t) : t[i] = x) <=> IsActive(o, x) \/ x = n
  <2> SUFFICES ASSUME NEW x \in Ids
               PROVE  (\E i \in 1 .. Len(t) : t[i] = x) <=> IsActive(o, x) \/ x = n
    OBVIOUS
  <2>1. ASSUME NEW i \in 1 .. Len(t), t[i] = x
        PROVE  IsActive(o, x) \/ x = n
    <3>1. i \in 1 .. Len(s) \/ i = Len(s) + 1
      BY <1>10
    <3> QED
      BY <1>8, <1>10, <2>1, <3>1
  <2>2. ASSUME IsActive(o, x)
        PROVE  \E i \in 1 .. Len(t) : t[i] = x
    <3>1. PICK i \in 1 .. Len(s) : s[i] = x
      BY <1>8, <2>2
    <3>2. i \in 1 .. Len(t) /\ t[i] = x
      BY <1>10, <3>1
    <3> QED
      BY <3>2
  <2>3. Len(s) + 1 \in 1 .. Len(t)
    BY <1>10
  <2> QED
    BY <1>10, <2>1, <2>2, <2>3
<1>14. Len(t) <= MAX_ACTIVE_PER_OWNER
  BY <1>2, <1>10, GuardAssumption
<1>15. IndexKept(o)'
  BY <1>6, <1>12, <1>13, <1>14 DEF IndexKept, Lists, t
<1>16. \A p \in Owners \ {o} : \A j \in Ids : IsActive(p, j)' <=> IsActive(p, j)
  BY <1>6
<1>17. \A p \in Owners \ {o} : IndexKept(p)'
  BY <1>7, <1>16, OthersKeepIndex DEF IndexInv
<1> QED
  BY <1>15, <1>17 DEF IndexInv

\* Whatever is called, the indices stay exact.
LEMMA IndexStep ==
    ASSUME GuardInv, FreshIds, RunsInv, IndexInv, [Next]_vars
    PROVE  IndexInv'
<1>1. TypeOK
  BY DEF GuardInv
<1>2. CASE UNCHANGED scheduleVars
  BY <1>2, OthersKeepIndex DEF scheduleVars, IndexInv, IsActive
<1>3. ASSUME NEW o \in Owners, NEW id \in Ids, CancelSchedule(o, id)
      PROVE  IndexInv'
  <2>1. schedule[id] \in Schedule /\ IsActive(o, id)
    BY <1>1, <1>3, CancelChecked, GuardAssumption DEF IsActive
  <2>2. schedule' = [schedule EXCEPT ![id] = [schedule[id] EXCEPT !.active = FALSE]]
    BY <1>3 DEF CancelSchedule
  <2>3. schedule'[id].active = FALSE /\ \A j \in Ids : j # id => schedule'[j] = schedule[j]
    BY <1>1, <2>1, <2>2 DEF TypeOK, OrdersTypeOK, Schedule
  <2> QED
    BY <1>1, <1>3, <2>1, <2>3, EndingKeepsIndex DEF CancelSchedule
<1>4. ASSUME NEW id \in Ids, ExecuteSchedule(id)
      PROVE  IndexInv'
  <2> DEFINE s == schedule[id]
  <2>1. /\ s \in Schedule /\ s.active /\ s # Null /\ s.owner \in Owners
        /\ schedule'[id] = AfterRun(s)
        /\ \A j \in Ids : j # id => schedule'[j] = schedule[j]
    BY <1>1, <1>4, ExecuteEffect, GuardAssumption DEF TypeOK, OrdersTypeOK, Schedule
  <2>2. /\ schedule'[id].active = ~IsLastRun(s) /\ schedule'[id].owner = s.owner
        /\ IsActive(s.owner, id)
    BY <2>1 DEF AfterRun, Schedule, IsActive
  <2>3. CASE IsLastRun(s)
    BY <1>1, <1>4, <2>1, <2>2, <2>3, EndingKeepsIndex DEF ExecuteSchedule
  <2>4. CASE ~IsLastRun(s)
    <3>1. AfterRun(s) # Null
      <4>1. s.next_run_at <= now /\ s.runs_left - 1 \in Nat /\ now \in Nat
        BY <1>1, <1>4, <2>1, ExecuteEffect DEF Schedule, TypeOK
      <4>2. NextSlot(s) \in Nat
        BY <2>1, <2>4, <4>1, NextSlotIsAhead DEF IsLastRun
      <4>3. AfterRun(s) \in Schedule
        BY <2>1, <2>4, <4>1, <4>2 DEF AfterRun, Schedule
      <4> QED
        BY <4>3, GuardAssumption
    <3>2. \A p \in Owners, j \in Ids : IsActive(p, j)' <=> IsActive(p, j)
      BY <2>1, <2>2, <2>4, <3>1 DEF IsActive
    <3>3. ownerScheds' = ownerScheds
      BY <1>4, <2>4 DEF ExecuteSchedule
    <3> QED
      BY <3>2, <3>3, OthersKeepIndex DEF IndexInv
  <2> QED
    BY <2>3, <2>4
<1>5. ASSUME NEW o \in Owners, NEW asset \in Assets, NEW amount \in Amounts,
             NEW first \in StartTimes, NEW interval \in Intervals, NEW runs \in RunCounts,
             CreateSchedule(o, asset, amount, first, interval, runs)
      PROVE  IndexInv'
  BY <1>1, <1>5, CreateKeepsIndex, GuardAssumption
<1> QED
  BY <1>2, <1>3, <1>4, <1>5, ScheduleStep

-----------------------------------------------------------------------------

\* Before the first call there is no order.
LEMMA InitHasNoOrders == Init => OrdersInv
<1> SUFFICES ASSUME Init PROVE OrdersInv
  OBVIOUS
<1>1. GuardInv
  BY InitEstablishes
<1>2. \A id \in Ids : schedule[id] = Null
  BY DEF Init
<1>3. FreshIds /\ RunsInv
  BY <1>2 DEF FreshIds, RunsInv
<1>4. ASSUME NEW o \in Owners
      PROVE  IndexKept(o)
  <2>1. Len(ownerScheds[o]) = 0 /\ MAX_ACTIVE_PER_OWNER \in Nat
    BY GuardAssumption DEF Init
  <2> QED
    BY <1>2, <2>1 DEF IndexKept, Lists, IsActive
<1> QED
  BY <1>1, <1>3, <1>4 DEF OrdersInv, IndexInv

\* No call breaks the accounts.
LEMMA OrdersInvStep == OrdersInv /\ [Next]_vars => OrdersInv'
BY StepPreserves, RunsStep, IndexStep DEF OrdersInv

\* The index of an owner is a numbering of his active orders.
LEMMA IndexIsANumbering ==
    ASSUME OrdersInv, NEW o \in Owners
    PROVE  /\ {ownerScheds[o][i] : i \in DOMAIN ownerScheds[o]} = ActiveIds(o)
           /\ Len(ownerScheds[o]) = Cardinality(ActiveIds(o))
           /\ Len(ownerScheds[o]) <= MAX_ACTIVE_PER_OWNER
<1> DEFINE s == ownerScheds[o]
           n == Len(ownerScheds[o])
<1>1. /\ s \in Seq(Ids) /\ n \in Nat /\ DOMAIN s = 1 .. n
      /\ s \in [1 .. n -> Ids]
  BY DEF OrdersInv, GuardInv, TypeOK, OrdersTypeOK
<1>2. IndexKept(o)
  BY DEF OrdersInv, IndexInv
<1>3. {s[i] : i \in 1 .. n} = ActiveIds(o)
  BY <1>1, <1>2 DEF IndexKept, Lists, IsActive, ActiveIds
<1>4. s \in [1 .. n -> ActiveIds(o)]
  BY <1>1, <1>3
<1>5. /\ \A i, j \in 1 .. n : s[i] = s[j] => i = j
      /\ \A id \in ActiveIds(o) : \E i \in 1 .. n : s[i] = id
  BY <1>2, <1>3 DEF IndexKept
<1>6. s \in Bijection(1 .. n, ActiveIds(o))
  BY <1>4, <1>5 DEF Bijection, Injection, Surjection, IsInjective
<1>7. IsFiniteSet(1 .. n) /\ Cardinality(1 .. n) = n
  BY <1>1, FS_Interval
<1>8. Cardinality(ActiveIds(o)) = n
  BY <1>6, <1>7, FS_Bijection DEF ExistsBijection
<1> QED
  BY <1>1, <1>2, <1>3, <1>8 DEF IndexKept

\* An order that is not active is touched by no call.
LEMMA InactiveStaysPut ==
    ASSUME OrdersInv, [Next]_vars,
           NEW id \in Ids, schedule[id] # Null, ~schedule[id].active
    PROVE  schedule'[id] = schedule[id]
<1>1. TypeOK /\ FreshIds
  BY DEF OrdersInv, GuardInv
<1>2. CASE UNCHANGED scheduleVars
  BY <1>2 DEF scheduleVars
<1>3. ASSUME NEW o \in Owners, NEW j \in Ids, CancelSchedule(o, j)
      PROVE  schedule'[id] = schedule[id]
  <2>1. schedule[j].active
    BY <1>1, <1>3, CancelChecked
  <2> QED
    BY <1>1, <1>3, <2>1 DEF CancelSchedule, TypeOK, OrdersTypeOK
<1>4. ASSUME NEW j \in Ids, ExecuteSchedule(j)
      PROVE  schedule'[id] = schedule[id]
  BY <1>1, <1>4, ExecuteEffect DEF TypeOK, OrdersTypeOK
<1>5. ASSUME NEW o \in Owners, NEW asset \in Assets, NEW amount \in Amounts,
             NEW first \in StartTimes, NEW interval \in Intervals, NEW runs \in RunCounts,
             CreateSchedule(o, asset, amount, first, interval, runs)
      PROVE  schedule'[id] = schedule[id]
  <2>1. PICK n : n = nextSchedId
    OBVIOUS
  <2>2. n # id
    BY <1>1, <2>1 DEF FreshIds, TypeOK, OrdersTypeOK, Ids
  <2> QED
    BY <1>1, <1>5, <2>1, <2>2 DEF CreateSchedule, TypeOK, OrdersTypeOK
<1> QED
  BY <1>2, <1>3, <1>4, <1>5, ScheduleStep

\* Every run of a standing order is paid for, and none is added or lost, whatever
\* the interval, the number of runs and the keepers' delays (execute_schedule).
THEOREM RunsAreAccounted == Spec => []RunsAccounted
<1>1. OrdersInv => RunsAccounted
  BY DEF OrdersInv, RunsInv, RunsKept, AheadOfItsRuns, RunsAccounted
<1> QED
  BY <1>1, InitHasNoOrders, OrdersInvStep, PTL DEF Spec

\* No slot of an order is paid twice, however many keepers call execute_schedule
\* and however late: the next slot always lies behind every run.
THEOREM OneRunPerSlotAlways == Spec => []OneRunPerSlot
<1>1. OrdersInv => OneRunPerSlot
  BY DEF OrdersInv, RunsInv, RunsKept, OneRunPerSlot
<1> QED
  BY <1>1, InitHasNoOrders, OrdersInvStep, PTL DEF Spec

\* The index create_schedule appends to and cancel_schedule and the last run take
\* from lists the active orders, each once, within the owner's cap.
THEOREM IndexExact == Spec => []IndexIsExact
<1>1. OrdersInv => IndexIsExact
  BY IndexIsANumbering DEF IndexIsExact
<1> QED
  BY <1>1, InitHasNoOrders, OrdersInvStep, PTL DEF Spec

\* A cancelled or finished order is never run, revived or cancelled again, also not
\* by a create_schedule that hands out its id a second time.
THEOREM EndedOrdersAreFinal == Spec => InactiveIsFinal
<1>1. OrdersInv /\ [Next]_vars =>
        [\A id \in Ids :
           schedule[id] # Null /\ ~schedule[id].active => schedule'[id] = schedule[id]]_vars
  BY InactiveStaysPut
<1> QED
  BY <1>1, InitHasNoOrders, OrdersInvStep, PTL DEF Spec, InactiveIsFinal

-----------------------------------------------------------------------------
(* A sweep over the due orders, page after page.                            *)

\* Every id that was handed out names an order, for good.
HandedOut == \A id \in Nat \ {0} : id < nextSchedId => id \in Ids /\ schedule[id] # Null

LEMMA HandedOutStep ==
    ASSUME GuardInv, FreshIds, HandedOut, [Next]_vars
    PROVE  HandedOut'
<1>1. TypeOK
  BY DEF GuardInv
<1>2. CASE UNCHANGED scheduleVars
  BY <1>2 DEF scheduleVars, HandedOut
<1>3. ASSUME NEW o \in Owners, NEW id \in Ids, CancelSchedule(o, id)
      PROVE  HandedOut'
  <2>1. schedule[id] \in Schedule
    BY <1>1, <1>3, CancelChecked
  <2>2. [schedule[id] EXCEPT !.active = FALSE] \in Schedule
    BY <2>1 DEF Schedule
  <2>3. /\ schedule' = [schedule EXCEPT ![id] = [schedule[id] EXCEPT !.active = FALSE]]
        /\ nextSchedId' = nextSchedId
    BY <1>3 DEF CancelSchedule
  <2>4. \A j \in Ids : schedule[j] # Null => schedule'[j] # Null
    BY <1>1, <2>2, <2>3, GuardAssumption DEF TypeOK, OrdersTypeOK
  <2> QED
    BY <2>3, <2>4 DEF HandedOut
<1>4. ASSUME NEW id \in Ids, ExecuteSchedule(id)
      PROVE  HandedOut'
  <2> DEFINE s == schedule[id]
  <2>1. /\ s \in Schedule /\ s.next_run_at <= now /\ s.runs_left >= 1
        /\ schedule' = [schedule EXCEPT ![id] = AfterRun(s)] /\ nextSchedId' = nextSchedId
    BY <1>1, <1>4, ExecuteEffect
  <2>2. s.runs_left - 1 \in Nat /\ now \in Nat
    BY <1>1, <2>1 DEF Schedule, TypeOK
  <2>3. ~IsLastRun(s) => NextSlot(s) \in Nat
    BY <2>1, <2>2, NextSlotIsAhead DEF IsLastRun
  <2>4. AfterRun(s) \in Schedule
    BY <2>1, <2>2, <2>3 DEF AfterRun, Schedule
  <2>5. \A j \in Ids : schedule[j] # Null => schedule'[j] # Null
    BY <1>1, <2>1, <2>4, GuardAssumption DEF TypeOK, OrdersTypeOK
  <2> QED
    BY <2>1, <2>5 DEF HandedOut
<1>5. ASSUME NEW o \in Owners, NEW asset \in Assets, NEW amount \in Amounts,
             NEW first \in StartTimes, NEW interval \in Intervals, NEW runs \in RunCounts,
             CreateSchedule(o, asset, amount, first, interval, runs)
      PROVE  HandedOut'
  <2> DEFINE n == nextSchedId
             s == [owner |-> o, asset |-> asset, amount |-> amount, next_run_at |-> first,
                   interval_secs |-> interval, runs_left |-> runs, active |-> TRUE]
  <2>1. n \in Ids /\ n \in Nat \ {0}
    BY <1>1, <1>5, CreateChecked, GuardAssumption DEF TypeOK, OrdersTypeOK
  <2>2. s \in Schedule
    BY <1>5, GuardAssumption DEF Schedule
  <2>3. schedule' = [schedule EXCEPT ![n] = s] /\ nextSchedId' = n + 1
    BY <1>5 DEF CreateSchedule
  <2> HIDE DEF s
  <2>4. schedule'[n] # Null /\ \A j \in Ids : j # n => schedule'[j] = schedule[j]
    BY <1>1, <2>1, <2>2, <2>3, GuardAssumption DEF TypeOK, OrdersTypeOK
  <2>5. ASSUME NEW j \in Nat \ {0}, j < nextSchedId'
        PROVE  j \in Ids /\ schedule'[j] # Null
    <3>1. j = n \/ j < n
      BY <2>1, <2>3, <2>5
    <3> QED
      BY <2>1, <2>4, <3>1 DEF HandedOut
  <2> QED
    BY <2>5 DEF HandedOut
<1> QED
  BY <1>2, <1>3, <1>4, <1>5, ScheduleStep

\* A set of numbers has a least one.
LEMMA LeastNatural ==
    ASSUME NEW N \in SUBSET Nat, N # {}
    PROVE  \E n \in N : \A m \in N : n <= m
<1> DEFINE T == {0 .. n : n \in N}
<1>1. T \in SUBSET FiniteSubsetsOf(Nat) /\ T # {}
  <2>1. ASSUME NEW n \in N  PROVE 0 .. n \in SUBSET Nat /\ IsFiniteSet(0 .. n)
    <3>1. n \in Int /\ 0 \in Int
      OBVIOUS
    <3> QED
      BY <3>1, FS_Interval
  <2> QED
    BY <2>1 DEF FiniteSubsetsOf
<1> HIDE DEF T
<1>2. IsWellFoundedOn(StrictSubsetOrdering(Nat), FiniteSubsetsOf(Nat))
  BY FS_StrictSubsetOrderingWellFounded
<1>3. PICK x \in T : \A y \in T : ~ (<<y, x>> \in StrictSubsetOrdering(Nat))
  BY <1>1, <1>2, WFMin
<1>4. \A y \in T : y \subseteq x => y = x
  BY <1>1, <1>3 DEF StrictSubsetOrdering, FiniteSubsetsOf
<1>5. PICK n \in N : x = 0 .. n
  BY <1>3 DEF T
<1>6. ASSUME NEW m \in N, m < n  PROVE FALSE
  <2>1. 0 .. m \subseteq 0 .. n /\ n \in 0 .. n /\ n \notin 0 .. m
    BY <1>6
  <2> QED
    BY <1>4, <1>5, <2>1 DEF T
<1> QED
  BY <1>6

\* The orders list_due would name from c on, if its pages had no end.
DueFrom(c) == {id \in c .. (nextSchedId - 1) :
                  schedule[id].active /\ schedule[id].next_run_at <= now}
Begin(cursor) == IF cursor < 1 THEN 1 ELSE cursor

SweepsTo(limit, from) ==
    from = [cursor \in 0 .. U32Max |->
              ListDue(cursor, limit).ids \cup
                (IF ListDue(cursor, limit).next = 0 THEN {}
                                                    ELSE from[ListDue(cursor, limit).next])]

\* A page names the due orders up to where the next one begins.
LEMMA PagesMeet ==
    ASSUME MAX_DUE_SCAN # 0, nextSchedId \in Nat \ {0}, HandedOut,
           NEW limit \in Nat \ {0}, NEW c \in 0 .. U32Max
    PROVE  LET page == ListDue(c, limit) IN
           /\ page.next = 0 => page.ids = DueFrom(Begin(c))
           /\ page.next # 0 => /\ page.next \in 1 .. U32Max /\ page.next > c
                               /\ DueFrom(Begin(c)) = page.ids \cup DueFrom(page.next)
<1> DEFINE start  == Begin(c)
           window == IF limit > MAX_DUE_SCAN THEN MAX_DUE_SCAN ELSE limit
           end    == IF start + window > nextSchedId THEN nextSchedId ELSE start + window
           page   == ListDue(c, limit)
<1>1. /\ start \in Nat \ {0} /\ start >= c /\ window \in Nat \ {0} /\ end \in Nat
      /\ c \in Nat /\ nextSchedId \in Nat \ {0} /\ U32Max \in Nat
  BY GuardAssumption DEF Begin
<1>2. page = IF window = 0 \/ start >= nextSchedId
             THEN [ids |-> {}, next |-> 0]
             ELSE [ids  |-> {id \in start .. (end - 1) :
                               schedule[id].active /\ schedule[id].next_run_at <= now},
                   next |-> IF end >= nextSchedId THEN 0 ELSE end]
  BY DEF ListDue, Begin
<1>3. CASE start >= nextSchedId
  <2>1. page.ids = {} /\ page.next = 0
    BY <1>2, <1>3
  <2>2. DueFrom(start) = {}
    BY <1>1, <1>3 DEF DueFrom
  <2> QED
    BY <2>1, <2>2
<1>4. CASE start < nextSchedId
  <2>1. /\ page.ids = {id \in start .. (end - 1) :
                         schedule[id].active /\ schedule[id].next_run_at <= now}
        /\ page.next = IF end >= nextSchedId THEN 0 ELSE end
    BY <1>1, <1>2, <1>4
  <2>2. end > start /\ end <= nextSchedId
    BY <1>1, <1>4
  <2>3. CASE end = nextSchedId
    BY <1>1, <2>1, <2>3 DEF DueFrom
  <2>4. CASE end < nextSchedId
    <3>1. page.next = end
      BY <1>1, <2>1, <2>4
    <3>2. end <= U32Max
      <4>1. end \in Ids
        BY <1>1, <2>2, <2>4 DEF HandedOut
      <4> QED
        BY <1>1, <4>1 DEF Ids
    <3>3. DueFrom(start) = page.ids \cup DueFrom(end)
      <4> HIDE DEF start, end, page
      <4>1. start .. (nextSchedId - 1) = (start .. (end - 1)) \cup (end .. (nextSchedId - 1))
        BY <1>1, <2>2, <2>4
      <4> QED
        BY <2>1, <4>1 DEF DueFrom
    <3> QED
      BY <1>1, <2>2, <3>1, <3>2, <3>3
  <2> QED
    BY <1>1, <2>2, <2>3, <2>4
<1> QED
  BY <1>1, <1>3, <1>4

\* A sweep comes to an end, and has met what is due from its beginning on.
LEMMA SweepMeetsTheDue ==
    ASSUME MAX_DUE_SCAN # 0, nextSchedId \in Nat \ {0}, HandedOut, NEW limit \in Nat \ {0}
    PROVE  Sweep(limit) = DueFrom(1)
<1> DEFINE Meets(from) == \A c \in 0 .. U32Max : from[c] = DueFrom(Begin(c))
           next(c) == ListDue(c, limit).next
           whole == [c \in 0 .. U32Max |-> DueFrom(Begin(c))]
<1>0. U32Max \in Nat
  BY GuardAssumption
<1>1. \A c \in 0 .. U32Max :
        /\ next(c) = 0 => ListDue(c, limit).ids = DueFrom(Begin(c))
        /\ next(c) # 0 =>
             /\ next(c) \in 1 .. U32Max /\ next(c) > c
             /\ DueFrom(Begin(c)) = ListDue(c, limit).ids \cup DueFrom(next(c))
  BY PagesMeet
<1>2. \A c \in 1 .. U32Max : Begin(c) = c
  BY <1>0 DEF Begin
<1>3. SweepsTo(limit, whole)
  <2>1. ASSUME NEW c \in 0 .. U32Max
        PROVE  DueFrom(Begin(c)) = ListDue(c, limit).ids \cup
                                     (IF next(c) = 0 THEN {} ELSE whole[next(c)])
    <3>1. CASE next(c) = 0
      BY <1>1, <3>1
    <3>2. CASE next(c) # 0
      <4>1. next(c) \in 0 .. U32Max /\ Begin(next(c)) = next(c)
        BY <1>0, <1>1, <1>2, <3>2
      <4>2. whole[next(c)] = DueFrom(next(c))
        BY <4>1
      <4> QED
        BY <1>1, <3>2, <4>2
    <3> QED
      BY <3>1, <3>2
  <2> QED
    BY <2>1 DEF SweepsTo
<1>4. ASSUME NEW from, SweepsTo(limit, from)
      PROVE  Meets(from)
  <2> SUFFICES ASSUME NEW d \in 0 .. U32Max, from[d] # DueFrom(Begin(d))
               PROVE  FALSE
    OBVIOUS
  <2> DEFINE Wrong == {m \in 0 .. U32Max : from[U32Max - m] # DueFrom(Begin(U32Max - m))}
  <2>1. Wrong \in SUBSET Nat /\ Wrong # {}
    <3>1. U32Max - d \in Wrong
      <4>1. U32Max - d \in 0 .. U32Max /\ U32Max - (U32Max - d) = d
        BY <1>0
      <4> QED
        BY <4>1
    <3> QED
      BY <1>0, <3>1
  <2>2. PICK m \in Wrong : \A k \in Wrong : m <= k
    <3> HIDE DEF Wrong
    <3> QED
      BY <2>1, LeastNatural
  <2> DEFINE c == U32Max - m
  <2>3. c \in 0 .. U32Max /\ from[c] # DueFrom(Begin(c))
    BY <1>0, <2>2
  <2>4. \A b \in 0 .. U32Max : b > c => from[b] = DueFrom(Begin(b))
    <3> SUFFICES ASSUME NEW b \in 0 .. U32Max, b > c  PROVE from[b] = DueFrom(Begin(b))
      OBVIOUS
    <3>1. U32Max - b \in 0 .. U32Max /\ U32Max - (U32Max - b) = b /\ m \in Nat
          /\ ~ (m <= U32Max - b)
      BY <1>0, <2>2
    <3>2. U32Max - b \notin Wrong
      BY <2>2, <3>1
    <3> QED
      BY <3>1, <3>2
  <2> HIDE DEF c, Wrong
  <2>5. from[c] = ListDue(c, limit).ids \cup (IF next(c) = 0 THEN {} ELSE from[next(c)])
    BY <1>4, <2>3 DEF SweepsTo
  <2>6. CASE next(c) = 0
    BY <1>1, <2>3, <2>5, <2>6
  <2>7. CASE next(c) # 0
    <3>1. next(c) \in 1 .. U32Max /\ next(c) \in 0 .. U32Max /\ next(c) > c
      BY <1>0, <1>1, <2>3, <2>7
    <3>2. from[next(c)] = DueFrom(next(c))
      BY <1>2, <2>4, <3>1
    <3> QED
      BY <1>1, <2>3, <2>5, <2>7, <3>2
  <2> QED
    BY <2>6, <2>7
<1>5. Sweep(limit) = (CHOOSE from : SweepsTo(limit, from))[0]
  BY DEF Sweep, SweepsTo
<1> DEFINE swept == CHOOSE from : SweepsTo(limit, from)
<1>6. SweepsTo(limit, swept)
  BY <1>3
<1> HIDE DEF swept
<1>7. swept[0] = DueFrom(Begin(0))
  BY <1>0, <1>4, <1>6
<1> QED
  BY <1>5, <1>7 DEF swept, Begin

\* What execute_schedule turns away as missing, inactive or early.
LEMMA TurnedAway ==
    ASSUME NEW id \in Ids
    PROVE  ExecuteScheduleOutcome(id) \in
              {"ScheduleNotFound", "ScheduleInactive", "ScheduleNotDue"}
           <=> schedule[id] = Null \/ ~schedule[id].active \/ now < schedule[id].next_run_at
<1> DEFINE early == {"ScheduleNotFound", "ScheduleInactive", "ScheduleNotDue"}
           s == schedule[id]
           later == Then(LoadRule(s.owner),
                    Then(CheckAsset(s.owner, s.asset),
                    Then(CheckHardCaps(s.owner, s.amount),
                    Then(FailIf(s.runs_left = 0, "Overflow"),
                    Then(FailIf(~IsLastRun(s) /\ NextSlot(s) > U64Max, "Overflow"),
                         CheckAllowance(s.owner, s.asset, s.amount))))))
<1>1. later \notin early
  BY DEF Then, FailIf, Ok, LoadRule, CheckAsset, CheckHardCaps, CheckAllowance
<1> HIDE DEF later
<1>2. ExecuteScheduleOutcome(id) =
        Then(LoadSchedule(id), Then(FailIf(~s.active, "ScheduleInactive"),
        Then(FailIf(now < s.next_run_at, "ScheduleNotDue"), later)))
  BY DEF ExecuteScheduleOutcome, later
<1> QED
  BY <1>1, <1>2 DEF Then, FailIf, Ok, LoadSchedule

\* With any page size, one sweep of list_due meets exactly the orders that
\* execute_schedule would not turn away as missing, inactive or early: whatever was
\* ordered, run and cancelled before, no order falls between two pages.
THEOREM SweepsAreComplete ==
    ASSUME MAX_DUE_SCAN # 0
    PROVE  Spec => []SweepMeetsEveryDueOrder
<1>1. Init => HandedOut
  BY DEF Init, HandedOut
<1>2. OrdersInv /\ HandedOut /\ [Next]_vars => HandedOut'
  BY HandedOutStep DEF OrdersInv
<1>3. OrdersInv /\ HandedOut => SweepMeetsEveryDueOrder
  <2> SUFFICES ASSUME OrdersInv, HandedOut, NEW limit \in 1 .. (MAX_DUE_SCAN + 1)
               PROVE  Sweep(limit) =
                        {id \in Ids : ExecuteScheduleOutcome(id) \notin
                           {"ScheduleNotFound", "ScheduleInactive", "ScheduleNotDue"}}
    BY DEF SweepMeetsEveryDueOrder
  <2>1. limit \in Nat \ {0} /\ nextSchedId \in Nat \ {0} /\ now \in Nat
    BY GuardAssumption DEF OrdersInv, GuardInv, TypeOK, OrdersTypeOK
  <2>2. Sweep(limit) = DueFrom(1)
    BY <2>1, SweepMeetsTheDue
  <2>3. ASSUME NEW id \in Ids
        PROVE  id \in DueFrom(1) <=> ~ (schedule[id] = Null \/ ~schedule[id].active
                                        \/ now < schedule[id].next_run_at)
    <3>1. id \in Nat \ {0}
      BY GuardAssumption DEF Ids
    <3>2. id \in 1 .. (nextSchedId - 1) <=> id < nextSchedId
      BY <2>1, <3>1
    <3>3. schedule[id] # Null <=> id < nextSchedId
      BY <3>1 DEF OrdersInv, FreshIds, HandedOut
    <3>4. schedule[id] # Null => schedule[id].next_run_at \in Nat
      BY DEF OrdersInv, GuardInv, TypeOK, OrdersTypeOK, Schedule
    <3> QED
      BY <2>1, <3>2, <3>3, <3>4 DEF DueFrom
  <2>4. DueFrom(1) \subseteq Ids
    BY <2>1 DEF DueFrom, HandedOut
  <2> QED
    BY <2>2, <2>3, <2>4, TurnedAway
<1> QED
  BY <1>1, <1>2, <1>3, InitHasNoOrders, OrdersInvStep, PTL DEF Spec

=============================================================================
