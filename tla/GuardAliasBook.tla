--------------------------- MODULE GuardAliasBook ---------------------------
(***************************************************************************)
(* The alias book of the polaris_guard contract: set_alias and             *)
(* remove_alias of contracts/polaris_guard/src/lib.rs.                     *)
(*                                                                         *)
(* The book is keyed by the spoken name, but the rule                      *)
(* known_recipients_only asks "is this ADDRESS known?".  The contract      *)
(* cannot enumerate its storage keys, so it keeps a marker and a           *)
(* reference count per (owner, address) beside the book.  Three entries    *)
(* must agree: DataKey::Alias, DataKey::Known and DataKey::KnownRefs.      *)
(*                                                                         *)
(* A contract call is one atomic step: the host runs it alone and rolls    *)
(* back every write of a call that returns an error.  A definition marked  *)
(* "Faulty variant" is no part of the specification: it is a slip the      *)
(* properties are expected to notice, kept beside the correct form.        *)
(***************************************************************************)
EXTENDS Naturals, FiniteSets

CONSTANTS
    Owners,   \* accounts that hold a book
    Names,    \* spoken names
    Addrs,    \* recipients
    Null      \* an absent storage entry

ASSUME AliasBookAssumption == IsFiniteSet(Names) /\ Null \notin Addrs

VARIABLES
    alias,    \* alias[o][n]: DataKey::Alias(o, n), or Null
    marks     \* marks[o]: DataKey::Known(o, _) and DataKey::KnownRefs(o, _)

bookVars == <<alias, marks>>

\* The addresses with a Known marker, and the count of each (0: no entry).
Marks == [known : SUBSET Addrs, refs : [Addrs -> Nat]]

NoMarks == [known |-> {}, refs |-> [a \in Addrs |-> 0]]

BookTypeOK ==
    /\ alias \in [Owners -> [Names -> Addrs \cup {Null}]]
    /\ marks \in [Owners -> Marks]

BookInit ==
    /\ alias = [o \in Owners |-> [n \in Names |-> Null]]
    /\ marks = [o \in Owners |-> NoMarks]

-----------------------------------------------------------------------------
(* The two helpers, as functions from an owner's marks to its new marks.    *)

RefKnown(m, to) ==
    [known |-> m.known \cup {to}, refs |-> [m.refs EXCEPT ![to] = @ + 1]]

\* The marker goes away with the last reference only.
UnrefKnown(m, to) ==
    IF m.refs[to] <= 1
    THEN [known |-> m.known \ {to}, refs |-> [m.refs EXCEPT ![to] = 0]]
    ELSE [known |-> m.known, refs |-> [m.refs EXCEPT ![to] = @ - 1]]

\* Faulty variant: a re-pointed name leaves its old address marked.
RepointAddingOnly(m, previous, to) ==
    IF previous = to THEN m ELSE RefKnown(m, to)

\* What set_alias makes of the marks when the name resolved to previous.
Repoint(m, previous, to) ==
    IF previous = Null THEN RefKnown(m, to)
    ELSE IF previous # to THEN RefKnown(UnrefKnown(m, previous), to)
    ELSE m

SetAlias(o, n, to) ==
    /\ marks' = [marks EXCEPT ![o] = Repoint(@, alias[o][n], to)]
    /\ alias' = [alias EXCEPT ![o][n] = to]

RemoveAlias(o, n) ==
    /\ alias[o][n] # Null
    /\ alias' = [alias EXCEPT ![o][n] = Null]
    /\ marks' = [marks EXCEPT ![o] = UnrefKnown(@, alias[o][n])]

IsKnownRecipient(o, to) == to \in marks[o].known

BookNext ==
    \E o \in Owners, n \in Names :
        \/ \E to \in Addrs : SetAlias(o, n, to)
        \/ RemoveAlias(o, n)

BookSpec == BookInit /\ [][BookNext]_bookVars

-----------------------------------------------------------------------------

NamesOf(o, a) == {n \in Names : alias[o][n] = a}

\* The count of an address is the number of the owner's names that resolve
\* to it now, so the marker is dropped at the right moment whatever the order
\* of set_alias, re-pointing and remove_alias (the comment of KnownRefs).
RefsCountAliases ==
    \A o \in Owners : \A a \in Addrs :
        marks[o].refs[a] = Cardinality(NamesOf(o, a))

\* An address is payable without the owner's approval exactly while one of the
\* owner's names resolves to it: moving a name to a new wallet does not leave
\* the old wallet payable, and a shared wallet stays known while either name
\* survives.
KnownIffAliased ==
    \A o \in Owners : \A a \in Addrs :
        IsKnownRecipient(o, a) <=> (\E n \in Names : alias[o][n] = a)

BookInv == BookTypeOK /\ RefsCountAliases /\ KnownIffAliased
=============================================================================
