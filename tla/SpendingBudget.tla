--------------------------- MODULE SpendingBudget ---------------------------
(***************************************************************************)
(* What the guard promises an owner about money, whatever path it leaves   *)
(* by (the "Three actors, three entry points" table of polaris_guard):     *)
(* between two midnights the sum of all payments never passes the daily    *)
(* limit in force when a payment is made.  Lowering the limit does not     *)
(* give back what was spent, and raising it does not forget it.            *)
(***************************************************************************)
EXTENDS Integers

CONSTANT Owners

VARIABLES
    limit,    \* the daily limit each owner has published, 0 before the first
    used      \* what has left each owner's account since midnight

budgetVars == <<limit, used>>

BudgetInit ==
    /\ limit = [o \in Owners |-> 0]
    /\ used = [o \in Owners |-> 0]

SetLimit(o) ==
    /\ limit'[o] \in Nat
    /\ limit' = [limit EXCEPT ![o] = limit'[o]]
    /\ UNCHANGED used

Spend(o) ==
    /\ used'[o] > used[o]
    /\ used'[o] <= limit[o]
    /\ used' = [used EXCEPT ![o] = used'[o]]
    /\ UNCHANGED limit

Midnight ==
    /\ used' = [o \in Owners |-> 0]
    /\ UNCHANGED limit

BudgetNext ==
    \/ \E o \in Owners : SetLimit(o) \/ Spend(o)
    \/ Midnight

BudgetSpec == BudgetInit /\ [][BudgetNext]_budgetVars
=============================================================================
