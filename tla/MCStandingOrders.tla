-------------------------- MODULE MCStandingOrders --------------------------
(* Standing orders from both ends: the keeper that runs them and the app     *)
(* that creates and cancels them.  A behaviour belongs to one part and       *)
(* leaves the other at rest: in this instance the parts do not meet.  The    *)
(* bounds of both are in the configuration.                                  *)
EXTENDS Keeper, ScheduleBook

VARIABLE part

\* A keeper to whom no order is due.
NothingIsDue ==
    /\ due = {} /\ allowed = Ids /\ archived = Archivable /\ ran = {}
    /\ txs = [i \in Ids |-> None] /\ strays = {} /\ restarts = 0 /\ report = None
    /\ InitMemory

OrdersInit ==
    /\ part \in {"keeper", "book"}
    /\ IF part = "keeper" THEN Init ELSE NothingIsDue
    /\ BookInit /\ (part = "keeper" => env = contacts)

KeeperPart == part = "keeper" /\ Next /\ UNCHANGED <<part, bookVars>>
BookPart   == part = "book" /\ BookNext /\ UNCHANGED <<part, vars>>
OrdersNext == KeeperPart \/ BookPart

\* The keeper's own fairness, as its module states it.
OrdersFairness ==
    /\ WF_vars(part = "keeper" /\ KeeperStep)
    /\ SF_vars(part = "keeper" /\ FetchPage)
    /\ \A i \in Ids : /\ SF_vars(part = "keeper" /\ Resolve(i))
                      /\ SF_vars(part = "keeper" /\ WindowPasses(i))
                      /\ WF_vars(part = "keeper" /\ Lapses(i))

OrdersSpec == OrdersInit /\ [][OrdersNext]_<<part, vars, bookVars>> /\ OrdersFairness
=============================================================================
