---------------------------- MODULE PolarisGuard ----------------------------
(***************************************************************************)
(* The polaris_guard contract, contracts/polaris_guard/src/lib.rs: the     *)
(* owner's rule, the agent's executor key, the three payment paths and the *)
(* standing orders.  The alias book is GuardAliasBook.                     *)
(*                                                                         *)
(* One action is one successful contract call.  A call that returns an     *)
(* error is rolled back by the host and leaves no trace, so an error is an *)
(* outcome (the operators named ...Outcome, in the order the code tests),  *)
(* not a step.  require_auth is the first argument of the owner's calls.   *)
(* Storage rent (bump) and events are left out: an archived entry is       *)
(* restored before it is read, and nothing in the contract reads an event. *)
(***************************************************************************)
EXTENDS GuardAliasBook, Integers, Sequences, SequencesExt

CONSTANTS
    Assets,                  \* SEP-41 tokens
    Executors,               \* agent keys
    RuleChoices,             \* rules an owner may submit
    Amounts,                 \* payment amounts a caller may submit
    AllowanceChoices,        \* allowances the token may hold for the guard
    StartTimes, Intervals, RunCounts,   \* the inputs of create_schedule
    MaxTime,                 \* bound on the ledger clock
    DAY_SECS, MAX_ACTIVE_PER_OWNER, MAX_DUE_SCAN,
    U32Max, U64Max           \* the largest u32 and u64

Rule == [auto_approve_limit : Int, per_tx_limit : Int, daily_limit : Int,
         allowed_assets : SUBSET Assets, known_recipients_only : BOOLEAN]

\* Ids are handed out from 1; the one after the last must still be a u32.
Ids == 1 .. (U32Max - 1)

Schedule == [owner : Owners, asset : Assets, amount : Int, next_run_at : Nat,
             interval_secs : Nat, runs_left : Nat, active : BOOLEAN]

ASSUME GuardAssumption ==
    /\ RuleChoices \subseteq Rule
    /\ Amounts \subseteq Int
    /\ AllowanceChoices \subseteq Nat
    /\ StartTimes \subseteq 0 .. U64Max
    /\ Intervals \subseteq 0 .. U64Max
    /\ RunCounts \subseteq Nat
    /\ MaxTime \in Nat /\ U32Max \in Nat /\ U64Max \in Nat
    /\ MaxTime <= U64Max
    /\ DAY_SECS \in Nat \ {0}
    /\ MAX_ACTIVE_PER_OWNER \in Nat /\ MAX_DUE_SCAN \in Nat
    /\ Null \notin Rule /\ Null \notin Executors /\ Null \notin Schedule

VARIABLES
    rule, executor,          \* DataKey::Rule(o), DataKey::Executor(o), or Null
    spent,                   \* DataKey::Spent(o): its day and sum (no entry: a sum of 0)
    schedule,                \* DataKey::Schedule(id), or Null
    ownerScheds,             \* DataKey::OwnerScheds(o): the active ids
    nextSchedId,             \* DataKey::NextSchedId
    allowance,               \* external, the token: what the guard may still move
    now,                     \* external, the ledger: env.ledger().timestamp()
    debited,                 \* history: what the token moved for o since midnight
    orders                   \* history: what each id was ordered to do, and its runs

ruleVars == <<rule, executor>>
scheduleVars == <<schedule, ownerScheds, nextSchedId, orders>>
moneyVars == <<spent, allowance, debited>>
vars == <<bookVars, ruleVars, scheduleVars, moneyVars, now>>

Init ==
    /\ BookInit
    /\ rule = [o \in Owners |-> Null]
    /\ executor = [o \in Owners |-> Null]
    /\ spent = [o \in Owners |-> [day |-> 0, amount |-> 0]]
    /\ schedule = [id \in Ids |-> Null]
    /\ ownerScheds = [o \in Owners |-> <<>>]
    /\ nextSchedId = 1
    /\ allowance = [o \in Owners |-> [a \in Assets |-> 0]]
    /\ now = 0
    /\ debited = [o \in Owners |-> 0]
    /\ orders = [id \in Ids |-> [first |-> 0, runs |-> 0, ranAt |-> {}]]

-----------------------------------------------------------------------------
(* Outcomes.  Then(a, b) is Rust's "a?; b": the first error wins.           *)

Ok == "Ok"
Then(first, second) == IF first = Ok THEN second ELSE first
FailIf(condition, error) == IF condition THEN error ELSE Ok

Today == now \div DAY_SECS

\* An entry of an earlier day reads as zero: that is the daily reset.
ReadSpend(o) == IF spent[o].day = Today THEN spent[o].amount ELSE 0

LoadRule(o) == FailIf(rule[o] = Null, "NotConfigured")

CheckAsset(o, asset) ==
    FailIf(asset \notin rule[o].allowed_assets, "AssetNotAllowed")

\* Faulty variant: the cap is compared with the sum before this payment.
CheckHardCapsBeforeAdding(o, amount) ==
    Then(FailIf(amount <= 0, "InvalidAmount"),
    Then(FailIf(amount > rule[o].per_tx_limit, "OverPerTxLimit"),
         FailIf(ReadSpend(o) >= rule[o].daily_limit, "OverDailyLimit")))

\* The two caps that bind on every path.  A sum past i128 is past the limit.
CheckHardCaps(o, amount) ==
    Then(FailIf(amount <= 0, "InvalidAmount"),
    Then(FailIf(amount > rule[o].per_tx_limit, "OverPerTxLimit"),
         FailIf(ReadSpend(o) + amount > rule[o].daily_limit, "OverDailyLimit")))

CheckAllowance(o, asset, amount) ==
    FailIf(allowance[o][asset] < amount, "InsufficientAllowance")

CheckExecutor(o, e) ==
    Then(FailIf(executor[o] = Null, "NoExecutor"),
         FailIf(executor[o] # e, "NotExecutor"))

\* What the agent may do without the owner.
CheckUnattended(o, to, amount) ==
    FailIf(\/ amount > rule[o].auto_approve_limit
           \/ rule[o].known_recipients_only /\ ~IsKnownRecipient(o, to),
           "NeedsOwnerApproval")

PayOwnerOutcome(o, asset, amount) ==
    Then(LoadRule(o),
    Then(CheckHardCaps(o, amount),
         CheckAllowance(o, asset, amount)))

\* Faulty variant: "ask the owner" is answered before the hard caps are tried.
PayExecutorOutcomeAskingFirst(e, o, to, asset, amount) ==
    Then(CheckExecutor(o, e),
    Then(LoadRule(o),
    Then(CheckAsset(o, asset),
    Then(CheckUnattended(o, to, amount),
    Then(CheckHardCaps(o, amount),
         CheckAllowance(o, asset, amount))))))

PayExecutorOutcome(e, o, to, asset, amount) ==
    Then(CheckExecutor(o, e),
    Then(LoadRule(o),
    Then(CheckAsset(o, asset),
    Then(CheckHardCaps(o, amount),
    Then(CheckUnattended(o, to, amount),
         CheckAllowance(o, asset, amount))))))

-----------------------------------------------------------------------------
(* The owner's policy.                                                      *)

ValidRule(r) ==
    /\ r.per_tx_limit > 0 /\ r.daily_limit > 0
    /\ 0 <= r.auto_approve_limit
    /\ r.auto_approve_limit <= r.per_tx_limit
    /\ r.per_tx_limit <= r.daily_limit
    /\ \A a, b \in r.allowed_assets : a = b

\* Today's spend is kept: a lower limit counts against money already spent.
SetRule(o, r) ==
    /\ ValidRule(r)
    /\ rule' = [rule EXCEPT ![o] = r]
    /\ UNCHANGED <<bookVars, executor, scheduleVars, moneyVars, now>>

SetExecutor(o, e) ==
    /\ executor' = [executor EXCEPT ![o] = e]
    /\ UNCHANGED <<bookVars, rule, scheduleVars, moneyVars, now>>

RevokeExecutor(o) ==
    /\ executor' = [executor EXCEPT ![o] = Null]
    /\ UNCHANGED <<bookVars, rule, scheduleVars, moneyVars, now>>

ChangeBook ==
    /\ BookNext
    /\ UNCHANGED <<ruleVars, scheduleVars, moneyVars, now>>

-----------------------------------------------------------------------------
(* Payments.                                                                *)

\* Faulty variant: a new day's first payment adds to the old day's sum.
RecordSpendAdding(o, amount) ==
    spent' = [spent EXCEPT ![o] = [day |-> Today, amount |-> @.amount + amount]]

RecordSpend(o, amount) ==
    spent' = [spent EXCEPT ![o] = [day |-> Today, amount |-> ReadSpend(o) + amount]]

\* token.transfer_from, which draws on the allowance the owner gave the guard.
Settle(o, asset, amount) ==
    /\ allowance' = [allowance EXCEPT ![o][asset] = @ - amount]
    /\ debited' = [debited EXCEPT ![o] = @ + amount]

PayOwner(o, asset, amount) ==
    /\ PayOwnerOutcome(o, asset, amount) = Ok
    /\ RecordSpend(o, amount)
    /\ Settle(o, asset, amount)
    /\ UNCHANGED <<bookVars, ruleVars, scheduleVars, now>>

PayExecutor(e, o, to, asset, amount) ==
    /\ PayExecutorOutcome(e, o, to, asset, amount) = Ok
    /\ RecordSpend(o, amount)
    /\ Settle(o, asset, amount)
    /\ UNCHANGED <<bookVars, ruleVars, scheduleVars, now>>

-----------------------------------------------------------------------------
(* Standing orders.                                                         *)

CreateScheduleOutcome(o, asset, amount, interval, runs) ==
    Then(FailIf(amount <= 0, "InvalidAmount"),
    Then(FailIf(runs = 0 \/ (interval = 0 /\ runs # 1), "InvalidSchedule"),
    Then(LoadRule(o),
    Then(CheckAsset(o, asset),
    Then(FailIf(amount > rule[o].per_tx_limit, "OverPerTxLimit"),
    Then(FailIf(Len(ownerScheds[o]) >= MAX_ACTIVE_PER_OWNER, "TooManySchedules"),
         FailIf(nextSchedId + 1 > U32Max, "Overflow")))))))

\* first may be in the past: the order is then due at once.
CreateSchedule(o, asset, amount, first, interval, runs) ==
    /\ CreateScheduleOutcome(o, asset, amount, interval, runs) = Ok
    /\ nextSchedId' = nextSchedId + 1
    /\ schedule' = [schedule EXCEPT ![nextSchedId] =
            [owner |-> o, asset |-> asset, amount |-> amount, next_run_at |-> first,
             interval_secs |-> interval, runs_left |-> runs, active |-> TRUE]]
    /\ ownerScheds' = [ownerScheds EXCEPT ![o] = Append(@, nextSchedId)]
    /\ orders' = [orders EXCEPT ![nextSchedId] =
            [first |-> first, runs |-> runs, ranAt |-> {}]]
    /\ UNCHANGED <<bookVars, ruleVars, moneyVars, now>>

\* Faulty variant: a finished order keeps its slot in the owner's index.
DeindexNothing(o, id) == UNCHANGED ownerScheds

Deindex(o, id) ==
    LET owned == ownerScheds[o] IN
    \/ \E i \in 1 .. Len(owned) :
          /\ owned[i] = id /\ \A j \in 1 .. (i - 1) : owned[j] # id
          /\ ownerScheds' = [ownerScheds EXCEPT ![o] = RemoveAt(owned, i)]
    \/ /\ \A i \in 1 .. Len(owned) : owned[i] # id
       /\ UNCHANGED ownerScheds

LoadSchedule(id) == FailIf(schedule[id] = Null, "ScheduleNotFound")

CancelScheduleOutcome(o, id) ==
    Then(LoadSchedule(id),
    Then(FailIf(schedule[id].owner # o, "NotScheduleOwner"),
         FailIf(~schedule[id].active, "ScheduleInactive")))

CancelSchedule(o, id) ==
    /\ CancelScheduleOutcome(o, id) = Ok
    /\ schedule' = [schedule EXCEPT ![id].active = FALSE]
    /\ Deindex(o, id)
    /\ UNCHANGED <<bookVars, ruleVars, moneyVars, nextSchedId, orders, now>>

\* The run that is left is the last one.
IsLastRun(s) == s.interval_secs = 0 \/ s.runs_left = 1

\* Faulty variant: the skipped slots are kept, to be caught up with later.
NextSlotCatchingUp(s) == s.next_run_at + s.interval_secs

\* The first slot after now; the slots missed in between are dropped.
NextSlot(s) ==
    s.next_run_at + ((now - s.next_run_at) \div s.interval_secs + 1) * s.interval_secs

\* Faulty variant: the slot is left where it was.
AfterRunInPlace(s) ==
    [s EXCEPT !.runs_left = @ - 1, !.active = ~IsLastRun(s)]

AfterRun(s) ==
    [s EXCEPT !.runs_left = @ - 1,
              !.active = ~IsLastRun(s),
              !.next_run_at = IF IsLastRun(s) THEN @ ELSE NextSlot(s)]

\* Faulty variant: a cancelled order can still be run.
ExecuteScheduleOutcomeIgnoringActive(id) ==
    LET s == schedule[id] IN
    Then(LoadSchedule(id),
    Then(FailIf(s.runs_left = 0, "ScheduleInactive"),
    Then(FailIf(now < s.next_run_at, "ScheduleNotDue"),
    Then(LoadRule(s.owner),
    Then(CheckAsset(s.owner, s.asset),
    Then(CheckHardCaps(s.owner, s.amount),
    Then(FailIf(~IsLastRun(s) /\ NextSlot(s) > U64Max, "Overflow"),
         CheckAllowance(s.owner, s.asset, s.amount))))))))

ExecuteScheduleOutcome(id) ==
    LET s == schedule[id] IN
    Then(LoadSchedule(id),
    Then(FailIf(~s.active, "ScheduleInactive"),
    Then(FailIf(now < s.next_run_at, "ScheduleNotDue"),
    Then(LoadRule(s.owner),
    Then(CheckAsset(s.owner, s.asset),
    Then(CheckHardCaps(s.owner, s.amount),
    Then(FailIf(s.runs_left = 0, "Overflow"),
    Then(FailIf(~IsLastRun(s) /\ NextSlot(s) > U64Max, "Overflow"),
         CheckAllowance(s.owner, s.asset, s.amount)))))))))

\* No authorisation: anyone may be the keeper.
ExecuteSchedule(id) ==
    LET s == schedule[id] IN
    /\ ExecuteScheduleOutcome(id) = Ok
    /\ RecordSpend(s.owner, s.amount)
    /\ schedule' = [schedule EXCEPT ![id] = AfterRun(s)]
    /\ IF IsLastRun(s) THEN Deindex(s.owner, id) ELSE UNCHANGED ownerScheds
    /\ Settle(s.owner, s.asset, s.amount)
    /\ orders' = [orders EXCEPT ![id].ranAt = @ \cup {now}]
    /\ UNCHANGED <<bookVars, ruleVars, nextSchedId, now>>

\* Faulty variant: an order is listed only once its time has passed.
ListDueAfterTheTime(cursor, limit) ==
    LET start  == IF cursor < 1 THEN 1 ELSE cursor
        window == IF limit > MAX_DUE_SCAN THEN MAX_DUE_SCAN ELSE limit
        end    == IF start + window > nextSchedId THEN nextSchedId ELSE start + window
    IN  IF window = 0 \/ start >= nextSchedId
        THEN [ids |-> {}, next |-> 0]
        ELSE [ids  |-> {id \in start .. (end - 1) :
                          schedule[id].active /\ schedule[id].next_run_at < now},
              next |-> IF end >= nextSchedId THEN 0 ELSE end]

\* list_due: the due ids of one window, and the cursor of the next window (0
\* after the last).  Read-only.
ListDue(cursor, limit) ==
    LET start  == IF cursor < 1 THEN 1 ELSE cursor
        window == IF limit > MAX_DUE_SCAN THEN MAX_DUE_SCAN ELSE limit
        end    == IF start + window > nextSchedId THEN nextSchedId ELSE start + window
    IN  IF window = 0 \/ start >= nextSchedId
        THEN [ids |-> {}, next |-> 0]
        ELSE [ids  |-> {id \in start .. (end - 1) :
                          schedule[id].active /\ schedule[id].next_run_at <= now},
              next |-> IF end >= nextSchedId THEN 0 ELSE end]

-----------------------------------------------------------------------------
(* The token and the ledger around the contract.                            *)

\* token.approve by the owner, and the allowance's expiry (to 0).
Approve(o, asset, amount) ==
    /\ allowance' = [allowance EXCEPT ![o][asset] = amount]
    /\ UNCHANGED <<bookVars, ruleVars, scheduleVars, spent, debited, now>>

\* A later ledger closes.
Tick ==
    /\ \E t \in (now + 1) .. MaxTime : now' = t
    /\ debited' = IF now' \div DAY_SECS = Today THEN debited
                  ELSE [o \in Owners |-> 0]
    /\ UNCHANGED <<bookVars, ruleVars, scheduleVars, spent, allowance>>

OwnerCall(o) ==
    \/ \E r \in RuleChoices : SetRule(o, r)
    \/ \E e \in Executors : SetExecutor(o, e)
    \/ RevokeExecutor(o)
    \/ \E id \in Ids : CancelSchedule(o, id)
    \/ \E asset \in Assets, amount \in Amounts :
          \/ PayOwner(o, asset, amount)
          \/ \E first \in StartTimes, interval \in Intervals, runs \in RunCounts :
                CreateSchedule(o, asset, amount, first, interval, runs)

AgentCall ==
    \E e \in Executors, o \in Owners, to \in Addrs, asset \in Assets, amount \in Amounts :
        PayExecutor(e, o, to, asset, amount)

KeeperCall == \E id \in Ids : ExecuteSchedule(id)

TokenCall ==
    \E o \in Owners, asset \in Assets, amount \in AllowanceChoices :
        Approve(o, asset, amount)

Next ==
    \/ \E o \in Owners : OwnerCall(o)
    \/ ChangeBook
    \/ AgentCall
    \/ KeeperCall
    \/ TokenCall
    \/ Tick

Spec == Init /\ [][Next]_vars

-----------------------------------------------------------------------------
(* Properties.                                                              *)

PolicyTypeOK ==
    /\ BookTypeOK
    /\ rule \in [Owners -> Rule \cup {Null}]
    /\ executor \in [Owners -> Executors \cup {Null}]

OrdersTypeOK ==
    /\ schedule \in [Ids -> Schedule \cup {Null}]
    /\ ownerScheds \in [Owners -> Seq(Ids)]
    /\ nextSchedId \in Nat \ {0}
    /\ orders \in [Ids -> [first : Nat, runs : Nat, ranAt : SUBSET Nat]]

\* The token is never asked for more than it holds for the guard.
MoneyTypeOK ==
    /\ spent \in [Owners -> [day : Nat, amount : Int]]
    /\ allowance \in [Owners -> [Assets -> Nat]]
    /\ debited \in [Owners -> Nat]

TypeOK == PolicyTypeOK /\ OrdersTypeOK /\ MoneyTypeOK /\ now \in Nat

\* The day-stamped counter, read as the code reads it, is what the token has
\* moved for the owner since midnight, on every path and across midnights on
\* which nothing was paid: no payment escapes the daily limit, and no stale
\* amount counts against a new day.
CounterMatchesDebits == \A o \in Owners : ReadSpend(o) = debited[o]

\* The counter's day is never a day to come, so a stale entry cannot turn
\* current again.
CounterDayIsPast == \A o \in Owners : spent[o].day <= Today

Budget == INSTANCE SpendingBudget WITH
    limit <- [o \in Owners |-> IF rule[o] = Null THEN 0 ELSE rule[o].daily_limit],
    used  <- debited

\* However the owner, the agent and the keepers interleave, and whatever the
\* owner does to the rule in between, the money that leaves the account
\* between two midnights stays within the daily limit (SpendingBudget).
ImplementsBudget == Budget!BudgetSpec

\* When the agent's payment is answered NeedsOwnerApproval, the owner's
\* signature really is what is missing: the same payment through pay_owner
\* passes every rule, and only the token can refuse it (the doc of
\* pay_executor: "re-submit this through pay_owner after a Touch ID prompt").
EscalationIsAnswerable ==
    \A o \in Owners, e \in Executors, to \in Addrs, asset \in Assets, amount \in Amounts :
        PayExecutorOutcome(e, o, to, asset, amount) = "NeedsOwnerApproval"
            => PayOwnerOutcome(o, asset, amount) \in {Ok, "InsufficientAllowance"}

\* What the doc of Error says of every other answer the registered agent gets:
\* "a hard stop that re-signing cannot fix".
HardStopsStayHard ==
    \A o \in Owners, e \in Executors, to \in Addrs, asset \in Assets, amount \in Amounts :
        /\ executor[o] = e
        /\ PayExecutorOutcome(e, o, to, asset, amount) \notin {Ok, "NeedsOwnerApproval"}
        => PayOwnerOutcome(o, asset, amount) # Ok

ActiveIds(o) ==
    {id \in Ids : schedule[id] # Null /\ schedule[id].owner = o /\ schedule[id].active}

\* The owner's index lists the active orders, each once, and no others: a
\* cancelled or finished order frees its slot, an active one is never lost from
\* list_schedules, and the cap counts what it should.
IndexIsExact ==
    \A o \in Owners :
        /\ {ownerScheds[o][i] : i \in DOMAIN ownerScheds[o]} = ActiveIds(o)
        /\ Len(ownerScheds[o]) = Cardinality(ActiveIds(o))
        /\ Len(ownerScheds[o]) <= MAX_ACTIVE_PER_OWNER

\* Every run is paid for: the runs made and the runs left add up to the runs the
\* owner signed for (a keeper that wakes late neither loses nor adds any), no
\* two runs share a ledger timestamp, and an active order has a run left.
RunsAccounted ==
    \A id \in Ids : schedule[id] # Null =>
        /\ schedule[id].runs_left + Cardinality(orders[id].ranAt) = orders[id].runs
        /\ schedule[id].active => schedule[id].runs_left >= 1

SlotAt(id, t) == (t - orders[id].first) \div schedule[id].interval_secs

\* Two runs of an order never fall in the same interval, however many keepers
\* call and however late they are (the doc of execute_schedule).
OneRunPerSlot ==
    \A id \in Ids : schedule[id] # Null =>
        \A t, u \in orders[id].ranAt :
            t # u => SlotAt(id, t) # SlotAt(id, u)

\* An order that was cancelled or has finished never changes again: it cannot be
\* run, revived or cancelled twice.
InactiveIsFinal ==
    [][\A id \in Ids :
         schedule[id] # Null /\ ~schedule[id].active => schedule'[id] = schedule[id]]_vars

\* The keeper's loop of the doc of list_due: from cursor 0 until 0 comes back.
Sweep(limit) ==
    LET from[cursor \in 0 .. U32Max] ==
            LET page == ListDue(cursor, limit)
            IN  page.ids \cup (IF page.next = 0 THEN {} ELSE from[page.next])
    IN  from[0]

\* With any page size, clamped or not, one sweep meets exactly the orders that
\* execute_schedule would not turn away as missing, inactive or early: the two
\* functions agree on what "due" is, and no id falls between two pages.
SweepMeetsEveryDueOrder ==
    \A limit \in 1 .. (MAX_DUE_SCAN + 1) :
        Sweep(limit) =
            {id \in Ids : ExecuteScheduleOutcome(id) \notin
                {"ScheduleNotFound", "ScheduleInactive", "ScheduleNotDue"}}
=============================================================================
