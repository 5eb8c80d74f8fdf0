---------------------------- MODULE ScheduleBook ----------------------------
(***************************************************************************)
(* Standing orders as the app creates, lists and cancels them              *)
(* (stellar/src/schedule, app/src/lib/schedules.ts and schedulesLive.ts,   *)
(* the form of the Tasks page), over what polaris_guard keeps of them.     *)
(*                                                                         *)
(* A wish comes from the form or from a spoken turn.  It becomes an        *)
(* intent, a draft and a call, over reads of the rule, the orders and the  *)
(* allowance that others change meanwhile; the call is approved and        *)
(* submitted long after it was built.  Times are days: ScheduleTime models *)
(* how the first run is found.  One asset; amounts are small numbers.      *)
(***************************************************************************)
EXTENDS Naturals, FiniteSets

CONSTANTS Names, Addresses,
          Flows,                 \* wishes that may be under way at once
          Amounts, Limits,       \* amounts, and limits and allowances
          MAX_SCHEDULES,         \* MAX_ACTIVE_PER_OWNER of the contract
          REPEAT_RUNS,           \* the runs the form gives a repeating order
          MaxIds, MaxTime        \* bounds on the orders and on the clock

OrderIds == 1 .. MaxIds
Absent == "none"
Nobody == "nobody"               \* the address of a name nobody has

VARIABLES
    contacts,    \* the saved contacts: an address for a name, or Nobody
    env,         \* POLARIS_ALIASES, which win over the contacts
    flow,        \* of each wish: where it is, the intent, the call and what was shown
    rule,        \* the owner's rule: whether it allows the asset, and its per-run limit
    allowance,   \* what the guard may still move
    order,       \* the orders by id
    now

bookVars == <<contacts, env, flow, rule, allowance, order, now>>

NoRule   == [published |-> FALSE, allows |-> FALSE, per_tx_limit |-> 0]
RuleChoices == {NoRule} \cup [published : {TRUE}, allows : {TRUE}, per_tx_limit : Limits]
                       \cup [published : {TRUE}, allows : {FALSE}, per_tx_limit : {1}]
NoOrder  == [state |-> "none", to |-> Nobody, amount |-> 0, next |-> 0, interval |-> 0,
             runs_left |-> 0, wish |-> Absent]
NoIntent == [kind |-> Absent, recipient |-> Absent, amount |-> 0, first |-> 0, repeat |-> Absent,
             runs |-> 0, id |-> 0, which |-> Absent]
NoCall   == [op |-> Absent, id |-> 0, to |-> Nobody, amount |-> 0, first |-> 0, interval |-> 0, runs |-> 0]
Idle     == [at |-> "idle", intent |-> NoIntent, call |-> NoCall, shown |-> NoCall]

BookInit ==
    /\ contacts = [n \in Names |-> Nobody] /\ env \in [Names -> Addresses \cup {Nobody}]
    /\ flow = [f \in Flows |-> Idle]
    /\ rule = NoRule /\ allowance = 0
    /\ order = [i \in OrderIds |-> NoOrder] /\ now = 0

Active == {i \in OrderIds : order[i].state = "active"}

\* aliases_with_contacts: the environment wins.
Book == [n \in Names |-> IF env[n] # Nobody THEN env[n] ELSE contacts[n]]

Chain == <<rule, allowance, order, now>>
Goes(f, at) == flow' = [flow EXCEPT ![f].at = at]

-----------------------------------------------------------------------------
(* From a wish to a call.                                                  *)

\* A name, or the address of a contact, which stands for its name.
resolveRecipientAlias(to) ==
    IF to \in Names THEN {to} ELSE {n \in Names : contacts[n] = to}

\* buildSimpleSchedule and buildScheduleForm: a repeating order has a number of runs.
FormIntent(to, amount, every, first) ==
    [NoIntent EXCEPT !.kind = "schedule_payment", !.recipient = to, !.amount = amount,
                     !.first = first, !.repeat = every,
                     !.runs = IF every = "once" THEN 0 ELSE REPEAT_RUNS]

draftFromIntent(i) == [i EXCEPT !.kind = "draft"]

\* The seconds between runs and the number of them; no number means one.
IntervalSecs == [once |-> 0, day |-> 1, week |-> 2]
resolveInterval(every, runs) ==
    [interval |-> IntervalSecs[every], runs |-> IF every = "once" \/ runs = 0 THEN 1 ELSE runs]

\* parseDraft: the recipient must be in the book, a one-shot order runs once.
Parses(d) ==
    /\ Book[d.recipient] # Nobody /\ d.amount > 0
    /\ d.repeat = "once" => d.runs <= 1

parseDraft(d) ==
    LET r == resolveInterval(d.repeat, d.runs)
    IN [NoCall EXCEPT !.op = "create_schedule", !.to = Book[d.recipient], !.amount = d.amount,
                      !.first = d.first, !.interval = r.interval, !.runs = r.runs]

\* A first run must lie ahead.
InTime(d) == d.first > now

\* The form is sent, or a spoken turn ends in an intent.
Wishes(f, i) ==
    /\ flow[f].at = "idle"
    /\ flow' = [flow EXCEPT ![f] = [Idle EXCEPT !.at = "wished", !.intent = i]]
    /\ UNCHANGED <<contacts, env, Chain>>

Submits(f, to, amount, every, first) ==
    \E n \in resolveRecipientAlias(to) : Wishes(f, FormIntent(n, amount, every, first))

Speaks(f, n, amount, every, runs, first) ==
    Wishes(f, [NoIntent EXCEPT !.kind = "schedule_payment", !.recipient = n, !.amount = amount,
                               !.first = first, !.repeat = every, !.runs = runs])

Refuses(f) == flow' = [flow EXCEPT ![f] = Idle]

\* scheduleChainTool: the dependencies are read, the draft parsed.
Drafts(f) ==
    /\ flow[f].at = "wished" /\ flow[f].intent.kind = "schedule_payment"
    /\ LET d == draftFromIntent(flow[f].intent) IN
       IF Parses(d) /\ InTime(d)
       THEN flow' = [flow EXCEPT ![f].at = "rule", ![f].call = parseDraft(d)]
       ELSE Refuses(f)
    /\ UNCHANGED <<contacts, env, Chain>>

ReadsRule(f) ==
    /\ flow[f].at = "rule"
    /\ IF rule.published /\ rule.allows /\ flow[f].call.amount <= rule.per_tx_limit
       THEN Goes(f, "orders") ELSE Refuses(f)
    /\ UNCHANGED <<contacts, env, Chain>>

CountsOrders(f) ==
    /\ flow[f].at = "orders" /\ flow[f].call.op = "create_schedule"
    /\ IF Cardinality(Active) < MAX_SCHEDULES THEN Goes(f, "allowance") ELSE Refuses(f)
    /\ UNCHANGED <<contacts, env, Chain>>

ReadsAllowance(f) ==
    /\ flow[f].at = "allowance"
    /\ IF allowance >= flow[f].call.amount * flow[f].call.runs THEN Goes(f, "build") ELSE Refuses(f)
    /\ UNCHANGED <<contacts, env, Chain>>

-----------------------------------------------------------------------------
(* Cancelling.                                                             *)

WishesToCancel(f, id, n, which) ==
    Wishes(f, [NoIntent EXCEPT !.kind = "cancel_schedule", !.id = id, !.recipient = n,
                               !.which = which])

\* The soonest first; of two at the same time the older first.
Sooner(i, j) == order[i].next < order[j].next \/ (order[i].next = order[j].next /\ i < j)
Picked(ids, which) ==
    {i \in ids : \A j \in ids \ {i} : IF which = "next" THEN Sooner(i, j) ELSE Sooner(j, i)}

\* pickByRecipient: several matches need a "last" or a "next".
pickByRecipient(n, which) ==
    LET matches == {i \in Active : order[i].to = Book[n]}
    IN IF Book[n] = Nobody THEN {}
       ELSE IF Cardinality(matches) = 1 \/ which # Absent THEN Picked(matches, which)
       ELSE {}

\* Faulty variant: the call is made for the first order to the same recipient.
CancelCallByRecipient(i) ==
    [NoCall EXCEPT !.op = "cancel_schedule", !.to = order[i].to, !.amount = order[i].amount,
                   !.id = CHOOSE j \in Active :
                              /\ order[j].to = order[i].to
                              /\ \A k \in Active : order[k].to = order[i].to => j <= k]

\* The call names the order by its id; the summary names whom it pays and how much.
CancelCall(i) ==
    [NoCall EXCEPT !.op = "cancel_schedule", !.id = i, !.to = order[i].to,
                   !.amount = order[i].amount]

FindsOrder(f) ==
    /\ flow[f].at = "wished" /\ flow[f].intent.kind = "cancel_schedule"
    /\ LET i == flow[f].intent
           found == IF i.id # 0 THEN Active \cap {i.id} ELSE pickByRecipient(i.recipient, i.which)
       IN IF found = {} THEN Refuses(f)
          ELSE \E id \in found :
                  flow' = [flow EXCEPT ![f].at = "build", ![f].call = CancelCall(id)]
    /\ UNCHANGED <<contacts, env, Chain>>

-----------------------------------------------------------------------------
(* Building, approving, landing.                                           *)

\* What the contract demands.
Acceptable(c) ==
    IF c.op = "create_schedule"
    THEN /\ rule.published /\ rule.allows /\ c.amount <= rule.per_tx_limit
         /\ c.runs > 0 /\ (c.interval = 0 => c.runs = 1)
         /\ Cardinality(Active) < MAX_SCHEDULES
         /\ \E i \in OrderIds : order[i].state = "none"
    ELSE c.id \in Active

\* The call is simulated, and the summary is made from what will be signed.
Builds(f) ==
    /\ flow[f].at = "build"
    /\ IF Acceptable(flow[f].call)
       THEN flow' = [flow EXCEPT ![f].at = "approval", ![f].shown = flow[f].call]
       ELSE Refuses(f)
    /\ UNCHANGED <<contacts, env, Chain>>

NextId == CHOOSE i \in OrderIds : order[i].state = "none" /\ \A j \in 1 .. (i - 1) : order[j].state # "none"

create_schedule(f, c) ==
    order' = [order EXCEPT ![NextId] =
        [state |-> "active", to |-> c.to, amount |-> c.amount, next |-> c.first,
         interval |-> c.interval, runs_left |-> c.runs, wish |-> f]]

ended == [NoOrder EXCEPT !.state = "ended"]
cancel_schedule(c) == order' = [order EXCEPT ![c.id] = ended]

\* Approved, signed and handed over; it lands or the contract refuses it.
CallLands(f) ==
    /\ flow[f].at = "approval"
    /\ IF Acceptable(flow[f].call)
       THEN /\ IF flow[f].call.op = "create_schedule" THEN create_schedule(f, flow[f].call)
                                                      ELSE cancel_schedule(flow[f].call)
            /\ Goes(f, "landed")
       ELSE Refuses(f) /\ UNCHANGED order
    /\ UNCHANGED <<contacts, env, rule, allowance, now>>

\* Denied, or the user has seen the outcome.
Finishes(f) ==
    /\ flow[f].at \in {"approval", "landed"}
    /\ Refuses(f)
    /\ order' = [i \in OrderIds |-> IF order[i].wish = f THEN [order[i] EXCEPT !.wish = Absent] ELSE order[i]]
    /\ UNCHANGED <<contacts, env, rule, allowance, now>>

-----------------------------------------------------------------------------
(* What others do meanwhile.                                               *)

Elsewhere == UNCHANGED flow

SavesContact(n, a) ==
    /\ contacts' = [contacts EXCEPT ![n] = a] /\ a # contacts[n]
    /\ Elsewhere /\ UNCHANGED <<env, Chain>>

ChangesRule(r) ==
    /\ rule' = r /\ r # rule
    /\ Elsewhere /\ UNCHANGED <<contacts, env, allowance, order, now>>

Approves(n) ==
    /\ allowance' = n /\ n # allowance
    /\ Elsewhere /\ UNCHANGED <<contacts, env, rule, order, now>>

\* execute_schedule, by a keeper.
Executable(i) ==
    /\ i \in Active /\ now >= order[i].next
    /\ rule.allows /\ order[i].amount <= rule.per_tx_limit /\ order[i].amount <= allowance

Runs(i) ==
    LET o == order[i] IN
    /\ Executable(i)
    /\ order' = [order EXCEPT ![i] =
           IF o.runs_left = 1
           THEN ended
           ELSE [o EXCEPT !.runs_left = @ - 1, !.next = now + o.interval, !.wish = Absent]]
    /\ allowance' = allowance - o.amount
    /\ Elsewhere /\ UNCHANGED <<contacts, env, rule, now>>

Passes == now < MaxTime /\ now' = now + 1 /\ Elsewhere /\ UNCHANGED <<contacts, env, rule, allowance, order>>

-----------------------------------------------------------------------------
Firsts == 1 .. MaxTime
FlowStep(f) ==
    \/ Drafts(f) \/ ReadsRule(f) \/ CountsOrders(f) \/ ReadsAllowance(f)
    \/ FindsOrder(f) \/ Builds(f) \/ CallLands(f) \/ Finishes(f)

Asks(f) ==
    \/ \E to \in Names \cup Addresses, a \in Amounts, e \in {"once", "week"}, t \in Firsts :
          Submits(f, to, a, e, t)
    \/ \E n \in Names, a \in Amounts, e \in {"once", "day"}, r \in 0 .. REPEAT_RUNS, t \in Firsts :
          Speaks(f, n, a, e, r, t)
    \/ \E i \in OrderIds : WishesToCancel(f, i, Absent, Absent)
    \/ \E n \in Names, w \in {Absent, "last", "next"} : WishesToCancel(f, 0, n, w)

BookNext ==
    \/ \E f \in Flows : FlowStep(f) \/ Asks(f)
    \/ \E n \in Names, a \in Addresses \cup {Nobody} : SavesContact(n, a)
    \/ \E r \in RuleChoices : ChangesRule(r)
    \/ \E n \in Limits : Approves(n)
    \/ \E i \in OrderIds : Runs(i)
    \/ Passes

BookSpec == BookInit /\ [][BookNext]_bookVars

-----------------------------------------------------------------------------
(* Properties.                                                             *)

\* An order that is cancelled is the one the approval named (summary.ts:116-145): it
\* pays whom and what was shown, whatever was created, run or cancelled meanwhile.
CancelsWhatWasShown ==
    [][\A f \in Flows :
          flow[f].at = "approval" /\ flow'[f].at = "landed" /\ flow[f].call.op = "cancel_schedule"
          => \E i \in Active :
                /\ order'[i].state = "ended"
                /\ order[i].to = flow[f].shown.to /\ order[i].amount = flow[f].shown.amount]_bookVars

\* An order pays what was wished for and as often (newSchedule.ts:75-79 reads both back),
\* through the intent, the draft and the call, until a run changes what is left.
OrderIsAsWished ==
    \A i \in Active : order[i].wish # Absent =>
        LET w == flow[order[i].wish].intent
        IN order[i].amount = w.amount /\ order[i].runs_left = (IF w.runs = 0 THEN 1 ELSE w.runs)

\* The check of the Debug panel.
summarizeScheduleHealth ==
    IF ~rule.published \/ allowance = 0 THEN "warn" ELSE "ok"

\* "schedule runs will fail until the owner approves the guard" (schedules.ts:336-350): what
\* the panel warns of is true of every order, whatever was signed since.
WarnedRunsFail ==
    summarizeScheduleHealth = "warn" => \A i \in Active : ~Executable(i)

\* The three together: what is cancelled is what was shown, what is ordered is what was
\* wished for, and what the panel warns of fails (cancelSchedule.ts, newSchedule.ts,
\* schedules.ts).
OrdersFollowTheirCards == CancelsWhatWasShown /\ [](OrderIsAsWished /\ WarnedRunsFail)
=============================================================================
