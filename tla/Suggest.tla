------------------------------- MODULE Suggest -------------------------------
(***************************************************************************)
(* The suggestions engine (stellar/src/suggest): from the payments of the  *)
(* last days it proposes a limit for automatic payments, a limit for the   *)
(* day, a schedule, turning automatic payments off, and points out unusual *)
(* payments.  The engine is a function of the history, the context and the *)
(* clock; here the history grows and the clock goes on between two calls.  *)
(*                                                                         *)
(* Amounts are raw units; the rule's decimal strings are the number they   *)
(* stand for, or Malformed.  What a suggestion says and how it is ranked   *)
(* (title, rationale, evidence, confidence, the order of the list) is left *)
(* out, the options that replace the default windows are not given, and a  *)
(* zone is a fixed distance from UTC.                                      *)
(***************************************************************************)
EXTENDS Integers, Sequences, FiniteSets, Functions

CONSTANTS
    DEFAULT_WINDOW_DAYS, DEFAULT_MIN_PAYMENTS, DEFAULT_MIN_SPAN_DAYS,
    DAY_SECONDS, ROUNDING_STEP, DAILY_LIMIT_MIN_ACTIVE_DAYS,
    RECURRENCE_MIN_OCCURRENCES, RECURRENCE_MAX_INTERVAL_JITTER_PCT,
    RECURRENCE_AMOUNT_TOLERANCE_PCT, MAX_FIRST_RUN_ADVANCE_STEPS,
    DORMANT_DAYS, UNUSUAL_WINDOW_DAYS, UNUSUAL_MULTIPLIER,
    DEFAULT_DISPLAY_ASSET,
    Payments,       \* the payments made: to, asset, amount, status, mode, route
    Contexts,       \* the contexts the engine is called with
    MaxPayments,    \* bound on the records of the history
    LastTime,       \* bound on the clock
    Unset,          \* an optional field that is absent
    Malformed       \* a decimal string that does not parse

RuleLimits == Int \cup {Unset, Malformed}

ASSUME SuggestAssumption ==
    /\ {DEFAULT_WINDOW_DAYS, DEFAULT_MIN_SPAN_DAYS, DAILY_LIMIT_MIN_ACTIVE_DAYS,
        RECURRENCE_MAX_INTERVAL_JITTER_PCT, RECURRENCE_AMOUNT_TOLERANCE_PCT,
        MAX_FIRST_RUN_ADVANCE_STEPS, DORMANT_DAYS, UNUSUAL_WINDOW_DAYS} \subseteq Nat
    /\ DEFAULT_MIN_PAYMENTS \in Nat /\ DEFAULT_MIN_PAYMENTS > 2
    /\ RECURRENCE_MIN_OCCURRENCES \in Nat /\ RECURRENCE_MIN_OCCURRENCES > 1
    /\ {DAY_SECONDS, ROUNDING_STEP, UNUSUAL_MULTIPLIER} \subseteq Nat \ {0}
    /\ MaxPayments \in Nat /\ LastTime \in Nat
    /\ \A p \in Payments : p.amount \in Nat \ {0}
    /\ \A c \in Contexts : {c.rule.auto, c.rule.perTx, c.rule.daily} \subseteq RuleLimits
    /\ Unset \notin Int /\ Malformed \notin Int /\ Unset # Malformed
    /\ Unset \notin [count : Int, span : Int] \cup [threshold : Int, p90 : Int]

VARIABLES
    history,        \* the records handed to the engine, in order
    suggestClock,   \* the time it is told
    context         \* SuggestContext, now apart; no asset lets the history pick one

suggestVars == <<history, suggestClock, context>>

-----------------------------------------------------------------------------
(* Amounts and statistics.  A sample is a function to what was measured:    *)
(* its k-th smallest value is the one with fewer than k below it and no      *)
(* fewer than k up to it.                                                    *)

Smaller(a, b) == IF a < b THEN a ELSE b

roundUpToDisplayMultiple(raw) ==
    IF raw <= 0 THEN 0 ELSE ((raw + ROUNDING_STEP - 1) \div ROUNDING_STEP) * ROUNDING_STEP

mulDivCeil(a, numerator, denominator) == (a * numerator + denominator - 1) \div denominator

sizeOf(sample) == Cardinality(DOMAIN sample)

Ranked(sample, k) ==
    CHOOSE v \in Range(sample) :
        /\ Cardinality({x \in DOMAIN sample : sample[x] < v}) < k
        /\ k <= Cardinality({x \in DOMAIN sample : sample[x] <= v})

minOf(sample) == Ranked(sample, 1)
maxOf(sample) == Ranked(sample, sizeOf(sample))

median(sample) ==
    LET middle == sizeOf(sample) \div 2 IN
    IF sizeOf(sample) % 2 = 1 THEN Ranked(sample, middle + 1)
    ELSE (Ranked(sample, middle) + Ranked(sample, middle + 1)) \div 2

percentileNearestRank(sample, percentile) ==
    Ranked(sample, (percentile * sizeOf(sample) + 99) \div 100)

dropAmountOutliers(sample) ==
    Restrict(sample, {x \in DOMAIN sample : sample[x] <= UNUSUAL_MULTIPLIER * median(sample)})

amountsOf(records) == [r \in records |-> r.amount]
timesOf(records)   == [r \in records |-> r.ts]

\* Days are the calendar days of the context's zone.
localDay(r) == (r.ts + context.offset) \div DAY_SECONDS

dailyTotals(records) ==
    [day \in {localDay(r) : r \in records} |->
        SumFunction(amountsOf({r \in records : localDay(r) = day}))]

spanDays(records) ==
    IF Cardinality(records) < 2 THEN 0
    ELSE (maxOf(timesOf(records)) - minOf(timesOf(records))) \div DAY_SECONDS

-----------------------------------------------------------------------------
(* The records that count.                                                  *)

\* The asset most records are of, and of several the default one.
pickDisplayAsset ==
    LET Count(asset) == Cardinality({i \in DOMAIN history : history[i].asset = asset})
        assets == {history[i].asset : i \in DOMAIN history} \cup {DEFAULT_DISPLAY_ASSET}
        Most == {a \in assets : \A b \in assets : Count(a) >= Count(b)}
    IN IF DEFAULT_DISPLAY_ASSET \in Most THEN DEFAULT_DISPLAY_ASSET ELSE CHOOSE a \in Most : TRUE

displayAsset == IF context.asset = Unset THEN pickDisplayAsset ELSE context.asset

\* guard: the first record of each id, in the window, confirmed and public.
guard ==
    {history[i] : i \in {i \in DOMAIN history :
        /\ \A j \in 1 .. i - 1 : history[j].id # history[i].id
        /\ history[i].status = "confirmed" /\ history[i].mode = "public"
        /\ history[i].asset = displayAsset
        /\ history[i].ts \in suggestClock - DEFAULT_WINDOW_DAYS * DAY_SECONDS .. suggestClock}}

enough ==
    /\ Cardinality(guard) >= DEFAULT_MIN_PAYMENTS
    /\ spanDays(guard) >= DEFAULT_MIN_SPAN_DAYS

explainNoSuggestions ==
    IF enough THEN Unset ELSE [count |-> Cardinality(guard), span |-> spanDays(guard)]

-----------------------------------------------------------------------------
(* The drafts of a rule.                                                    *)

\* Nobody to restrict to is nobody restricted.
thresholdPool ==
    IF context.contacts = {} THEN guard ELSE {r \in guard : r.to \in context.contacts}

\* The limit is clamped to the rule's own; a rule that cannot be read gives none.
computeAutoApproveThreshold(p90, largest) ==
    LET proposed == Smaller(roundUpToDisplayMultiple(p90), roundUpToDisplayMultiple(largest))
        cap == context.rule.perTx
    IN IF cap = Unset THEN proposed
       ELSE IF cap = Malformed THEN Unset
       ELSE IF cap <= 0 THEN Unset ELSE Smaller(proposed, cap)

Derived(amounts) ==
    IF sizeOf(amounts) < DEFAULT_MIN_PAYMENTS THEN Unset
    ELSE LET p90 == percentileNearestRank(amounts, 90)
             limit == computeAutoApproveThreshold(p90, maxOf(amounts))
         IN IF p90 <= 0 \/ limit = Unset THEN Unset ELSE [threshold |-> limit, p90 |-> p90]

\* Faulty variant: one large payment makes the limit.
deriveThresholdFromAll ==
    IF thresholdPool = {} THEN Unset ELSE Derived(amountsOf(thresholdPool))

deriveRobustThreshold ==
    IF thresholdPool = {} THEN Unset
    ELSE Derived(dropAmountOutliers(amountsOf(thresholdPool)))

Legible(limit) == IF limit = Unset THEN TRUE ELSE IF limit = Malformed THEN FALSE ELSE limit >= 0
Within(low, high) == low = Unset \/ high = Unset \/ low <= high

isRuleDraftOrdered(d) ==
    /\ d.auto # Unset /\ Legible(d.auto) /\ Legible(d.perTx) /\ Legible(d.daily)
    /\ Within(d.auto, d.perTx) /\ Within(d.perTx, d.daily) /\ Within(d.auto, d.daily)

RuleDraft(kind, auto, perTx, daily) ==
    LET d == [kind |-> kind, auto |-> auto, perTx |-> perTx, daily |-> daily] IN
    IF isRuleDraftOrdered(d) THEN {d} ELSE {}

\* Nothing is proposed while automatic payments already cover the p90.
autoPayThresholdSuggestion ==
    LET d == deriveRobustThreshold
        current == context.rule.auto
        Covered == context.autoPay /\ current # Unset
                   /\ (current = Malformed \/ current >= d.p90)
    IN IF d = Unset THEN {} ELSE IF Covered THEN {}
       ELSE RuleDraft("auto_pay_threshold", d.threshold,
                      IF context.rule.perTx = Unset THEN d.threshold ELSE Unset, Unset)

\* The draft needs a limit for automatic payments: the rule's, or the derived one.
dailyLimitSuggestion ==
    LET totals == dailyTotals(guard)
        p95 == percentileNearestRank(totals, 95)
        proposed == roundUpToDisplayMultiple(mulDivCeil(p95, 3, 2))
        auto == IF context.rule.auto # Unset THEN context.rule.auto
                ELSE IF deriveRobustThreshold = Unset THEN Unset
                ELSE deriveRobustThreshold.threshold
    IN IF sizeOf(totals) < DAILY_LIMIT_MIN_ACTIVE_DAYS THEN {}
       ELSE IF p95 <= 0 \/ context.rule.daily \in {Malformed, proposed} \/ auto = Unset THEN {}
       ELSE RuleDraft("daily_limit", auto, context.rule.perTx, proposed)

-----------------------------------------------------------------------------
(* Schedules.                                                               *)

\* Whole intervals are added one by one, and after many of them by arithmetic.
advanceFirstRunAt(lastTs, interval) ==
    LET After(steps) == lastTs + (steps + 1) * interval
        Ahead == {n \in 0 .. MAX_FIRST_RUN_ADVANCE_STEPS : After(n) > suggestClock}
    IN IF Ahead # {} THEN After(CHOOSE n \in Ahead : \A m \in Ahead : n <= m)
       ELSE lastTs + ((suggestClock - lastTs) \div interval + 1) * interval

byTimestampThenId(a, b) == a.ts < b.ts \/ (a.ts = b.ts /\ a.id < b.id)

\* The time from each payment of the group to the next one.
intervalsOf(group) ==
    LET Later(r) == {q \in group : byTimestampThenId(r, q)} IN
    [r \in {r \in group : Later(r) # {}} |-> minOf(timesOf(Later(r))) - r.ts]

\* The cadence and the amount have to be steady, and the amount payable.
Steady(intervals, amounts) ==
    LET total == SumFunction(intervals) IN
    /\ total > 0
    /\ (maxOf(intervals) - minOf(intervals)) * sizeOf(intervals) * 100
         <= total * RECURRENCE_MAX_INTERVAL_JITTER_PCT
    /\ median(amounts) > 0
    /\ (maxOf(amounts) - minOf(amounts)) * 100 <= RECURRENCE_AMOUNT_TOLERANCE_PCT * median(amounts)
    /\ median(intervals) > 0

scheduleSuggestion(to) ==
    LET group == {r \in guard : r.to = to}
        amounts == amountsOf(group)
        intervals == intervalsOf(group)
    IN IF Cardinality(group) < RECURRENCE_MIN_OCCURRENCES THEN {}
       ELSE IF ~Steady(intervals, amounts) THEN {}
       ELSE {[kind |-> "schedule_from_recurrence", to |-> to, amount |-> median(amounts),
              interval |-> median(intervals),
              firstRunAt |-> advanceFirstRunAt(maxOf(timesOf(group)), median(intervals))]}

recurrenceSuggestions == UNION {scheduleSuggestion(to) : to \in {r.to : r \in guard}}

-----------------------------------------------------------------------------
(* Automatic payments nobody uses, and payments out of the ordinary.        *)

lastUsedTs ==
    {r.ts : r \in {r \in guard : r.route = "pay_executor"}}
        \cup (IF context.lastUse = Unset THEN {} ELSE {context.lastUse})

\* Without a time it was turned on, never used may be just turned on.
dormantSuggestion ==
    LET Long(since) == (suggestClock - since) \div DAY_SECONDS > DORMANT_DAYS IN
    IF /\ context.autoPay
       /\ \A ts \in lastUsedTs : Long(ts)
       /\ context.enabledSince = Unset => lastUsedTs # {}
       /\ context.enabledSince # Unset => Long(context.enabledSince)
    THEN {[kind |-> "tighten_dormant"]} ELSE {}

baseline == percentileNearestRank(dropAmountOutliers(amountsOf(guard)), 90)

unusualSuggestions ==
    {[kind |-> "unusual_payment_alert", record |-> r.id] :
        r \in {r \in guard :
            /\ r.ts >= suggestClock - UNUSUAL_WINDOW_DAYS * DAY_SECONDS
            /\ baseline > 0 /\ r.amount > UNUSUAL_MULTIPLIER * baseline}}

\* A suggestion's id names what it is about: another limit is another suggestion.
suggestionId(s) ==
    <<s.kind, displayAsset,
      CASE s.kind = "auto_pay_threshold" -> s.auto
        [] s.kind = "daily_limit" -> s.daily
        [] s.kind = "schedule_from_recurrence" -> s.to
        [] s.kind = "unusual_payment_alert" -> s.record
        [] s.kind = "tighten_dormant" -> 0>>

isDismissed(s) ==
    s.kind \in context.dismissed.kinds \/ suggestionId(s) \in context.dismissed.ids

suggest ==
    IF ~enough THEN {}
    ELSE {s \in autoPayThresholdSuggestion \cup dailyLimitSuggestion \cup recurrenceSuggestions
                \cup dormantSuggestion \cup unusualSuggestions : ~isDismissed(s)}

-----------------------------------------------------------------------------
(* The history and the clock.                                               *)

SuggestInit == history = <<>> /\ suggestClock = 0 /\ context \in Contexts

Record(id, p) ==
    [id |-> id, ts |-> suggestClock, to |-> p.to, asset |-> p.asset, amount |-> p.amount,
     status |-> p.status, mode |-> p.mode, route |-> p.route]

\* External: a payment enters the history.
PaymentComes(p) ==
    /\ Len(history) < MaxPayments
    /\ history' = Append(history, Record(Len(history) + 1, p))
    /\ UNCHANGED <<suggestClock, context>>

\* External: two sources are merged, and the same payment comes twice, perhaps with
\* another outcome.
ComesTwice(i, status) ==
    /\ Len(history) < MaxPayments /\ i \in DOMAIN history
    /\ history' = Append(history, [history[i] EXCEPT !.status = status])
    /\ UNCHANGED <<suggestClock, context>>

ClockGoesOn ==
    /\ suggestClock < LastTime
    /\ suggestClock' = suggestClock + 1
    /\ UNCHANGED <<history, context>>

SuggestNext ==
    \/ \E p \in Payments : PaymentComes(p)
    \/ \E i \in 1 .. MaxPayments, status \in {"confirmed", "failed"} : ComesTwice(i, status)
    \/ ClockGoesOn

SuggestSpec == SuggestInit /\ [][SuggestNext]_suggestVars

-----------------------------------------------------------------------------
(* Properties.                                                              *)

RuleDrafts == {s \in suggest : s.kind \in {"auto_pay_threshold", "daily_limit"}}

\* A limit for automatic payments is never proposed on the strength of a few large
\* payments, nor of one payment counted twice: enough different payments stand
\* behind it and half of them are of its size (deriveRobustThreshold, B1); it never
\* exceeds the limit for one payment that is already in the rule (B2).
DraftsAreBacked ==
    \A d \in RuleDrafts :
        /\ Legible(context.rule.perTx) /\ Within(d.auto, context.rule.perTx)
        /\ d.auto # context.rule.auto =>
             LET backing == {r \in thresholdPool :
                                UNUSUAL_MULTIPLIER * r.amount > d.auto - ROUNDING_STEP}
             IN /\ Cardinality({r.id : r \in thresholdPool}) >= DEFAULT_MIN_PAYMENTS
                /\ 2 * Cardinality(backing) >= Cardinality(thresholdPool)

\* A schedule starts with the first run of its own cadence that is still to come
\* (B3), and pays what each payment behind it paid, within the tolerance
\* (scheduleSuggestion, advanceFirstRunAt).
FirstRunIsTheNextOne ==
    \A s \in {s \in suggest : s.kind = "schedule_from_recurrence"} :
        LET group == {r \in guard : r.to = s.to}
            Apart(r) == IF r.amount > s.amount THEN r.amount - s.amount ELSE s.amount - r.amount
        IN /\ suggestClock < s.firstRunAt /\ s.firstRunAt <= suggestClock + s.interval
           /\ \E r \in group : (s.firstRunAt - r.ts) % s.interval = 0
           /\ \A r \in group : Apart(r) * 100 <= RECURRENCE_AMOUNT_TOLERANCE_PCT * s.amount

\* A payment of the last days that dwarfs every other one is pointed out, and does
\* not hide in the statistics it is compared with (unusualSuggestions, B1).
OutlierIsPointedOut ==
    explainNoSuggestions = Unset =>
        \A r \in guard :
            LET alert == [kind |-> "unusual_payment_alert", record |-> r.id] IN
            /\ r.ts >= suggestClock - UNUSUAL_WINDOW_DAYS * DAY_SECONDS
            /\ \A q \in guard \ {r} : r.amount > UNUSUAL_MULTIPLIER * q.amount
            => alert \in suggest \/ isDismissed(alert)

\* A suggestion rests on the payments it counts, a schedule starts where its cadence
\* says, and what is unusual is pointed out (suggest).
AdviceRestsOnHistory == DraftsAreBacked /\ FirstRunIsTheNextOne /\ OutlierIsPointedOut
=============================================================================
