---------------------------- MODULE ScheduleTime ----------------------------
(***************************************************************************)
(* The first run of a standing order: from the wall clock of a time zone   *)
(* to the instant the contract stores (stellar/src/schedule/time.ts), and  *)
(* back for the summary the owner approves.                                *)
(*                                                                         *)
(* Instants and wall clocks are numbers on one scale, an hour apart: a     *)
(* wall clock is the number of the instant at which UTC shows it, so an    *)
(* offset is what has to be added to an instant.  A zone is what Intl says *)
(* of it around the time asked for: an offset before its one transition    *)
(* and one from it on.  No zone changes its offset twice in three days.    *)
(***************************************************************************)
EXTENDS Integers, FiniteSets

CONSTANTS Offsets,     \* a zone's offset before the transition, in hours
          Shifts,      \* what the transition adds to it; 0 for a zone without one
          Asked,       \* wall clocks asked for
          Clocks,      \* instants at which they are asked for
          Lead         \* minLeadSeconds

ASSUME TimeAssumption ==
    /\ Offsets \subseteq -12 .. 14 /\ Shifts \subseteq Int
    /\ Asked \subseteq Int /\ Clocks \subseteq Int /\ Lead \in Int

Day   == 24
Jump  == 0             \* the instant of the transition
Nowhere == 1000000     \* no transition found
Unanswered == [kind |-> "none"]

VARIABLES zone,        \* [before, after]: the offsets around Jump
          ask,         \* what is asked for, when, and whether a calendar has it
          answer       \* what resolveLocalTime answered, None before

timeVars == <<zone, ask, answer>>

TimeInit ==
    /\ zone \in {z \in {[before |-> o, after |-> o + s] : o \in Offsets, s \in Shifts} :
                    z.after \in -12 .. 14}
    /\ ask \in [wall : Asked, now : Clocks, real : BOOLEAN]
    /\ answer = Unanswered

-----------------------------------------------------------------------------
(* The algorithm.                                                          *)

offsetSecondsAt(z, t) == IF t < Jump THEN z.before ELSE z.after
wallAt(z, t) == t + offsetSecondsAt(z, t)

\* The offsets in force a day before, at, and a day after the clock taken as UTC.
OffsetsNear(z, wall) ==
    {offsetSecondsAt(z, t) : t \in {wall - Day, wall, wall + Day}}

\* An offset counts when it is the one in force at the instant it leads to.
possibleInstants(z, wall) ==
    {t \in {wall - o : o \in OffsetsNear(z, wall)} :
        wallAt(z, t) = wall /\ offsetSecondsAt(z, t) = wall - t}

\* Where the transition is looked for.
Span == 36

\* The bisection between two instants with different offsets.
findTransition(z, wall) ==
    LET before == offsetSecondsAt(z, wall - Span)
        near   == (wall - Span) .. (wall + Span)
        bisect[gap \in [lo : near, hi : near]] ==
            LET mid == (gap.lo + gap.hi) \div 2 IN
            IF gap.hi - gap.lo <= 1 THEN gap.hi
            ELSE IF offsetSecondsAt(z, mid) = before THEN bisect[[lo |-> mid, hi |-> gap.hi]]
                                                     ELSE bisect[[lo |-> gap.lo, hi |-> mid]]
    IN IF before = offsetSecondsAt(z, wall + Span) THEN Nowhere
       ELSE bisect[[lo |-> wall - Span, hi |-> wall + Span]]

\* The nearest times that exist.
Around(z, wall) ==
    LET t == findTransition(z, wall)
    IN IF t = Nowhere THEN [kind |-> "time_does_not_exist", before |-> wall - 1, after |-> wall + 1]
                   ELSE [kind |-> "time_does_not_exist", before |-> t - 1, after |-> t]

\* Faulty variant: the later of two instants.
LatestOf(instants) == CHOOSE t \in instants : \A u \in instants : u <= t
EarliestOf(instants) == CHOOSE t \in instants : \A u \in instants : t <= u

resolveLocalTime(z, wall, now) ==
    LET instants == possibleInstants(z, wall)
        t == EarliestOf(instants)
    IN IF instants = {} THEN Around(z, wall)
       ELSE IF t < now + Lead THEN [kind |-> "time_in_past"]
       ELSE [kind |-> "ok", at |-> t, ambiguous |-> Cardinality(instants) > 1]

\* A date or a time no calendar has is refused before.
ReadsWallClock ==
    /\ answer = Unanswered
    /\ answer' = IF ~ask.real THEN [kind |-> "invalid_time"]
                 ELSE resolveLocalTime(zone, ask.wall, ask.now)
    /\ UNCHANGED <<zone, ask>>

TimeNext == ReadsWallClock
TimeSpec == TimeInit /\ [][TimeNext]_timeVars

-----------------------------------------------------------------------------
(* What it must compute.                                                   *)

\* Every instant at which the zone shows this clock: none is further away than a day.
Shown(wall) == {t \in (wall - Day) .. (wall + Day) : t + offsetSecondsAt(zone, t) = wall}

\* "We pick the earlier instant and set ambiguous: true" (time.ts:11-12): an order
\* starts at the first instant at which the owner's clock shows what was asked for,
\* never before it was asked, and is flagged when the clock shows it twice.
StartsWhenAsked ==
    answer.kind = "ok" =>
        /\ answer.at \in Shown(ask.wall) /\ \A t \in Shown(ask.wall) : answer.at <= t
        /\ answer.ambiguous = (Cardinality(Shown(ask.wall)) = 2)
        /\ answer.at >= ask.now + Lead

\* "We refuse with time_does_not_exist, carrying the two nearest valid local times (the
\* last instant before the jump and the first after it)" (time.ts:8-10): a time is
\* refused so only when the clock never shows it, and the two offered enclose it.
OnlyGapsAreRefused ==
    answer.kind = "time_does_not_exist" =>
        /\ Shown(ask.wall) = {}
        /\ answer.after = answer.before + 1
        /\ wallAt(zone, answer.before) < ask.wall /\ ask.wall < wallAt(zone, answer.after)

\* The two together: a time asked for on a wall clock is the first instant that clock
\* shows it, and is refused only when there is none (time.ts).
WallClockIsRead == StartsWhenAsked /\ OnlyGapsAreRefused
=============================================================================
