--------------------------- MODULE ShortcutLessons ---------------------------
(***************************************************************************)
(* The two shortcut lessons of the first run.  The page watches the keys   *)
(* through the DOM (app/src/onboarding/useShortcutProbe.ts) and lets the   *)
(* user pass; the product recognises the same gestures with machines of    *)
(* its own (app/src-tauri/src/gesture.rs, ctrl_tap.rs) fed by the system's *)
(* key monitors.  Each side is translated from its own source, and both    *)
(* see the same fingers.                                                   *)
(*                                                                         *)
(* While the onboarding window is up the product acts on no gesture and    *)
(* sends no event (onboarding::is_rehearsing), so the page hears of the    *)
(* keys from the DOM alone.  "shift" stands for Shift and Command.  Time   *)
(* is counted in ticks and an age stops at Old, past which nothing         *)
(* changes; both sides read one clock.  Accessibility is granted and no    *)
(* key repeats, as on macOS no modifier does.                              *)
(***************************************************************************)
EXTENDS Integers

CONSTANTS
    Controls,        \* the Control keys of the keyboard
    OtherKeys,       \* of "option", "shift", "letter"
    MIN_HOLD, ARM_DELAY,        \* useShortcutProbe.ts, gesture.rs
    MAX_TAP_HOLD, TAP_GAP,      \* both sides
    Old

ASSUME LessonAssumption ==
    /\ OtherKeys \subseteq {"option", "shift", "letter"}
    /\ Controls \cap {"option", "shift", "letter"} = {}
    /\ Old \in Nat /\ {MIN_HOLD, ARM_DELAY, MAX_TAP_HOLD, TAP_GAP} \subseteq 0 .. (Old - 1)

VARIABLES
    keys,       \* the keys held down
    focused,    \* the onboarding window has the keyboard
    lesson,     \* "none" before a lesson is on screen
    passed,     \* the lesson has been passed
    tap,        \* TapState of useDoubleControlProbe
    pressedAt,  \* pressedAt of usePushToTalkProbe, as an age
    ctrlTap,    \* CtrlTap
    holdLatch,      \* Latch
    worked      \* the product recognised the gesture too

lessonVars == <<keys, focused, lesson, passed, tap, pressedAt, ctrlTap, holdLatch, worked>>

Never == -1
Modifiers == Controls \cup (OtherKeys \cap {"option", "shift"})
Older(age) == IF age \in {Never, Old} THEN age ELSE age + 1

INITIAL_TAP == [pressedAt |-> Never, lastReleaseAt |-> Never, poisoned |-> FALSE]
FreshCtrlTap == [control_down |-> FALSE, press_started |-> Never, first_tap_release |-> Never,
                 awaiting_second |-> FALSE, contaminated |-> FALSE]
FreshLatch == [poisoned |-> FALSE, armed |-> Never, active |-> FALSE]

LessonInit ==
    /\ keys = {} /\ focused = TRUE /\ lesson = "none" /\ passed = FALSE
    /\ tap = INITIAL_TAP /\ pressedAt = Never
    /\ ctrlTap = FreshCtrlTap /\ holdLatch = FreshLatch /\ worked = FALSE

Control(held) == held \cap Controls # {}
Foreign(held) == held \cap {"option", "shift"} # {}
Pair(held) == Control(held) /\ "option" \in held

-----------------------------------------------------------------------------
(* The page's probes.                                                       *)

\* A press of any Control key begins an attempt and clears the poison.
ControlDown(s) ==
    [pressedAt |-> 0, poisoned |-> FALSE,
     lastReleaseAt |-> IF s.lastReleaseAt \in 0 .. TAP_GAP THEN s.lastReleaseAt ELSE Never]

\* Faulty variant: however long the second press was, the pair counts.
ControlUpAnyHold(s) ==
    IF s.poisoned \/ s.pressedAt = Never
       \/ (s.pressedAt > MAX_TAP_HOLD /\ s.lastReleaseAt = Never)
    THEN [state |-> INITIAL_TAP, fired |-> FALSE]
    ELSE IF s.lastReleaseAt # Never
    THEN [state |-> INITIAL_TAP, fired |-> TRUE]
    ELSE [state |-> [INITIAL_TAP EXCEPT !.lastReleaseAt = 0], fired |-> FALSE]

ControlUp(s) ==
    IF s.poisoned \/ s.pressedAt = Never \/ s.pressedAt > MAX_TAP_HOLD
    THEN [state |-> INITIAL_TAP, fired |-> FALSE]
    ELSE IF s.lastReleaseAt # Never
    THEN [state |-> INITIAL_TAP, fired |-> TRUE]
    ELSE [state |-> [INITIAL_TAP EXCEPT !.lastReleaseAt = 0], fired |-> FALSE]

Poisoned == [INITIAL_TAP EXCEPT !.poisoned = TRUE]

\* tapEventFor and tapReducer: key k goes down or up, held are the keys after it.
tapReducer(s, k, down, held) ==
    CASE Foreign(held)                   -> [state |-> Poisoned, fired |-> FALSE]
      [] ~Foreign(held) /\ k \in Controls ->
             IF down THEN [state |-> ControlDown(s), fired |-> FALSE] ELSE ControlUp(s)
      [] ~Foreign(held) /\ k \notin Controls ->
             [state |-> IF down THEN Poisoned ELSE s, fired |-> FALSE]

both(held) == Pair(held) /\ "shift" \notin held

isQualifyingHold(age) == age >= MIN_HOLD

\* usePushToTalkProbe: press and release.
Press(down, held) == down /\ both(held) /\ pressedAt = Never
Release(down, held) == ~down /\ ~both(held)

-----------------------------------------------------------------------------
(* The product's machines.                                                  *)

\* CtrlTap::on_modifiers, and whether it fired.
on_modifiers(m, held) ==
    LET control == Control(held) IN
    CASE Foreign(held) ->
             [state |-> [FreshCtrlTap EXCEPT !.contaminated = TRUE, !.control_down = control],
              fired |-> FALSE]
      [] ~Foreign(held) /\ control = m.control_down ->
             [state |-> IF control THEN m ELSE [m EXCEPT !.contaminated = FALSE],
              fired |-> FALSE]
      [] ~Foreign(held) /\ control /\ ~m.control_down ->
             [state |->
                IF m.contaminated
                THEN [m EXCEPT !.control_down = TRUE, !.press_started = Never]
                ELSE LET near == m.first_tap_release \in 0 .. TAP_GAP IN
                     [control_down |-> TRUE, press_started |-> 0, awaiting_second |-> near,
                      first_tap_release |-> IF near THEN m.first_tap_release ELSE Never,
                      contaminated |-> FALSE],
              fired |-> FALSE]
      [] ~Foreign(held) /\ ~control /\ m.control_down ->
             LET short == ~m.contaminated /\ m.press_started \in 0 .. MAX_TAP_HOLD IN
             [state |-> [FreshCtrlTap EXCEPT !.first_tap_release =
                            IF short /\ ~m.awaiting_second THEN 0 ELSE Never],
              fired |-> short /\ m.awaiting_second]

\* An ordinary key matters while Control is down only.
on_key_press(m) ==
    IF m.control_down
    THEN [FreshCtrlTap EXCEPT !.control_down = TRUE, !.contaminated = TRUE]
    ELSE m

\* Latch::on_modifiers: Shift poisons the pair until it is let go.
LatchHears(l, held) ==
    CASE "shift" \in held ->
             [poisoned |-> l.poisoned \/ Pair(held), armed |-> Never,
              active |-> l.active /\ ~Pair(held)]
      [] "shift" \notin held /\ Pair(held) ->
             [l EXCEPT !.armed =
                IF ~l.poisoned /\ ~l.active /\ l.armed = Never THEN 0 ELSE l.armed]
      [] "shift" \notin held /\ ~Pair(held) -> FreshLatch

\* Latch::tick: the hold has lasted ARM_DELAY.
LatchTicks(l) ==
    IF l.armed # Never /\ l.armed + 1 >= ARM_DELAY
    THEN [l EXCEPT !.armed = Never, !.active = TRUE]
    ELSE [l EXCEPT !.armed = Older(@)]

-----------------------------------------------------------------------------
Watching(which) == lesson = which /\ ~passed

\* The product hears of every key, whichever window has the keyboard.
ProductHears(k, down, held) ==
    /\ ctrlTap' = IF k \in Modifiers THEN on_modifiers(ctrlTap, held).state
                  ELSE IF down THEN on_key_press(ctrlTap) ELSE ctrlTap
    /\ holdLatch' = IF k \in Modifiers THEN LatchHears(holdLatch, held) ELSE holdLatch

DoubleTapped(k, held) == k \in Modifiers /\ on_modifiers(ctrlTap, held).fired

\* useDoubleControlProbe.
TapProbeHears(k, down, held) ==
    IF focused /\ Watching("type-prompt")
    THEN LET r == tapReducer(tap, k, down, held) IN tap' = r.state /\ passed' = r.fired
    ELSE UNCHANGED <<tap, passed>>

\* usePushToTalkProbe.
HoldProbeHears(k, down, held) ==
    IF focused /\ Watching("push-to-talk")
    THEN /\ pressedAt' = IF Press(down, held) THEN 0
                         ELSE IF Release(down, held) THEN Never ELSE pressedAt
         /\ passed' = (Release(down, held) /\ pressedAt # Never /\ isQualifyingHold(pressedAt))
    ELSE UNCHANGED <<pressedAt, passed>>

\* External, WebKit on macOS: letting go of one of two Control keys arrives as a
\* keydown, for the modifier is still on.
ArrivesAsDown(k, down, held) == IF k \in Controls THEN Control(held) ELSE down

\* A key goes down or up.
KeyChanges(k, down) ==
    LET held == IF down THEN keys \cup {k} ELSE keys \ {k}
        seen == ArrivesAsDown(k, down, held)
    IN
    /\ (k \in keys) # down
    /\ keys' = held
    /\ ProductHears(k, down, held)
    /\ IF lesson = "type-prompt"
       THEN /\ TapProbeHears(k, seen, held) /\ UNCHANGED pressedAt
            /\ worked' = (worked \/ DoubleTapped(k, held))
       ELSE /\ HoldProbeHears(k, seen, held) /\ UNCHANGED tap
            /\ worked' = IF focused /\ Watching("push-to-talk") /\ Press(seen, held)
                         THEN holdLatch.active ELSE worked
    /\ UNCHANGED <<focused, lesson>>

\* A tick passes.
TimePasses ==
    /\ tap' = [tap EXCEPT !.pressedAt = Older(@), !.lastReleaseAt = Older(@)]
    /\ pressedAt' = Older(pressedAt)
    /\ ctrlTap' = [ctrlTap EXCEPT !.press_started = Older(@), !.first_tap_release = Older(@)]
    /\ holdLatch' = LatchTicks(holdLatch)
    /\ worked' = (worked \/ (lesson = "push-to-talk" /\ holdLatch'.active))
    /\ UNCHANGED <<keys, focused, lesson, passed>>

\* The page of a lesson comes up: its probes start afresh.
LessonOpens(which) ==
    /\ lesson = "none"
    /\ lesson' = which /\ tap' = INITIAL_TAP /\ pressedAt' = Never /\ worked' = FALSE
    /\ UNCHANGED <<keys, focused, passed, ctrlTap, holdLatch>>

\* Another window takes the keyboard: onBlur.
LosesFocus ==
    /\ focused
    /\ focused' = FALSE /\ tap' = INITIAL_TAP /\ pressedAt' = Never
    /\ UNCHANGED <<keys, lesson, passed, ctrlTap, holdLatch, worked>>

Focuses ==
    /\ ~focused /\ focused' = TRUE
    /\ UNCHANGED <<keys, lesson, passed, tap, pressedAt, ctrlTap, holdLatch, worked>>

LessonNext ==
    /\ ~passed
    /\ \/ \E k \in Controls \cup OtherKeys, down \in BOOLEAN : KeyChanges(k, down)
       \/ TimePasses
       \/ \E which \in {"push-to-talk", "type-prompt"} : LessonOpens(which)
       \/ LosesFocus \/ Focuses

LessonSpec == LessonInit /\ [][LessonNext]_lessonVars

-----------------------------------------------------------------------------
(* Properties.                                                              *)

\* The typing lesson is passed only after the product's own machine has seen a
\* double tap since the lesson came up ("a gesture the Rust machine rejects must
\* not be accepted by the DOM one, or the lesson would teach a gesture that does
\* not work", useShortcutProbe.ts:58-60).
TapLessonTeachesTheGesture == lesson = "type-prompt" /\ passed => worked

=============================================================================
