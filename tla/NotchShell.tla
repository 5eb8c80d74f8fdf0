----------------------------- MODULE NotchShell -----------------------------
(***************************************************************************)
(* The one surface of the notch (app/src/notch: shellState, useShellState, *)
(* ShellSurface, PromptPanel, shellBridge) and the native window under it  *)
(* (app/src-tauri/src/notch.rs).                                           *)
(*                                                                         *)
(* Four sources propose what the shell should be: a double tap of Control  *)
(* opens the typed prompt, a voice turn asks for the strip, the launch     *)
(* screen, a spoken navigation or an approval pin the panel, and the       *)
(* cursor opens it by hovering.  The window is grown before the shell      *)
(* changes and shrunk after it, over calls that are served in order; a     *)
(* watchdog collapses an interactive window nobody is in.  An effect runs  *)
(* in the step that changes what it depends on.  Where the cursor is       *)
(* matters only to the shell's three sizes: away, over the resting shell   *)
(* (tip), or over an open one only (body).                                 *)
(***************************************************************************)
EXTENDS Naturals, Sequences

CONSTANT MaxNativeCalls    \* bound on the native calls under way

VARIABLES
    \* webview
    hover,      \* hoverActive
    timer,      \* the enter or the leave timer of the hover source
    latch,      \* hoverLatch
    hotkey,     \* hotkeyState
    held,       \* panelRequest
    card,       \* the approval card: hidden, deciding, denied here, or showing a result
    voice,      \* what the voice turn asks for: quiet, ambient or attention
    focus,      \* what the keyboard is in: the prompt's field, the card's Deny, or nothing
    applied,    \* the shell on screen
    waiting,    \* whether the newest request has not been applied yet
    due,        \* whether a commit is due
    \* native
    calls,      \* native calls that have not been served
    native,     \* the state the window is in, its frame, whether it is pinned or focused
    cursor, inside,   \* where the cursor is, and last_inside
    gone,       \* history: the cursor has left since the last dismissal
    forced      \* history: the watchdog has collapsed the window since the last request

shellSources == <<hover, timer, latch, hotkey, held, card, voice>>
shellVars == <<shellSources, focus, applied, waiting, due, calls, native, cursor, inside, gone, forced>>

interactive == {"prompt", "panel"}

ShellInit ==
    /\ hover = FALSE /\ timer = "off" /\ latch = FALSE /\ hotkey = "collapsed"
    /\ held = FALSE /\ card = "hidden" /\ voice = "quiet" /\ focus = "none"
    /\ applied = "collapsed" /\ waiting = FALSE /\ due = FALSE /\ calls = <<>>
    /\ native = [active |-> "collapsed", frame |-> "collapsed", pinned |-> FALSE,
                 focused |-> FALSE]
    /\ cursor = "away" /\ inside = FALSE /\ gone = TRUE /\ forced = FALSE

-----------------------------------------------------------------------------
(* Resolution.                                                             *)

Pinned == held \/ card # "hidden"

\* resolveShellState; a card on screen takes the attention off the voice.
Target ==
    IF hotkey # "collapsed" THEN hotkey
    ELSE IF voice = "attention" /\ card = "hidden" THEN "compact"
    ELSE IF Pinned \/ hover THEN "panel"
    ELSE IF voice # "quiet" THEN "compact"
    ELSE "collapsed"

NativeCall(name, arg) == [call |-> name, arg |-> arg]

\* The effects of a change: the pin is told to the window, a new target is asked for.
Effects ==
    /\ Len(calls) < MaxNativeCalls
    /\ calls' = calls \o (IF Pinned' # Pinned THEN <<NativeCall("pin", Pinned')>> ELSE <<>>)
                      \o (IF Target' # Target THEN <<NativeCall("request", Target')>> ELSE <<>>)
    /\ waiting' = (waiting \/ Target' # Target)
    /\ UNCHANGED <<applied, due>>

Native == <<native, cursor, inside, forced>>

-----------------------------------------------------------------------------
(* The hover source.                                                       *)

releaseHover(armLatch) ==
    hover' = FALSE /\ timer' = "off" /\ latch' = (latch \/ armLatch)

\* An edge while the prompt is latched only takes the latch off; an inside edge is
\* swallowed by the latch; otherwise the dwell or the grace begins.
HoverEdge(in) ==
    IF hotkey # "collapsed"
    THEN hover' = hover /\ timer' = timer /\ latch' = (latch /\ in)
    ELSE /\ hover' = hover
         /\ latch' = (latch /\ in)
         /\ timer' = CASE in /\ latch                 -> timer
                       [] in /\ ~latch /\ ~hover      -> "enter"
                       [] in /\ ~latch /\ hover       -> "off"
                       [] ~in /\ hover                -> "leave"
                       [] ~in /\ ~hover               -> "off"

TimerFires ==
    /\ timer # "off"
    /\ hover' = (timer = "enter") /\ timer' = "off"
    /\ UNCHANGED <<latch, hotkey, held, card, voice, focus, Native, gone>>
    /\ Effects

InRect(active, c) == c = "tip" \/ (c = "body" /\ active \in interactive)

\* A sample of the cursor: an edge is told, and leaving drops the held panel.
Moves(c) ==
    /\ cursor' = c /\ inside' = InRect(native.active, c)
    /\ IF inside' = inside
       THEN UNCHANGED <<hover, timer, latch, held, gone>>
       ELSE HoverEdge(inside') /\ held' = (held /\ inside') /\ gone' = (gone \/ ~inside')
    /\ UNCHANGED <<hotkey, card, voice, focus, native, forced>>
    /\ Effects

\* The cursor moves and no sample of it arrives.
MovesUnseen(c) ==
    /\ cursor # c /\ cursor' = c
    /\ UNCHANGED <<shellSources, focus, applied, waiting, due, calls, native, inside, gone, forced>>

-----------------------------------------------------------------------------
(* The prompt, dismissals, and what else opens the panel.                  *)

\* The field takes the keyboard when the prompt appears, the Deny button when a card does.
FocusAfter == IF card' = "deciding" /\ card # "deciding" THEN "deny"
              ELSE IF hotkey' = "prompt" /\ hotkey # "prompt" THEN "prompt"
              ELSE IF (focus = "prompt" /\ hotkey' # "prompt")
                      \/ (focus = "deny" /\ card' \notin {"deciding"}) THEN "none"
              ELSE focus

\* The double tap, by the state the window is in: it opens the prompt or ends it.
Taps ==
    /\ LET prompt == native.active # "prompt" IN
       /\ hotkey' = IF prompt THEN "prompt" ELSE "collapsed"
       /\ releaseHover(~prompt)
       /\ gone' = (prompt /\ gone)
    /\ UNCHANGED <<held, card, voice, Native>>
    /\ focus' = FocusAfter
    /\ Effects

\* dismiss, and closePanel when it drops the held panel too.
dismiss(closing) ==
    /\ releaseHover(TRUE) /\ hotkey' = "collapsed" /\ gone' = FALSE
    /\ held' = (held /\ ~closing)

\* The user closes the panel, a spoken navigation does, or the session locks.
ClosesPanel ==
    /\ dismiss(TRUE)
    /\ UNCHANGED <<card, voice, Native>>
    /\ focus' = FocusAfter
    /\ Effects

\* A click in another application: the window is no longer the key window.
Blurs ==
    /\ native.focused
    /\ native' = [native EXCEPT !.focused = FALSE]
    /\ IF hotkey # "collapsed" THEN dismiss(FALSE)
                               ELSE UNCHANGED <<hover, timer, latch, hotkey, held, gone>>
    /\ UNCHANGED <<card, voice, cursor, inside, forced>>
    /\ focus' = FocusAfter
    /\ Effects

\* The launch screen or a spoken navigation holds the panel open.
HoldsPanel ==
    /\ held' = TRUE
    /\ UNCHANGED <<hover, timer, latch, hotkey, card, voice, focus, Native, gone>>
    /\ Effects

VoiceTurn(v) ==
    /\ voice # v /\ voice' = v
    /\ UNCHANGED <<hover, timer, latch, hotkey, held, card, focus, Native, gone>>
    /\ Effects

\* A request reaches the gate, from a spoken turn, a page, or the prompt itself.
CardAppears ==
    /\ card # "deciding" /\ card' = "deciding"
    /\ UNCHANGED <<hover, timer, latch, hotkey, held, voice, Native, gone>>
    /\ focus' = FocusAfter
    /\ Effects

\* The card moves on for another reason than a denial on it.
CardMovesOn(to) ==
    /\ card # "hidden" /\ to # card /\ card' = to
    /\ UNCHANGED <<hover, timer, latch, hotkey, held, voice, Native, gone>>
    /\ focus' = FocusAfter
    /\ Effects

\* Escape reaches the prompt when its field has the keyboard, and the card always.
Escapes ==
    /\ native.focused
    /\ card' = IF card = "deciding" THEN "denied" ELSE card
    /\ IF focus = "prompt" THEN dismiss(FALSE)
                           ELSE UNCHANGED <<hover, timer, latch, hotkey, held, gone>>
    /\ UNCHANGED <<voice, Native>>
    /\ focus' = FocusAfter
    /\ Effects

\* Enter presses what has the keyboard.
PressesDeny ==
    /\ native.focused /\ focus = "deny" /\ card' = "denied"
    /\ UNCHANGED <<hover, timer, latch, hotkey, held, voice, Native, gone>>
    /\ focus' = FocusAfter
    /\ Effects

-----------------------------------------------------------------------------
(* The window.                                                             *)

Size == [collapsed |-> 0, compact |-> 1, prompt |-> 2, panel |-> 3]
grow_union(f, g) == IF Size[g] > Size[f] THEN g ELSE f

\* Grow before the change; the prompt takes the keyboard, every other state gives it back.
shell_request_state(name) ==
    native' = [native EXCEPT !.active = name, !.frame = grow_union(@, name),
                             !.focused = name = "prompt"]

\* Shrink after it, unless the state is no longer the one that was asked for last.
shell_commit_state(name) ==
    native' = [native EXCEPT !.frame = IF native.active = name THEN name ELSE @]

Serves ==
    /\ calls # <<>> /\ calls' = Tail(calls)
    /\ LET c == Head(calls) IN
       CASE c.call = "request" -> shell_request_state(c.arg)
         [] c.call = "commit"  -> shell_commit_state(c.arg)
         [] c.call = "pin"     -> native' = [native EXCEPT !.pinned = c.arg]
    /\ forced' = (forced /\ Head(calls).call # "request")
    /\ UNCHANGED <<shellSources, focus, applied, waiting, due, cursor, inside, gone>>

\* Faulty variant: only a growing shell has its window committed.
AppliesAndCommitsGrowth ==
    /\ waiting /\ \A i \in DOMAIN calls : calls[i].call # "request"
    /\ applied' = Target /\ waiting' = FALSE
    /\ due' = (due \/ Size[Target] > Size[applied])
    /\ UNCHANGED <<shellSources, focus, calls, Native, gone>>

\* The newest request has been answered, or has failed: the shell changes.
Applies ==
    /\ waiting /\ \A i \in DOMAIN calls : calls[i].call # "request"
    /\ applied' = Target /\ waiting' = FALSE /\ due' = TRUE
    /\ UNCHANGED <<shellSources, focus, calls, Native, gone>>

\* SHELL_MOTION_MS later, or at the end of the transition.
Commits ==
    /\ due /\ due' = FALSE /\ Len(calls) < MaxNativeCalls
    /\ calls' = Append(calls, NativeCall("commit", applied))
    /\ UNCHANGED <<shellSources, focus, applied, waiting, Native, gone>>

\* The keyboard is asked for by a click into a field of the panel.
shell_request_keyboard ==
    /\ native.active = "panel" /\ applied = "panel"
    /\ native' = [native EXCEPT !.focused = TRUE]
    /\ UNCHANGED <<shellSources, focus, applied, waiting, due, calls, cursor, inside, gone, forced>>

\* The watchdog: an interactive window with the cursor outside, not focused and not pinned.
ForcesCollapse ==
    /\ native.active \in interactive /\ ~native.focused /\ ~native.pinned
    /\ ~InRect(native.active, cursor)
    /\ native' = [active |-> "collapsed", frame |-> "collapsed", pinned |-> FALSE,
                  focused |-> FALSE]
    /\ inside' = FALSE
    /\ IF native.active = "prompt"
       THEN releaseHover(TRUE) /\ hotkey' = "collapsed"
       ELSE IF inside THEN HoverEdge(FALSE) /\ hotkey' = hotkey
                      ELSE UNCHANGED <<hover, timer, latch, hotkey>>
    /\ held' = (held /\ ~inside) /\ gone' = TRUE /\ forced' = TRUE
    /\ UNCHANGED <<card, voice, cursor>>
    /\ focus' = FocusAfter
    /\ Effects

Cursors == {"away", "tip", "body"}

ShellNext ==
    \/ TimerFires \/ Taps \/ ClosesPanel \/ Blurs \/ HoldsPanel
    \/ \E c \in Cursors : Moves(c) \/ MovesUnseen(c)
    \/ \E v \in {"quiet", "ambient", "attention"} : VoiceTurn(v)
    \/ CardAppears \/ \E to \in {"hidden", "result"} : CardMovesOn(to)
    \/ Escapes \/ PressesDeny
    \/ Serves \/ Applies \/ Commits \/ shell_request_keyboard \/ ForcesCollapse

ShellSpec == ShellInit /\ [][ShellNext]_shellVars

-----------------------------------------------------------------------------
(* Properties.                                                             *)

\* A dismissal is final until the cursor has left (useShellState.ts:124-144): no edge, timer
\* or mode that was under way reopens the panel by hovering before that.
DismissedStaysClosed == ~gone => ~hover

ShellIsQuiet == calls = <<>> /\ ~waiting /\ ~due /\ timer = "off"

\* When nothing is under way the window is in the state that is on screen and no larger
\* (notch.rs:1404-1442), whatever requests and commits overtook each other; a window the
\* watchdog collapsed stays so until the next request.
WindowMatches == ShellIsQuiet /\ ~forced => native.active = applied /\ native.frame = applied

\* The two together: the window ends up as the shell on screen, which stays closed once
\* dismissed (notch.rs, useShellState.ts).
ShellIsSettled == WindowMatches /\ DismissedStaysClosed

=============================================================================
