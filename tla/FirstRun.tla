------------------------------ MODULE FirstRun ------------------------------
(***************************************************************************)
(* The first run: the flow of pages and its gates                          *)
(* (app/src/onboarding/steps.ts, OnboardingRoot.tsx), the permissions page *)
(* and what it hears of macOS (usePermissions.ts, bridge.ts), the window   *)
(* and the marker file (app/src-tauri/src/onboarding.rs).                  *)
(*                                                                         *)
(* The page reads the permissions on a timer, is told of changes by the    *)
(* poll thread, and asks macOS on the user's behalf; the three arrive in   *)
(* any order, and each with what was so when it was sent.  What the        *)
(* lessons take for a gesture is ShortcutLessons' matter; here a lesson    *)
(* may be passed at any time.  Sounds, motion and announcements are left   *)
(* out.  A window is hidden when closed, never destroyed: its page goes    *)
(* on, and is there when the window is opened again.                       *)
(***************************************************************************)
EXTENDS Naturals, Sequences, SequencesExt

CONSTANTS
    MaxReads,       \* bound on the reads and events under way
    MaxChanges,     \* bound on what the user changes in System Settings
    MaxFailures     \* bound on the commands that fail

VARIABLES
    flow,           \* FlowState of steps.ts
    page,           \* usePermissions of the permissions page
    inbox,          \* snapshots on their way to the page
    macos,          \* external: the permissions as they are
    dialog,         \* external: macOS asks the user for the microphone
    told,           \* what the poll thread sent last
    window,         \* "visible", "hidden", "none" until it is created
    completed,      \* the marker file
    changes, failures

runVars == <<flow, page, inbox, macos, dialog, told, window, completed, changes, failures>>

PERMISSION_KEYS == {"microphone", "accessibility"}
Status == {"granted", "denied", "undetermined"}
Snapshot == [PERMISSION_KEYS -> Status]
UNKNOWN_PERMISSIONS == [key \in PERMISSION_KEYS |-> "undetermined"]

STEP_ORDER == <<"welcome", "permissions", "push-to-talk", "type-prompt", "notch", "ready">>
GATED_STEPS == {"permissions", "push-to-talk", "type-prompt"}
stepIndex(step) == CHOOSE i \in 1 .. Len(STEP_ORDER) : STEP_ORDER[i] = step

INITIAL_FLOW == [step |-> "welcome", passed |-> {}, skipped |-> {}]
NoReply == "none"
FreshPage == [snapshot |-> UNKNOWN_PERMISSIONS, pending |-> "none", reply |-> NoReply]

\* open_if_needed: without a marker the app starts with the window up.  Trust is
\* granted or denied, so that a poll thread with nothing told yet has news.
RunInit ==
    /\ flow = INITIAL_FLOW /\ page = FreshPage /\ inbox = <<>>
    /\ macos \in {s \in Snapshot : s["accessibility"] # "undetermined"}
    /\ dialog = FALSE /\ told = UNKNOWN_PERMISSIONS
    /\ window = "visible" /\ completed = FALSE /\ changes = 0 /\ failures = 0

-----------------------------------------------------------------------------
(* The flow.                                                                *)

canAdvance(f) == f.step \notin GATED_STEPS \/ f.step \in f.passed \cup f.skipped

advance(f) ==
    IF canAdvance(f) /\ stepIndex(f.step) < Len(STEP_ORDER)
    THEN [f EXCEPT !.step = STEP_ORDER[stepIndex(@) + 1]] ELSE f

retreat(f) ==
    IF stepIndex(f.step) > 1 THEN [f EXCEPT !.step = STEP_ORDER[stepIndex(@) - 1]] ELSE f

\* The skip is recorded first, so that advance lets the user go.
skipStep(f) ==
    advance(IF f.step \in GATED_STEPS THEN [f EXCEPT !.skipped = @ \cup {f.step}] ELSE f)

passStep(f, step) == [f EXCEPT !.passed = @ \cup {step}]

allGranted(snapshot) == \A key \in PERMISSION_KEYS : snapshot[key] = "granted"

\* Hiding the window does not unmount the page.
Active == window # "none" /\ flow.step = "permissions"
Visible == window = "visible"

\* The effect of PermissionsPage: the gate is passed as soon as both are granted.
Notices(f, p) ==
    IF f.step = "permissions" /\ allGranted(p.snapshot) THEN passStep(f, "permissions") ELSE f

\* A page is mounted when it is turned to, and forgets what an earlier one knew.
Turns(f) ==
    /\ flow' = f
    /\ IF f.step = flow.step THEN UNCHANGED <<page, inbox>>
       ELSE page' = FreshPage /\ inbox' = <<>>

\* Continue, and Enter when no button has the focus: the permissions page's own
\* button looks at the snapshot, the keyboard at the flow.
Continues ==
    /\ Visible /\ flow.step # "ready"
    /\ Turns(advance(flow))
    /\ UNCHANGED <<macos, dialog, told, window, completed, changes, failures>>

\* "Continue without them", "Skip this": gone once the page sees the gate passed.
Skips ==
    /\ Visible
    /\ \/ flow.step = "permissions" /\ ~allGranted(page.snapshot)
       \/ flow.step \in GATED_STEPS \ ({"permissions"} \cup flow.passed)
    /\ Turns(skipStep(flow))
    /\ UNCHANGED <<macos, dialog, told, window, completed, changes, failures>>

GoesBack ==
    /\ Visible /\ flow.step # "welcome"
    /\ Turns(retreat(flow))
    /\ UNCHANGED <<macos, dialog, told, window, completed, changes, failures>>

\* The product's own hotkey is a source of the probe, with the window hidden as well.
PassesLesson ==
    /\ window # "none" /\ flow.step \in {"push-to-talk", "type-prompt"} \ flow.passed
    /\ flow' = passStep(flow, flow.step)
    /\ UNCHANGED <<page, inbox, macos, dialog, told, window, completed, changes, failures>>

-----------------------------------------------------------------------------
(* The permissions page.                                                    *)

\* Faulty variant: nothing is new unless both have changed.
SameAsOne(a, b) == \E key \in PERMISSION_KEYS : a[key] = b[key]

Same(a, b) == \A key \in PERMISSION_KEYS : a[key] = b[key]

\* apply: the single write path.
Applies(p, next) ==
    /\ page' = IF Same(p.snapshot, next) THEN p ELSE [p EXCEPT !.snapshot = next]
    /\ flow' = Notices(flow, page')

\* The 800 ms timer, and once at once: the command answers with what is so now.
Reads ==
    /\ Active /\ Len(inbox) < MaxReads
    /\ inbox' = Append(inbox, macos)
    /\ UNCHANGED <<flow, page, macos, dialog, told, window, completed, changes, failures>>

\* A command that fails reads as nothing known.
ReadFails ==
    /\ Active /\ Len(inbox) < MaxReads /\ failures < MaxFailures
    /\ inbox' = Append(inbox, UNKNOWN_PERMISSIONS)
    /\ failures' = failures + 1
    /\ UNCHANGED <<flow, page, macos, dialog, told, window, completed, changes>>

\* The poll thread: one second apart, while the window is visible, on a change.  Told
\* before the page listens, or not sent, it is lost.
Tells ==
    /\ Visible /\ told # macos /\ Len(inbox) < MaxReads
    /\ told' = macos
    /\ inbox' \in {inbox} \cup IF Active THEN {Append(inbox, macos)} ELSE {}
    /\ UNCHANGED <<flow, page, macos, dialog, window, completed, changes, failures>>

\* A reading or an event arrives, in any order.
Arrives(i) ==
    /\ Active /\ i \in 1 .. Len(inbox)
    /\ Applies(page, inbox[i])
    /\ inbox' = RemoveAt(inbox, i)
    /\ UNCHANGED <<macos, dialog, told, window, completed, changes, failures>>

\* The row's button: a denied permission is changed in System Settings only.  For the
\* microphone macOS shows its dialog, unless the user has answered it before.
Asks(key) ==
    /\ Visible /\ Active /\ page.pending = "none"
    /\ page.snapshot[key] = "undetermined"
    /\ page' = [page EXCEPT !.pending = key]
    /\ dialog' = (dialog \/ (key = "microphone" /\ macos[key] = "undetermined"))
    /\ UNCHANGED <<flow, inbox, macos, told, window, completed, changes, failures>>

\* External: the dialog stays although the page is left, the window closed or the
\* command's wait over.
AnswersDialog(status) ==
    /\ dialog
    /\ macos' = [macos EXCEPT !["microphone"] = status]
    /\ dialog' = FALSE
    /\ UNCHANGED <<flow, page, inbox, told, window, completed, changes, failures>>

\* The request replies with the status it finds: after the dialog's answer or the wait
\* of PROMPT_TIMEOUT, and for accessibility at once.
Replies ==
    /\ page.pending # "none" /\ page.reply = NoReply
    /\ page' = [page EXCEPT !.reply = macos[page.pending]]
    /\ UNCHANGED <<flow, inbox, macos, dialog, told, window, completed, changes, failures>>

ReplyFails ==
    /\ page.pending # "none" /\ page.reply = NoReply /\ failures < MaxFailures
    /\ page' = [page EXCEPT !.reply = "undetermined"]
    /\ failures' = failures + 1
    /\ UNCHANGED <<flow, inbox, macos, dialog, told, window, completed, changes>>

\* Only the reply's own key is merged into what is known by then.
ReplyArrives ==
    /\ page.reply # NoReply
    /\ Applies([page EXCEPT !.pending = "none", !.reply = NoReply],
               [page.snapshot EXCEPT ![page.pending] = page.reply])
    /\ UNCHANGED <<inbox, macos, dialog, told, window, completed, changes, failures>>

\* External: the user flips a switch in System Settings.
ChangesSettings(key) ==
    /\ changes < MaxChanges /\ macos[key] # "undetermined"
    /\ macos' = [macos EXCEPT ![key] = IF @ = "granted" THEN "denied" ELSE "granted"]
    /\ changes' = changes + 1
    /\ UNCHANGED <<flow, page, inbox, dialog, told, window, completed, failures>>

-----------------------------------------------------------------------------
(* The window.                                                              *)

\* With the window the poll thread ends, and what it knew.
Hides == window' = "hidden" /\ told' = UNKNOWN_PERMISSIONS

\* onboarding_complete: the marker first, then the window.
Completes ==
    /\ Visible /\ flow.step = "ready"
    /\ completed' = TRUE /\ Hides
    /\ UNCHANGED <<flow, page, inbox, macos, dialog, changes, failures>>

\* The marker cannot be written, or the window not be hidden: it stays, and nothing is said.
CompleteFails ==
    /\ Visible /\ flow.step = "ready" /\ failures < MaxFailures
    /\ failures' = failures + 1
    /\ completed' \in {completed, TRUE}
    /\ UNCHANGED <<flow, page, inbox, macos, dialog, told, window, changes>>

\* Escape or the close button: not finished.
Closes ==
    /\ Visible /\ Hides
    /\ UNCHANGED <<flow, page, inbox, macos, dialog, completed, changes, failures>>

\* onboarding_open, whatever the marker says: a new poll thread, and a page if there is none.
Opens ==
    /\ window # "visible" /\ window' = "visible"
    /\ UNCHANGED <<flow, page, inbox, macos, dialog, told, completed, changes, failures>>

\* onboarding_reset: the next start shows the window again.
Resets ==
    /\ completed /\ completed' = FALSE
    /\ UNCHANGED <<flow, page, inbox, macos, dialog, told, window, changes, failures>>

\* The application ends and starts again; only without a marker does the window come up,
\* and not even then if it cannot be shown.
StartsAgain(shown) ==
    /\ flow' = INITIAL_FLOW /\ page' = FreshPage /\ inbox' = <<>> /\ dialog' = FALSE
    /\ window' = IF shown /\ ~completed THEN "visible" ELSE "none"
    /\ told' = UNKNOWN_PERMISSIONS
    /\ UNCHANGED <<macos, completed, changes, failures>>

RunNext ==
    \/ Continues \/ Skips \/ GoesBack \/ PassesLesson
    \/ Reads \/ ReadFails \/ Tells
    \/ \E i \in 1 .. MaxReads : Arrives(i)
    \/ \E key \in PERMISSION_KEYS : Asks(key) \/ ChangesSettings(key)
    \/ \E status \in {"granted", "denied"} : AnswersDialog(status)
    \/ Replies \/ ReplyFails \/ ReplyArrives
    \/ Completes \/ CompleteFails \/ Closes \/ Opens \/ Resets
    \/ \E shown \in BOOLEAN : StartsAgain(shown)

RunSpec == RunInit /\ [][RunNext]_runVars

\* While the window is visible the timer goes on, and what is sent arrives.
PageIsServed == WF_runVars(Visible /\ Reads) /\ WF_runVars(Visible /\ Arrives(1))

RunFairSpec == RunSpec /\ PageIsServed

-----------------------------------------------------------------------------
(* Properties.                                                              *)

\* A user who has granted both permissions and stays on the page is let through
\* in the end, however the timer, the events and the requests overtake each other
\* (usePermissions.ts).
GrantIsNoticed ==
    <>[](Visible /\ Active /\ allGranted(macos)) => <>("permissions" \in flow.passed)
=============================================================================
