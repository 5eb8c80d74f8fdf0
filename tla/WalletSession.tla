---------------------------- MODULE WalletSession ----------------------------
(***************************************************************************)
(* The wallet's login, app/src-tauri/src/wallet/session.rs, composed with  *)
(* the approval gate it commands: login, logout, the idle lock with its    *)
(* one-second ticker, and the commands that ask the session first and go   *)
(* to the gate afterwards (approval.rs:1331-1540, wallet/commands.rs:220). *)
(*                                                                         *)
(* The session and the store are two mutexes, so a command is several      *)
(* steps.  The synchronous commands run on the main thread one after the   *)
(* other (main); prompts run on the blocking pool (task); the ticker is a  *)
(* thread of its own; a login finishes on the blocking pool.               *)
(*                                                                         *)
(* is_unlocked takes the session's mutex twice, to apply the idle timer    *)
(* and to read; one action is enough, since what another thread does in    *)
(* between has the effect it has before or after.  Signing the envelope    *)
(* is left out, but for the activity it counts as; one unit of the clock   *)
(* is one minute.                                                          *)
(***************************************************************************)
EXTENDS ApprovalGate

CONSTANTS
    AutoLockMinutes,    \* the timeouts the user may set; 0 is never
    MaxSessions         \* bound on the number of logins

ASSUME SessionAssumption == AutoLockMinutes \subseteq Nat /\ MaxSessions \in Nat

VARIABLES
    unlocked, last_activity, auto_lock_minutes,     \* Inner
    main,           \* the command the main thread is in the middle of
    ticker,         \* spawn_auto_lock's thread
    session,        \* history: how many times the wallet was logged in
    begun_in,       \* history: begun_in[id], the session request id was stored in, or 0
    logged_out      \* history: the requests that existed at the last logout

loginVars == <<unlocked, last_activity, auto_lock_minutes>>
vars == <<gateVars, loginVars, main, ticker, session, begun_in, logged_out>>

Rest == [op |-> "rest", arg |-> 0]
Commands == {"rest", "begin", "begin_batch", "sign", "signing", "lock"}

\* Shape of the session's state (session.rs:73-84) and of the store's.
TypeOK ==
    /\ GateTypeOK
    /\ unlocked \in BOOLEAN /\ last_activity \in Nat /\ auto_lock_minutes \in Nat
    /\ main \in [op : Commands, arg : Nat]
    /\ ticker \in {"sleep", "invalidate"}
    /\ session \in Nat /\ begun_in \in Seq(Nat) /\ logged_out \in Nat

Init ==
    /\ GateInit
    /\ unlocked = FALSE /\ last_activity = 0 /\ auto_lock_minutes \in AutoLockMinutes
    /\ main = Rest /\ ticker = "sleep"
    /\ session = 0 /\ begun_in = <<>> /\ logged_out = 0

-----------------------------------------------------------------------------

IdleTooLong ==
    auto_lock_minutes > 0 /\ now - last_activity >= auto_lock_minutes

\* What is_unlocked answers; refresh_auto_lock, which it calls, writes it down.
IsUnlocked == unlocked /\ ~IdleTooLong

\* Faulty variant: the timer is looked at but never written down.
RefreshReadingOnly == UNCHANGED loginVars

RefreshAutoLock ==
    /\ unlocked' = IsUnlocked
    /\ UNCHANGED <<last_activity, auto_lock_minutes>>

\* A command that found the wallet locked ends there.
GoOn(op, arg) == main' = IF IsUnlocked THEN [op |-> op, arg |-> arg] ELSE Rest

-----------------------------------------------------------------------------
(* Login, logout and the idle timer.                                       *)

\* unlock, create and import end in connect; the human has just authenticated.
Connect ==
    /\ session < MaxSessions
    /\ unlocked' = TRUE /\ last_activity' = now
    /\ session' = IF unlocked THEN session ELSE session + 1
    /\ UNCHANGED <<gateVars, auto_lock_minutes, main, ticker, begun_in, logged_out>>

\* wallet_lock: disconnect, then the gate, then a snapshot.
LockCommand ==
    /\ main = Rest
    /\ unlocked' = FALSE
    /\ main' = [Rest EXCEPT !.op = "lock"]
    /\ logged_out' = next_id
    /\ UNCHANGED <<gateVars, last_activity, auto_lock_minutes, ticker, session, begun_in>>

LockInvalidates ==
    /\ main.op = "lock"
    /\ InvalidateForLock
    /\ RefreshAutoLock
    /\ main' = Rest
    /\ UNCHANGED <<ticker, session, begun_in, logged_out>>

\* A look at the session, from whatever thread: wallet_session, the snapshot a
\* login ends with, a command refused on its arguments.
Poll ==
    /\ RefreshAutoLock
    /\ UNCHANGED <<gateVars, main, ticker, session, begun_in, logged_out>>

\* wallet_set_auto_lock, and its snapshot under the new timeout.
SetAutoLock(minutes) ==
    /\ main = Rest
    /\ auto_lock_minutes' = minutes
    /\ unlocked' = (unlocked /\ ~(minutes > 0 /\ now - last_activity >= minutes))
    /\ UNCHANGED <<gateVars, last_activity, main, ticker, session, begun_in, logged_out>>

\* The ticker goes to the gate only when its own refresh was the one that locked.
TickerWakes ==
    /\ ticker = "sleep"
    /\ RefreshAutoLock
    /\ ticker' = IF unlocked /\ IdleTooLong THEN "invalidate" ELSE "sleep"
    /\ UNCHANGED <<gateVars, main, session, begun_in, logged_out>>

TickerInvalidates ==
    /\ ticker = "invalidate"
    /\ InvalidateForLock
    /\ RefreshAutoLock
    /\ ticker' = "sleep"
    /\ UNCHANGED <<main, session, begun_in, logged_out>>

-----------------------------------------------------------------------------
(* The commands of the gate.                                               *)

BeginCommand ==
    /\ main = Rest
    /\ RefreshAutoLock
    /\ \/ GoOn("begin", 0)
       \/ \E n \in BatchSizes : GoOn("begin_batch", n)
    /\ UNCHANGED <<gateVars, ticker, session, begun_in, logged_out>>

\* A request stored after the wallet has locked again is no session's: 0.
BegunNow(n) ==
    begun_in' = begun_in \o [i \in 1 .. n |-> IF unlocked THEN session ELSE 0]

BeginStores ==
    /\ \/ main.op = "begin" /\ Begin /\ BegunNow(1)
       \/ main.op = "begin_batch" /\ BeginBatch(main.arg) /\ BegunNow(main.arg)
    /\ main' = Rest
    /\ UNCHANGED <<loginVars, ticker, session, logged_out>>

\* approval_authorize and approval_authorize_batch, up to the blocking pool.
AuthorizeCommand(t, kind, id) ==
    /\ RefreshAutoLock
    /\ IF IsUnlocked THEN Call(t, kind, id) ELSE UNCHANGED gateVars
    /\ UNCHANGED <<main, ticker, session, begun_in, logged_out>>

\* approval_deny and approval_status do not ask the session; a finished prompt looks
\* at its request in the way approval_status does, on a thread of its own.
DenyCommand(id) ==
    /\ main = Rest
    /\ Deny(id)
    /\ UNCHANGED <<loginVars, main, ticker, session, begun_in, logged_out>>

StatusCommand(id) ==
    /\ Status(id)
    /\ UNCHANGED <<loginVars, main, ticker, session, begun_in, logged_out>>

\* wallet_sign: ensure_unlocked, take_authorized, then session.sign.
SignCommand(id) ==
    /\ main = Rest
    /\ RefreshAutoLock
    /\ GoOn("sign", id)
    /\ UNCHANGED <<gateVars, ticker, session, begun_in, logged_out>>

SignTakes ==
    /\ main.op = "sign"
    /\ Take(main.arg)
    /\ main' = IF CanRelease(main.arg) THEN [main EXCEPT !.op = "signing"] ELSE Rest
    /\ UNCHANGED <<loginVars, ticker, session, begun_in, logged_out>>

\* session.sign and sign_challenge ask the session themselves; a signature counts
\* as activity, a refused envelope does not.
Signs(signed) ==
    /\ unlocked' = IsUnlocked
    /\ last_activity' = IF IsUnlocked /\ signed THEN now ELSE last_activity

SignSigns(signed) ==
    /\ main.op = "signing"
    /\ Signs(signed)
    /\ main' = Rest
    /\ UNCHANGED <<gateVars, auto_lock_minutes, ticker, session, begun_in, logged_out>>

\* wallet_sign_challenge: no approval; the refused one is a Poll.
SignChallenge ==
    /\ main = Rest
    /\ Signs(TRUE)
    /\ UNCHANGED <<gateVars, auto_lock_minutes, main, ticker, session, begun_in, logged_out>>

-----------------------------------------------------------------------------

PoolOrClock ==
    /\ (\E t \in Tasks : TaskStep(t)) \/ Tick
    /\ UNCHANGED <<loginVars, main, ticker, session, begun_in, logged_out>>

Next ==
    \/ Connect \/ LockCommand \/ LockInvalidates \/ Poll
    \/ \E minutes \in AutoLockMinutes : SetAutoLock(minutes)
    \/ TickerWakes \/ TickerInvalidates
    \/ BeginCommand \/ BeginStores
    \/ \E t \in Tasks : \/ \E id \in Known : AuthorizeCommand(t, "single", id)
                        \/ \E id \in 1 .. next_batch_id : AuthorizeCommand(t, "batch", id)
    \/ \E id \in Known : DenyCommand(id) \/ StatusCommand(id) \/ SignCommand(id)
    \/ SignTakes \/ SignChallenge
    \/ \E signed \in BOOLEAN : SignSigns(signed)
    \/ PoolOrClock

Spec == Init /\ [][Next]_vars

\* The ticker's thread runs.
FairSpec == Spec /\ WF_vars(TickerWakes) /\ WF_vars(TickerInvalidates)

-----------------------------------------------------------------------------
(* Properties.                                                             *)

Releases(id) == Len(released') > Len(released) /\ released'[Len(released')] = id

\* A logout ends everything that was begun before it: none of it is released
\* later, in this session or the next (session.rs:371-372), though prompts may be
\* open at the time and the human may answer them and log in again.
LogoutIsFinal == [][\A id \in 1 .. logged_out : ~Releases(id)]_vars

\* A wallet left alone locks (session.rs:16-17) without anyone asking it.
IdleWalletLocks == (unlocked /\ IdleTooLong) ~> (~unlocked \/ ~IdleTooLong)

\* approval.rs:1159-1161: "an approval belongs to the session that created it, so it
\* may not survive a logout"; stated where no lock is half done, neither when the
\* request is released nor when it was stored.
ReleasedInItsOwnSession ==
    [][\A id \in 1 .. Len(begun_in) :
          Releases(id) /\ ticker = "sleep" => begun_in[id] \in {0, session}]_vars
=============================================================================
