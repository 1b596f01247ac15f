----------------------------- MODULE AsyncTimer -------------------------------
(***************************************************************************)
(* tp_http::AsyncTimer: a deadline_timer that arms itself again after every *)
(* call of its callback, on the threads of an io_context, while its owner  *)
(* may destroy it at any time on a thread of its own.                      *)
(*                                                                         *)
(* The two meet at a token (Alive_lt: a mutex and a flag) shared by the    *)
(* timer and by every handler that is running: a handler that comes late   *)
(* finds the token gone, or the flag down, and touches nothing else.       *)
(***************************************************************************)
EXTENDS Naturals, FiniteSets

CONSTANTS
    IoThreads,      \* threads that run the io_context
    Owner,          \* the thread that destroys the timer
    Period,         \* timeoutMS, in ticks of the model's clock
    NoThread        \* nobody holds the token's mutex

ASSUME AsyncTimerAssumption ==
    /\ IsFiniteSet(IoThreads)
    /\ Owner \notin IoThreads
    /\ NoThread \notin IoThreads
    /\ Period \in Nat \ {0}

VARIABLES
    alive,      \* Alive_lt::alive
    holders,    \* who holds a shared_ptr to the token; it is deleted with the last
    locked,     \* the handler that holds Alive_lt::mutex, or NoThread
    freed,      \* Private and its deadline_timer are deleted
    armed,      \* waits whose deadline has not passed
    ready,      \* waits whose deadline has passed, their handlers queued
    aborted,    \* waits that were cancelled, their handlers queued with an error
    elapsed,    \* ticks since expires_from_now, up to Period
    pc          \* where each handler, and the destructor, has got to

asyncVars == <<alive, holders, locked, freed, armed, ready, aborted, elapsed, pc>>

HandlerPlaces == {"idle", "lock", "callback", "rearm", "unlock", "drop"}
OwnerPlaces == {"up", "destroy", "reset", "free", "gone"}

\* The constructor arms the timer.
AsyncInit ==
    /\ alive = TRUE
    /\ holders = {Owner}
    /\ locked = NoThread
    /\ freed = FALSE
    /\ armed = 1 /\ ready = 0 /\ aborted = 0
    /\ elapsed = 0
    /\ pc = [t \in IoThreads \cup {Owner} |-> IF t = Owner THEN "up" ELSE "idle"]

GoTo(t, place) == pc' = [pc EXCEPT ![t] = place]

-----------------------------------------------------------------------------
(* The deadline_timer and the io_context.                                  *)

\* The clock moves on. It is not asked for more than a period.
Later(clock) == IF clock < Period THEN clock + 1 ELSE clock

\* The deadline passes: the handler is queued, and cancel no longer reaches it.
Expire ==
    /\ armed > 0 /\ elapsed = Period
    /\ armed' = armed - 1
    /\ ready' = ready + 1
    /\ UNCHANGED <<alive, holders, locked, freed, aborted, elapsed, pc>>

\* An idle thread runs the handler of a cancelled wait: ec.failed().
RunAborted(t) ==
    /\ pc[t] = "idle"
    /\ aborted > 0
    /\ aborted' = aborted - 1
    /\ UNCHANGED <<alive, holders, locked, freed, armed, ready, elapsed, pc>>

\* Slip: the handler holds no share of the token it has found.
FireWithoutShare(t) ==
    /\ pc[t] = "idle"
    /\ ready > 0
    /\ ready' = ready - 1
    /\ \/ holders # {} /\ GoTo(t, "lock")
       \/ holders = {} /\ UNCHANGED pc
    /\ UNCHANGED <<alive, holders, locked, freed, armed, aborted, elapsed>>

\* An idle thread runs the handler: weak.lock() finds the token, or nothing.
Fire(t) ==
    /\ pc[t] = "idle"
    /\ ready > 0
    /\ ready' = ready - 1
    /\ \/ /\ holders # {}
          /\ holders' = holders \cup {t}
          /\ GoTo(t, "lock")
       \/ /\ holders = {}
          /\ UNCHANGED <<holders, pc>>
    /\ UNCHANGED <<alive, locked, freed, armed, aborted, elapsed>>

\* Slip: the flag is not looked at.
EnterWithoutCheck(t) ==
    /\ pc[t] = "lock"
    /\ locked = NoThread
    /\ locked' = t
    /\ GoTo(t, "callback")
    /\ UNCHANGED <<alive, holders, freed, armed, ready, aborted, elapsed>>

\* The token's mutex is locked and its flag looked at.
Enter(t) ==
    /\ pc[t] = "lock"
    /\ locked = NoThread
    /\ \/ alive /\ locked' = t /\ GoTo(t, "callback")
       \/ ~alive /\ GoTo(t, "drop") /\ UNCHANGED locked
    /\ UNCHANGED <<alive, holders, freed, armed, ready, aborted, elapsed>>

\* The callback runs and returns, with the token's mutex held.
Callback(t) ==
    /\ pc[t] = "callback"
    /\ GoTo(t, "rearm")
    /\ UNCHANGED <<alive, holders, locked, freed, armed, ready, aborted, elapsed>>

\* Slip: the timer is not armed again.
RearmForgotten(t) ==
    /\ pc[t] = "rearm"
    /\ GoTo(t, "unlock")
    /\ UNCHANGED <<alive, holders, locked, freed, armed, ready, aborted, elapsed>>

\* expires_from_now cancels what is still armed, async_wait arms the timer.
Rearm(t) ==
    /\ pc[t] = "rearm"
    /\ armed' = 1
    /\ aborted' = aborted + armed
    /\ elapsed' = 0
    /\ GoTo(t, "unlock")
    /\ UNCHANGED <<alive, holders, locked, freed, ready>>

\* Slip: the mutex is locked by hand and not unlocked.
UnlockForgotten(t) ==
    /\ pc[t] = "unlock"
    /\ GoTo(t, "drop")
    /\ UNCHANGED <<alive, holders, locked, freed, armed, ready, aborted, elapsed>>

\* The scope of the lock ends ...
Unlock(t) ==
    /\ pc[t] = "unlock"
    /\ locked' = NoThread
    /\ GoTo(t, "drop")
    /\ UNCHANGED <<alive, holders, freed, armed, ready, aborted, elapsed>>

\* ... and after it the handler's share of the token goes.
Drop(t) ==
    /\ pc[t] = "drop"
    /\ holders' = holders \ {t}
    /\ GoTo(t, "idle")
    /\ UNCHANGED <<alive, locked, freed, armed, ready, aborted, elapsed>>

-----------------------------------------------------------------------------
(* ~AsyncTimer.                                                            *)

CallDestructor ==
    /\ pc[Owner] = "up"
    /\ GoTo(Owner, "destroy")
    /\ UNCHANGED <<alive, holders, locked, freed, armed, ready, aborted, elapsed>>

Cancel == armed' = 0 /\ aborted' = aborted + armed

\* Slip: the flag is lowered without the token's mutex.
SilenceWithoutLock ==
    /\ pc[Owner] = "destroy"
    /\ Cancel
    /\ alive' = FALSE
    /\ GoTo(Owner, "reset")
    /\ UNCHANGED <<holders, locked, freed, ready, elapsed>>

\* Slip: the wait is not cancelled.
SilenceWithoutCancel ==
    /\ pc[Owner] = "destroy"
    /\ locked = NoThread
    /\ alive' = FALSE
    /\ GoTo(Owner, "reset")
    /\ UNCHANGED <<holders, locked, freed, armed, ready, aborted, elapsed>>

\* Under the token's mutex the wait is cancelled and the flag lowered.
Silence ==
    /\ pc[Owner] = "destroy"
    /\ locked = NoThread
    /\ Cancel
    /\ alive' = FALSE
    /\ GoTo(Owner, "reset")
    /\ UNCHANGED <<holders, locked, freed, ready, elapsed>>

\* alive.reset().
ResetToken ==
    /\ pc[Owner] = "reset"
    /\ holders' = holders \ {Owner}
    /\ GoTo(Owner, "free")
    /\ UNCHANGED <<alive, locked, freed, armed, ready, aborted, elapsed>>

\* delete d, and with it the deadline_timer and the callback.
Free ==
    /\ pc[Owner] = "free"
    /\ Cancel
    /\ freed' = TRUE
    /\ GoTo(Owner, "gone")
    /\ UNCHANGED <<alive, holders, locked, ready, elapsed>>

-----------------------------------------------------------------------------
\* One step of a thread that is inside the handler, but for the callback.
HandlerStep(t) == Enter(t) \/ Rearm(t) \/ Unlock(t) \/ Drop(t)

DestructorStep == Silence \/ ResetToken \/ Free

Calling == \E t \in IoThreads : pc[t] = "callback"

\* The callback is called, and the timer is armed again, only while the timer
\* exists. The destructor may come at any time, in particular between the
\* deadline and the handler, or while the handler waits for the token's mutex.
CallbackSafe ==
    \A t \in IoThreads : pc[t] \in {"callback", "rearm"} => alive /\ ~freed

\* The token's mutex is not destroyed while it is locked or waited for,
\* whoever drops the last share of the token, the owner or a late handler.
TokenSafe ==
    /\ \A t \in IoThreads : pc[t] \in {"lock", "callback", "rearm", "unlock"} => t \in holders
    /\ locked # NoThread => holders # {}

OnTheWay == {t \in IoThreads : pc[t] \in {"lock", "callback", "rearm"}}

\* While the timer lives exactly one wait or handler carries its heartbeat: it
\* neither dies out nor multiplies. Afterwards nothing is armed any more.
OneHeartbeat ==
    IF alive THEN armed + ready + Cardinality(OnTheWay) = 1 ELSE armed = 0

\* The handler and the destructor together are a periodic timer: the destructor
\* waits for a call under way and no call comes after it.
Promise == INSTANCE PeriodicTimer WITH active <- alive, calling <- Calling

ImplementsPeriodicTimer == Promise!TimerSpec

\* The timer keeps calling until it is destroyed.
KeepsTicking == alive ~> (Calling \/ ~alive)

\* The destructor returns: a period passes between two calls, in which the
\* token's mutex is free.
DestructorReturns == pc[Owner] = "destroy" ~> pc[Owner] = "gone"
==============================================================================
