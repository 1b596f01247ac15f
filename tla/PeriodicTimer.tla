---------------------------- MODULE PeriodicTimer -----------------------------
(***************************************************************************)
(* What an AsyncTimer promises to its owner: it calls the callback again   *)
(* and again, one call at a time, until the destructor, which waits for a  *)
(* call that is under way and after which there is none.                   *)
(***************************************************************************)
VARIABLES
    active,     \* the timer has not been destroyed
    calling     \* the callback is being called

timerVars == <<active, calling>>

TimerInit == active = TRUE /\ calling = FALSE

Call == active /\ ~calling /\ calling' = TRUE /\ UNCHANGED active

Return == calling /\ calling' = FALSE /\ UNCHANGED active

Destroy == active /\ ~calling /\ active' = FALSE /\ UNCHANGED calling

TimerNext == Call \/ Return \/ Destroy

TimerSpec == TimerInit /\ [][TimerNext]_timerVars
==============================================================================
