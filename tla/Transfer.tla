------------------------------- MODULE Transfer -------------------------------
(***************************************************************************)
(* What a started socket promises to the client, which knows no more of it: *)
(* a name is resolved, something is transferred, the chain of handlers ends *)
(* with a verdict, and the socket is destroyed, which asks for the verdict. *)
(***************************************************************************)
VARIABLES
    stage,      \* "resolve", "transfer", "ended" or "gone"
    failed,     \* the request has failed
    completed   \* the response is there

transferVars == <<stage, failed, completed>>

TransferInit == stage = "resolve" /\ failed = FALSE /\ completed = FALSE

\* The addresses are known and the first connection is being made.
Connect ==
    /\ stage = "resolve"
    /\ stage' = "transfer"
    /\ UNCHANGED <<failed, completed>>

\* A step of the chain fails and is the last one.
GiveUp ==
    /\ stage \in {"resolve", "transfer"}
    /\ stage' = "ended"
    /\ failed' = TRUE
    /\ UNCHANGED completed

\* The response is complete. A failure that came before or with it remains.
Complete ==
    /\ stage = "transfer"
    /\ stage' = "ended"
    /\ completed' = TRUE
    /\ failed' \in {failed, TRUE}

\* A timeout: the request has failed although its last operation goes on, or
\* although, on another thread, it has just ended.
TimeOut ==
    /\ stage \in {"transfer", "ended"}
    /\ failed' = TRUE
    /\ UNCHANGED <<stage, completed>>

\* The verdict is read, and nothing changes it any more.
Destroy ==
    /\ stage = "ended"
    /\ failed \/ completed
    /\ stage' = "gone"
    /\ UNCHANGED <<failed, completed>>

TransferNext == Connect \/ GiveUp \/ Complete \/ TimeOut \/ Destroy

TransferSpec == TransferInit /\ [][TransferNext]_transferVars
==============================================================================
