------------------------------ MODULE Statistics ------------------------------
(***************************************************************************)
(* The transfer statistics of tp_http::Client: the handlers of reads and   *)
(* writes add to two counters, and an AsyncTimer turns them into rates and *)
(* resets them. Both run on the threads of the io_context, under statsMutex,*)
(* which is held for one step at a time. The client joins those threads    *)
(* before it destroys the timer; here, as in any other use of an AsyncTimer *)
(* on Client::ioc, the destructor may come while they run.                 *)
(***************************************************************************)
EXTENDS AsyncTimer

CONSTANTS
    MaxBytes        \* BOUND: how many bytes go each way

ASSUME MaxBytesAssumption == MaxBytes \in Nat

VARIABLES
    sinceUpdate,        \* now - lastStatsUpdate, up to Period
    bytesUploaded,      \* Client::Private::bytesUploaded
    bytesDownloaded,    \* Client::Private::bytesDownloaded
    divisor,            \* delta, what the last update has divided by
    lastChunk,          \* bytes each thread is about to record again in onRead
    history             \* what has gone through and what has been reported

statsVars == <<sinceUpdate, bytesUploaded, bytesDownloaded, divisor, lastChunk, history>>

vars == <<asyncVars, statsVars>>

History == [sent : Nat, received : Nat, again : Nat, up : Nat, down : Nat]

Init ==
    /\ AsyncInit
    /\ sinceUpdate = 0
    /\ bytesUploaded = 0
    /\ bytesDownloaded = 0
    /\ divisor = Period
    /\ lastChunk = [t \in IoThreads |-> 0]
    /\ history = [sent |-> 0, received |-> 0, again |-> 0, up |-> 0, down |-> 0]

\* A thread that is in no handler.
Idle(t) == pc[t] = "idle" /\ lastChunk[t] = 0

Tick ==
    /\ elapsed < Period \/ sinceUpdate < Period
    /\ elapsed' = Later(elapsed)
    /\ sinceUpdate' = Later(sinceUpdate)
    /\ UNCHANGED <<alive, holders, locked, freed, armed, ready, aborted, pc,
                   bytesUploaded, bytesDownloaded, divisor, lastChunk, history>>

\* Slip: the timer is armed before the rates are worked out.
UpdateStatsAfterRearm(t) ==
    /\ pc[t] = "callback"
    /\ \/ /\ armed = 0
          /\ armed' = 1 /\ elapsed' = 0
          /\ UNCHANGED <<sinceUpdate, bytesUploaded, bytesDownloaded, divisor, history, pc>>
       \/ /\ armed = 1
          /\ GoTo(t, "unlock")
          /\ divisor' = sinceUpdate
          /\ sinceUpdate' = 0
          /\ bytesUploaded' = 0
          /\ bytesDownloaded' = 0
          /\ history' = [history EXCEPT !.up = @ + bytesUploaded, !.down = @ + bytesDownloaded]
          /\ UNCHANGED <<armed, elapsed>>
    /\ UNCHANGED <<alive, holders, locked, freed, ready, aborted, lastChunk>>

\* Slip: the two times are subtracted the wrong way round.
UpdateStatsSwapped(t) ==
    /\ Callback(t)
    /\ divisor' = 0 - sinceUpdate
    /\ sinceUpdate' = 0
    /\ bytesUploaded' = 0
    /\ bytesDownloaded' = 0
    /\ history' = [history EXCEPT !.up = @ + bytesUploaded, !.down = @ + bytesDownloaded]
    /\ UNCHANGED lastChunk

\* Slip: one of the counters is not reset.
UpdateStatsKeeping(t) ==
    /\ Callback(t)
    /\ divisor' = sinceUpdate
    /\ sinceUpdate' = 0
    /\ bytesUploaded' = 0
    /\ history' = [history EXCEPT !.up = @ + bytesUploaded, !.down = @ + bytesDownloaded]
    /\ UNCHANGED <<bytesDownloaded, lastChunk>>

\* The callback of updateStatsThread.
UpdateStats(t) ==
    /\ Callback(t)
    /\ divisor' = sinceUpdate
    /\ sinceUpdate' = 0
    /\ bytesUploaded' = 0
    /\ bytesDownloaded' = 0
    /\ history' = [history EXCEPT !.up = @ + bytesUploaded, !.down = @ + bytesDownloaded]
    /\ UNCHANGED lastChunk

\* The handler of a write has sent n bytes.
RecordBytesUploaded(t, n) ==
    /\ Idle(t)
    /\ history.sent + n <= MaxBytes
    /\ bytesUploaded' = bytesUploaded + n
    /\ history' = [history EXCEPT !.sent = @ + n]
    /\ UNCHANGED <<asyncVars, sinceUpdate, bytesDownloaded, divisor, lastChunk>>

\* onReadSome has received n bytes. When they are the last ones it calls onRead,
\* which is given the same n.
RecordBytesDownloaded(t, n) ==
    /\ Idle(t)
    /\ history.received + n <= MaxBytes
    /\ bytesDownloaded' = bytesDownloaded + n
    /\ history' = [history EXCEPT !.received = @ + n]
    /\ \/ lastChunk' = [lastChunk EXCEPT ![t] = n]
       \/ UNCHANGED lastChunk
    /\ UNCHANGED <<asyncVars, sinceUpdate, bytesUploaded, divisor>>

\* onRead records the last chunk a second time.
OnRead(t) ==
    /\ lastChunk[t] > 0
    /\ bytesDownloaded' = bytesDownloaded + lastChunk[t]
    /\ lastChunk' = [lastChunk EXCEPT ![t] = 0]
    /\ history' = [history EXCEPT !.again = @ + lastChunk[t]]
    /\ UNCHANGED <<asyncVars, sinceUpdate, bytesUploaded, divisor>>

Run(t) == Idle(t) /\ (Fire(t) \/ RunAborted(t)) /\ UNCHANGED statsVars

ThreadStep(t) == (HandlerStep(t) /\ UNCHANGED statsVars) \/ UpdateStats(t) \/ OnRead(t)

Finished ==
    /\ freed /\ ready + aborted = 0
    /\ \A t \in IoThreads : Idle(t)
    /\ UNCHANGED vars

Next ==
    \/ Tick
    \/ Expire /\ UNCHANGED statsVars
    \/ \E t \in IoThreads :
          \/ Run(t)
          \/ ThreadStep(t)
          \/ \E n \in 1..MaxBytes : RecordBytesUploaded(t, n) \/ RecordBytesDownloaded(t, n)
    \/ CallDestructor /\ UNCHANGED statsVars
    \/ DestructorStep /\ UNCHANGED statsVars
    \/ Finished

Spec == Init /\ [][Next]_vars

\* Time passes, ready handlers run, and threads run to the end of a handler. A
\* destructor that waits for the token's mutex gets it if the mutex is free
\* again and again: a handler holds it once a period at most.
Fairness ==
    /\ WF_vars(Tick) /\ WF_vars(Expire /\ UNCHANGED statsVars)
    /\ \A t \in IoThreads : WF_vars(Run(t)) /\ WF_vars(ThreadStep(t))
    /\ SF_vars(DestructorStep /\ UNCHANGED statsVars)

FairSpec == Spec /\ Fairness

-----------------------------------------------------------------------------
TypeOK ==
    /\ alive \in BOOLEAN /\ freed \in BOOLEAN
    /\ holders \subseteq IoThreads \cup {Owner}
    /\ locked \in IoThreads \cup {NoThread}
    /\ armed \in Nat /\ ready \in Nat /\ aborted \in Nat
    /\ elapsed \in 0..Period
    /\ pc \in [IoThreads \cup {Owner} -> HandlerPlaces \cup OwnerPlaces]
    /\ \A t \in IoThreads : pc[t] \in HandlerPlaces
    /\ pc[Owner] \in OwnerPlaces
    /\ sinceUpdate \in 0..Period
    /\ divisor \in 0..Period
    /\ bytesUploaded \in Nat /\ bytesDownloaded \in Nat
    /\ lastChunk \in [IoThreads -> Nat]
    /\ history \in History

\* Every rate is taken over a whole period at least, so updateStatsThread never
\* divides by zero, however late or close together the handlers run: the timer
\* is armed again after the update and not before. (On a clock that does not
\* step back.)
WholePeriod == divisor >= Period

\* Every record of a byte is in exactly one rate, or still to be reported. The
\* bytes of the last chunk of a response are recorded twice, perhaps in the rates
\* of two periods: that is accounted for here, not ruled out, and nothing else is
\* counted again.
BytesAccounted ==
    /\ history.up + bytesUploaded = history.sent
    /\ history.down + bytesDownloaded = history.received + history.again
    /\ history.again <= history.received
==============================================================================
