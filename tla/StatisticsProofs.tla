--------------------------- MODULE StatisticsProofs ---------------------------
(***************************************************************************)
(* Proofs about AsyncTimer and the statistics it drives, for every set of  *)
(* threads, period and number of bytes.                                    *)
(***************************************************************************)
EXTENDS Statistics, FiniteSetTheorems, TLAPS

\* Who is inside the token's mutex.
Inside == {"callback", "rearm", "unlock"}

\* Who carries the heartbeat.
Way == {"lock", "callback", "rearm"}

\* The token's mutex is held by whoever is inside, and by nobody else.
MutexHeld == \A t \in IoThreads : pc[t] \in Inside <=> locked = t

\* How far the destructor has come decides the flag, the timer and its share.
DestructorProgress ==
    /\ alive <=> pc[Owner] \in {"up", "destroy"}
    /\ freed <=> pc[Owner] = "gone"
    /\ pc[Owner] \in {"up", "destroy", "reset"} => Owner \in holders

\* OneHeartbeat without counting.
Beat ==
    /\ alive =>
          /\ armed + ready <= 1
          /\ armed + ready = 1 <=> \A t \in IoThreads : pc[t] \notin Way
          /\ \A t, u \in IoThreads : pc[t] \in Way /\ pc[u] \in Way => t = u
    /\ ~alive => armed = 0

\* While the heartbeat waits for its deadline it is no older than the last
\* update; when the deadline has passed, the last update is a period old.
Clocks ==
    alive =>
        /\ armed > 0 => elapsed <= sinceUpdate
        /\ ready > 0 => sinceUpdate = Period
        /\ \A t \in IoThreads : pc[t] \in {"lock", "callback"} => sinceUpdate = Period

\* The inductive invariant.
IInv ==
    /\ TypeOK
    /\ MutexHeld
    /\ DestructorProgress
    /\ CallbackSafe
    /\ TokenSafe
    /\ Beat
    /\ Clocks
    /\ WholePeriod

-----------------------------------------------------------------------------
(* Each step keeps the invariant.                                          *)

\* While a wait is armed both clocks move together.
LEMMA TickKeeps ==
    ASSUME IInv, Tick
    PROVE  IInv'
<1> USE DEF IInv
<1>1. TypeOK'
  BY AsyncTimerAssumption DEF TypeOK, Tick, Later
<1>2. MutexHeld'
  BY DEF MutexHeld, Tick
<1>3. DestructorProgress'
  BY DEF DestructorProgress, Tick
<1>4. CallbackSafe'
  BY DEF CallbackSafe, Tick
<1>5. TokenSafe'
  BY DEF TokenSafe, Tick
<1>6. Beat'
  BY DEF Beat, Tick
<1>7. Clocks'
  BY DEF TypeOK, Clocks, Tick, Later
<1>8. WholePeriod'
  BY DEF WholePeriod, Tick
<1>9. QED  BY <1>1, <1>2, <1>3, <1>4, <1>5, <1>6, <1>7, <1>8

\* The deadline has passed, so the last update is a period old.
LEMMA ExpireKeeps ==
    ASSUME IInv, Expire, UNCHANGED statsVars
    PROVE  IInv'
<1> USE DEF IInv
<1>1. TypeOK'
  BY DEF TypeOK, Expire, statsVars
<1>2. MutexHeld'
  BY DEF MutexHeld, Expire
<1>3. DestructorProgress'
  BY DEF DestructorProgress, Expire
<1>4. CallbackSafe'
  BY DEF CallbackSafe, Expire
<1>5. TokenSafe'
  BY DEF TokenSafe, Expire
<1>6. Beat'
  BY DEF TypeOK, Beat, Expire
<1>7. Clocks'
  BY DEF TypeOK, Clocks, Expire, statsVars
<1>8. WholePeriod'
  BY DEF WholePeriod, statsVars
<1>9. QED  BY <1>1, <1>2, <1>3, <1>4, <1>5, <1>6, <1>7, <1>8

\* The heartbeat goes from the queue into the handler, if the token is found.
LEMMA FireKeeps ==
    ASSUME IInv, NEW t \in IoThreads, Fire(t), UNCHANGED statsVars
    PROVE  IInv'
<1> USE DEF IInv
<1>1. TypeOK'
  BY AsyncTimerAssumption DEF TypeOK, HandlerPlaces, Fire, GoTo, statsVars
<1>2. MutexHeld'
  BY DEF TypeOK, MutexHeld, Inside, Fire, GoTo
<1>3. DestructorProgress'
  BY DEF TypeOK, DestructorProgress, Fire, GoTo
<1>4. CallbackSafe'
  BY DEF TypeOK, CallbackSafe, Fire, GoTo
<1>5. TokenSafe'
  BY DEF TypeOK, TokenSafe, Fire, GoTo
<1>6. Beat'
  BY DEF TypeOK, DestructorProgress, Beat, Way, Fire, GoTo
<1>7. Clocks'
  BY DEF Clocks, Fire, statsVars
<1>8. WholePeriod'
  BY DEF WholePeriod, statsVars
<1>9. QED  BY <1>1, <1>2, <1>3, <1>4, <1>5, <1>6, <1>7, <1>8

\* The handler of a cancelled wait carries nothing.
LEMMA RunAbortedKeeps ==
    ASSUME IInv, NEW t \in IoThreads, RunAborted(t), UNCHANGED statsVars
    PROVE  IInv'
<1> USE DEF IInv
<1>1. TypeOK'
  BY DEF TypeOK, RunAborted, statsVars
<1>2. MutexHeld'
  BY DEF MutexHeld, RunAborted
<1>3. DestructorProgress'
  BY DEF DestructorProgress, RunAborted
<1>4. CallbackSafe'
  BY DEF CallbackSafe, RunAborted
<1>5. TokenSafe'
  BY DEF TokenSafe, RunAborted
<1>6. Beat'
  BY DEF Beat, RunAborted
<1>7. Clocks'
  BY DEF Clocks, RunAborted, statsVars
<1>8. WholePeriod'
  BY DEF WholePeriod, statsVars
<1>9. QED  BY <1>1, <1>2, <1>3, <1>4, <1>5, <1>6, <1>7, <1>8

\* Past the flag the destructor has not come yet, and waits from here on.
LEMMA EnterKeeps ==
    ASSUME IInv, NEW t \in IoThreads, Enter(t), UNCHANGED statsVars
    PROVE  IInv'
<1> USE DEF IInv
<1>1. TypeOK'
  BY AsyncTimerAssumption DEF TypeOK, HandlerPlaces, Enter, GoTo, statsVars
<1>2. MutexHeld'
  BY AsyncTimerAssumption DEF TypeOK, MutexHeld, Inside, Enter, GoTo
<1>3. DestructorProgress'
  BY DEF TypeOK, DestructorProgress, Enter, GoTo
<1>4. CallbackSafe'
  BY DEF TypeOK, DestructorProgress, CallbackSafe, Enter, GoTo
<1>5. TokenSafe'
  BY DEF TypeOK, TokenSafe, Enter, GoTo
<1>6. Beat'
  BY DEF TypeOK, Beat, Way, Enter, GoTo
<1>7. Clocks'
  BY DEF Clocks, Enter, statsVars
<1>8. WholePeriod'
  BY DEF WholePeriod, statsVars
<1>9. QED  BY <1>1, <1>2, <1>3, <1>4, <1>5, <1>6, <1>7, <1>8

\* The heartbeat goes back to the wait; nothing was armed in the meantime.
LEMMA RearmKeeps ==
    ASSUME IInv, NEW t \in IoThreads, Rearm(t), UNCHANGED statsVars
    PROVE  IInv'
<1> USE DEF IInv
<1>1. TypeOK'
  BY AsyncTimerAssumption DEF TypeOK, HandlerPlaces, Rearm, GoTo, statsVars
<1>2. MutexHeld'
  BY DEF MutexHeld, Inside, Rearm, GoTo
<1>3. DestructorProgress'
  BY DEF DestructorProgress, Rearm, GoTo
<1>4. CallbackSafe'
  BY DEF CallbackSafe, Rearm
<1>5. TokenSafe'
  BY DEF TokenSafe, Rearm, GoTo
<1>6. Beat'
  BY DEF TypeOK, CallbackSafe, Beat, Way, Rearm, GoTo
<1>7. Clocks'
  BY DEF TypeOK, Clocks, Rearm, GoTo, statsVars
<1>8. WholePeriod'
  BY DEF WholePeriod, statsVars
<1>9. QED  BY <1>1, <1>2, <1>3, <1>4, <1>5, <1>6, <1>7, <1>8

\* Nobody else is inside.
LEMMA UnlockKeeps ==
    ASSUME IInv, NEW t \in IoThreads, Unlock(t), UNCHANGED statsVars
    PROVE  IInv'
<1> USE DEF IInv
<1>1. TypeOK'
  BY AsyncTimerAssumption DEF TypeOK, HandlerPlaces, Unlock, GoTo, statsVars
<1>2. MutexHeld'
  BY AsyncTimerAssumption DEF TypeOK, MutexHeld, Inside, Unlock, GoTo
<1>3. DestructorProgress'
  BY DEF DestructorProgress, Unlock, GoTo
<1>4. CallbackSafe'
  BY DEF CallbackSafe, Unlock, GoTo
<1>5. TokenSafe'
  BY DEF TokenSafe, Unlock, GoTo
<1>6. Beat'
  BY DEF Beat, Way, Unlock, GoTo
<1>7. Clocks'
  BY DEF Clocks, Unlock, GoTo, statsVars
<1>8. WholePeriod'
  BY DEF WholePeriod, statsVars
<1>9. QED  BY <1>1, <1>2, <1>3, <1>4, <1>5, <1>6, <1>7, <1>8

\* The last share may be this one, but then nobody is inside.
LEMMA DropKeeps ==
    ASSUME IInv, NEW t \in IoThreads, Drop(t), UNCHANGED statsVars
    PROVE  IInv'
<1> USE DEF IInv
<1>1. TypeOK'
  BY AsyncTimerAssumption DEF TypeOK, HandlerPlaces, Drop, GoTo, statsVars
<1>2. MutexHeld'
  BY DEF MutexHeld, Inside, Drop, GoTo
<1>3. DestructorProgress'
  BY DEF DestructorProgress, Drop, GoTo
<1>4. CallbackSafe'
  BY DEF CallbackSafe, Drop, GoTo
<1>5. TokenSafe'
  BY DEF TypeOK, MutexHeld, TokenSafe, Inside, Drop, GoTo
<1>6. Beat'
  BY DEF Beat, Way, Drop, GoTo
<1>7. Clocks'
  BY DEF Clocks, Drop, GoTo, statsVars
<1>8. WholePeriod'
  BY DEF WholePeriod, statsVars
<1>9. QED  BY <1>1, <1>2, <1>3, <1>4, <1>5, <1>6, <1>7, <1>8

\* The update finds its clock at a whole period and starts it again.
LEMMA UpdateStatsKeeps ==
    ASSUME IInv, NEW t \in IoThreads, UpdateStats(t)
    PROVE  IInv'
<1> USE DEF IInv
<1>1. TypeOK'
  <2>1. history' \in History
    <3>1. history.up + bytesUploaded \in Nat /\ history.down + bytesDownloaded \in Nat
      BY DEF TypeOK, History
    <3>2. QED  BY <3>1 DEF TypeOK, History, UpdateStats
  <2>2. pc' \in [IoThreads \cup {Owner} -> HandlerPlaces \cup OwnerPlaces]
    BY DEF TypeOK, UpdateStats, Callback, GoTo, HandlerPlaces
  <2>3. (\A u \in IoThreads : pc'[u] \in HandlerPlaces) /\ pc'[Owner] \in OwnerPlaces
    BY AsyncTimerAssumption DEF TypeOK, UpdateStats, Callback, GoTo, HandlerPlaces
  <2>4. divisor' \in 0..Period /\ sinceUpdate' \in 0..Period
    BY AsyncTimerAssumption DEF TypeOK, UpdateStats
  <2>5. QED  BY <2>1, <2>2, <2>3, <2>4 DEF TypeOK, UpdateStats, Callback
<1>2. MutexHeld'
  BY DEF MutexHeld, Inside, UpdateStats, Callback, GoTo
<1>3. DestructorProgress'
  BY DEF DestructorProgress, UpdateStats, Callback, GoTo
<1>4. CallbackSafe'
  BY DEF CallbackSafe, UpdateStats, Callback
<1>5. TokenSafe'
  BY DEF TokenSafe, UpdateStats, Callback, GoTo
<1>6. Beat'
  BY DEF TypeOK, Beat, Way, UpdateStats, Callback, GoTo
<1>7. Clocks'
  BY DEF TypeOK, Beat, Clocks, Way, UpdateStats, Callback, GoTo
<1>8. WholePeriod'
  BY AsyncTimerAssumption DEF Clocks, CallbackSafe, TypeOK, WholePeriod, UpdateStats, Callback
<1>9. QED  BY <1>1, <1>2, <1>3, <1>4, <1>5, <1>6, <1>7, <1>8

\* The owner's frames and the handlers' are different threads.
LEMMA CallDestructorKeeps ==
    ASSUME IInv, CallDestructor, UNCHANGED statsVars
    PROVE  IInv'
<1> USE DEF IInv
<1>1. TypeOK'
  BY AsyncTimerAssumption DEF TypeOK, OwnerPlaces, CallDestructor, GoTo, statsVars
<1>2. MutexHeld'
  BY AsyncTimerAssumption DEF MutexHeld, CallDestructor, GoTo
<1>3. DestructorProgress'
  BY DEF DestructorProgress, CallDestructor, GoTo
<1>4. CallbackSafe'
  BY DEF CallbackSafe, CallDestructor, GoTo
<1>5. TokenSafe'
  BY DEF TokenSafe, CallDestructor, GoTo
<1>6. Beat'
  BY AsyncTimerAssumption DEF Beat, CallDestructor, GoTo
<1>7. Clocks'
  BY DEF Clocks, CallDestructor, GoTo, statsVars
<1>8. WholePeriod'
  BY DEF WholePeriod, statsVars
<1>9. QED  BY <1>1, <1>2, <1>3, <1>4, <1>5, <1>6, <1>7, <1>8

\* The mutex is free, so no callback is under way.
LEMMA SilenceKeeps ==
    ASSUME IInv, Silence, UNCHANGED statsVars
    PROVE  IInv'
<1> USE DEF IInv
<1>1. TypeOK'
  <2>1. pc' \in [IoThreads \cup {Owner} -> HandlerPlaces \cup OwnerPlaces]
    BY DEF TypeOK, Silence, GoTo, OwnerPlaces
  <2>2. (\A u \in IoThreads : pc'[u] \in HandlerPlaces) /\ pc'[Owner] \in OwnerPlaces
    BY AsyncTimerAssumption DEF TypeOK, Silence, GoTo, OwnerPlaces
  <2>3. armed' \in Nat /\ aborted' \in Nat
    BY DEF TypeOK, Silence, Cancel
  <2>4. QED  BY <2>1, <2>2, <2>3 DEF TypeOK, Silence, statsVars
<1>2. MutexHeld'
  BY AsyncTimerAssumption DEF MutexHeld, Silence, GoTo
<1>3. DestructorProgress'
  BY DEF TypeOK, DestructorProgress, Silence, GoTo
<1>4. CallbackSafe'
  BY AsyncTimerAssumption DEF MutexHeld, CallbackSafe, Inside, Silence, GoTo
<1>5. TokenSafe'
  BY DEF TokenSafe, Silence, GoTo
<1>6. Beat'
  BY DEF Beat, Silence, Cancel
<1>7. Clocks'
  BY DEF Clocks, Silence, statsVars
<1>8. WholePeriod'
  BY DEF WholePeriod, statsVars
<1>9. QED  BY <1>1, <1>2, <1>3, <1>4, <1>5, <1>6, <1>7, <1>8

\* Whoever is inside has a share of its own.
LEMMA ResetTokenKeeps ==
    ASSUME IInv, ResetToken, UNCHANGED statsVars
    PROVE  IInv'
<1> USE DEF IInv
<1>1. TypeOK'
  BY AsyncTimerAssumption DEF TypeOK, OwnerPlaces, ResetToken, GoTo, statsVars
<1>2. MutexHeld'
  BY AsyncTimerAssumption DEF MutexHeld, ResetToken, GoTo
<1>3. DestructorProgress'
  BY DEF TypeOK, DestructorProgress, ResetToken, GoTo
<1>4. CallbackSafe'
  BY DEF CallbackSafe, ResetToken, GoTo
<1>5. TokenSafe'
  BY DEF TypeOK, MutexHeld, TokenSafe, Inside, ResetToken, GoTo
<1>6. Beat'
  BY AsyncTimerAssumption DEF Beat, ResetToken, GoTo
<1>7. Clocks'
  BY DEF Clocks, ResetToken, GoTo, statsVars
<1>8. WholePeriod'
  BY DEF WholePeriod, statsVars
<1>9. QED  BY <1>1, <1>2, <1>3, <1>4, <1>5, <1>6, <1>7, <1>8

\* The flag is down, so nobody is inside.
LEMMA FreeKeeps ==
    ASSUME IInv, Free, UNCHANGED statsVars
    PROVE  IInv'
<1> USE DEF IInv
<1>1. TypeOK'
  BY AsyncTimerAssumption DEF TypeOK, OwnerPlaces, Free, Cancel, GoTo, statsVars
<1>2. MutexHeld'
  BY AsyncTimerAssumption DEF MutexHeld, Free, GoTo
<1>3. DestructorProgress'
  BY DEF TypeOK, DestructorProgress, Free, GoTo
<1>4. CallbackSafe'
  BY DEF DestructorProgress, CallbackSafe, Free, GoTo
<1>5. TokenSafe'
  BY DEF TokenSafe, Free, GoTo
<1>6. Beat'
  BY DEF DestructorProgress, Beat, Free, Cancel
<1>7. Clocks'
  BY DEF Clocks, Free, Cancel, GoTo, statsVars
<1>8. WholePeriod'
  BY DEF WholePeriod, statsVars
<1>9. QED  BY <1>1, <1>2, <1>3, <1>4, <1>5, <1>6, <1>7, <1>8

\* The handlers of reads and writes touch the counters only.
LEMMA RecordBytesUploadedKeeps ==
    ASSUME IInv, NEW t \in IoThreads, NEW n \in 1..MaxBytes, RecordBytesUploaded(t, n)
    PROVE  IInv'
<1> USE DEF IInv
<1>1. TypeOK'
  <2>1. history' \in History
    BY DEF TypeOK, History, RecordBytesUploaded
  <2>2. QED  BY <2>1, MaxBytesAssumption DEF TypeOK, RecordBytesUploaded, asyncVars
<1>2. MutexHeld'
  BY DEF MutexHeld, RecordBytesUploaded, asyncVars
<1>3. DestructorProgress'
  BY DEF DestructorProgress, RecordBytesUploaded, asyncVars
<1>4. CallbackSafe'
  BY DEF CallbackSafe, RecordBytesUploaded, asyncVars
<1>5. TokenSafe'
  BY DEF TokenSafe, RecordBytesUploaded, asyncVars
<1>6. Beat'
  BY DEF Beat, RecordBytesUploaded, asyncVars
<1>7. Clocks'
  BY DEF Clocks, RecordBytesUploaded, asyncVars
<1>8. WholePeriod'
  BY DEF WholePeriod, RecordBytesUploaded, asyncVars
<1>9. QED  BY <1>1, <1>2, <1>3, <1>4, <1>5, <1>6, <1>7, <1>8

LEMMA RecordBytesDownloadedKeeps ==
    ASSUME IInv, NEW t \in IoThreads, NEW n \in 1..MaxBytes, RecordBytesDownloaded(t, n)
    PROVE  IInv'
<1> USE DEF IInv
<1>1. TypeOK'
  <2>1. history' \in History
    BY DEF TypeOK, History, RecordBytesDownloaded
  <2>2. QED  BY <2>1, MaxBytesAssumption DEF TypeOK, RecordBytesDownloaded, asyncVars
<1>2. MutexHeld'
  BY DEF MutexHeld, RecordBytesDownloaded, asyncVars
<1>3. DestructorProgress'
  BY DEF DestructorProgress, RecordBytesDownloaded, asyncVars
<1>4. CallbackSafe'
  BY DEF CallbackSafe, RecordBytesDownloaded, asyncVars
<1>5. TokenSafe'
  BY DEF TokenSafe, RecordBytesDownloaded, asyncVars
<1>6. Beat'
  BY DEF Beat, RecordBytesDownloaded, asyncVars
<1>7. Clocks'
  BY DEF Clocks, RecordBytesDownloaded, asyncVars
<1>8. WholePeriod'
  BY DEF WholePeriod, RecordBytesDownloaded, asyncVars
<1>9. QED  BY <1>1, <1>2, <1>3, <1>4, <1>5, <1>6, <1>7, <1>8

LEMMA OnReadKeeps ==
    ASSUME IInv, NEW t \in IoThreads, OnRead(t)
    PROVE  IInv'
<1> USE DEF IInv
<1>1. TypeOK'
  <2>1. history' \in History
    BY DEF TypeOK, History, OnRead
  <2>2. QED  BY <2>1, MaxBytesAssumption DEF TypeOK, OnRead, asyncVars
<1>2. MutexHeld'
  BY DEF MutexHeld, OnRead, asyncVars
<1>3. DestructorProgress'
  BY DEF DestructorProgress, OnRead, asyncVars
<1>4. CallbackSafe'
  BY DEF CallbackSafe, OnRead, asyncVars
<1>5. TokenSafe'
  BY DEF TokenSafe, OnRead, asyncVars
<1>6. Beat'
  BY DEF Beat, OnRead, asyncVars
<1>7. Clocks'
  BY DEF Clocks, OnRead, asyncVars
<1>8. WholePeriod'
  BY DEF WholePeriod, OnRead, asyncVars
<1>9. QED  BY <1>1, <1>2, <1>3, <1>4, <1>5, <1>6, <1>7, <1>8

LEMMA InitKeeps == Init => IInv
<1> SUFFICES ASSUME Init PROVE IInv
  OBVIOUS
<1> USE AsyncTimerAssumption DEF Init, AsyncInit
<1>1. TypeOK
  <2>1. /\ pc \in [IoThreads \cup {Owner} -> HandlerPlaces \cup OwnerPlaces]
        /\ \A t \in IoThreads : pc[t] \in HandlerPlaces
        /\ pc[Owner] \in OwnerPlaces
    BY DEF HandlerPlaces, OwnerPlaces
  <2>2. lastChunk \in [IoThreads -> Nat] /\ history \in History
    BY DEF History
  <2>3. elapsed \in 0..Period /\ sinceUpdate \in 0..Period /\ divisor \in 0..Period
    OBVIOUS
  <2>4. QED  BY <2>1, <2>2, <2>3 DEF TypeOK
<1>2. MutexHeld /\ DestructorProgress /\ CallbackSafe /\ TokenSafe
  BY DEF MutexHeld, Inside, DestructorProgress, CallbackSafe, TokenSafe
<1>3. Beat /\ Clocks /\ WholePeriod
  BY DEF Beat, Way, Clocks, WholePeriod
<1>4. QED  BY <1>1, <1>2, <1>3 DEF IInv

LEMMA NextKeeps == IInv /\ [Next]_vars => IInv'
<1> SUFFICES ASSUME IInv, [Next]_vars PROVE IInv'
  OBVIOUS
<1>1. CASE Tick
  BY <1>1, TickKeeps
<1>2. CASE Expire /\ UNCHANGED statsVars
  BY <1>2, ExpireKeeps
<1>3. ASSUME NEW t \in IoThreads, Run(t) PROVE IInv'
  BY <1>3, FireKeeps, RunAbortedKeeps DEF Run
<1>4. ASSUME NEW t \in IoThreads, ThreadStep(t) PROVE IInv'
  BY <1>4, EnterKeeps, RearmKeeps, UnlockKeeps, DropKeeps, UpdateStatsKeeps, OnReadKeeps
  DEF ThreadStep, HandlerStep
<1>5. ASSUME NEW t \in IoThreads, NEW n \in 1..MaxBytes,
             RecordBytesUploaded(t, n) \/ RecordBytesDownloaded(t, n)
      PROVE  IInv'
  BY <1>5, RecordBytesUploadedKeeps, RecordBytesDownloadedKeeps
<1>6. CASE CallDestructor /\ UNCHANGED statsVars
  BY <1>6, CallDestructorKeeps
<1>7. CASE DestructorStep /\ UNCHANGED statsVars
  BY <1>7, SilenceKeeps, ResetTokenKeeps, FreeKeeps DEF DestructorStep
<1>8. CASE UNCHANGED vars
  BY <1>8 DEF vars, asyncVars, statsVars, IInv, TypeOK, MutexHeld, DestructorProgress,
              CallbackSafe, TokenSafe, Beat, Clocks, WholePeriod
<1>9. QED  BY <1>1, <1>2, <1>3, <1>4, <1>5, <1>6, <1>7, <1>8 DEF Next, Finished

LEMMA Invariance == Spec => []IInv
BY InitKeeps, NextKeeps, PTL DEF Spec

-----------------------------------------------------------------------------
\* The variables of the timer and of the statistics keep their types.
THEOREM TypeCorrect == Spec => []TypeOK
<1>1. IInv => TypeOK
  BY DEF IInv
<1>2. QED  BY <1>1, Invariance, PTL

\* Whatever the threads and the destructor do, the callback runs only while the
\* timer exists: a handler that comes late stops at the token (AsyncTimer.cpp).
THEOREM CallbacksSafe == Spec => []CallbackSafe
<1>1. IInv => CallbackSafe
  BY DEF IInv
<1>2. QED  BY <1>1, Invariance, PTL

\* The token outlives everybody who locks its mutex or waits for it.
THEOREM TokenKept == Spec => []TokenSafe
<1>1. IInv => TokenSafe
  BY DEF IInv
<1>2. QED  BY <1>1, Invariance, PTL

\* While the timer lives exactly one wait or handler carries its heartbeat.
THEOREM HeartbeatKept == Spec => []OneHeartbeat
<1>1. ASSUME IInv PROVE OneHeartbeat
  <2> USE <1>1 DEF IInv
  <2>1. CASE ~alive
    BY <2>1 DEF Beat, OneHeartbeat
  <2>2. CASE alive /\ OnTheWay = {}
    <3>1. Cardinality(OnTheWay) = 0
      BY <2>2, FS_EmptySet
    <3>2. armed + ready = 1
      BY <2>2 DEF Beat, Way, OnTheWay
    <3>3. QED  BY <2>2, <3>1, <3>2 DEF OneHeartbeat
  <2>3. CASE alive /\ OnTheWay # {}
    <3>1. PICK t \in IoThreads : pc[t] \in Way
      BY <2>3 DEF OnTheWay, Way
    <3>2. OnTheWay = {t}
      BY <2>3, <3>1 DEF Beat, OnTheWay, Way
    <3>3. Cardinality(OnTheWay) = 1
      BY <3>2, FS_Singleton
    <3>4. armed + ready = 0
      BY <2>3, <3>1 DEF Beat, TypeOK
    <3>5. QED  BY <2>3, <3>3, <3>4 DEF OneHeartbeat
  <2>4. QED  BY <2>1, <2>2, <2>3
<1>2. QED  BY <1>1, Invariance, PTL

\* updateStatsThread never divides by less than a whole period.
THEOREM WholePeriods == Spec => []WholePeriod
<1>1. IInv => WholePeriod
  BY DEF IInv
<1>2. QED  BY <1>1, Invariance, PTL

-----------------------------------------------------------------------------
(* The bytes.                                                              *)

\* The bytes that onRead is still to record again, each with its thread.
Pending == {chunk \in IoThreads \X (1..MaxBytes) : chunk[2] <= lastChunk[chunk[1]]}

\* BytesAccounted, where what a thread is about to record again is counted
\* before it is recorded.
Accounts ==
    /\ history.up + bytesUploaded = history.sent
    /\ history.down + bytesDownloaded = history.received + history.again
    /\ history.again + Cardinality(Pending) <= history.received
    /\ \A t \in IoThreads : lastChunk[t] <= MaxBytes

\* The bytes of one thread's chunk.
ChunkOf(t, n) == {t} \X (1..n)

LEMMA ChunksFinite == IsFiniteSet(IoThreads \X (1..MaxBytes))
<1>1. IsFiniteSet(1..MaxBytes)
  BY MaxBytesAssumption, FS_Interval
<1>2. IsFiniteSet(IoThreads)
  BY AsyncTimerAssumption
<1>3. QED  BY <1>1, <1>2, FS_Product, Zenon

LEMMA PendingFinite == IsFiniteSet(Pending)
<1>1. Pending \in SUBSET (IoThreads \X (1..MaxBytes))
  BY DEF Pending
<1>2. QED  BY <1>1, ChunksFinite, FS_Subset

LEMMA ChunkSize ==
    ASSUME NEW t, NEW n \in Nat
    PROVE  IsFiniteSet(ChunkOf(t, n)) /\ Cardinality(ChunkOf(t, n)) = n
<1>1. IsFiniteSet({t}) /\ Cardinality({t}) = 1
  BY FS_Singleton
<1>2. IsFiniteSet(1..n) /\ Cardinality(1..n) = n
  BY FS_Interval
<1>3. IsFiniteSet({t} \X (1..n))
      /\ Cardinality({t} \X (1..n)) = Cardinality({t}) * Cardinality(1..n)
  BY <1>1, <1>2, FS_Product, Zenon
<1>4. QED  BY <1>1, <1>2, <1>3 DEF ChunkOf

\* A thread that comes back from onReadSome with the last n bytes adds them to
\* what is pending, since it had nothing pending when it started.
LEMMA RecordBytesDownloadedAccounts ==
    ASSUME TypeOK, Accounts, NEW t \in IoThreads, NEW n \in 1..MaxBytes,
           RecordBytesDownloaded(t, n)
    PROVE  Accounts'
<1> USE MaxBytesAssumption
<1>1. history.up \in Nat /\ history.down \in Nat /\ history.sent \in Nat
      /\ history.received \in Nat /\ history.again \in Nat
  BY DEF TypeOK, History
<1>2. history' = [history EXCEPT !.received = @ + n]
  BY DEF RecordBytesDownloaded
<1>3. history.received' = history.received + n
      /\ history.up' = history.up /\ history.down' = history.down
      /\ history.sent' = history.sent /\ history.again' = history.again
  BY <1>2 DEF TypeOK, History
<1>4. Cardinality(Pending') <= Cardinality(Pending) + n
  <2>1. Cardinality(Pending) \in Nat
    BY PendingFinite, FS_CardinalityType
  <2>2. CASE UNCHANGED lastChunk
    BY <2>1, <2>2 DEF Pending
  <2>3. CASE lastChunk' = [lastChunk EXCEPT ![t] = n]
    <3>1. Pending' = Pending \cup ChunkOf(t, n)
      BY <2>3 DEF Pending, ChunkOf, TypeOK, RecordBytesDownloaded, Idle
    <3>2. Pending \cap ChunkOf(t, n) = {}
      BY DEF Pending, ChunkOf, RecordBytesDownloaded, Idle
    <3>3. Cardinality(Pending') = Cardinality(Pending) + n - Cardinality({})
      BY <3>1, <3>2, PendingFinite, ChunkSize, FS_Union
    <3>4. QED  BY <2>1, <3>3, FS_EmptySet
  <2>4. QED  BY <2>2, <2>3 DEF RecordBytesDownloaded
<1>5. Cardinality(Pending) \in Nat /\ Cardinality(Pending') \in Nat
  <2>1. Cardinality(Pending) \in Nat
    BY PendingFinite, FS_CardinalityType
  <2>2. Pending' \in SUBSET (IoThreads \X (1..MaxBytes))
    BY DEF Pending
  <2>3. IsFiniteSet(Pending')
    BY <2>2, ChunksFinite, FS_Subset
  <2>4. QED  BY <2>1, <2>3, FS_CardinalityType
<1>6. (history.again + Cardinality(Pending) <= history.received)'
  BY <1>1, <1>3, <1>4, <1>5 DEF Accounts
<1>7. (history.up + bytesUploaded = history.sent)'
  BY <1>1, <1>3 DEF Accounts, RecordBytesDownloaded
<1>8. (history.down + bytesDownloaded = history.received + history.again)'
  BY <1>1, <1>3 DEF Accounts, RecordBytesDownloaded, TypeOK
<1>9. (\A u \in IoThreads : lastChunk[u] <= MaxBytes)'
  BY DEF Accounts, RecordBytesDownloaded, TypeOK
<1>10. QED  BY <1>6, <1>7, <1>8, <1>9 DEF Accounts

\* onRead takes from what is pending the bytes it adds.
LEMMA OnReadAccounts ==
    ASSUME TypeOK, Accounts, NEW t \in IoThreads, OnRead(t)
    PROVE  Accounts'
<1> USE MaxBytesAssumption
<1> DEFINE n == lastChunk[t]
<1>1. history.up \in Nat /\ history.down \in Nat /\ history.sent \in Nat
      /\ history.received \in Nat /\ history.again \in Nat /\ n \in Nat
  BY DEF TypeOK, History
<1>2. history' = [history EXCEPT !.again = @ + n]
  BY DEF OnRead
<1>3. history.again' = history.again + n
      /\ history.up' = history.up /\ history.down' = history.down
      /\ history.sent' = history.sent /\ history.received' = history.received
  BY <1>2 DEF TypeOK, History
<1>4. Cardinality(Pending') = Cardinality(Pending) - n
  <2>1. Pending' = Pending \ ChunkOf(t, n)
    BY DEF Pending, ChunkOf, TypeOK, OnRead
  <2>2. Pending \cap ChunkOf(t, n) = ChunkOf(t, n)
    BY <1>1 DEF Pending, ChunkOf, Accounts
  <2>3. Cardinality(Pending \ ChunkOf(t, n))
           = Cardinality(Pending) - Cardinality(Pending \cap ChunkOf(t, n))
    BY PendingFinite, FS_Difference
  <2>4. Cardinality(ChunkOf(t, n)) = n
    BY <1>1, ChunkSize
  <2>5. QED  BY <2>1, <2>2, <2>3, <2>4
<1>5. Cardinality(Pending) \in Nat
  BY PendingFinite, FS_CardinalityType
<1>6. (history.again + Cardinality(Pending) <= history.received)'
  BY <1>1, <1>3, <1>4, <1>5 DEF Accounts
<1>7. (history.up + bytesUploaded = history.sent)'
  BY <1>1, <1>3 DEF Accounts, OnRead
<1>8. (history.down + bytesDownloaded = history.received + history.again)'
  BY <1>1, <1>3 DEF Accounts, OnRead, TypeOK
<1>9. (\A u \in IoThreads : lastChunk[u] <= MaxBytes)'
  BY DEF Accounts, OnRead, TypeOK
<1>10. QED  BY <1>6, <1>7, <1>8, <1>9 DEF Accounts

\* The update moves what the counters hold into the rates, at once.
LEMMA UpdateStatsAccounts ==
    ASSUME TypeOK, Accounts, NEW t \in IoThreads, UpdateStats(t)
    PROVE  Accounts'
<1>1. Pending' = Pending
  BY DEF Pending, UpdateStats
<1>2. QED
  BY <1>1 DEF Accounts, UpdateStats, TypeOK, History

LEMMA RecordBytesUploadedAccounts ==
    ASSUME TypeOK, Accounts, NEW t \in IoThreads, NEW n \in 1..MaxBytes,
           RecordBytesUploaded(t, n)
    PROVE  Accounts'
<1>1. Pending' = Pending
  BY DEF Pending, RecordBytesUploaded
<1>2. QED
  BY <1>1 DEF Accounts, RecordBytesUploaded, TypeOK, History

LEMMA OthersAccount ==
    ASSUME Accounts, UNCHANGED <<bytesUploaded, bytesDownloaded, lastChunk, history>>
    PROVE  Accounts'
BY DEF Accounts, Pending

\* Every byte is reported once, and those of a last chunk twice, whatever the
\* threads do between onReadSome and onRead.
THEOREM BytesAccountedFor == Spec => []BytesAccounted
<1>1. Init => Accounts
  <2> SUFFICES ASSUME Init PROVE Accounts
    OBVIOUS
  <2>1. Pending = {}
    BY DEF Init, Pending
  <2>2. QED  BY <2>1, FS_EmptySet, MaxBytesAssumption DEF Init, Accounts
<1>2. TypeOK /\ Accounts /\ [Next]_vars => Accounts'
  <2> SUFFICES ASSUME TypeOK, Accounts, [Next]_vars PROVE Accounts'
    OBVIOUS
  <2>1. CASE Tick
    BY <2>1, OthersAccount DEF Tick
  <2>2. CASE UNCHANGED statsVars
    BY <2>2, OthersAccount DEF statsVars
  <2>3. ASSUME NEW t \in IoThreads, NEW n \in 1..MaxBytes,
               RecordBytesUploaded(t, n) \/ RecordBytesDownloaded(t, n)
        PROVE  Accounts'
    BY <2>3, RecordBytesUploadedAccounts, RecordBytesDownloadedAccounts
  <2>4. ASSUME NEW t \in IoThreads, UpdateStats(t) \/ OnRead(t)
        PROVE  Accounts'
    BY <2>4, UpdateStatsAccounts, OnReadAccounts
  <2>5. QED
    BY <2>1, <2>2, <2>3, <2>4 DEF Next, Run, ThreadStep, Finished, vars
<1>3. TypeOK /\ Accounts => BytesAccounted
  <2> SUFFICES ASSUME TypeOK, Accounts PROVE BytesAccounted
    OBVIOUS
  <2>1. Cardinality(Pending) \in Nat
    BY PendingFinite, FS_CardinalityType
  <2>2. QED  BY <2>1 DEF Accounts, BytesAccounted, TypeOK, History
<1>4. QED  BY <1>1, <1>2, <1>3, TypeCorrect, PTL DEF Spec

-----------------------------------------------------------------------------
(* The refinement.                                                         *)

\* A thread that neither enters nor leaves the callback does not change what
\* the owner sees.
LEMMA SameCalling ==
    ASSUME NEW S, pc \in [IoThreads \cup {Owner} -> S], NEW t, NEW place,
           GoTo(t, place), t \in IoThreads => pc[t] # "callback",
           place # "callback"
    PROVE  Calling' = Calling
BY AsyncTimerAssumption DEF GoTo, Calling

\* The timer of AsyncTimer.cpp, its handlers and its destructor together are a
\* periodic timer.
THEOREM IsPeriodicTimer == Spec => ImplementsPeriodicTimer
<1>1. Init => Promise!TimerInit
  BY AsyncTimerAssumption DEF Init, AsyncInit, Promise!TimerInit, Calling
<1>2. ASSUME IInv, [Next]_vars PROVE [Promise!TimerNext]_(Promise!timerVars)
  <2> USE <1>2
  <2> DEFINE Places == HandlerPlaces \cup OwnerPlaces
  <2>1. pc \in [IoThreads \cup {Owner} -> Places]
    BY DEF IInv, TypeOK
  <2>2. ASSUME UNCHANGED <<alive, pc>> PROVE UNCHANGED Promise!timerVars
    BY <2>2 DEF Promise!timerVars, Calling
  <2>3. ASSUME UNCHANGED alive, NEW t, NEW place,
               GoTo(t, place), t \in IoThreads => pc[t] # "callback", place # "callback"
        PROVE  UNCHANGED Promise!timerVars
    BY <2>1, <2>3, SameCalling DEF Promise!timerVars
  <2>4. ASSUME NEW t \in IoThreads, Enter(t) PROVE Promise!Call \/ UNCHANGED Promise!timerVars
    <3>1. CASE alive /\ locked' = t /\ GoTo(t, "callback")
      <4>1. ~Calling
        BY <2>4, AsyncTimerAssumption DEF Enter, IInv, MutexHeld, Inside, Calling, TypeOK
      <4>2. Calling'
        BY <2>1, <3>1 DEF GoTo, Calling
      <4>3. QED  BY <2>4, <3>1, <4>1, <4>2 DEF Enter, Promise!Call
    <3>2. QED  BY <2>3, <2>4, <3>1 DEF Enter
  <2>5. ASSUME NEW t \in IoThreads, UpdateStats(t) PROVE Promise!Return
    <3>1. Calling
      BY <2>5 DEF UpdateStats, Callback, Calling
    <3>2. ~Calling'
      BY <2>1, <2>5 DEF UpdateStats, Callback, GoTo, IInv, MutexHeld, Inside, Calling
    <3>3. QED  BY <2>5, <3>1, <3>2 DEF UpdateStats, Callback, Promise!Return
  <2>6. CASE Silence
    <3>1. alive /\ ~Calling
      BY <2>6, AsyncTimerAssumption
      DEF Silence, IInv, DestructorProgress, MutexHeld, Inside, Calling, TypeOK
    <3>2. Calling' = Calling
      BY <2>1, <2>6, SameCalling, AsyncTimerAssumption DEF Silence
    <3>3. Promise!Destroy
      BY <2>6, <3>1, <3>2 DEF Silence, Promise!Destroy
    <3>4. QED  BY <3>3 DEF Promise!TimerNext
  <2>7. ASSUME NEW t \in IoThreads, Fire(t) \/ Rearm(t) \/ Unlock(t) \/ Drop(t) \/ RunAborted(t)
        PROVE  UNCHANGED Promise!timerVars
    <3>1. CASE UNCHANGED <<alive, pc>>
      BY <2>2, <3>1
    <3>2. CASE Fire(t) /\ GoTo(t, "lock")
      BY <2>3, <3>2 DEF Fire
    <3>3. CASE Rearm(t)
      BY <2>3, <3>3 DEF Rearm
    <3>4. CASE Unlock(t)
      BY <2>3, <3>4 DEF Unlock
    <3>5. CASE Drop(t)
      BY <2>3, <3>5 DEF Drop
    <3>6. QED  BY <2>7, <3>1, <3>2, <3>3, <3>4, <3>5 DEF Fire, RunAborted
  <2>8. CASE CallDestructor \/ ResetToken \/ Free
    BY <2>3, <2>8, AsyncTimerAssumption DEF CallDestructor, ResetToken, Free
  <2>9. CASE Tick \/ Expire \/ UNCHANGED vars
    BY <2>2, <2>9 DEF Tick, Expire, vars, asyncVars
  <2>10. ASSUME NEW t \in IoThreads,
                OnRead(t) \/ (\E n \in 1..MaxBytes :
                                 RecordBytesUploaded(t, n) \/ RecordBytesDownloaded(t, n))
         PROVE  UNCHANGED Promise!timerVars
    <3>1. UNCHANGED <<alive, pc>>
      BY <2>10 DEF OnRead, RecordBytesUploaded, RecordBytesDownloaded, asyncVars
    <3>2. QED  BY <2>2, <3>1
  <2>11. QED
    BY <2>4, <2>5, <2>6, <2>7, <2>8, <2>9, <2>10
    DEF Next, Run, ThreadStep, HandlerStep, DestructorStep, Finished, Promise!TimerNext
<1>3. QED
  BY <1>1, <1>2, Invariance, PTL DEF Spec, ImplementsPeriodicTimer, Promise!TimerSpec
==============================================================================
