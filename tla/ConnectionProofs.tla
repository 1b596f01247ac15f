--------------------------- MODULE ConnectionProofs ---------------------------
(***************************************************************************)
(* Proofs about one connection, for any number of io threads, of addresses *)
(* of a name and of chunks of a message.                                   *)
(***************************************************************************)
EXTENDS Connection, TLAPS

\* An expired deadline had a wait. With one io thread no handler comes between
\* the checks of a timer event and its action, so its deadline stays due.
TimerConsistent ==
    /\ deadline = "running" => waiting # "None"
    /\ (setup.threads = 1 /\ acting # "None")
          => deadline = "due" /\ (phase # "none" \/ failedReason # "None")

\* The chain ends with a reason, or completed and with the timer off; only then
\* is the socket destroyed.
EndConsistent ==
    /\ phase = "none" => failedReason # "None" \/ (completed /\ deadline = "off")
    /\ ~alive => phase = "none"

\* The inductive invariant.
IInv ==
    /\ TypeOK
    /\ NoUnguardedWait
    /\ LateTimerHarmless
    /\ TimerConsistent
    /\ EndConsistent

-----------------------------------------------------------------------------
\* "None" is neither a reason to fail nor the name of a timeout.
LEMMA Reasons ==
    /\ Timeouts \subseteq FailedReasons \ {"None"}
    /\ "None" \in FailedReasons
BY DEF Timeouts, FailedReasons

\* Request::fail leaves a reason, the old one if there was one.
LEMMA FailShape ==
    ASSUME NEW reason \in FailedReasons \ {"None"}, TypeOK, Fail(reason)
    PROVE  /\ failedReason' \in FailedReasons \ {"None"}
           /\ failedReason # "None" => failedReason' = failedReason
           /\ failedReason = "None" => failedReason' = reason
BY DEF TypeOK, Fail

\* Starting an operation leaves the connection waiting under a new deadline, or
\* at its end with a reason.
LEMMA StartShape ==
    ASSUME NEW operation \in NetworkPhases, NEW timeout \in Timeouts,
           NEW exception \in FailedReasons \ {"None"},
           TypeOK, Start(operation, timeout, exception)
    PROVE  /\ deadline' = "running" /\ waiting' = timeout
           /\ result' = "pending"
           /\ failedReason' \in FailedReasons
           /\ \/ phase' = operation /\ failedReason' = failedReason
              \/ phase' = "none" /\ failedReason' # "None"
           /\ failedReason # "None" => failedReason' = failedReason
           /\ failedReason' # failedReason => failedReason' = exception
<1>1. CASE End /\ Fail(exception)
    BY <1>1, FailShape DEF Start, SetTimeout, End
<1>2. CASE phase' = operation /\ result' = "pending" /\ UNCHANGED failedReason
    BY <1>2 DEF Start, SetTimeout, TypeOK
<1> QED
    BY <1>1, <1>2 DEF Start

\* A handler that starts an operation keeps the invariant, started or thrown.
LEMMA StartKeepsInvariant ==
    ASSUME NEW operation \in NetworkPhases, NEW timeout \in Timeouts,
           NEW exception \in FailedReasons \ {"None"},
           IInv, Start(operation, timeout, exception),
           UNCHANGED <<setup, addresses, fired, acting, armed, completed, alive>>,
           chunks' \in 0..MaxChunks, alive,
           acting # "None" => setup.threads > 1
    PROVE  IInv'
<1> USE DEF IInv
<1>1. /\ deadline' = "running" /\ waiting' = timeout /\ result' = "pending"
      /\ failedReason' \in FailedReasons
      /\ phase' = operation \/ (phase' = "none" /\ failedReason' # "None")
    BY StartShape
<1>2. TypeOK'
    BY <1>1 DEF TypeOK
<1>3. NoUnguardedWait'
    BY <1>1, Reasons DEF NoUnguardedWait
<1>4. LateTimerHarmless'
    BY DEF LateTimerHarmless
<1>5. TimerConsistent'
    BY <1>1, Reasons DEF TimerConsistent
<1>6. EndConsistent'
    BY <1>1 DEF EndConsistent, NetworkPhases
<1> QED
    BY <1>2, <1>3, <1>4, <1>5, <1>6

\* A handler that gives up clears the timer and leaves a reason.
LEMMA GivingUpKeepsInvariant ==
    ASSUME NEW reason \in FailedReasons \ {"None"},
           IInv, End, Fail(reason),
           ClearTimeout \/ UNCHANGED <<deadline, waiting>>
                        \/ (deadline' = "running" /\ waiting' \in Timeouts),
           UNCHANGED <<setup, addresses, fired, acting, armed, completed, alive>>,
           chunks' \in 0..MaxChunks, alive,
           acting # "None" => setup.threads > 1
    PROVE  IInv'
<1> USE DEF IInv
<1>1. /\ phase' = "none" /\ result' = "pending"
      /\ failedReason' \in FailedReasons \ {"None"}
    BY FailShape DEF End
<1>2. TypeOK'
    BY <1>1, Reasons DEF TypeOK, ClearTimeout
<1>3. NoUnguardedWait'
    BY <1>1 DEF NoUnguardedWait, NetworkPhases
<1>4. LateTimerHarmless'
    BY DEF LateTimerHarmless
<1>5. TimerConsistent'
    BY <1>1, Reasons DEF TimerConsistent, ClearTimeout, TypeOK
<1>6. EndConsistent'
    BY <1>1 DEF EndConsistent
<1> QED
    BY <1>2, <1>3, <1>4, <1>5, <1>6

-----------------------------------------------------------------------------
\* One step per handler: each keeps the invariant. All of them run only while
\* their operation is pending, so the socket is alive.
LEMMA HandlerRuns ==
    ASSUME NEW operation \in NetworkPhases \cup {"resolve"}, IInv, Handle(operation)
    PROVE  /\ alive /\ phase = operation /\ result # "pending"
           /\ acting # "None" => setup.threads > 1
           /\ chunks \in 0..MaxChunks
BY DEF IInv, Handle, EndConsistent, TypeOK, NetworkPhases

LEMMA StartWriteKeepsInvariant ==
    ASSUME IInv, StartWrite,
           UNCHANGED <<setup, addresses, fired, acting, armed, completed, alive>>,
           chunks' \in 0..MaxChunks, alive,
           acting # "None" => setup.threads > 1
    PROVE  IInv'
<1> DEFINE operation == IF setup.large THEN "writeSome" ELSE "write"
<1>1. operation \in NetworkPhases
    BY DEF NetworkPhases
<1>2. "WriteTimeout" \in Timeouts /\ "WriteException" \in FailedReasons \ {"None"}
    BY DEF Timeouts, FailedReasons
<1>3. Start(operation, "WriteTimeout", "WriteException")
    BY DEF StartWrite
<1> QED
    BY <1>1, <1>2, <1>3, StartKeepsInvariant

LEMMA StartReadKeepsInvariant ==
    ASSUME IInv, StartRead,
           UNCHANGED <<setup, addresses, fired, acting, armed, completed, alive>>,
           chunks' \in 0..MaxChunks, alive,
           acting # "None" => setup.threads > 1
    PROVE  IInv'
<1>1. /\ "read" \in NetworkPhases /\ "ReadTimeout" \in Timeouts
      /\ "ReadException" \in FailedReasons \ {"None"}
    BY DEF NetworkPhases, Timeouts, FailedReasons
<1> QED
    BY <1>1, StartKeepsInvariant DEF StartRead

LEMMA HandlersKeepInvariant ==
    ASSUME IInv, Handlers
    PROVE  IInv'
<1> DEFINE Others == UNCHANGED <<setup, addresses, fired, acting, armed, completed, alive>>
<1>1. CASE OnResolve
    <2>1. /\ alive /\ chunks' \in 0..MaxChunks /\ Others
          /\ acting # "None" => setup.threads > 1
        BY <1>1, HandlerRuns DEF OnResolve
    <2>2. CASE End /\ Fail("Resolver") /\ UNCHANGED <<deadline, waiting>>
        <3>1. "Resolver" \in FailedReasons \ {"None"}
            BY DEF FailedReasons
        <3> QED
            BY <2>1, <2>2, <3>1, GivingUpKeepsInvariant
    <2>3. CASE Start("connect", "ConnectTimeout", "ConnectException")
        <3>1. /\ "connect" \in NetworkPhases /\ "ConnectTimeout" \in Timeouts
              /\ "ConnectException" \in FailedReasons \ {"None"}
            BY DEF NetworkPhases, Timeouts, FailedReasons
        <3> QED
            BY <2>1, <2>3, <3>1, StartKeepsInvariant
    <2> QED
        BY <1>1, <2>2, <2>3 DEF OnResolve
<1>2. CASE OnConnect
    <2>1. /\ alive /\ chunks' \in 0..MaxChunks /\ Others
          /\ acting # "None" => setup.threads > 1
        BY <1>2, HandlerRuns DEF OnConnect, NetworkPhases
    <2>2. CASE ClearTimeout /\ End /\ Fail("Connect")
        <3>1. "Connect" \in FailedReasons \ {"None"}
            BY DEF FailedReasons
        <3> QED
            BY <2>1, <2>2, <3>1, GivingUpKeepsInvariant
    <2>3. CASE StartWrite
        BY <2>1, <2>3, StartWriteKeepsInvariant
    <2>4. CASE Start("handshake", "SSLTimeout", "SSLException")
        <3>1. /\ "handshake" \in NetworkPhases /\ "SSLTimeout" \in Timeouts
              /\ "SSLException" \in FailedReasons \ {"None"}
            BY DEF NetworkPhases, Timeouts, FailedReasons
        <3> QED
            BY <2>1, <2>4, <3>1, StartKeepsInvariant
    <2>5. CASE SetTimeout("SSLTimeout") /\ End /\ Fail("SSL")
        <3>1. "SSL" \in FailedReasons \ {"None"} /\ "SSLTimeout" \in Timeouts
            BY DEF Timeouts, FailedReasons
        <3>2. deadline' = "running" /\ waiting' \in Timeouts
            BY <2>5, <3>1 DEF SetTimeout
        <3> QED
            BY <2>1, <2>5, <3>1, <3>2, GivingUpKeepsInvariant
    <2> QED
        BY <1>2, <2>2, <2>3, <2>4, <2>5 DEF OnConnect
<1>3. CASE OnHandshake
    <2>1. /\ alive /\ chunks' \in 0..MaxChunks /\ Others
          /\ acting # "None" => setup.threads > 1
        BY <1>3, HandlerRuns DEF OnHandshake, NetworkPhases
    <2>2. CASE ClearTimeout /\ End /\ Fail("SSL")
        <3>1. "SSL" \in FailedReasons \ {"None"}
            BY DEF FailedReasons
        <3> QED
            BY <2>1, <2>2, <3>1, GivingUpKeepsInvariant
    <2>3. CASE StartWrite
        BY <2>1, <2>3, StartWriteKeepsInvariant
    <2> QED
        BY <1>3, <2>2, <2>3 DEF OnHandshake
<1>4. CASE OnWrite \/ OnWriteSome
    <2>1. /\ alive /\ Others
          /\ chunks \in 0..MaxChunks
          /\ acting # "None" => setup.threads > 1
        BY <1>4, HandlerRuns DEF OnWrite, OnWriteSome, NetworkPhases
    <2>2. chunks' \in 0..MaxChunks
        BY <1>4, <2>1, ConnectionAssumption DEF OnWrite, OnWriteSome
    <2>3. CASE End /\ Fail("Write") /\ (ClearTimeout \/ UNCHANGED <<deadline, waiting>>)
        <3>1. "Write" \in FailedReasons \ {"None"}
            BY DEF FailedReasons
        <3> QED
            BY <2>1, <2>2, <2>3, <3>1, GivingUpKeepsInvariant
    <2>4. CASE StartRead
        BY <2>1, <2>2, <2>4, StartReadKeepsInvariant
    <2>5. CASE Start("writeSome", "WriteTimeout", "WriteException")
        <3>1. /\ "writeSome" \in NetworkPhases /\ "WriteTimeout" \in Timeouts
              /\ "WriteException" \in FailedReasons \ {"None"}
            BY DEF NetworkPhases, Timeouts, FailedReasons
        <3> QED
            BY <2>1, <2>2, <2>5, <3>1, StartKeepsInvariant
    <2> QED
        BY <1>4, <2>3, <2>4, <2>5 DEF OnWrite, OnWriteSome
<1>5. CASE ReadMore
    <2>1. /\ alive /\ chunks \in 0..MaxChunks /\ phase = "read"
          /\ acting # "None" => setup.threads > 1
        BY <1>5, HandlerRuns DEF ReadMore, NetworkPhases
    <2>2. chunks' \in 0..MaxChunks
        BY <1>5, <2>1, ConnectionAssumption DEF ReadMore
    <2>3. /\ deadline' = "running" /\ waiting' = "ReadTimeout" /\ result' = "pending"
          /\ UNCHANGED <<setup, phase, addresses, fired, acting, armed, failedReason,
                         completed, alive>>
        BY <1>5 DEF ReadMore, SetTimeout
    <2>4. "ReadTimeout" \in Timeouts /\ "ReadTimeout" # "None"
        BY DEF Timeouts
    <2>5. TypeOK' /\ NoUnguardedWait' /\ LateTimerHarmless'
        BY <2>2, <2>3, <2>4 DEF IInv, TypeOK, NoUnguardedWait, LateTimerHarmless
    <2>6. TimerConsistent' /\ EndConsistent'
        BY <2>1, <2>3, <2>4 DEF IInv, TimerConsistent, EndConsistent
    <2> QED
        BY <2>5, <2>6 DEF IInv
<1>6. CASE OnRead
    <2>1. /\ alive /\ chunks' \in 0..MaxChunks
          /\ acting # "None" => setup.threads > 1
          /\ UNCHANGED <<setup, addresses, chunks, fired, acting, armed, alive>>
          /\ ClearTimeout /\ End
        BY <1>6, HandlerRuns DEF OnRead, NetworkPhases
    <2>2. {"Read", "Shutdown", "ShutdownException"} \subseteq FailedReasons \ {"None"}
        BY DEF FailedReasons
    <2>3. CASE \E reason \in {"Read", "Shutdown", "ShutdownException"} :
                  Fail(reason) /\ completed' \in BOOLEAN
        <3>1. failedReason' \in FailedReasons \ {"None"} /\ completed' \in BOOLEAN
            BY <2>2, <2>3, FailShape DEF IInv
        <3>2. TypeOK'
            BY <2>1, <3>1, Reasons DEF IInv, TypeOK, ClearTimeout, End
        <3>3. NoUnguardedWait' /\ LateTimerHarmless'
            BY <2>1 DEF IInv, NoUnguardedWait, LateTimerHarmless, End, NetworkPhases
        <3>4. TimerConsistent' /\ EndConsistent'
            BY <2>1, <3>1 DEF IInv, TypeOK, TimerConsistent, EndConsistent, ClearTimeout, End
        <3> QED
            BY <3>2, <3>3, <3>4 DEF IInv
    <2>4. CASE completed' = TRUE /\ UNCHANGED failedReason
        <3>1. TypeOK'
            BY <2>1, <2>4, Reasons DEF IInv, TypeOK, ClearTimeout, End
        <3>2. NoUnguardedWait' /\ LateTimerHarmless'
            BY <2>1 DEF IInv, NoUnguardedWait, LateTimerHarmless, End, NetworkPhases
        <3>3. TimerConsistent' /\ EndConsistent'
            BY <2>1, <2>4 DEF IInv, TypeOK, TimerConsistent, EndConsistent, ClearTimeout, End
        <3> QED
            BY <3>1, <3>2, <3>3 DEF IInv
    <2> QED
        BY <1>6, <2>3, <2>4 DEF OnRead, IInv, TypeOK
<1>7. CASE Destroy
    <2>1. TypeOK'
        BY <1>7, Reasons DEF Destroy, IInv, TypeOK, ClearTimeout
    <2>2. NoUnguardedWait' /\ LateTimerHarmless'
        BY <1>7 DEF Destroy, IInv, NoUnguardedWait, LateTimerHarmless
    <2>3. TimerConsistent' /\ EndConsistent'
        BY <1>7 DEF Destroy, IInv, TimerConsistent, EndConsistent, ClearTimeout
    <2> QED
        BY <2>1, <2>2, <2>3 DEF IInv
<1> QED
    BY <1>1, <1>2, <1>3, <1>4, <1>5, <1>6, <1>7 DEF Handlers

\* The network and the clock keep it too.
LEMMA EventsKeepInvariant ==
    ASSUME IInv, Network \/ Expire \/ TimerCheck \/ TimerAct
    PROVE  IInv'
<1>1. CASE Network
    <2>1. /\ result' \in {"pending", "ok", "error"} /\ addresses' \in 1..MaxAddresses
          /\ result = "pending" /\ phase # "none"
          /\ UNCHANGED <<setup, phase, chunks, deadline, waiting, fired, acting, armed,
                         failedReason, completed, alive>>
        BY <1>1, ConnectionAssumption DEF Network, Arrive, IInv, TypeOK
    <2>2. TypeOK'
        BY <2>1 DEF IInv, TypeOK
    <2>3. NoUnguardedWait' /\ LateTimerHarmless'
        BY <2>1 DEF IInv, NoUnguardedWait, LateTimerHarmless
    <2>4. TimerConsistent' /\ EndConsistent'
        BY <2>1 DEF IInv, TimerConsistent, EndConsistent
    <2> QED
        BY <2>2, <2>3, <2>4 DEF IInv
<1>2. CASE Expire
    <2>1. waiting \in Timeouts /\ deadline' = "due" /\ fired' = fired \cup {waiting}
        BY <1>2 DEF Expire, IInv, TypeOK, TimerConsistent
    <2>2. TypeOK'
        BY <1>2, <2>1 DEF Expire, IInv, TypeOK
    <2>3. NoUnguardedWait' /\ LateTimerHarmless'
        BY <1>2, <2>1 DEF Expire, IInv, NoUnguardedWait, LateTimerHarmless
    <2>4. TimerConsistent' /\ EndConsistent'
        BY <1>2 DEF Expire, IInv, TimerConsistent, EndConsistent
    <2> QED
        BY <2>2, <2>3, <2>4 DEF IInv
<1>3. CASE TimerCheck
    <2>1. PICK reason \in fired :
              /\ fired' = fired \ {reason}
              /\ acting' = IF armed /\ deadline = "due" THEN reason ELSE "None"
        BY <1>3 DEF TimerCheck
    <2>2. reason \in Timeouts /\ reason # "None"
        BY <2>1, Reasons DEF IInv, TypeOK
    <2>3. TypeOK'
        BY <1>3, <2>1, <2>2 DEF TimerCheck, IInv, TypeOK
    <2>4. NoUnguardedWait' /\ LateTimerHarmless'
        BY <1>3, <2>1, <2>2 DEF TimerCheck, IInv, NoUnguardedWait, LateTimerHarmless
    <2>5. TimerConsistent' /\ EndConsistent'
        BY <1>3, <2>1 DEF TimerCheck, IInv, TimerConsistent, EndConsistent
    <2> QED
        BY <2>3, <2>4, <2>5 DEF IInv
<1>4. CASE TimerAct
    <2>1. /\ alive /\ acting' = "None"
          /\ UNCHANGED <<setup, phase, chunks, deadline, waiting, fired, completed, alive>>
        BY <1>4 DEF TimerAct, IInv, LateTimerHarmless
    <2>2. failedReason' \in FailedReasons \ {"None"}
        BY <1>4, FailShape, Reasons DEF TimerAct, IInv, TypeOK
    <2>3. /\ armed' \in BOOLEAN
          /\ result' \in {"pending", "ok", "error"}
          /\ addresses' \in 1..MaxAddresses
          /\ armed' = FALSE \/ result' = "error"
        <3>1. /\ armed \in BOOLEAN /\ result \in {"pending", "ok", "error"}
              /\ addresses \in 1..MaxAddresses
            BY DEF IInv, TypeOK
        <3>2. CASE armed' = FALSE /\ Cancel
            <4>1. CASE addresses > 1 /\ addresses' = addresses - 1 /\ UNCHANGED result
                <5>1. addresses' \in 1..MaxAddresses
                    BY <3>1, <4>1, ConnectionAssumption
                <5> QED
                    BY <3>1, <3>2, <4>1, <5>1
            <4>2. CASE UNCHANGED addresses /\ (result' = "error" \/ UNCHANGED result)
                BY <3>1, <3>2, <4>2
            <4> QED
                BY <3>2, <4>1, <4>2 DEF Cancel
        <3>3. CASE SocketClosed /\ UNCHANGED <<armed, result, addresses>>
            BY <3>1, <3>3 DEF SocketClosed
        <3> QED
            BY <1>4, <3>2, <3>3 DEF TimerAct
    <2>4. TypeOK'
        BY <2>1, <2>2, <2>3 DEF IInv, TypeOK
    <2>5. NoUnguardedWait' /\ LateTimerHarmless'
        BY <2>1, <2>3 DEF NoUnguardedWait, LateTimerHarmless
    <2>6. TimerConsistent' /\ EndConsistent'
        BY <2>1, <2>2 DEF IInv, TimerConsistent, EndConsistent
    <2> QED
        BY <2>4, <2>5, <2>6 DEF IInv
<1> QED
    BY <1>1, <1>2, <1>3, <1>4

LEMMA InitIInv == Init => IInv
<1> SUFFICES ASSUME Init PROVE IInv
    OBVIOUS
<1>1. TypeOK
    <2>1. addresses \in 1..MaxAddresses /\ chunks \in 0..MaxChunks
        BY ConnectionAssumption DEF Init
    <2>2. /\ setup \in [https : BOOLEAN, large : BOOLEAN, threads : ThreadCounts]
          /\ fired \subseteq Timeouts /\ failedReason \in FailedReasons
        BY Reasons DEF Init
    <2> QED
        BY <2>1, <2>2 DEF Init, TypeOK
<1>2. NoUnguardedWait /\ LateTimerHarmless
    BY DEF Init, NoUnguardedWait, LateTimerHarmless, NetworkPhases
<1>3. TimerConsistent /\ EndConsistent
    BY DEF Init, TimerConsistent, EndConsistent
<1> QED
    BY <1>1, <1>2, <1>3 DEF IInv

LEMMA NextIInv == IInv /\ [Next]_vars => IInv'
<1> SUFFICES ASSUME IInv, [Next]_vars PROVE IInv'
    OBVIOUS
<1>1. CASE UNCHANGED vars
    BY <1>1 DEF vars, IInv, TypeOK, NoUnguardedWait, LateTimerHarmless, TimerConsistent,
                EndConsistent
<1>2. CASE Finished
    BY <1>1, <1>2 DEF Finished
<1> QED
    BY <1>1, <1>2, HandlersKeepInvariant, EventsKeepInvariant DEF Next

LEMMA Invariance == Spec => []IInv
BY InitIInv, NextIInv, PTL DEF Spec

-----------------------------------------------------------------------------
\* The parts of the connection's state keep their types, for any number of
\* threads, addresses and chunks.
THEOREM TypeCorrect == Spec => []TypeOK
BY Invariance, PTL DEF IInv

\* setTimeout and clearTimeout: while handle->s is set, nobody waits for the
\* network without a deadline, on any path through the handlers.
THEOREM WaitsGuarded == Spec => []NoUnguardedWait
BY Invariance, PTL DEF IInv

\* Handle_lt: a timer event that comes after ~SocketDetails_lt, or while it
\* runs on another thread, does not touch the socket.
THEOREM LateEventsHarmless == Spec => []LateTimerHarmless
BY Invariance, PTL DEF IInv

\* Every way out of the chain of handlers leaves a verdict: the request is
\* completed or says why it failed.
THEOREM VerdictGiven == Spec => []VerdictAtEnd
<1>1. IInv => VerdictAtEnd
    BY DEF IInv, EndConsistent, VerdictAtEnd
<1> QED
    BY <1>1, Invariance, PTL

-----------------------------------------------------------------------------
\* Every change of the reason, in any handler, is by Request::fail.
LEMMA ReasonSet ==
    ASSUME TypeOK, [Next]_vars
    PROVE  \/ UNCHANGED failedReason
           \/ \E reason \in FailedReasons \ {"None"} : Fail(reason)
<1>1. /\ {"Resolver", "Connect", "ConnectException", "SSL", "SSLException", "Write",
          "WriteException", "Read", "ReadException", "Shutdown", "ShutdownException"}
            \subseteq FailedReasons \ {"None"}
      /\ Timeouts \subseteq FailedReasons \ {"None"}
    BY DEF FailedReasons, Timeouts
<1>2. CASE UNCHANGED vars \/ Network \/ Expire \/ TimerCheck \/ Finished
    BY <1>2 DEF vars, Network, Arrive, Expire, TimerCheck, Finished
<1>3. CASE TimerAct
    BY <1>1, <1>3 DEF TimerAct, TypeOK
<1>4. CASE Handlers
    BY <1>1, <1>4 DEF Handlers, OnResolve, OnConnect, OnHandshake, OnWrite, OnWriteSome,
                      ReadMore, OnRead, Destroy, StartWrite, StartRead, Start
<1> QED
    BY <1>2, <1>3, <1>4 DEF Next

\* Request::fail keeps the first reason: the aborted operation that follows a
\* timeout, or any later failure, does not hide it.
THEOREM ReasonKept == Spec => FirstReasonKept
<1>1. TypeOK /\ [Next]_vars => [failedReason # "None" => failedReason' = failedReason]_vars
    BY ReasonSet, FailShape
<1> QED
    BY <1>1, TypeCorrect, PTL DEF Spec, FirstReasonKept

\* No handler of an operation reports a timeout: only the timer's handler does.
LEMMA OnlyTimerTimesOut ==
    ASSUME [Next]_vars, failedReason' # failedReason, failedReason' \in Timeouts
    PROVE  TimerAct
<1>1. {"Resolver", "Connect", "ConnectException", "SSL", "SSLException", "Write",
       "WriteException", "Read", "ReadException", "Shutdown", "ShutdownException"}
            \cap Timeouts = {}
    BY DEF Timeouts
<1>2. CASE UNCHANGED vars \/ Network \/ Expire \/ TimerCheck \/ Finished
    BY <1>2 DEF vars, Network, Arrive, Expire, TimerCheck, Finished
<1>3. CASE Handlers
    BY <1>1, <1>3 DEF Handlers, OnResolve, OnConnect, OnHandshake, OnWrite, OnWriteSome,
                      ReadMore, OnRead, Destroy, StartWrite, StartRead, Start, Fail
<1> QED
    BY <1>2, <1>3 DEF Next

\* With one io thread a timeout is reported only when the deadline of the
\* pending operation has passed: an event of an earlier operation is ignored.
THEOREM DueTimeoutsOnly == Spec => OnlyDueTimeoutsFail
<1> DEFINE DueTimeout ==
        (setup.threads = 1 /\ failedReason' # failedReason /\ failedReason' \in Timeouts)
            => deadline = "due" /\ phase # "none"
<1>1. IInv /\ [Next]_vars => [DueTimeout]_vars
    <2> SUFFICES ASSUME IInv, [Next]_vars, setup.threads = 1,
                        failedReason' # failedReason, failedReason' \in Timeouts
                 PROVE  deadline = "due" /\ phase # "none"
        OBVIOUS
    <2>1. TimerAct
        BY OnlyTimerTimesOut
    <2>2. failedReason = "None"
        BY <2>1 DEF TimerAct, Fail
    <2> QED
        BY <2>1, <2>2 DEF TimerAct, IInv, TimerConsistent
<1> QED
    BY <1>1, Invariance, PTL DEF Spec, OnlyDueTimeoutsFail

-----------------------------------------------------------------------------
(* The promise of module Transfer.                                         *)

\* While a name is being resolved no timer has been set, so none can go off.
ResolvesUntimed ==
    phase = "resolve" => deadline = "off" /\ fired = {} /\ acting = "None"

LEMMA UntimedInvariance == Spec => []ResolvesUntimed
<1>1. Init => ResolvesUntimed
    BY DEF Init, ResolvesUntimed
<1>2. ASSUME ResolvesUntimed, [Next]_vars PROVE ResolvesUntimed'
    <2>1. CASE Handlers
        <3>1. phase' # "resolve" \/ UNCHANGED <<phase, deadline, fired, acting>>
            BY <2>1 DEF Handlers, OnResolve, OnConnect, OnHandshake, OnWrite, OnWriteSome,
                        ReadMore, OnRead, Destroy, StartWrite, StartRead, Start, End, Handle
        <3>2. QED  BY <1>2, <3>1 DEF ResolvesUntimed
    <2>2. CASE Network \/ Expire \/ TimerCheck \/ TimerAct \/ Finished \/ UNCHANGED vars
        BY <1>2, <2>2 DEF ResolvesUntimed, Network, Arrive, Expire, TimerCheck, TimerAct,
                          Finished, vars
    <2>3. QED  BY <1>2, <2>1, <2>2 DEF Next
<1>3. QED  BY <1>1, <1>2, PTL DEF Spec

\* A handler that returns with a failure gives up.
LEMMA EndGivesUp ==
    ASSUME NEW operation \in NetworkPhases \cup {"resolve"},
           NEW reason \in FailedReasons \ {"None"},
           IInv, Handle(operation), End, Fail(reason), UNCHANGED <<completed, alive>>
    PROVE  Promise!GiveUp
<1>1. alive /\ phase = operation
    BY HandlerRuns
<1>2. failedReason' # "None"
    BY FailShape DEF IInv
<1>3. Stage \in {"resolve", "transfer"} /\ Stage' = "ended"
    BY <1>1 DEF Stage, End, NetworkPhases
<1>4. QED  BY <1>2, <1>3 DEF Promise!GiveUp

\* A handler that starts the next operation goes on, or gives up if that throws.
LEMMA StartGoesOn ==
    ASSUME NEW operation \in NetworkPhases \cup {"resolve"}, NEW next \in NetworkPhases,
           NEW timeout, NEW exception \in FailedReasons \ {"None"},
           IInv, Handle(operation), Start(next, timeout, exception),
           UNCHANGED <<completed, alive>>
    PROVE  Promise!Connect \/ Promise!GiveUp \/ UNCHANGED Promise!transferVars
<1>1. alive /\ phase = operation
    BY HandlerRuns
<1>2. CASE phase' = next /\ UNCHANGED failedReason
    <2>1. Stage' = "transfer" /\ Stage = IF operation = "resolve" THEN "resolve" ELSE "transfer"
        BY <1>1, <1>2 DEF Stage, NetworkPhases
    <2>2. QED  BY <1>2, <2>1 DEF Promise!Connect, Promise!transferVars
<1>3. CASE End /\ Fail(exception)
    BY <1>3, EndGivesUp
<1>4. QED  BY <1>2, <1>3 DEF Start

\* One step of the connection is one of the client's view of it, or none.
LEMMA StepKeepsPromise ==
    ASSUME IInv, ResolvesUntimed, [Next]_vars
    PROVE  [Promise!TransferNext]_(Promise!transferVars)
<1> DEFINE Kept == Promise!Connect \/ Promise!GiveUp \/ UNCHANGED Promise!transferVars
<1>1. /\ NetworkPhases = {"connect", "handshake", "write", "writeSome", "read"}
      /\ {"Resolver", "Connect", "ConnectException", "SSL", "SSLException", "Write",
          "WriteException", "Read", "ReadException"} \subseteq FailedReasons \ {"None"}
    BY DEF NetworkPhases, FailedReasons
<1>2. ASSUME OnResolve PROVE Kept
    BY <1>1, <1>2, EndGivesUp, StartGoesOn DEF OnResolve
<1>3. ASSUME NEW operation \in NetworkPhases, Handle(operation), StartWrite,
             UNCHANGED <<completed, alive>>
      PROVE  Kept
    <2>1. (IF setup.large THEN "writeSome" ELSE "write") \in NetworkPhases
        BY <1>1
    <2>2. QED  BY <1>1, <1>3, <2>1, StartGoesOn DEF StartWrite
<1>4. ASSUME NEW operation \in NetworkPhases, Handle(operation), StartRead,
             UNCHANGED <<completed, alive>>
      PROVE  Kept
    BY <1>1, <1>4, StartGoesOn DEF StartRead
<1>5. ASSUME OnConnect PROVE Kept
    BY <1>1, <1>3, <1>5, EndGivesUp, StartGoesOn DEF OnConnect
<1>6. ASSUME OnHandshake PROVE Kept
    BY <1>1, <1>3, <1>6, EndGivesUp DEF OnHandshake
<1>7. ASSUME OnWrite PROVE Kept
    BY <1>1, <1>4, <1>7, EndGivesUp DEF OnWrite
<1>8. ASSUME OnWriteSome PROVE Kept
    BY <1>1, <1>4, <1>8, EndGivesUp, StartGoesOn DEF OnWriteSome
<1>9. ASSUME OnRead PROVE Kept \/ Promise!Complete
    <2>1. alive /\ phase = "read" /\ Handle("read") /\ End /\ UNCHANGED alive
        BY <1>1, <1>9, HandlerRuns DEF OnRead
    <2>2. CASE Fail("Read") /\ UNCHANGED completed
        BY <1>1, <2>1, <2>2, EndGivesUp
    <2>3. CASE completed' = TRUE
        <3>1. Stage = "transfer" /\ Stage' = "ended"
            BY <2>1 DEF Stage, End
        <3>2. failedReason # "None" => failedReason' # "None"
            BY <1>9 DEF OnRead, Fail
        <3>3. QED  BY <2>3, <3>1, <3>2 DEF Promise!Complete
    <2>4. QED  BY <1>9, <2>2, <2>3 DEF OnRead
<1>10. ASSUME Destroy PROVE Promise!Destroy
    BY <1>10 DEF Destroy, IInv, EndConsistent, Stage, Promise!Destroy
<1>11. ASSUME TimerAct PROVE Promise!TimeOut
    <2>1. alive /\ phase # "resolve"
        BY <1>11 DEF TimerAct, IInv, LateTimerHarmless, ResolvesUntimed
    <2>2. failedReason' # "None"
        BY <1>11 DEF TimerAct, Fail
    <2>3. QED  BY <1>11, <2>1, <2>2 DEF TimerAct, Stage, Promise!TimeOut
<1>12. ASSUME ReadMore \/ Network \/ Expire \/ TimerCheck \/ Finished \/ UNCHANGED vars
       PROVE  UNCHANGED Promise!transferVars
    BY <1>12 DEF ReadMore, Network, Arrive, Expire, TimerCheck, Finished, vars, Stage,
                 Promise!transferVars
<1>13. QED
    BY <1>2, <1>5, <1>6, <1>7, <1>8, <1>9, <1>10, <1>11, <1>12
    DEF Next, Handlers, Promise!TransferNext

\* The chain of handlers, the timer and the destructor keep the promise the
\* client relies on: one way through, a verdict at its end, which nothing
\* changes once ~SocketDetails_lt has read it.
THEOREM KeepsPromise == Spec => ImplementsTransfer
<1>1. Init => Promise!TransferInit
    BY DEF Init, Stage, Promise!TransferInit
<1>2. QED
    BY <1>1, StepKeepsPromise, Invariance, UntimedInvariance, PTL
    DEF Spec, ImplementsTransfer, Promise!TransferSpec
==============================================================================
