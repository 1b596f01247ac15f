------------------------------ MODULE Connection ------------------------------
(***************************************************************************)
(* One SocketDetails_lt from the moment its name is being resolved: the    *)
(* chain of asynchronous operations in Client::Private, the deadline timer *)
(* that guards each of them, and the Handle_lt through which a timer event *)
(* finds out whether the socket is still there.                            *)
(*                                                                         *)
(* Time is abstract: a deadline is off, running or due. A timer event and  *)
(* the result of an operation may both be ready in the io_context, in      *)
(* either order.                                                           *)
(***************************************************************************)
EXTENDS Naturals

CONSTANTS
    ThreadCounts,   \* the numbers of io threads the application may ask for
    MaxAddresses,   \* BOUND: addresses a name resolves to
    MaxChunks       \* BOUND: chunks of a message beyond the first

ASSUME ConnectionAssumption ==
    /\ ThreadCounts \subseteq Nat \ {0}
    /\ MaxAddresses \in Nat \ {0}
    /\ MaxChunks \in Nat

VARIABLES
    setup,          \* https, a body of 512 KiB or more, and the number of io threads
    phase,          \* the pending asynchronous operation; "none" at the end
    result,         \* what the io_context holds for its handler
    addresses,      \* addresses async_connect may still try, this one included
    chunks,         \* how many more chunks the message may come in
    deadline,       \* deadlineTimer.expires_at(): "off" is pos_infin
    waiting,        \* the outcome the outstanding async_wait would report
    fired,          \* the outcomes of expired waits whose handlers are ready
    acting,         \* the timer handler that has passed its checks, if any:
                    \* it holds handle->mutex
    armed,          \* handle->s is not null
    failedReason,   \* Request::failedReason
    completed,      \* Request::completed
    alive           \* ~SocketDetails_lt has not run

vars == <<setup, phase, result, addresses, chunks, deadline, waiting, fired,
          acting, armed, failedReason, completed, alive>>

Timeouts == {"ConnectTimeout", "SSLTimeout", "WriteTimeout", "ReadTimeout"}

\* The reasons a connection fails for, from the resolver's answer on.
FailedReasons ==
    Timeouts \cup {"None", "Resolver", "Connect", "ConnectException", "SSL",
                   "SSLException", "Write", "WriteException", "Read",
                   "ReadException", "Shutdown", "ShutdownException"}

\* The operations whose peer is the network; a name is resolved without a
\* deadline.
NetworkPhases == {"connect", "handshake", "write", "writeSome", "read"}

Init ==
    /\ setup \in [https : BOOLEAN, large : BOOLEAN, threads : ThreadCounts]
    /\ phase = "resolve"
    /\ result = "pending"
    /\ addresses \in 1..MaxAddresses
    /\ chunks = MaxChunks
    /\ deadline = "off"
    /\ waiting = "None"
    /\ fired = {}
    /\ acting = "None"
    /\ armed = TRUE
    /\ failedReason = "None"
    /\ completed = FALSE
    /\ alive = TRUE

-----------------------------------------------------------------------------
(* Building blocks of the handlers.                                        *)

\* Slip: the last reason stays.
FailAgain(reason) == failedReason' = reason

\* Request::fail: the first reason stays.
Fail(reason) ==
    failedReason' = IF failedReason = "None" THEN reason ELSE failedReason

\* setTimeout: a new deadline, which cancels the wait for the old one. A wait
\* that has expired already stays ready to run.
SetTimeout(reason) == deadline' = "running" /\ waiting' = reason

ClearTimeout == deadline' = "off" /\ waiting' = "None"

\* The handler returns without a new operation and drops the last shared_ptr.
End == phase' = "none" /\ result' = "pending"

\* A new operation under a new deadline; or starting it throws, which fails
\* the request and leaves the deadline running.
Start(operation, timeout, exception) ==
    /\ SetTimeout(timeout)
    /\ \/ phase' = operation /\ result' = "pending" /\ UNCHANGED failedReason
       \/ End /\ Fail(exception)

\* The handler of this operation may run: its result is ready and a thread is
\* free. Handlers do not take handle->mutex.
Handle(operation) ==
    /\ phase = operation /\ result # "pending"
    /\ acting # "None" => setup.threads > 1

-----------------------------------------------------------------------------
(* The handlers of the operations.                                         *)

\* asyncWrite: a small body in one operation, a large one in chunks.
StartWrite ==
    Start(IF setup.large THEN "writeSome" ELSE "write", "WriteTimeout", "WriteException")

StartRead == Start("read", "ReadTimeout", "ReadException")

\* onResolve, called by the handler of async_resolve or by run.
OnResolve ==
    /\ Handle("resolve")
    /\ IF result = "error"
       THEN End /\ Fail("Resolver") /\ UNCHANGED <<deadline, waiting>>
       ELSE Start("connect", "ConnectTimeout", "ConnectException")
    /\ UNCHANGED <<setup, addresses, chunks, fired, acting, armed, completed, alive>>

\* The handler of async_connect and onConnect.
OnConnect ==
    /\ Handle("connect")
    /\ \/ result = "error" /\ ClearTimeout /\ End /\ Fail("Connect")
       \/ result = "ok" /\ ~setup.https /\ StartWrite
       \/ /\ result = "ok" /\ setup.https
          /\ \/ Start("handshake", "SSLTimeout", "SSLException")
             \/ SetTimeout("SSLTimeout") /\ End /\ Fail("SSL")
    /\ UNCHANGED <<setup, addresses, chunks, fired, acting, armed, completed, alive>>

\* Slip: onHandshake returns on an error without failing the request.
OnHandshakeSilent ==
    /\ Handle("handshake")
    /\ \/ result = "error" /\ ClearTimeout /\ End /\ UNCHANGED failedReason
       \/ result = "ok" /\ StartWrite
    /\ UNCHANGED <<setup, addresses, chunks, fired, acting, armed, completed, alive>>

\* The handler of async_handshake and onHandshake.
OnHandshake ==
    /\ Handle("handshake")
    /\ \/ result = "error" /\ ClearTimeout /\ End /\ Fail("SSL")
       \/ result = "ok" /\ StartWrite
    /\ UNCHANGED <<setup, addresses, chunks, fired, acting, armed, completed, alive>>

\* The handler of async_write and onWrite.
OnWrite ==
    /\ Handle("write")
    /\ \/ result = "error" /\ ClearTimeout /\ End /\ Fail("Write")
       \/ result = "ok" /\ StartRead
    /\ UNCHANGED <<setup, addresses, chunks, fired, acting, armed, completed, alive>>

\* The handler of async_write_some: the next chunk, or onWrite when the
\* serializer is done.
OnWriteSome ==
    /\ Handle("writeSome")
    /\ \/ /\ chunks > 0
          /\ chunks' = chunks - 1
          /\ \/ result = "error" /\ End /\ Fail("Write") /\ UNCHANGED <<deadline, waiting>>
             \/ result = "ok" /\ Start("writeSome", "WriteTimeout", "WriteException")
       \/ /\ \/ result = "error" /\ ClearTimeout /\ End /\ Fail("Write")
             \/ result = "ok" /\ StartRead
          /\ UNCHANGED chunks
    /\ UNCHANGED <<setup, addresses, fired, acting, armed, completed, alive>>

\* Slip: the next chunk is read with the timer cleared and not set again.
ReadMoreUnguarded ==
    /\ Handle("read")
    /\ result = "ok" /\ chunks > 0
    /\ chunks' = chunks - 1
    /\ ClearTimeout
    /\ result' = "pending"
    /\ UNCHANGED <<setup, phase, addresses, fired, acting, armed, failedReason,
                   completed, alive>>

\* Slip: onReadSome does not ask the parser whether it is done.
ReadMorePastEnd ==
    /\ Handle("read")
    /\ result = "ok"
    /\ chunks' = chunks - 1
    /\ SetTimeout("ReadTimeout")
    /\ result' = "pending"
    /\ UNCHANGED <<setup, phase, addresses, fired, acting, armed, failedReason,
                   completed, alive>>

\* onReadSome while the response is not complete: the next chunk. What
\* async_read_some throws here is caught by nobody.
ReadMore ==
    /\ Handle("read")
    /\ result = "ok" /\ chunks > 0
    /\ chunks' = chunks - 1
    /\ SetTimeout("ReadTimeout")
    /\ result' = "pending"
    /\ UNCHANGED <<setup, phase, addresses, fired, acting, armed, failedReason,
                   completed, alive>>

\* onReadSome at the end of the response or with an error, and onRead. A
\* request that has been received may still fail to shut its socket down.
OnRead ==
    /\ Handle("read")
    /\ ClearTimeout
    /\ End
    /\ \/ result = "error" /\ Fail("Read") /\ UNCHANGED completed
       \/ /\ result = "ok"
          /\ completed' = TRUE
          /\ \/ UNCHANGED failedReason
             \/ Fail("Shutdown")
             \/ Fail("ShutdownException")
    /\ UNCHANGED <<setup, addresses, chunks, fired, acting, armed, alive>>

\* Slip: the destructor does not take handle->mutex.
DestroyWithoutLock ==
    /\ alive /\ phase = "none"
    /\ alive' = FALSE
    /\ armed' = FALSE
    /\ ClearTimeout
    /\ UNCHANGED <<setup, phase, result, addresses, chunks, fired, acting,
                   failedReason, completed>>

\* ~SocketDetails_lt waits for handle->mutex, clears handle->s and cancels the
\* timer.
Destroy ==
    /\ alive /\ phase = "none"
    /\ acting = "None"
    /\ alive' = FALSE
    /\ armed' = FALSE
    /\ ClearTimeout
    /\ UNCHANGED <<setup, phase, result, addresses, chunks, fired, acting,
                   failedReason, completed>>

-----------------------------------------------------------------------------
(* The network and the clock.                                              *)

\* An operation ends. async_connect goes on with the next address when one
\* fails, whatever the error, as long as its socket is open.
Arrive(outcome) ==
    /\ phase # "none" /\ result = "pending"
    /\ IF phase = "connect" /\ outcome = "error" /\ addresses > 1
       THEN addresses' = addresses - 1 /\ UNCHANGED result
       ELSE result' = outcome /\ UNCHANGED addresses
    /\ UNCHANGED <<setup, phase, chunks, deadline, waiting, fired, acting, armed,
                   failedReason, completed, alive>>

Network == \E outcome \in {"ok", "error"} : Arrive(outcome)

\* The deadline passes: the handler of the wait is ready to run.
Expire ==
    /\ deadline = "running"
    /\ deadline' = "due"
    /\ fired' = fired \cup {waiting}
    /\ waiting' = "None"
    /\ UNCHANGED <<setup, phase, result, addresses, chunks, acting, armed,
                   failedReason, completed, alive>>

\* An operation made of several reads and writes of the socket: over TLS all of
\* them are, async_write writes until all is written, and async_read_some reads
\* until the parser has made something of it. Only a chunk that is written
\* without TLS is one write.
Composed ==
    \/ phase \in {"handshake", "write", "read"}
    \/ phase = "writeSome" /\ setup.https

\* socket.cancel(): aborts the attempt of async_connect on the current address,
\* or the operation. It misses an operation whose result is ready, and one that
\* is composed when a part of it is just done.
Cancel ==
    \/ /\ phase = "connect" /\ result = "pending" /\ addresses > 1
       /\ addresses' = addresses - 1
       /\ UNCHANGED result
    \/ /\ phase # "none" /\ result = "pending"
       /\ phase = "connect" => addresses = 1
       /\ result' = "error"
       /\ UNCHANGED addresses
    \/ /\ phase = "none" \/ Composed \/ result # "pending"
       /\ UNCHANGED <<result, addresses>>

\* No address could be opened: the socket is closed and its failure is on its way.
SocketClosed == phase = "connect" /\ result = "error"

\* Slip: expires_at() is not compared with the time.
TimerCheckAnyDeadline ==
    /\ acting = "None"
    /\ \E reason \in fired :
          /\ fired' = fired \ {reason}
          /\ acting' = IF armed THEN reason ELSE "None"
    /\ UNCHANGED <<setup, phase, result, addresses, chunks, deadline, waiting, armed,
                   failedReason, completed, alive>>

\* The handler of an expired wait takes handle->mutex and looks whether the
\* socket is there and its deadline is really due.
TimerCheck ==
    /\ acting = "None"
    /\ \E reason \in fired :
          /\ fired' = fired \ {reason}
          /\ acting' = IF armed /\ deadline = "due" THEN reason ELSE "None"
    /\ UNCHANGED <<setup, phase, result, addresses, chunks, deadline, waiting, armed,
                   failedReason, completed, alive>>

\* If so it fails the request and, if the socket is open, clears handle->s and
\* cancels the socket.
TimerAct ==
    /\ acting # "None"
    /\ Fail(acting)
    /\ \/ armed' = FALSE /\ Cancel
       \/ SocketClosed /\ UNCHANGED <<armed, result, addresses>>
    /\ acting' = "None"
    /\ UNCHANGED <<setup, phase, chunks, deadline, waiting, fired, completed, alive>>

-----------------------------------------------------------------------------
Handlers ==
    \/ OnResolve \/ OnConnect \/ OnHandshake \/ OnWrite \/ OnWriteSome
    \/ ReadMore \/ OnRead
    \/ Destroy

Finished == ~alive /\ fired = {} /\ UNCHANGED vars

Next == Handlers \/ Network \/ Expire \/ TimerCheck \/ TimerAct \/ Finished

Spec == Init /\ [][Next]_vars

\* The io threads run what is ready, time passes and the resolver answers. The
\* peer owes nothing: no fairness for the operations on the network.
Fairness ==
    /\ WF_vars(Handlers) /\ WF_vars(TimerCheck) /\ WF_vars(TimerAct)
    /\ WF_vars(Expire)
    /\ WF_vars(phase = "resolve" /\ Network)

FairSpec == Spec /\ Fairness

-----------------------------------------------------------------------------
TypeOK ==
    /\ setup \in [https : BOOLEAN, large : BOOLEAN, threads : ThreadCounts]
    /\ phase \in NetworkPhases \cup {"resolve", "none"}
    /\ result \in {"pending", "ok", "error"}
    /\ addresses \in 1..MaxAddresses
    /\ chunks \in 0..MaxChunks
    /\ deadline \in {"off", "running", "due"}
    /\ waiting \in Timeouts \cup {"None"}
    /\ fired \subseteq Timeouts
    /\ acting \in Timeouts \cup {"None"}
    /\ armed \in BOOLEAN
    /\ failedReason \in FailedReasons
    /\ completed \in BOOLEAN
    /\ alive \in BOOLEAN

\* While handle->s is set, nobody waits for the network without a deadline:
\* a wait is outstanding, or its event is ready or being handled. Eleven places
\* set or clear the timer; one forgotten is a request that may hang.
NoUnguardedWait ==
    (armed /\ phase \in NetworkPhases /\ result = "pending")
        => waiting # "None" \/ (deadline = "due" /\ (fired # {} \/ acting # "None"))

\* The comment on Handle_lt: a timer event that comes after the socket has been
\* deleted does not touch it, not even when the destructor starts while the
\* event is being handled on another thread.
LateTimerHarmless == ~alive => acting = "None" /\ ~armed

\* With one io thread an event that was ready before its operation ended
\* cannot fail the next operation: a timeout is only reported when the current
\* deadline has passed.
OnlyDueTimeoutsFail ==
    [][(setup.threads = 1 /\ failedReason' # failedReason /\ failedReason' \in Timeouts)
          => deadline = "due" /\ phase # "none"]_vars

\* The reason given to the user is the first that occurred: the aborted
\* operation that follows a timeout does not hide it.
FirstReasonKept ==
    [][failedReason # "None" => failedReason' = failedReason]_vars

\* Whatever way out the chain of handlers takes, it leaves a verdict: the
\* request is completed or says why it failed.
VerdictAtEnd == ~alive => completed \/ failedReason # "None"

\* A silent peer cannot hold a slot as long as the handle is in place: the
\* socket is destroyed or a timeout takes action.
EndsOrTimesOut == alive ~> (~alive \/ ~armed)

\* Where the socket is, as far as the client can tell.
Stage ==
    IF ~alive THEN "gone"
    ELSE IF phase = "none" THEN "ended"
    ELSE IF phase = "resolve" THEN "resolve" ELSE "transfer"

\* The chain of handlers, the timer and the destructor keep the promise that the
\* client relies on: one way through, a verdict at its end, and none of the
\* timer's late events changes what the destructor has read.
Promise == INSTANCE Transfer
    WITH stage <- Stage, failed <- failedReason # "None", completed <- completed

ImplementsTransfer == Promise!TransferSpec

\* "Timer events that arrive after the message has been deleted": handle->s is
\* null because the message has been, or is about to be, deleted. At the least it
\* does not go on connecting without a deadline.
NullHandleLeadsToDeletion ==
    (phase = "connect" /\ result = "pending" /\ ~armed) ~> ~alive
==============================================================================
