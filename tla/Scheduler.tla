------------------------------ MODULE Scheduler ------------------------------
(***************************************************************************)
(* What tp_http::Client promises about the state behind requestQueueMutex: *)
(* the waiting line and the number of requests in flight, with each        *)
(* critical section as one step. Client.tla is shown to implement it.      *)
(***************************************************************************)
EXTENDS PriorityQueue

CONSTANT MaxInFlight    \* Client::Private::maxInFlight

ASSUME MaxInFlightAssumption == MaxInFlight \in Nat

VARIABLES
    queue,      \* Client::Private::requestQueue
    inFlight    \* Client::Private::inFlight

schedulerVars == <<queue, inFlight>>

SchedulerTypeOK ==
    /\ queue \in Seq(Entry)
    /\ inFlight \in Nat

SchedulerInit ==
    /\ queue = <<>>
    /\ inFlight = 0

\* Slip: inFlight>maxInFlight in place of inFlight>=maxInFlight.
PostNextOffByOne(q, n) ==
    \/ /\ n > MaxInFlight \/ q = <<>>
       /\ queue' = q
       /\ inFlight' = n
    \/ /\ n <= MaxInFlight /\ q # <<>>
       /\ queue' = Tail(q)
       /\ inFlight' = n + 1

\* Slip: requestQueue.back() and pop_back().
PostNextFromBack(q, n) ==
    \/ /\ n >= MaxInFlight \/ q = <<>>
       /\ queue' = q
       /\ inFlight' = n
    \/ /\ n < MaxInFlight /\ q # <<>>
       /\ queue' = SubSeq(q, 1, Len(q) - 1)
       /\ inFlight' = n + 1

\* postNext(nullptr) on the line q with n requests in flight: start the front
\* of the line when there is a free slot.
PostNext(q, n) ==
    \/ /\ n >= MaxInFlight \/ q = <<>>
       /\ queue' = q
       /\ inFlight' = n
    \/ /\ n < MaxInFlight /\ q # <<>>
       /\ queue' = Tail(q)
       /\ inFlight' = n + 1

\* Client::sendRequest. The application hands over a Request once.
SendRequest(r, priority) ==
    /\ r \notin Waiting(queue)
    /\ PostNext(Insert(queue, r, priority), inFlight)

\* Slip: the slot is counted free twice.
CompletedTwice ==
    /\ inFlight > 0
    /\ PostNext(queue, inFlight - 2)

\* Slip: the slot is freed but nothing is started.
CompletedWithoutNext ==
    /\ inFlight > 0
    /\ queue' = queue
    /\ inFlight' = inFlight - 1

\* The completed callback with a null request: a socket is gone, its slot is
\* free and the next request may start. (With a retry clone the callback takes
\* the slot again at once, which leaves both variables as they were.)
Completed ==
    /\ inFlight > 0
    /\ PostNext(queue, inFlight - 1)

\* The swap in ~Private.
Drain ==
    /\ queue' = <<>>
    /\ UNCHANGED inFlight

SchedulerNext ==
    \/ \E r \in Requests, priority \in Priority : SendRequest(r, priority)
    \/ Completed
    \/ Drain

SchedulerSpec == SchedulerInit /\ [][SchedulerNext]_schedulerVars

-----------------------------------------------------------------------------
\* maxInFlight bounds the requests in flight: neither sendRequest nor the
\* completed callback starts a request when every slot is taken.
Capacity == inFlight <= MaxInFlight

\* postNext never leaves a slot free while a request waits, although each
\* critical section of sendRequest and completed starts at most one request.
WorkConserving == queue # <<>> => inFlight >= MaxInFlight
==============================================================================
