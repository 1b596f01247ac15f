-------------------------------- MODULE Client --------------------------------
(***************************************************************************)
(* tp_http::Client: application threads and the threads of the io_context  *)
(* share a waiting line and a slot counter under requestQueueMutex.        *)
(*                                                                         *)
(* A request in flight is a SocketDetails_lt kept alive by shared_ptrs: one *)
(* in the handler of the pending asynchronous operation, one in the local  *)
(* variable of the thread that is working on it. Whoever drops the last    *)
(* one runs ~SocketDetails_lt, which deletes the Request, which calls the  *)
(* user's completion handler, which may call sendRequest; then it calls    *)
(* `completed', which takes the mutex, frees the slot and may start the    *)
(* next request, whose immediate failure runs the whole chain again on the *)
(* same stack. Each thread therefore has a stack of frames here, and every *)
(* step of a thread replaces its top frame.                                *)
(*                                                                         *)
(* The chain of operations after the name is resolved (connect, handshake, *)
(* write, read, with their timeouts) is the single operation "transfer".   *)
(***************************************************************************)
EXTENDS PriorityQueue, FiniteSets

CONSTANTS
    Callers,        \* application threads
    IoThreads,      \* threads that run ioContext->run()
    Destroyers,     \* callers that may destroy the client
    MaxInFlight,    \* Client::Private::maxInFlight
    MaxRetries,     \* BOUND: how often one request is retried
    Priorities,     \* the priorities the application uses
    Resubmitters,   \* requests whose completion handler may send another one
    Curious,        \* requests whose callbacks may call pending()
    HostOf,         \* Request::dnsKey of each request
    Known,          \* requests the application gave addresses (resolverResults)
    Faked,          \* requests the application gave a fakeAFailure
    Retrying,       \* requests whose shouldRetry may say yes
    Mortal,         \* requests whose `alive' token the owner may drop early
    Silent,         \* requests whose operations need never end
    NoRequest,      \* the null Request*
    NoThread        \* nobody holds the mutex

Threads == Callers \cup IoThreads

ASSUME ClientAssumption ==
    /\ Destroyers \subseteq Callers
    /\ Callers \cap IoThreads = {}
    /\ MaxInFlight \in Nat
    /\ MaxRetries \in Nat
    /\ Priorities \subseteq Priority
    /\ Resubmitters \subseteq Requests
    /\ Curious \subseteq Requests
    /\ DOMAIN HostOf = Requests
    /\ Known \subseteq Requests
    /\ Faked \subseteq Requests
    /\ Retrying \subseteq Requests
    /\ Mortal \subseteq Requests
    /\ Silent \subseteq Requests
    /\ NoRequest \notin Requests
    /\ NoThread \notin Threads /\ "op" \notin Threads

VARIABLES
    queue,      \* requestQueue
    inFlight,   \* inFlight
    mutex,      \* the thread that holds requestQueueMutex, or NoThread
    stack,      \* what each thread still has to do, the next thing first
    refs,       \* who holds a shared_ptr to the request's socket
    op,         \* the socket's pending asynchronous operation
    status,     \* "new": not sent yet; "sent": owned by the client; "done": deleted
    failed,     \* failedReason() != FailedReason::None
    tries,      \* how many retry clones have been made
    handled,    \* how often the user's completion handler has been called
    owners,     \* the requests whose `alive' token is still held
    dnsCache,   \* the hosts whose entry in dnsCache holds addresses
    life        \* how far ~Client has come

vars == <<queue, inFlight, mutex, stack, refs, op, status, failed, tries,
          handled, owners, dnsCache, life>>

Hosts == {HostOf[r] : r \in Requests}

Lifetimes == {"up", "stopped", "unwinding", "gone", "undefined"}

FrameOps == {"send", "run", "progress", "query", "connect", "unlock", "drop",
             "destroy", "handler", "completed",
             "swap", "delete", "join", "members", "unwind"}

Frame == [op : FrameOps, r : Requests \cup {NoRequest}]

\* The holder that stands for the handler of a pending operation.
Op == "op"

Do(o, r) == [op |-> o, r |-> r]

At(t, o, r) == stack[t] # <<>> /\ Head(stack[t]) = Do(o, r)

\* The top frame of t is done and leaves these frames to do instead.
Then(t, frames) == stack' = [stack EXCEPT ![t] = frames \o Tail(@)]

Init ==
    /\ queue = <<>>
    /\ inFlight = 0
    /\ mutex = NoThread
    /\ stack = [t \in Threads |-> <<>>]
    /\ refs = [r \in Requests |-> {}]
    /\ op = [r \in Requests |-> "none"]
    /\ status = [r \in Requests |-> "new"]
    /\ failed = [r \in Requests |-> FALSE]
    /\ tries = [r \in Requests |-> 0]
    /\ handled = [r \in Requests |-> 0]
    /\ owners = Requests
    /\ dnsCache = {}
    /\ life = "up"

-----------------------------------------------------------------------------
(* The critical sections.                                                  *)

\* A thread can lock requestQueueMutex as long as the mutex exists.
CanLock == mutex = NoThread /\ life \in {"up", "stopped"}

\* Slip: `s' is declared after the lock, so it is released before the mutex.
StartSocketInsideLock(t, r) ==
    /\ mutex' = t
    /\ refs' = [refs EXCEPT ![r] = {t}]
    /\ Then(t, <<Do("run", r), Do("drop", r), Do("unlock", r)>>)

\* The new socket of r, held by the local variable of t; run(s) comes next and
\* the mutex is held until the caller's scope ends.
StartSocket(t, r) ==
    /\ mutex' = t
    /\ refs' = [refs EXCEPT ![r] = {t}]
    /\ Then(t, <<Do("run", r), Do("unlock", r)>>)

\* Slip: inFlight>maxInFlight in place of inFlight>=maxInFlight.
PostNextOffByOne(t, q, n) ==
    \/ /\ n > MaxInFlight \/ q = <<>>
       /\ queue' = q
       /\ inFlight' = n
       /\ Then(t, <<>>)
       /\ UNCHANGED <<mutex, refs>>
    \/ /\ n <= MaxInFlight /\ q # <<>>
       /\ queue' = Tail(q)
       /\ inFlight' = n + 1
       /\ StartSocket(t, Head(q).r)

\* postNext(nullptr) with the line q and n requests in flight. When nothing
\* starts, the mutex is released within the step.
PostNext(t, q, n) ==
    \/ /\ n >= MaxInFlight \/ q = <<>>
       /\ queue' = q
       /\ inFlight' = n
       /\ Then(t, <<>>)
       /\ UNCHANGED <<mutex, refs>>
    \/ /\ n < MaxInFlight /\ q # <<>>
       /\ queue' = Tail(q)
       /\ inFlight' = n + 1
       /\ StartSocket(t, Head(q).r)

\* Client::sendRequest under the mutex.
Enqueue(t, r) ==
    /\ At(t, "send", r)
    /\ CanLock
    /\ \E priority \in Priorities : PostNext(t, Insert(queue, r, priority), inFlight)
    /\ UNCHANGED <<op, status, failed, tries, handled, owners, dnsCache, life>>

\* Slip: the slot is counted free twice.
CompletedTwice(t) ==
    /\ At(t, "completed", NoRequest)
    /\ CanLock
    /\ PostNext(t, queue, inFlight - 2)
    /\ UNCHANGED <<op, status, failed, tries, handled, owners, dnsCache, life>>

\* Slip: the slot is freed but nothing is started.
CompletedWithoutNext(t) ==
    /\ At(t, "completed", NoRequest)
    /\ CanLock
    /\ inFlight' = inFlight - 1
    /\ Then(t, <<>>)
    /\ UNCHANGED <<queue, mutex, refs, op, status, failed, tries, handled, owners,
                   dnsCache, life>>

\* The completed callback with null: the slot is free for the next in line.
CompletedNext(t) ==
    /\ At(t, "completed", NoRequest)
    /\ CanLock
    /\ PostNext(t, queue, inFlight - 1)
    /\ UNCHANGED <<op, status, failed, tries, handled, owners, dnsCache, life>>

\* Slip: postNext counts the clone although its slot was never given back.
CompletedRetryCountedAgain(t, r) ==
    /\ At(t, "completed", r)
    /\ CanLock
    /\ inFlight' = inFlight + 1
    /\ StartSocket(t, r)
    /\ UNCHANGED <<queue, op, status, failed, tries, handled, owners, dnsCache, life>>

\* The completed callback with a retry clone: postNext(r) looks neither at the
\* line nor at maxInFlight, the clone takes the slot just freed.
CompletedRetry(t, r) ==
    /\ At(t, "completed", r)
    /\ CanLock
    /\ StartSocket(t, r)
    /\ UNCHANGED <<queue, inFlight, op, status, failed, tries, handled, owners,
                   dnsCache, life>>

\* The end of the scope of the lock. The shared_ptr `s' was declared before the
\* lock, so it goes after it.
Unlock(t, r) ==
    /\ At(t, "unlock", r)
    /\ mutex' = NoThread
    /\ Then(t, <<Do("drop", r)>>)
    /\ UNCHANGED <<queue, inFlight, refs, op, status, failed, tries, handled, owners,
                   dnsCache, life>>

-----------------------------------------------------------------------------
(* Starting a request: run and onResolve, called with the mutex held by    *)
(* postNext, or onResolve alone from the handler of async_resolve.         *)

\* A fakeAFailure is still there. A retry clone does not inherit it.
Fakes(r) == r \in Faked /\ tries[r] = 0

\* The user gave the addresses, or the DNS cache holds some. A retry clone does
\* not inherit the user's.
AddressesKnown(r) == (r \in Known /\ tries[r] = 0) \/ HostOf[r] \in dnsCache

\* A faked failure: the request fails on the spot.
RunFake(t, r) ==
    /\ At(t, "run", r)
    /\ Fakes(r)
    /\ failed' = [failed EXCEPT ![r] = TRUE]
    /\ Then(t, <<>>)
    /\ UNCHANGED <<queue, inFlight, mutex, refs, op, status, tries, handled, owners,
                   dnsCache, life>>

\* The addresses are known: onResolve is called directly.
RunResolved(t, r) ==
    /\ At(t, "run", r)
    /\ ~Fakes(r)
    /\ AddressesKnown(r)
    /\ Then(t, <<Do("progress", r), Do("connect", r)>>)
    /\ UNCHANGED <<queue, inFlight, mutex, refs, op, status, failed, tries, handled,
                   owners, dnsCache, life>>

\* async_resolve is started, and its handler shares the socket, or it throws.
RunResolve(t, r) ==
    /\ At(t, "run", r)
    /\ ~Fakes(r)
    /\ ~AddressesKnown(r)
    /\ Then(t, <<>>)
    /\ \/ /\ op' = [op EXCEPT ![r] = "resolve"]
          /\ refs' = [refs EXCEPT ![r] = @ \cup {Op}]
          /\ UNCHANGED failed
       \/ /\ failed' = [failed EXCEPT ![r] = TRUE]
          /\ UNCHANGED <<op, refs>>
    /\ UNCHANGED <<queue, inFlight, mutex, status, tries, handled, owners, dnsCache,
                   life>>

Run(t, r) == RunFake(t, r) \/ RunResolved(t, r) \/ RunResolve(t, r)

\* The user's progress callback (setProgress in onResolve) returns, or asks
\* the client how much is pending. It is not called once the owner is gone.
Progress(t, r) ==
    /\ At(t, "progress", r)
    /\ \/ Then(t, <<>>)
       \/ r \in Curious \cap owners /\ Then(t, <<Do("query", r)>>)
    /\ UNCHANGED <<queue, inFlight, mutex, refs, op, status, failed, tries, handled,
                   owners, dnsCache, life>>

\* Client::pending or Client::inFlight: a lock, a read, an unlock.
Query(t, r) ==
    /\ At(t, "query", r)
    /\ CanLock
    /\ Then(t, <<>>)
    /\ UNCHANGED <<queue, inFlight, mutex, refs, op, status, failed, tries, handled,
                   owners, dnsCache, life>>

\* async_connect is started, or throws.
Connect(t, r) ==
    /\ At(t, "connect", r)
    /\ Then(t, <<>>)
    /\ \/ /\ op' = [op EXCEPT ![r] = "transfer"]
          /\ refs' = [refs EXCEPT ![r] = @ \cup {Op}]
          /\ UNCHANGED failed
       \/ /\ failed' = [failed EXCEPT ![r] = TRUE]
          /\ UNCHANGED <<op, refs>>
    /\ UNCHANGED <<queue, inFlight, mutex, status, tries, handled, owners, dnsCache,
                   life>>

-----------------------------------------------------------------------------
(* The end of a request.                                                   *)

\* A shared_ptr goes out of scope.
Drop(t, r) ==
    /\ At(t, "drop", r)
    /\ refs' = [refs EXCEPT ![r] = @ \ {t}]
    /\ Then(t, IF refs[r] = {t} THEN <<Do("destroy", r)>> ELSE <<>>)
    /\ UNCHANGED <<queue, inFlight, mutex, op, status, failed, tries, handled, owners,
                   dnsCache, life>>

\* ~Request: the completion handler is called if the owner still lives.
DeleteRequest(r) ==
    /\ status' = [status EXCEPT ![r] = "done"]
    /\ handled' = [handled EXCEPT ![r] = IF r \in owners THEN @ + 1 ELSE @]

\* Request::shouldRetry, a function of the user's, asked about a failed request.
ShouldRetry(r) == failed[r] /\ r \in Retrying /\ tries[r] < MaxRetries

HandlerFrames(r) == IF r \in owners THEN <<Do("handler", r)>> ELSE <<>>

\* Slip: makeRetryClone leaves the completion handler on the original too.
DestroyAndRetryHandledTwice(t, r) ==
    /\ At(t, "destroy", r)
    /\ ShouldRetry(r)
    /\ tries' = [tries EXCEPT ![r] = @ + 1]
    /\ failed' = [failed EXCEPT ![r] = FALSE]
    /\ handled' = [handled EXCEPT ![r] = IF r \in owners THEN @ + 1 ELSE @]
    /\ Then(t, HandlerFrames(r) \o <<Do("completed", r)>>)
    /\ UNCHANGED <<queue, inFlight, mutex, refs, op, status, owners, dnsCache, life>>

\* ~SocketDetails_lt of a failed request whose shouldRetry says yes. The clone
\* takes over the user's handlers, so deleting the original calls nobody.
DestroyAndRetry(t, r) ==
    /\ At(t, "destroy", r)
    /\ ShouldRetry(r)
    /\ tries' = [tries EXCEPT ![r] = @ + 1]
    /\ failed' = [failed EXCEPT ![r] = FALSE]
    /\ Then(t, <<Do("completed", r)>>)
    /\ UNCHANGED <<queue, inFlight, mutex, refs, op, status, handled, owners, dnsCache,
                   life>>

\* ~SocketDetails_lt otherwise: the request is deleted, then completed(nullptr).
DestroyAndDelete(t, r) ==
    /\ At(t, "destroy", r)
    /\ DeleteRequest(r)
    /\ Then(t, HandlerFrames(r) \o <<Do("completed", NoRequest)>>)
    /\ UNCHANGED <<queue, inFlight, mutex, refs, op, failed, tries, owners, dnsCache,
                   life>>

\* The user's completion handler returns, or first asks how much is pending or
\* sends another request.
Handler(t, r) ==
    /\ At(t, "handler", r)
    /\ \/ Then(t, <<>>) /\ UNCHANGED status
       \/ r \in Curious /\ Then(t, <<Do("query", r)>>) /\ UNCHANGED status
       \/ \E next \in Requests :
             /\ r \in Resubmitters
             /\ status[next] = "new"
             /\ status' = [status EXCEPT ![next] = "sent"]
             /\ Then(t, <<Do("send", next)>>)
    /\ UNCHANGED <<queue, inFlight, mutex, refs, op, failed, tries, handled, owners,
                   dnsCache, life>>

-----------------------------------------------------------------------------
(* The io_context.                                                         *)

\* Slip: the handler captures a plain pointer to the socket.
RunHandlerWithoutShare(t, r, kind) ==
    /\ t \in IoThreads /\ stack[t] = <<>>
    /\ life = "up"
    /\ op[r] = kind
    /\ op' = [op EXCEPT ![r] = "none"]
    /\ refs' = [refs EXCEPT ![r] = @ \ {Op}]

\* The handler moves out of the io_context into the thread that runs it. A
\* stopped io_context runs none.
RunHandler(t, r, kind) ==
    /\ t \in IoThreads /\ stack[t] = <<>>
    /\ life = "up"
    /\ op[r] = kind
    /\ op' = [op EXCEPT ![r] = "none"]
    /\ refs' = [refs EXCEPT ![r] = (@ \ {Op}) \cup {t}]

\* The handler of async_resolve: what it got is stored, whatever it is, so an
\* error empties the entry of its host; then onResolve goes on, or fails.
HandleResolve(t, r) ==
    /\ RunHandler(t, r, "resolve")
    /\ \/ /\ dnsCache' = dnsCache \cup {HostOf[r]}
          /\ stack' = [stack EXCEPT ![t] =
                         <<Do("progress", r), Do("connect", r), Do("drop", r)>>]
          /\ UNCHANGED failed
       \/ /\ dnsCache' = dnsCache \ {HostOf[r]}
          /\ stack' = [stack EXCEPT ![t] = <<Do("drop", r)>>]
          /\ failed' = [failed EXCEPT ![r] = TRUE]
    /\ UNCHANGED <<queue, inFlight, mutex, status, tries, handled, owners, life>>

\* The last handler of the transfer: the response is complete, or an operation
\* or a timeout has failed the request.
HandleTransfer(t, r) ==
    /\ RunHandler(t, r, "transfer")
    /\ \E f \in BOOLEAN : failed' = [failed EXCEPT ![r] = f]
    /\ stack' = [stack EXCEPT ![t] = <<Do("drop", r)>>]
    /\ UNCHANGED <<queue, inFlight, mutex, status, tries, handled, owners, dnsCache,
                   life>>

-----------------------------------------------------------------------------
(* The application.                                                        *)

\* A caller hands a new Request to the client.
CallSend(t, r) ==
    /\ t \in Callers /\ stack[t] = <<>>
    /\ life = "up"
    /\ status[r] = "new"
    /\ status' = [status EXCEPT ![r] = "sent"]
    /\ stack' = [stack EXCEPT ![t] = <<Do("send", r)>>]
    /\ UNCHANGED <<queue, inFlight, mutex, refs, op, failed, tries, handled, owners,
                   dnsCache, life>>

\* The owner of a request goes away and does not want the answer any more.
Expire(r) ==
    /\ r \in Mortal \cap owners
    /\ status[r] = "sent"
    /\ owners' = owners \ {r}
    /\ UNCHANGED <<queue, inFlight, mutex, stack, refs, op, status, failed, tries,
                   handled, dnsCache, life>>

\* delete client, by a thread that is not one of its own and while no other
\* caller is inside it: the io_context is stopped.
CallDestroy(t) ==
    /\ t \in Destroyers
    /\ life = "up"
    /\ \A c \in Callers : stack[c] = <<>>
    /\ life' = "stopped"
    /\ stack' = [stack EXCEPT ![t] =
                   <<Do("swap", NoRequest), Do("join", NoRequest), Do("members", NoRequest)>>]
    /\ UNCHANGED <<queue, inFlight, mutex, refs, op, status, failed, tries, handled,
                   owners, dnsCache>>

\* Slip: the line is copied, not swapped.
SwapByCopy(t) ==
    /\ At(t, "swap", NoRequest)
    /\ CanLock
    /\ Then(t, [k \in 1..Len(queue) |-> Do("delete", queue[k].r)])
    /\ UNCHANGED <<queue, inFlight, mutex, refs, op, status, failed, tries, handled,
                   owners, dnsCache, life>>

\* Slip: the line is cleared and its requests are not deleted.
SwapWithoutDelete(t) ==
    /\ At(t, "swap", NoRequest)
    /\ CanLock
    /\ queue' = <<>>
    /\ Then(t, <<>>)
    /\ UNCHANGED <<inFlight, mutex, refs, op, status, failed, tries, handled, owners,
                   dnsCache, life>>

\* Slip: the mutex is not released before the requests are deleted.
SwapUnderLock(t) ==
    /\ At(t, "swap", NoRequest)
    /\ CanLock
    /\ queue' = <<>>
    /\ mutex' = t
    /\ Then(t, [k \in 1..Len(queue) |-> Do("delete", queue[k].r)])
    /\ UNCHANGED <<inFlight, refs, op, status, failed, tries, handled, owners,
                   dnsCache, life>>

\* ~Private takes the whole line out under the mutex ...
Swap(t) ==
    /\ At(t, "swap", NoRequest)
    /\ CanLock
    /\ queue' = <<>>
    /\ Then(t, [k \in 1..Len(queue) |-> Do("delete", queue[k].r)])
    /\ UNCHANGED <<inFlight, mutex, refs, op, status, failed, tries, handled, owners,
                   dnsCache, life>>

\* ... and deletes the requests with the mutex released.
DeleteDrained(t, r) ==
    /\ At(t, "delete", r)
    /\ DeleteRequest(r)
    /\ Then(t, HandlerFrames(r))
    /\ UNCHANGED <<queue, inFlight, mutex, refs, op, failed, tries, owners, dnsCache,
                   life>>

\* The threads of the io_context finish the handler they are in.
Join(t) ==
    /\ At(t, "join", NoRequest)
    /\ \A io \in IoThreads : stack[io] = <<>>
    /\ Then(t, <<>>)
    /\ UNCHANGED <<queue, inFlight, mutex, refs, op, status, failed, tries, handled,
                   owners, dnsCache, life>>

\* The members are destroyed in reverse order of declaration: requestQueue and
\* requestQueueMutex before ioContext.
DestroyMembers(t) ==
    /\ At(t, "members", NoRequest)
    /\ life' = "unwinding"
    /\ Then(t, <<Do("unwind", NoRequest)>>)
    /\ UNCHANGED <<queue, inFlight, mutex, refs, op, status, failed, tries, handled,
                   owners, dnsCache>>

\* ~io_context destroys the handlers that never ran and drops what they hold.
Unwind(t) ==
    /\ At(t, "unwind", NoRequest)
    /\ \/ \E r \in Requests :
             /\ op[r] # "none"
             /\ op' = [op EXCEPT ![r] = "none"]
             /\ refs' = [refs EXCEPT ![r] = {}]
             /\ Then(t, <<Do("destroy", r), Do("unwind", NoRequest)>>)
             /\ UNCHANGED life
       \/ /\ \A r \in Requests : op[r] = "none"
          /\ life' = "gone"
          /\ Then(t, <<>>)
          /\ UNCHANGED <<op, refs>>
    /\ UNCHANGED <<queue, inFlight, mutex, status, failed, tries, handled, owners,
                   dnsCache>>

\* A destructor or a handler that runs during the unwinding comes back to a
\* mutex and a line that are destroyed. What happens then is undefined, and
\* the model stops.
UseAfterDestruction(t) ==
    /\ life = "unwinding"
    /\ stack[t] # <<>> /\ Head(stack[t]).op \in {"send", "completed", "query"}
    /\ life' = "undefined"
    /\ UNCHANGED <<queue, inFlight, mutex, stack, refs, op, status, failed, tries,
                   handled, owners, dnsCache>>

\* Nothing is left to do, or nothing defined.
Finished ==
    /\ \/ life \in {"gone", "undefined"}
       \/ /\ \A t \in Threads : stack[t] = <<>>
          /\ \A r \in Requests : status[r] = "done"
    /\ UNCHANGED vars

-----------------------------------------------------------------------------
\* What a thread does once it is inside the client.
ThreadStep(t) ==
    \/ \E r \in Requests :
          \/ Enqueue(t, r)
          \/ CompletedRetry(t, r)
          \/ Unlock(t, r)
          \/ Run(t, r)
          \/ Progress(t, r)
          \/ Query(t, r)
          \/ Connect(t, r)
          \/ Drop(t, r)
          \/ DestroyAndRetry(t, r)
          \/ DestroyAndDelete(t, r)
          \/ Handler(t, r)
          \/ DeleteDrained(t, r)
    \/ CompletedNext(t)
    \/ Swap(t)
    \/ Join(t)
    \/ DestroyMembers(t)
    \/ Unwind(t)
    \/ UseAfterDestruction(t)

IoStep(t) == \E r \in Requests : HandleResolve(t, r) \/ HandleTransfer(t, r)

Next ==
    \/ \E t \in Threads : ThreadStep(t) \/ IoStep(t)
    \/ \E t \in Threads, r \in Requests : CallSend(t, r)
    \/ \E t \in Threads : CallDestroy(t)
    \/ \E r \in Requests : Expire(r)
    \/ Finished

Spec == Init /\ [][Next]_vars

\* An idle thread of the io_context runs a handler whose operation has ended.
\* An operation of a Silent request may also never end: async_resolve has no
\* deadline, and none acts any more after a timeout that has cleared handle->s.
Answer(t) == \E r \in Requests \ Silent : HandleResolve(t, r) \/ HandleTransfer(t, r)

\* The operating system runs every thread that can run, and the operations of
\* the other requests end.
Fairness == \A t \in Threads : WF_vars(ThreadStep(t)) /\ WF_vars(Answer(t))

FairSpec == Spec /\ Fairness

-----------------------------------------------------------------------------
TypeOK ==
    /\ queue \in Seq(Entry)
    /\ inFlight \in Nat
    /\ mutex \in Threads \cup {NoThread}
    /\ stack \in [Threads -> Seq(Frame)]
    /\ refs \in [Requests -> SUBSET (Threads \cup {Op})]
    /\ op \in [Requests -> {"none", "resolve", "transfer"}]
    /\ status \in [Requests -> {"new", "sent", "done"}]
    /\ failed \in [Requests -> BOOLEAN]
    /\ tries \in [Requests -> 0..MaxRetries]
    /\ handled \in [Requests -> Nat]
    /\ owners \subseteq Requests
    /\ dnsCache \subseteq Hosts
    /\ life \in Lifetimes

\* The frame at this depth, counted from the bottom of a stack, so that a frame
\* keeps its depth while others come and go above it.
FrameAt(frames, depth) == frames[Len(frames) + 1 - depth]

Frames == UNION {{t} \X (1..Len(stack[t])) : t \in Threads}

\* The frames, on any stack and at any depth, that do one of these things.
FramesDoing(ops) == {f \in Frames : FrameAt(stack[f[1]], f[2]).op \in ops}

LiveSockets == {r \in Requests : refs[r] # {}}

\* inFlight is exactly the number of living sockets and of socket destructors
\* that have yet to call completed. A slot is neither lost nor freed twice,
\* although the counter moves in postNext and in completed while the socket
\* dies on whichever thread drops the last shared_ptr.
InFlightExact ==
    inFlight = Cardinality(LiveSockets) + Cardinality(FramesDoing({"destroy", "completed"}))

\* Where the client may have put a request it owns.
Places(r) ==
    {f \in FramesDoing({"send", "destroy", "completed", "delete"}) :
        FrameAt(stack[f[1]], f[2]).r = r}
    \cup (IF r \in Waiting(queue) THEN {"queue"} ELSE {})
    \cup (IF r \in LiveSockets THEN {"socket"} ELSE {})

\* sendRequest takes ownership: until it is deleted, a request is in exactly
\* one place, through retries, nested sends and the destructor's swap.
OwnedOnce ==
    \A r \in Requests : Cardinality(Places(r)) = IF status[r] = "sent" THEN 1 ELSE 0

\* No thread uses a socket without holding a share of it, whichever thread
\* drops its share first: the one that started it under the mutex or the one
\* that runs the handler of its first operation.
SocketHeld ==
    \A t \in Threads : \A k \in 1..Len(stack[t]) :
        stack[t][k].op \in {"run", "progress", "connect", "unlock", "drop"}
            => t \in refs[stack[t][k].r]

\* "Assigning to s is important": no thread comes to a lock of
\* requestQueueMutex that it holds already, in a completion handler that sends
\* another request, in completed, or in the destructor of the client.
NoSelfDeadlock ==
    \A t \in Threads :
        stack[t] # <<>> /\ Head(stack[t]).op \in {"send", "completed", "query", "swap"}
            => mutex # t

\* The user's completion handler is called at most once and only when the
\* request is finished, however many retry clones have been made of it.
HandledOnce ==
    \A r \in Requests : handled[r] <= 1 /\ (handled[r] = 1 => status[r] = "done")

\* If the destructor gets to its end without touching what is destroyed, it
\* has answered every request it owned.
GoneClean == life = "gone" => \A r \in Requests : status[r] # "sent"

\* "This takes ownership": when the line is destroyed no request is in it.
\* A completion handler that ~Private calls may send another request.
LineEmptyWhenDestroyed == life = "unwinding" => queue = <<>>

\* The destructor's "order is important" comment: whatever a deleted request
\* leads to still finds requestQueueMutex.
NoUseAfterDestruction == life # "undefined"

\* A request is finished in the end if its own operations end and those that
\* never end leave it a slot: no lost wake-up when a slot is freed, and no
\* deadlock between the callers, the io threads and the destructors they run.
\* A request whose operation never ends costs the client the one slot it holds
\* and nobody else his answer. Nothing is promised after a use after destruction.
EveryRequestFinished ==
    Cardinality(Silent) < MaxInFlight =>
        \A r \in Requests \ Silent :
            status[r] = "sent" ~> (status[r] = "done" \/ life = "undefined")

\* The destructor ends: join waits for no thread that waits for the mutex or
\* for a handler that will not come.
DestructorReturns == life = "stopped" ~> life \in {"gone", "undefined"}

\* Behind requestQueueMutex the client is the scheduler: every critical section
\* is one of its steps and everything else leaves it alone. It inherits
\* Capacity and WorkConserving.
Sched == INSTANCE Scheduler

ImplementsScheduler == Sched!SchedulerSpec
==============================================================================
