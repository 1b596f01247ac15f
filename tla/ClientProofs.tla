----------------------------- MODULE ClientProofs -----------------------------
(***************************************************************************)
(* What holds of the client for every set of threads and requests, every   *)
(* number of slots and whatever the application's callbacks do: each       *)
(* action is one of the steps of ClientSteps, so the invariant holds, and  *)
(* the properties the runs check follow from it.                           *)
(***************************************************************************)
EXTENDS ClientSteps

(* Every action keeps the invariant.                                       *)

\* sendRequest.
LEMMA EnqueueKeeps ==
    ASSUME IInv, NEW t \in Threads, NEW r \in Requests, Enqueue(t, r)
    PROVE  IInv'
<1>1. PICK n : n = Len(stack[t])
    OBVIOUS
<1>2. TypeOK /\ At(t, "send", r) /\ stack[t] # <<>>
    BY DEF IInv, Enqueue, At
<1>3. OnTop(t, n, "send", r)
    BY <1>1, <1>2, TopFrame
<1>4. PICK priority \in Priorities : PostNext(t, Insert(queue, r, priority), inFlight)
    BY DEF Enqueue
<1>5. r \notin Waiting(queue)
    BY <1>3, ClientAssumption DEF IInv, FramesOwn, OnTop, Owning
<1>6. PICK q : q = Insert(queue, r, priority)
    OBVIOUS
<1>7. q \in Seq(Entry) /\ Waiting(q) = Waiting(queue) \cup {r} /\ Distinct(q)
    BY <1>5, <1>6, InsertWaits, ClientAssumption DEF IInv, TypeOK, LineOwns
<1>8. PostNext(t, q, inFlight)
    BY <1>4, <1>6
<1>9. /\ CanLock
      /\ UNCHANGED <<op, status, failed, tries, handled, owners, dnsCache, life>>
    BY DEF Enqueue
<1>10. CASE queue' = q /\ inFlight' = inFlight /\ Then(t, <<>>) /\ UNCHANGED <<mutex, refs>>
    <2>1. Pops(t, n)
        BY <1>1, <1>2, <1>10, Popped
    <2>2. TypeOK'
        BY <1>7, <1>9, <1>10, <2>1 DEF IInv, TypeOK, Pops
    <2> QED
        BY <1>3, <1>7, <1>9, <1>10, <2>1, <2>2, NothingStarted
<1>11. CASE q # <<>> /\ queue' = Tail(q) /\ inFlight' = inFlight + 1 /\ StartSocket(t, Head(q).r)
    <2>1. PICK x : x = Head(q).r
        OBVIOUS
    <2>2. /\ queue' \in Seq(Entry) /\ x \in Requests
          /\ Waiting(queue') \cup {x} = Waiting(queue) \cup {r}
          /\ x \notin Waiting(queue') /\ Distinct(queue')
        BY <1>7, <1>11, <2>1, TailWaits
    <2>3. /\ mutex' = t /\ refs' = [refs EXCEPT ![x] = {t}]
          /\ Then(t, <<Do("run", x), Do("unlock", x)>>)
        BY <1>11, <2>1 DEF StartSocket
    <2>4. Grows(t, n, "unlock", x, "run", x)
        BY <1>1, <1>2, <2>2, <2>3, Grown DEF FrameOps
    <2>5. TypeOK'
        BY <1>9, <1>11, <2>2, <2>3, <2>4 DEF IInv, TypeOK, Grows
    <2>6. {r} \ {NoRequest} = {r}
        BY ClientAssumption
    <2> QED
        BY <1>3, <1>9, <1>11, <2>2, <2>3, <2>4, <2>5, <2>6, SocketStarted DEF CanLock
<1> QED
    BY <1>8, <1>10, <1>11 DEF PostNext

\* A socket that is about to call completed has a slot to give back.
LEMMA SlotToFree ==
    ASSUME IInv, NEW t \in Threads, NEW n, NEW r, OnTop(t, n, "completed", r)
    PROVE  inFlight > 0
<1>1. <<t, n>> \in FramesDoing(Ending)
    BY EndingView DEF Ending
<1>2. /\ IsFiniteSet(FramesDoing(Ending)) /\ IsFiniteSet(LiveSockets)
      /\ inFlight = Cardinality(LiveSockets) + Cardinality(FramesDoing(Ending))
    BY DEF IInv, Counted, InFlightExact, Ending
<1>3. Cardinality(FramesDoing(Ending)) # 0
    BY <1>1, <1>2, FS_EmptySet
<1>4. Cardinality(FramesDoing(Ending)) \in Nat /\ Cardinality(LiveSockets) \in Nat
    BY <1>2, FS_CardinalityType
<1> QED
    BY <1>2, <1>3, <1>4

\* completed, with no retry.
LEMMA CompletedNextKeeps ==
    ASSUME IInv, NEW t \in Threads, CompletedNext(t)
    PROVE  IInv'
<1>1. PICK n : n = Len(stack[t])
    OBVIOUS
<1>2. TypeOK /\ At(t, "completed", NoRequest) /\ stack[t] # <<>>
    BY DEF IInv, CompletedNext, At
<1>3. OnTop(t, n, "completed", NoRequest)
    BY <1>1, <1>2, TopFrame
<1>4. PostNext(t, queue, inFlight - 1)
    BY DEF CompletedNext
<1>5. queue \in Seq(Entry) /\ Distinct(queue)
    BY DEF IInv, TypeOK, LineOwns
<1>6. inFlight - 1 \in Nat
    BY <1>3, SlotToFree DEF IInv, TypeOK
<1>9. /\ CanLock
      /\ UNCHANGED <<op, status, failed, tries, handled, owners, dnsCache, life>>
    BY DEF CompletedNext
<1>10. CASE queue' = queue /\ inFlight' = inFlight - 1 /\ Then(t, <<>>) /\ UNCHANGED <<mutex, refs>>
    <2>1. Pops(t, n)
        BY <1>1, <1>2, <1>10, Popped
    <2>2. TypeOK'
        BY <1>6, <1>9, <1>10, <2>1 DEF IInv, TypeOK, Pops
    <2> QED
        BY <1>3, <1>5, <1>9, <1>10, <2>1, <2>2, NothingStarted
<1>11. CASE /\ queue # <<>> /\ queue' = Tail(queue) /\ inFlight' = inFlight - 1 + 1
            /\ StartSocket(t, Head(queue).r)
    <2>1. PICK x : x = Head(queue).r
        OBVIOUS
    <2>2. /\ queue' \in Seq(Entry) /\ x \in Requests
          /\ Waiting(queue') \cup {x} = Waiting(queue)
          /\ x \notin Waiting(queue') /\ Distinct(queue')
        BY <1>5, <1>11, <2>1, TailWaits
    <2>3. /\ mutex' = t /\ refs' = [refs EXCEPT ![x] = {t}]
          /\ Then(t, <<Do("run", x), Do("unlock", x)>>)
        BY <1>11, <2>1 DEF StartSocket
    <2>4. Grows(t, n, "unlock", x, "run", x)
        BY <1>1, <1>2, <2>2, <2>3, Grown DEF FrameOps
    <2>5. inFlight' = inFlight + 0 /\ inFlight' = inFlight
        BY <1>11 DEF IInv, TypeOK
    <2>6. TypeOK'
        BY <1>9, <1>11, <2>2, <2>3, <2>4, <2>5 DEF IInv, TypeOK, Grows
    <2>7. {NoRequest} \ {NoRequest} = {}
        OBVIOUS
    <2> QED
        BY <1>3, <1>9, <2>2, <2>3, <2>4, <2>5, <2>6, <2>7, SocketStarted DEF CanLock
<1> QED
    BY <1>4, <1>10, <1>11 DEF PostNext

\* completed, with a retry clone.
LEMMA CompletedRetryKeeps ==
    ASSUME IInv, NEW t \in Threads, NEW r \in Requests, CompletedRetry(t, r)
    PROVE  IInv'
<1>1. PICK n : n = Len(stack[t])
    OBVIOUS
<1>2. TypeOK /\ At(t, "completed", r) /\ stack[t] # <<>>
    BY DEF IInv, CompletedRetry, At
<1>3. OnTop(t, n, "completed", r)
    BY <1>1, <1>2, TopFrame
<1>4. /\ CanLock /\ StartSocket(t, r)
      /\ UNCHANGED <<queue, inFlight, op, status, failed, tries, handled, owners, dnsCache,
                     life>>
    BY DEF CompletedRetry
<1>5. /\ mutex' = t /\ refs' = [refs EXCEPT ![r] = {t}]
      /\ Then(t, <<Do("run", r), Do("unlock", r)>>)
    BY <1>4 DEF StartSocket
<1>6. Grows(t, n, "unlock", r, "run", r)
    BY <1>1, <1>2, <1>5, Grown DEF FrameOps
<1>7. TypeOK'
    BY <1>4, <1>5, <1>6 DEF IInv, TypeOK, Grows
<1>8. r \notin Waiting(queue) /\ r # NoRequest
    BY <1>3, ClientAssumption DEF IInv, FramesOwn, OnTop, Owning
<1>9. /\ Waiting(queue') = Waiting(queue) /\ Distinct(queue')
      /\ inFlight' = inFlight + 0
    BY <1>4 DEF IInv, TypeOK, LineOwns
<1>10. Waiting(queue') \cup {r} = Waiting(queue) \cup ({r} \ {NoRequest})
    BY <1>8, <1>9
<1> QED
    BY <1>3, <1>4, <1>5, <1>6, <1>7, <1>8, <1>9, <1>10, SocketStarted DEF CanLock

\* The end of the scope of the lock.
LEMMA UnlockKeeps ==
    ASSUME IInv, NEW t \in Threads, NEW r \in Requests, Unlock(t, r)
    PROVE  IInv'
<1>1. PICK n : n = Len(stack[t])
    OBVIOUS
<1>2. TypeOK /\ At(t, "unlock", r) /\ stack[t] # <<>>
    BY DEF IInv, Unlock, At
<1>3. OnTop(t, n, "unlock", r)
    BY <1>1, <1>2, TopFrame
<1>4. Then(t, <<Do("drop", r)>>)
    BY DEF Unlock
<1>5. Turns(t, n, "drop", r)
    BY <1>1, <1>2, <1>4, Turned DEF FrameOps
<1>6. TypeOK'
    BY <1>5 DEF IInv, TypeOK, Unlock, Turns
<1> QED
    BY <1>3, <1>5, <1>6, LockReleased DEF Unlock

\* A faked failure.
LEMMA RunFakeKeeps ==
    ASSUME IInv, NEW t \in Threads, NEW r \in Requests, RunFake(t, r)
    PROVE  IInv'
<1>1. PICK n : n = Len(stack[t])
    OBVIOUS
<1>2. TypeOK /\ At(t, "run", r) /\ stack[t] # <<>>
    BY DEF IInv, RunFake, At
<1>3. OnTop(t, n, "run", r)
    BY <1>1, <1>2, TopFrame
<1>4. Then(t, <<>>)
    BY DEF RunFake
<1>5. Pops(t, n)
    BY <1>1, <1>2, <1>4, Popped
<1>6. TypeOK'
    BY <1>5 DEF IInv, TypeOK, RunFake, Pops
<1> QED
    BY <1>3, <1>5, <1>6, CalmPop DEF RunFake

\* The addresses are known.
LEMMA RunResolvedKeeps ==
    ASSUME IInv, NEW t \in Threads, NEW r \in Requests, RunResolved(t, r)
    PROVE  IInv'
<1>1. PICK n : n = Len(stack[t])
    OBVIOUS
<1>2. TypeOK /\ At(t, "run", r) /\ stack[t] # <<>>
    BY DEF IInv, RunResolved, At
<1>3. OnTop(t, n, "run", r)
    BY <1>1, <1>2, TopFrame
<1>4. Then(t, <<Do("progress", r), Do("connect", r)>>)
    BY DEF RunResolved
<1>5. Grows(t, n, "connect", r, "progress", r)
    BY <1>1, <1>2, <1>4, Grown DEF FrameOps
<1>6. TypeOK'
    BY <1>5 DEF IInv, TypeOK, RunResolved, Grows
<1> QED
    BY <1>3, <1>5, <1>6, ResolvedAtOnce DEF RunResolved

\* async_resolve.
LEMMA RunResolveKeeps ==
    ASSUME IInv, NEW t \in Threads, NEW r \in Requests, RunResolve(t, r)
    PROVE  IInv'
<1>1. PICK n : n = Len(stack[t])
    OBVIOUS
<1>2. TypeOK /\ At(t, "run", r) /\ stack[t] # <<>>
    BY DEF IInv, RunResolve, At
<1>3. OnTop(t, n, "run", r)
    BY <1>1, <1>2, TopFrame
<1>4. Then(t, <<>>)
    BY DEF RunResolve
<1>5. Pops(t, n)
    BY <1>1, <1>2, <1>4, Popped
<1>6. TypeOK'
    BY <1>5 DEF IInv, TypeOK, RunResolve, Pops
<1>7. CASE op' = [op EXCEPT ![r] = "resolve"] /\ refs' = [refs EXCEPT ![r] = @ \cup {Op}]
    BY <1>3, <1>5, <1>6, <1>7, OperationStarted DEF RunResolve
<1>8. CASE UNCHANGED <<op, refs>>
    BY <1>3, <1>5, <1>6, <1>8, CalmPop DEF RunResolve
<1> QED
    BY <1>7, <1>8 DEF RunResolve

\* async_connect.
LEMMA ConnectKeeps ==
    ASSUME IInv, NEW t \in Threads, NEW r \in Requests, Connect(t, r)
    PROVE  IInv'
<1>1. PICK n : n = Len(stack[t])
    OBVIOUS
<1>2. TypeOK /\ At(t, "connect", r) /\ stack[t] # <<>>
    BY DEF IInv, Connect, At
<1>3. OnTop(t, n, "connect", r)
    BY <1>1, <1>2, TopFrame
<1>4. Then(t, <<>>)
    BY DEF Connect
<1>5. Pops(t, n)
    BY <1>1, <1>2, <1>4, Popped
<1>6. TypeOK'
    BY <1>5 DEF IInv, TypeOK, Connect, Pops
<1>7. CASE op' = [op EXCEPT ![r] = "transfer"] /\ refs' = [refs EXCEPT ![r] = @ \cup {Op}]
    BY <1>3, <1>5, <1>6, <1>7, OperationStarted DEF Connect
<1>8. CASE UNCHANGED <<op, refs>>
    BY <1>3, <1>5, <1>6, <1>8, CalmPop DEF Connect
<1> QED
    BY <1>7, <1>8 DEF Connect

\* The progress callback.
LEMMA ProgressKeeps ==
    ASSUME IInv, NEW t \in Threads, NEW r \in Requests, Progress(t, r)
    PROVE  IInv'
<1>1. PICK n : n = Len(stack[t])
    OBVIOUS
<1>2. TypeOK /\ At(t, "progress", r) /\ stack[t] # <<>>
    BY DEF IInv, Progress, At
<1>3. OnTop(t, n, "progress", r)
    BY <1>1, <1>2, TopFrame
<1>4. UNCHANGED <<queue, inFlight, mutex, refs, op, status, failed, tries, handled, owners,
                  dnsCache, life>>
    BY DEF Progress
<1>5. CASE Then(t, <<>>)
    <2>1. Pops(t, n)
        BY <1>1, <1>2, <1>5, Popped
    <2>2. TypeOK'
        BY <1>4, <2>1 DEF IInv, TypeOK, Pops
    <2> QED
        BY <1>3, <1>4, <2>1, <2>2, CalmPop
<1>6. CASE r \in Curious /\ Then(t, <<Do("query", r)>>)
    <2>1. Turns(t, n, "query", r)
        BY <1>1, <1>2, <1>6, Turned DEF FrameOps
    <2>2. TypeOK'
        BY <1>4, <2>1 DEF IInv, TypeOK, Turns
    <2> QED
        BY <1>3, <1>4, <1>6, <2>1, <2>2, CalmTurn
<1> QED
    BY <1>5, <1>6 DEF Progress

\* pending and inFlight.
LEMMA QueryKeeps ==
    ASSUME IInv, NEW t \in Threads, NEW r \in Requests, Query(t, r)
    PROVE  IInv'
<1>1. PICK n : n = Len(stack[t])
    OBVIOUS
<1>2. TypeOK /\ At(t, "query", r) /\ stack[t] # <<>>
    BY DEF IInv, Query, At
<1>3. OnTop(t, n, "query", r)
    BY <1>1, <1>2, TopFrame
<1>4. Then(t, <<>>)
    BY DEF Query
<1>5. Pops(t, n)
    BY <1>1, <1>2, <1>4, Popped
<1>6. TypeOK'
    BY <1>5 DEF IInv, TypeOK, Query, Pops
<1> QED
    BY <1>3, <1>5, <1>6, CalmPop DEF Query

\* A shared_ptr goes out of scope.
LEMMA DropKeeps ==
    ASSUME IInv, NEW t \in Threads, NEW r \in Requests, Drop(t, r)
    PROVE  IInv'
<1>1. PICK n : n = Len(stack[t])
    OBVIOUS
<1>2. TypeOK /\ At(t, "drop", r) /\ stack[t] # <<>>
    BY DEF IInv, Drop, At
<1>3. OnTop(t, n, "drop", r)
    BY <1>1, <1>2, TopFrame
<1>4. /\ refs' = [refs EXCEPT ![r] = @ \ {t}]
      /\ UNCHANGED <<queue, inFlight, mutex, op, status, failed, tries, handled, owners,
                     dnsCache, life>>
    BY DEF Drop
<1>5. CASE refs[r] = {t}
    <2>1. Then(t, <<Do("destroy", r)>>)
        BY <1>5 DEF Drop
    <2>2. Turns(t, n, "destroy", r)
        BY <1>1, <1>2, <2>1, Turned DEF FrameOps
    <2>3. TypeOK'
        BY <1>4, <2>2 DEF IInv, TypeOK, Turns
    <2> QED
        BY <1>3, <1>4, <1>5, <2>2, <2>3, LastShareDropped
<1>6. CASE refs[r] # {t}
    <2>1. Then(t, <<>>)
        BY <1>6 DEF Drop
    <2>2. Pops(t, n)
        BY <1>1, <1>2, <2>1, Popped
    <2>3. TypeOK'
        BY <1>4, <2>2 DEF IInv, TypeOK, Pops
    <2> QED
        BY <1>3, <1>4, <1>6, <2>2, <2>3, ShareDropped
<1> QED
    BY <1>5, <1>6

\* ~SocketDetails_lt of a request that is retried.
LEMMA DestroyAndRetryKeeps ==
    ASSUME IInv, NEW t \in Threads, NEW r \in Requests, DestroyAndRetry(t, r)
    PROVE  IInv'
<1>1. PICK n : n = Len(stack[t])
    OBVIOUS
<1>2. TypeOK /\ At(t, "destroy", r) /\ stack[t] # <<>>
    BY DEF IInv, DestroyAndRetry, At
<1>3. OnTop(t, n, "destroy", r)
    BY <1>1, <1>2, TopFrame
<1>4. Then(t, <<Do("completed", r)>>)
    BY DEF DestroyAndRetry
<1>5. Turns(t, n, "completed", r)
    BY <1>1, <1>2, <1>4, Turned DEF FrameOps
<1>6. tries' \in [Requests -> 0..MaxRetries]
    BY ClientAssumption DEF IInv, TypeOK, DestroyAndRetry, ShouldRetry
<1>7. TypeOK'
    BY <1>5, <1>6 DEF IInv, TypeOK, DestroyAndRetry, Turns
<1> QED
    BY <1>3, <1>5, <1>7, Retried DEF DestroyAndRetry

\* One frame above another.
LEMMA OneAboveOther ==
    ASSUME NEW a \in Frame, NEW b \in Frame
    PROVE  <<a>> \o <<b>> = <<a, b>>
<1>1. <<a>> \in Seq(Frame) /\ <<b>> \in Seq(Frame) /\ <<a, b>> \in Seq(Frame)
    OBVIOUS
<1>2. PICK s, u \in Seq(Frame) : s = <<a>> \o <<b>> /\ u = <<a, b>>
    BY <1>1, ConcatProperties
<1>3. Len(s) = 2 /\ s[1] = a /\ s[2] = b
    BY <1>1, <1>2, ConcatProperties
<1>4. Len(u) = 2 /\ u[1] = a /\ u[2] = b
    BY <1>2
<1>5. s = u
    BY <1>3, <1>4, SeqEqual
<1> QED
    BY <1>2, <1>5

\* ~SocketDetails_lt otherwise.
LEMMA DestroyAndDeleteKeeps ==
    ASSUME IInv, NEW t \in Threads, NEW r \in Requests, DestroyAndDelete(t, r)
    PROVE  IInv'
<1>1. PICK n : n = Len(stack[t])
    OBVIOUS
<1>2. TypeOK /\ At(t, "destroy", r) /\ stack[t] # <<>>
    BY DEF IInv, DestroyAndDelete, At
<1>3. OnTop(t, n, "destroy", r)
    BY <1>1, <1>2, TopFrame
<1>4. /\ status' = [status EXCEPT ![r] = "done"]
      /\ handled' = [handled EXCEPT ![r] = IF r \in owners THEN @ + 1 ELSE @]
      /\ UNCHANGED <<queue, inFlight, mutex, refs, op, failed, tries, owners, dnsCache, life>>
    BY DEF DestroyAndDelete, DeleteRequest
<1>5. handled' \in [Requests -> Nat]
    BY <1>4 DEF IInv, TypeOK
<1>6. CASE r \in owners
    <2>1. Then(t, <<Do("handler", r), Do("completed", NoRequest)>>)
        <3>1. HandlerFrames(r) \o <<Do("completed", NoRequest)>>
                 = <<Do("handler", r), Do("completed", NoRequest)>>
            <4>1. Do("handler", r) \in Frame /\ Do("completed", NoRequest) \in Frame
                BY FrameType DEF FrameOps
            <4> QED
                BY <1>6, <4>1, OneAboveOther DEF HandlerFrames
        <3> QED
            BY <3>1 DEF DestroyAndDelete
    <2>2. Grows(t, n, "completed", NoRequest, "handler", r)
        BY <1>1, <1>2, <2>1, Grown DEF FrameOps
    <2>3. TypeOK'
        BY <1>4, <1>5, <2>2 DEF IInv, TypeOK, Grows
    <2> QED
        BY <1>3, <1>4, <2>2, <2>3, DeletedBySocketAndTold
<1>7. CASE r \notin owners
    <2>1. Then(t, <<Do("completed", NoRequest)>>)
        <3>1. HandlerFrames(r) \o <<Do("completed", NoRequest)>> = <<Do("completed", NoRequest)>>
            BY <1>7 DEF HandlerFrames
        <3> QED
            BY <3>1 DEF DestroyAndDelete
    <2>2. Turns(t, n, "completed", NoRequest)
        BY <1>1, <1>2, <2>1, Turned DEF FrameOps
    <2>3. TypeOK'
        BY <1>4, <1>5, <2>2 DEF IInv, TypeOK, Turns
    <2> QED
        BY <1>3, <1>4, <2>2, <2>3, DeletedBySocket
<1> QED
    BY <1>6, <1>7

\* ~Private deletes a request of the line.
LEMMA DeleteDrainedKeeps ==
    ASSUME IInv, NEW t \in Threads, NEW r \in Requests, DeleteDrained(t, r)
    PROVE  IInv'
<1>1. PICK n : n = Len(stack[t])
    OBVIOUS
<1>2. TypeOK /\ At(t, "delete", r) /\ stack[t] # <<>>
    BY DEF IInv, DeleteDrained, At
<1>3. OnTop(t, n, "delete", r)
    BY <1>1, <1>2, TopFrame
<1>4. /\ status' = [status EXCEPT ![r] = "done"]
      /\ handled' = [handled EXCEPT ![r] = IF r \in owners THEN @ + 1 ELSE @]
      /\ UNCHANGED <<queue, inFlight, mutex, refs, op, failed, tries, owners, dnsCache, life>>
    BY DEF DeleteDrained, DeleteRequest
<1>5. handled' \in [Requests -> Nat]
    BY <1>4 DEF IInv, TypeOK
<1>6. CASE r \in owners
    <2>1. Then(t, <<Do("handler", r)>>)
        BY <1>6 DEF DeleteDrained, HandlerFrames
    <2>2. Turns(t, n, "handler", r)
        BY <1>1, <1>2, <2>1, Turned DEF FrameOps
    <2>3. TypeOK'
        BY <1>4, <1>5, <2>2 DEF IInv, TypeOK, Turns
    <2> QED
        BY <1>3, <1>4, <2>2, <2>3, DeletedByDrainAndTold
<1>7. CASE r \notin owners
    <2>1. Then(t, <<>>)
        BY <1>7 DEF DeleteDrained, HandlerFrames
    <2>2. Pops(t, n)
        BY <1>1, <1>2, <2>1, Popped
    <2>3. TypeOK'
        BY <1>4, <1>5, <2>2 DEF IInv, TypeOK, Pops
    <2> QED
        BY <1>3, <1>4, <2>2, <2>3, DeletedByDrain
<1> QED
    BY <1>6, <1>7

\* The completion handler.
LEMMA HandlerKeeps ==
    ASSUME IInv, NEW t \in Threads, NEW r \in Requests, Handler(t, r)
    PROVE  IInv'
<1>1. PICK n : n = Len(stack[t])
    OBVIOUS
<1>2. TypeOK /\ At(t, "handler", r) /\ stack[t] # <<>>
    BY DEF IInv, Handler, At
<1>3. OnTop(t, n, "handler", r)
    BY <1>1, <1>2, TopFrame
<1>4. UNCHANGED <<queue, inFlight, mutex, refs, op, failed, tries, handled, owners, dnsCache,
                  life>>
    BY DEF Handler
<1>5. CASE Then(t, <<>>) /\ UNCHANGED status
    <2>1. Pops(t, n)
        BY <1>1, <1>2, <1>5, Popped
    <2>2. TypeOK'
        BY <1>4, <1>5, <2>1 DEF IInv, TypeOK, Pops
    <2> QED
        BY <1>3, <1>4, <1>5, <2>1, <2>2, CalmPop
<1>6. CASE r \in Curious /\ Then(t, <<Do("query", r)>>) /\ UNCHANGED status
    <2>1. Turns(t, n, "query", r)
        BY <1>1, <1>2, <1>6, Turned DEF FrameOps
    <2>2. TypeOK'
        BY <1>4, <1>6, <2>1 DEF IInv, TypeOK, Turns
    <2> QED
        BY <1>3, <1>4, <1>6, <2>1, <2>2, CalmTurn
<1>7. ASSUME NEW x \in Requests, status[x] = "new", status' = [status EXCEPT ![x] = "sent"],
             Then(t, <<Do("send", x)>>)
      PROVE  IInv'
    <2>1. Turns(t, n, "send", x)
        BY <1>1, <1>2, <1>7, Turned DEF FrameOps
    <2>2. TypeOK'
        BY <1>4, <1>7, <2>1 DEF IInv, TypeOK, Turns
    <2> QED
        BY <1>3, <1>4, <1>7, <2>1, <2>2, HandlerSends
<1> QED
    BY <1>5, <1>6, <1>7 DEF Handler

\* ~Private joins the io threads.
LEMMA JoinKeeps ==
    ASSUME IInv, NEW t \in Threads, Join(t)
    PROVE  IInv'
<1>1. PICK n : n = Len(stack[t])
    OBVIOUS
<1>2. TypeOK /\ At(t, "join", NoRequest) /\ stack[t] # <<>>
    BY DEF IInv, Join, At
<1>3. OnTop(t, n, "join", NoRequest)
    BY <1>1, <1>2, TopFrame
<1>4. Then(t, <<>>)
    BY DEF Join
<1>5. Pops(t, n)
    BY <1>1, <1>2, <1>4, Popped
<1>6. TypeOK'
    BY <1>5 DEF IInv, TypeOK, Join, Pops
<1> QED
    BY <1>3, <1>5, <1>6, IoThreadsJoined DEF Join

\* The members of Private are destroyed.
LEMMA DestroyMembersKeeps ==
    ASSUME IInv, NEW t \in Threads, DestroyMembers(t)
    PROVE  IInv'
<1>1. PICK n : n = Len(stack[t])
    OBVIOUS
<1>2. TypeOK /\ At(t, "members", NoRequest) /\ stack[t] # <<>>
    BY DEF IInv, DestroyMembers, At
<1>3. OnTop(t, n, "members", NoRequest)
    BY <1>1, <1>2, TopFrame
<1>4. Then(t, <<Do("unwind", NoRequest)>>)
    BY DEF DestroyMembers
<1>5. Turns(t, n, "unwind", NoRequest)
    BY <1>1, <1>2, <1>4, Turned DEF FrameOps
<1>6. TypeOK'
    BY <1>5 DEF IInv, TypeOK, DestroyMembers, Turns, Lifetimes
<1> QED
    BY <1>3, <1>5, <1>6, MembersDestroyed DEF DestroyMembers

\* ~io_context destroys a handler, or is done.
LEMMA UnwindKeeps ==
    ASSUME IInv, NEW t \in Threads, Unwind(t)
    PROVE  IInv'
<1>1. PICK n : n = Len(stack[t])
    OBVIOUS
<1>2. TypeOK /\ At(t, "unwind", NoRequest) /\ stack[t] # <<>>
    BY DEF IInv, Unwind, At
<1>3. OnTop(t, n, "unwind", NoRequest)
    BY <1>1, <1>2, TopFrame
<1>4. UNCHANGED <<queue, inFlight, mutex, status, failed, tries, handled, owners, dnsCache>>
    BY DEF Unwind
<1>5. ASSUME NEW r \in Requests, op[r] # "none", op' = [op EXCEPT ![r] = "none"],
             refs' = [refs EXCEPT ![r] = {}],
             Then(t, <<Do("destroy", r), Do("unwind", NoRequest)>>), UNCHANGED life
      PROVE  IInv'
    <2>1. Grows(t, n, "unwind", NoRequest, "destroy", r)
        BY <1>1, <1>2, <1>5, Grown DEF FrameOps
    <2>2. TypeOK'
        BY <1>4, <1>5, <2>1 DEF IInv, TypeOK, Grows
    <2> QED
        BY <1>3, <1>4, <1>5, <2>1, <2>2, UnwindsOne
<1>6. CASE /\ \A r \in Requests : op[r] = "none"
           /\ life' = "gone" /\ Then(t, <<>>) /\ UNCHANGED <<op, refs>>
    <2>1. Pops(t, n)
        BY <1>1, <1>2, <1>6, Popped
    <2>2. TypeOK'
        BY <1>4, <1>6, <2>1 DEF IInv, TypeOK, Pops, Lifetimes
    <2> QED
        BY <1>3, <1>4, <1>6, <2>1, <2>2, UnwindsAll
<1> QED
    BY <1>5, <1>6 DEF Unwind

\* ~Private takes the whole line out.
LEMMA SwapKeeps ==
    ASSUME IInv, NEW t \in Threads, Swap(t)
    PROVE  IInv'
<1>1. PICK n : n = Len(stack[t])
    OBVIOUS
<1>2. TypeOK /\ At(t, "swap", NoRequest) /\ stack[t] # <<>>
    BY DEF IInv, Swap, At
<1>3. OnTop(t, n, "swap", NoRequest)
    BY <1>1, <1>2, TopFrame
<1>4. PICK m, f, new :
          /\ m = Len(queue) /\ f = [k \in 1..m |-> Do("delete", queue[k].r)]
          /\ new = n..(n - 1 + m)
    OBVIOUS
<1>5. m \in Nat /\ \A k \in 1..m : queue[k].r \in Requests
    <2>1. \A k \in 1..m : queue[k] \in Entry
        BY <1>4, ElementOfSeq DEF IInv, TypeOK
    <2> QED
        BY <1>4, <2>1, LenProperties DEF IInv, TypeOK, Entry
<1>6. \A k \in 1..m : f[k].op = "delete" /\ f[k].r = queue[k].r /\ f[k] \in Frame
    BY <1>4, <1>5, FrameType DEF FrameOps
<1>7. f \in Seq(Frame) /\ Len(f) = m
    <2>1. f \in [1..m -> Frame]
        BY <1>4, <1>6
    <2> QED
        BY <1>5, <2>1, SeqDef, LenProperties
<1>8. /\ stack' \in [Threads -> Seq(Frame)] /\ KeptBelow(t, n)
      /\ n \in Nat /\ n >= 1 /\ Depths(t) = 1..n
      /\ Depths(t)' = 1..(n - 1 + m)
      /\ \A k \in 1..m : FrameAt(stack'[t], n - 1 + k) = f[m + 1 - k]
    <2>1. Then(t, f)
        BY <1>4 DEF Swap
    <2> QED
        BY <1>1, <1>2, <1>7, <2>1, Replaced
<1>9. Depths(t)' = (Depths(t) \ {n}) \cup new /\ \A d \in new : d \notin Depths(t) \ {n}
    BY <1>4, <1>5, <1>8
<1>10. ASSUME NEW d \in new
       PROVE  /\ OpAt(t, d)' = "delete" /\ ReqAt(t, d)' = queue[m + n - d].r
              /\ m + n - d \in 1..m
    <2>1. d - n + 1 \in 1..m /\ n - 1 + (d - n + 1) = d /\ m + 1 - (d - n + 1) = m + n - d
        BY <1>4, <1>5, <1>8
    <2>2. m + n - d \in 1..m
        BY <1>4, <1>5, <1>8
    <2>3. FrameAt(stack'[t], d) = f[m + n - d]
        BY <1>8, <2>1
    <2> QED
        BY <1>6, <2>2, <2>3 DEF OpAt, ReqAt
<1>11. {ReqAt(t, d)' : d \in new} = Waiting(queue)
    <2>1. \A d \in new : ReqAt(t, d)' \in Waiting(queue)
        BY <1>4, <1>10 DEF Waiting
    <2>2. ASSUME NEW k \in 1..m
          PROVE  \E d \in new : ReqAt(t, d)' = queue[k].r
        <3>1. m + n - k \in new /\ m + n - (m + n - k) = k
            BY <1>4, <1>5, <1>8
        <3> QED
            BY <1>10, <3>1
    <2> QED
        BY <1>4, <2>1, <2>2 DEF Waiting
<1>12. ASSUME NEW d \in new, NEW e \in new, ReqAt(t, d)' = ReqAt(t, e)'
       PROVE  d = e
    <2>1. PICK i, j \in 1..m : i = m + n - d /\ j = m + n - e /\ queue[i].r = queue[j].r
        BY <1>10, <1>12
    <2>2. i = j
        BY <1>4, <2>1 DEF IInv, LineOwns, Distinct
    <2> QED
        BY <1>4, <1>5, <1>8, <2>1, <2>2
<1>13. queue' = <<>> /\ Waiting(queue') = {} /\ Distinct(queue')
    BY EmptySeq DEF Swap, Waiting, Distinct
<1>14. TypeOK'
    BY <1>8, <1>13 DEF IInv, TypeOK, Swap
<1>15. /\ \A d \in new : d \notin Depths(t) \ {n} /\ OpAt(t, d)' = "delete"
       /\ \A d, e \in new : ReqAt(t, d)' = ReqAt(t, e)' => d = e
    BY <1>9, <1>10, <1>12
<1>16. UNCHANGED <<inFlight, mutex, refs, op, status, handled, life>>
    BY DEF Swap
<1> QED
    BY <1>3, <1>8, <1>9, <1>11, <1>13, <1>14, <1>15, <1>16, LineTaken

\* An idle thread gets one frame ...
LEMMA FilledWithOne ==
    ASSUME TypeOK, NEW t \in Threads, NEW r \in Requests, NEW o \in FrameOps, stack[t] = <<>>,
           stack' = [stack EXCEPT ![t] = <<Do(o, r)>>]
    PROVE  /\ stack' \in [Threads -> Seq(Frame)]
           /\ Depths(t) = {} /\ Depths(t)' = {1}
           /\ OpAt(t, 1)' = o /\ ReqAt(t, 1)' = r
           /\ OthersKept(t)
<1> DEFINE f == <<Do(o, r)>>
<1>1. /\ f \in Seq(Frame) /\ Len(f) = 1
      /\ f[1] = Do(o, r)
    BY FrameType DEF FrameOps
<1> HIDE DEF f
<1>2. stack' = [stack EXCEPT ![t] = f]
    BY DEF f
<1>3. Fills(t, f)
    BY <1>1, <1>2, Filled
<1>4. /\ FrameAt(stack'[t], 1) = f[1]
    BY <1>1, <1>3 DEF Fills
<1>5. /\ OpAt(t, 1)' = o /\ ReqAt(t, 1)' = r
    BY <1>1, <1>4, FrameType DEF OpAt, ReqAt, FrameOps
<1> QED
    BY <1>1, <1>3, <1>5 DEF Fills

\* ... or those of the handler of async_resolve ...
LEMMA FilledWithHandler ==
    ASSUME TypeOK, NEW t \in Threads, NEW r \in Requests, stack[t] = <<>>,
           stack' = [stack EXCEPT ![t] =
                        <<Do("progress", r), Do("connect", r), Do("drop", r)>>]
    PROVE  /\ stack' \in [Threads -> Seq(Frame)]
           /\ Depths(t) = {} /\ Depths(t)' = {1, 2, 3}
           /\ OpAt(t, 1)' = "drop" /\ ReqAt(t, 1)' = r
           /\ OpAt(t, 2)' = "connect" /\ ReqAt(t, 2)' = r
           /\ OpAt(t, 3)' = "progress" /\ ReqAt(t, 3)' = r
           /\ OthersKept(t)
<1> DEFINE f == <<Do("progress", r), Do("connect", r), Do("drop", r)>>
<1>1. /\ f \in Seq(Frame) /\ Len(f) = 3
      /\ f[1] = Do("progress", r)
      /\ f[2] = Do("connect", r)
      /\ f[3] = Do("drop", r)
    BY FrameType DEF FrameOps
<1> HIDE DEF f
<1>2. stack' = [stack EXCEPT ![t] = f]
    BY DEF f
<1>3. Fills(t, f)
    BY <1>1, <1>2, Filled
<1>4. /\ FrameAt(stack'[t], 1) = f[3]
      /\ FrameAt(stack'[t], 2) = f[2]
      /\ FrameAt(stack'[t], 3) = f[1]
    BY <1>1, <1>3 DEF Fills
<1>5. /\ OpAt(t, 1)' = "drop" /\ ReqAt(t, 1)' = r
      /\ OpAt(t, 2)' = "connect" /\ ReqAt(t, 2)' = r
      /\ OpAt(t, 3)' = "progress" /\ ReqAt(t, 3)' = r
    BY <1>1, <1>4, FrameType DEF OpAt, ReqAt, FrameOps
<1> QED
    BY <1>1, <1>3, <1>5 DEF Fills

\* ... or those of ~Private.
LEMMA FilledWithDestructor ==
    ASSUME TypeOK, NEW t \in Threads, stack[t] = <<>>,
           stack' = [stack EXCEPT ![t] =
                        <<Do("swap", NoRequest), Do("join", NoRequest), Do("members", NoRequest)>>]
    PROVE  /\ stack' \in [Threads -> Seq(Frame)]
           /\ Depths(t) = {} /\ Depths(t)' = {1, 2, 3}
           /\ OpAt(t, 1)' = "members" /\ ReqAt(t, 1)' = NoRequest
           /\ OpAt(t, 2)' = "join" /\ ReqAt(t, 2)' = NoRequest
           /\ OpAt(t, 3)' = "swap" /\ ReqAt(t, 3)' = NoRequest
           /\ OthersKept(t)
<1> DEFINE f == <<Do("swap", NoRequest), Do("join", NoRequest), Do("members", NoRequest)>>
<1>1. /\ f \in Seq(Frame) /\ Len(f) = 3
      /\ f[1] = Do("swap", NoRequest)
      /\ f[2] = Do("join", NoRequest)
      /\ f[3] = Do("members", NoRequest)
    BY FrameType DEF FrameOps
<1> HIDE DEF f
<1>2. stack' = [stack EXCEPT ![t] = f]
    BY DEF f
<1>3. Fills(t, f)
    BY <1>1, <1>2, Filled
<1>4. /\ FrameAt(stack'[t], 1) = f[3]
      /\ FrameAt(stack'[t], 2) = f[2]
      /\ FrameAt(stack'[t], 3) = f[1]
    BY <1>1, <1>3 DEF Fills
<1>5. /\ OpAt(t, 1)' = "members" /\ ReqAt(t, 1)' = NoRequest
      /\ OpAt(t, 2)' = "join" /\ ReqAt(t, 2)' = NoRequest
      /\ OpAt(t, 3)' = "swap" /\ ReqAt(t, 3)' = NoRequest
    BY <1>1, <1>4, FrameType DEF OpAt, ReqAt, FrameOps
<1> QED
    BY <1>1, <1>3, <1>5 DEF Fills

\* The handler of async_resolve.
LEMMA HandleResolveKeeps ==
    ASSUME IInv, NEW t \in Threads, NEW r \in Requests, HandleResolve(t, r)
    PROVE  IInv'
<1>1. /\ t \in IoThreads /\ stack[t] = <<>> /\ life = "up" /\ op[r] # "none"
      /\ op' = [op EXCEPT ![r] = "none"]
      /\ refs' = [refs EXCEPT ![r] = (@ \ {Op}) \cup {t}]
      /\ UNCHANGED <<queue, inFlight, mutex, status, tries, handled, owners, life>>
    BY DEF HandleResolve, RunHandler
<1>2. TypeOK
    BY DEF IInv
<1>3. failed' \in [Requests -> BOOLEAN] /\ dnsCache' \subseteq Hosts
    BY <1>2 DEF TypeOK, HandleResolve, Hosts
<1>4. CASE stack' = [stack EXCEPT ![t] =
                        <<Do("progress", r), Do("connect", r), Do("drop", r)>>]
    <2>1. /\ stack' \in [Threads -> Seq(Frame)]
          /\ Depths(t) = {} /\ Depths(t)' = {1, 2, 3}
          /\ OpAt(t, 1)' = "drop" /\ ReqAt(t, 1)' = r
          /\ OpAt(t, 2)' = "connect" /\ ReqAt(t, 2)' = r
          /\ OpAt(t, 3)' = "progress" /\ ReqAt(t, 3)' = r
          /\ OthersKept(t)
        BY <1>1, <1>2, <1>4, FilledWithHandler
    <2>2. TypeOK'
        BY <1>1, <1>2, <1>3, <2>1 DEF TypeOK
    <2>3. /\ 1 \in Depths(t)' /\ Depths(t)' \subseteq Nat \ {0}
          /\ \A d \in Depths(t)' : ReqAt(t, d)' = r
          /\ \A d \in Depths(t)' \ {1} : OpAt(t, d)' \in {"progress", "connect"}
        BY <2>1
    <2> QED
        BY <1>1, <2>1, <2>2, <2>3, HandlerStarts
<1>5. CASE stack' = [stack EXCEPT ![t] = <<Do("drop", r)>>]
    <2>1. /\ stack' \in [Threads -> Seq(Frame)]
          /\ Depths(t) = {} /\ Depths(t)' = {1}
          /\ OpAt(t, 1)' = "drop" /\ ReqAt(t, 1)' = r
          /\ OthersKept(t)
        BY <1>1, <1>2, <1>5, FilledWithOne DEF FrameOps
    <2>2. TypeOK'
        BY <1>1, <1>2, <1>3, <2>1 DEF TypeOK
    <2>3. /\ 1 \in Depths(t)' /\ Depths(t)' \subseteq Nat \ {0}
          /\ \A d \in Depths(t)' : ReqAt(t, d)' = r
          /\ \A d \in Depths(t)' \ {1} : OpAt(t, d)' \in {"progress", "connect"}
        BY <2>1
    <2> QED
        BY <1>1, <2>1, <2>2, <2>3, HandlerStarts
<1> QED
    BY <1>4, <1>5 DEF HandleResolve

\* The last handler of the transfer.
LEMMA HandleTransferKeeps ==
    ASSUME IInv, NEW t \in Threads, NEW r \in Requests, HandleTransfer(t, r)
    PROVE  IInv'
<1>1. /\ t \in IoThreads /\ stack[t] = <<>> /\ life = "up" /\ op[r] # "none"
      /\ op' = [op EXCEPT ![r] = "none"]
      /\ refs' = [refs EXCEPT ![r] = (@ \ {Op}) \cup {t}]
      /\ stack' = [stack EXCEPT ![t] = <<Do("drop", r)>>]
      /\ UNCHANGED <<queue, inFlight, mutex, status, tries, handled, owners, dnsCache, life>>
    BY DEF HandleTransfer, RunHandler
<1>2. TypeOK
    BY DEF IInv
<1>3. /\ stack' \in [Threads -> Seq(Frame)]
      /\ Depths(t) = {} /\ Depths(t)' = {1}
      /\ OpAt(t, 1)' = "drop" /\ ReqAt(t, 1)' = r
      /\ OthersKept(t)
    BY <1>1, <1>2, FilledWithOne DEF FrameOps
<1>4. TypeOK'
    BY <1>1, <1>2, <1>3 DEF TypeOK, HandleTransfer
<1>5. /\ 1 \in Depths(t)' /\ Depths(t)' \subseteq Nat \ {0}
      /\ \A d \in Depths(t)' : ReqAt(t, d)' = r
      /\ \A d \in Depths(t)' \ {1} : OpAt(t, d)' \in {"progress", "connect"}
    BY <1>3
<1> QED
    BY <1>1, <1>3, <1>4, <1>5, HandlerStarts

\* A caller sends a new request.
LEMMA CallSendKeeps ==
    ASSUME IInv, NEW t \in Threads, NEW r \in Requests, CallSend(t, r)
    PROVE  IInv'
<1>1. /\ t \in Callers /\ stack[t] = <<>> /\ life = "up" /\ status[r] = "new"
      /\ status' = [status EXCEPT ![r] = "sent"]
      /\ stack' = [stack EXCEPT ![t] = <<Do("send", r)>>]
      /\ UNCHANGED <<queue, inFlight, mutex, refs, op, failed, tries, handled, owners,
                     dnsCache, life>>
    BY DEF CallSend
<1>2. TypeOK
    BY DEF IInv
<1>3. /\ stack' \in [Threads -> Seq(Frame)]
      /\ Depths(t) = {} /\ Depths(t)' = {1}
      /\ OpAt(t, 1)' = "send" /\ ReqAt(t, 1)' = r
      /\ OthersKept(t)
    BY <1>1, <1>2, FilledWithOne DEF FrameOps
<1>4. TypeOK'
    BY <1>1, <1>2, <1>3 DEF TypeOK
<1> QED
    BY <1>1, <1>3, <1>4, RequestHandedOver

\* A caller deletes the client.
LEMMA CallDestroyKeeps ==
    ASSUME IInv, NEW t \in Threads, CallDestroy(t)
    PROVE  IInv'
<1>1. /\ t \in Callers /\ stack[t] = <<>> /\ life = "up" /\ life' = "stopped"
      /\ \A c \in Callers : stack[c] = <<>>
      /\ stack' = [stack EXCEPT ![t] =
            <<Do("swap", NoRequest), Do("join", NoRequest), Do("members", NoRequest)>>]
      /\ UNCHANGED <<queue, inFlight, mutex, refs, op, status, failed, tries, handled, owners,
                     dnsCache>>
    BY ClientAssumption DEF CallDestroy
<1>2. TypeOK /\ \A c \in Callers : Depths(c) = {}
    BY <1>1, Idle DEF IInv, Threads
<1>3. /\ stack' \in [Threads -> Seq(Frame)]
      /\ Depths(t) = {} /\ Depths(t)' = {1, 2, 3}
      /\ OpAt(t, 1)' = "members" /\ ReqAt(t, 1)' = NoRequest
      /\ OpAt(t, 2)' = "join" /\ ReqAt(t, 2)' = NoRequest
      /\ OpAt(t, 3)' = "swap" /\ ReqAt(t, 3)' = NoRequest
      /\ OthersKept(t)
    BY <1>1, <1>2, FilledWithDestructor
<1>4. TypeOK'
    BY <1>1, <1>2, <1>3 DEF TypeOK, Lifetimes
<1>5. \A d \in Depths(t)' : ReqAt(t, d)' = NoRequest
    BY <1>3
<1> QED
    BY <1>1, <1>2, <1>3, <1>4, <1>5, DestructorStarts

\* The steps that leave the client alone.
LEMMA QuietKeeps ==
    ASSUME IInv,
           \/ \E t \in Threads : UseAfterDestruction(t)
           \/ \E r \in Requests : Expire(r)
           \/ UNCHANGED vars
    PROVE  IInv'
<1>1. /\ UNCHANGED <<queue, inFlight, mutex, stack, refs, op, status, failed, tries, handled,
                     dnsCache>>
      /\ owners' \subseteq owners
      /\ life' = life \/ (life = "unwinding" /\ life' = "undefined")
    BY DEF UseAfterDestruction, Expire, vars
<1>2. TypeOK'
    BY <1>1 DEF IInv, TypeOK, Lifetimes
<1> QED
    BY <1>1, <1>2, NothingMoves

-----------------------------------------------------------------------------
(* The inductive invariant.                                                *)

\* A new client satisfies it.
LEMMA InitIInv == Init => IInv
<1> SUFFICES ASSUME Init
             PROVE  IInv
    OBVIOUS
<1>1. \A t \in Threads : Depths(t) = {}
    BY EmptySeq DEF Init, Depths
<1>2. Waiting(queue) = {} /\ Distinct(queue) /\ queue \in Seq(Entry)
    BY EmptySeq DEF Init, Waiting, Distinct
<1>3. LiveSockets = {} /\ FramesDoing(Ending) = {}
    BY <1>1, FramesView DEF Init, LiveSockets
<1>4. stack \in [Threads -> Seq(Frame)]
    BY EmptySeq DEF Init
<1>5. TypeOK
    BY <1>2, <1>4, ClientAssumption DEF Init, TypeOK, Lifetimes
<1>6. FramesNamed /\ FramesOwn /\ OneFrame
    BY <1>1 DEF FramesNamed, FramesOwn, OneFrame
<1>7. MutexKept
    BY <1>1, ClientAssumption DEF Init, MutexKept
<1>8. SharesKept
    BY <1>1 DEF Init, SharesKept
<1>9. LineOwns /\ SomeOwner
    BY <1>2 DEF Init, LineOwns, SomeOwner
<1>10. DestructorFrames /\ DestructorAlone /\ NobodyWorks
    BY <1>1 DEF Init, DestructorFrames, DestructorAlone, NobodyWorks
<1>11. HandledOnce
    <2>1. \A r \in Requests : handled[r] = 0
        BY DEF Init
    <2>2. 0 <= 1 /\ 0 # 1
        OBVIOUS
    <2>3. \A r \in Requests : handled[r] <= 1 /\ handled[r] # 1
        BY <2>1, <2>2, Zenon
    <2> QED
        BY <2>3, Zenon DEF HandledOnce
<1>12. Counted
    <2>1. inFlight = 0
        BY DEF Init
    <2>2. FramesDoing({"destroy", "completed"}) = {}
        BY <1>3 DEF Ending
    <2> QED
        BY <1>3, <2>1, <2>2, FS_EmptySet DEF Counted, InFlightExact
<1> QED
    BY <1>5, <1>6, <1>7, <1>8, <1>9, <1>10, <1>11, <1>12 DEF IInv

\* Every step keeps it.
LEMMA NextIInv == IInv /\ [Next]_vars => IInv'
<1> SUFFICES ASSUME IInv, [Next]_vars
             PROVE  IInv'
    OBVIOUS
<1>1. ASSUME NEW t \in Threads, NEW r \in Requests,
             \/ Enqueue(t, r)
             \/ CompletedRetry(t, r)
             \/ Unlock(t, r)
             \/ Run(t, r)
             \/ Progress(t, r)
             \/ Query(t, r)
      PROVE  IInv'
    BY <1>1, EnqueueKeeps, CompletedRetryKeeps, UnlockKeeps, RunFakeKeeps,
       RunResolvedKeeps, RunResolveKeeps, ProgressKeeps, QueryKeeps DEF Run
<1>2. ASSUME NEW t \in Threads, NEW r \in Requests,
             \/ Connect(t, r)
             \/ Drop(t, r)
             \/ DestroyAndRetry(t, r)
             \/ DestroyAndDelete(t, r)
             \/ Handler(t, r)
             \/ DeleteDrained(t, r)
      PROVE  IInv'
    BY <1>2, ConnectKeeps, DropKeeps, DestroyAndRetryKeeps, DestroyAndDeleteKeeps,
       HandlerKeeps, DeleteDrainedKeeps
<1>3. ASSUME NEW t \in Threads,
             \/ CompletedNext(t)
             \/ Swap(t)
             \/ Join(t)
             \/ DestroyMembers(t)
             \/ Unwind(t)
             \/ UseAfterDestruction(t)
             \/ CallDestroy(t)
      PROVE  IInv'
    BY <1>3, CompletedNextKeeps, SwapKeeps, JoinKeeps, DestroyMembersKeeps,
       UnwindKeeps, QuietKeeps, CallDestroyKeeps
<1>4. ASSUME NEW t \in Threads, NEW r \in Requests,
             HandleResolve(t, r) \/ HandleTransfer(t, r) \/ CallSend(t, r)
      PROVE  IInv'
    BY <1>4, HandleResolveKeeps, HandleTransferKeeps, CallSendKeeps
<1>5. CASE \E r \in Requests : Expire(r)
    BY <1>5, QuietKeeps
<1>6. CASE UNCHANGED vars
    BY <1>6, QuietKeeps
<1> QED
    BY <1>1, <1>2, <1>3, <1>4, <1>5, <1>6 DEF Next, ThreadStep, IoStep, Finished

\* The inductive invariant holds of every state the client can be in.
THEOREM Invariance == Spec => []IInv
BY InitIInv, NextIInv, PTL DEF Spec

-----------------------------------------------------------------------------
(* What it says about the client.                                          *)

\* Every variable keeps its type, whatever the threads do.
THEOREM TypeCorrect == Spec => []TypeOK
BY Invariance, PTL DEF IInv

\* inFlight in Client.cpp is the number of living sockets and of destructors that
\* have yet to call completed.
THEOREM SlotsCounted == Spec => []InFlightExact
<1>1. IInv => InFlightExact
    BY DEF IInv, Counted
<1> QED
    BY <1>1, Invariance, PTL

\* However often a request is cloned for a retry, its completion handler is called
\* at most once, when it is finished.
THEOREM HandledAtMostOnce == Spec => []HandledOnce
BY Invariance, PTL DEF IInv

\* No thread uses a SocketDetails_lt without a share of it.
THEOREM SocketsHeld == Spec => []SocketHeld
<1>1. ASSUME IInv, NEW t \in Threads, NEW k \in 1..Len(stack[t]),
             stack[t][k].op \in {"run", "progress", "connect", "unlock", "drop"}
      PROVE  t \in refs[stack[t][k].r]
    <2>1. PICK m, d : m = Len(stack[t]) /\ d = m + 1 - k
        OBVIOUS
    <2>2. m \in Nat
        BY <1>1, <2>1, LenProperties DEF IInv, TypeOK
    <2>3. d \in 1..m /\ m + 1 - d = k
        BY <2>1, <2>2
    <2>4. d \in Depths(t) /\ OpAt(t, d) = stack[t][k].op /\ ReqAt(t, d) = stack[t][k].r
        BY <2>1, <2>3 DEF Depths, OpAt, ReqAt, FrameAt
    <2> QED
        BY <1>1, <2>4 DEF IInv, SharesKept, Sharing
<1>2. IInv => SocketHeld
    BY <1>1 DEF SocketHeld
<1> QED
    BY <1>2, Invariance, PTL

\* Where a request is, in terms of what the frames own.
LEMMA PlacesView ==
    ASSUME NEW r \in Requests
    PROVE  Places(r) =
              {f \in Threads \X Nat : /\ f[2] \in Depths(f[1])
                                      /\ OpAt(f[1], f[2]) \in Owning
                                      /\ ReqAt(f[1], f[2]) = r}
              \cup (IF r \in Waiting(queue) THEN {"queue"} ELSE {})
              \cup (IF refs[r] # {} THEN {"socket"} ELSE {})
<1>1. FramesDoing(Owning) =
         {f \in Threads \X Nat : f[2] \in Depths(f[1]) /\ OpAt(f[1], f[2]) \in Owning}
    BY FramesView
<1>2. Places(r) =
         {f \in FramesDoing(Owning) : ReqAt(f[1], f[2]) = r}
         \cup (IF r \in Waiting(queue) THEN {"queue"} ELSE {})
         \cup (IF r \in LiveSockets THEN {"socket"} ELSE {})
    BY DEF Places, Owning, ReqAt
<1>3. r \in LiveSockets <=> refs[r] # {}
    BY DEF LiveSockets
<1> QED
    BY <1>1, <1>2, <1>3

\* Until it is deleted, a request the client has been given is in one place: the
\* line, a socket, or what one thread is about to do.
THEOREM RequestsOwnedOnce == Spec => []OwnedOnce
<1>1. ASSUME IInv, NEW r \in Requests
      PROVE  Cardinality(Places(r)) = IF status[r] = "sent" THEN 1 ELSE 0
    <2> DEFINE Own == {f \in Threads \X Nat : /\ f[2] \in Depths(f[1])
                                              /\ OpAt(f[1], f[2]) \in Owning
                                              /\ ReqAt(f[1], f[2]) = r}
    <2>1. Places(r) = Own \cup (IF r \in Waiting(queue) THEN {"queue"} ELSE {})
                          \cup (IF refs[r] # {} THEN {"socket"} ELSE {})
        BY PlacesView
    <2>2. r # NoRequest
        BY ClientAssumption
    <2>3. Own # {} => status[r] = "sent" /\ refs[r] = {} /\ r \notin Waiting(queue)
        BY <1>1, <2>2 DEF IInv, FramesOwn
    <2>4. r \in Waiting(queue) \/ refs[r] # {} => status[r] = "sent" /\ Own = {}
        BY <1>1, <2>3 DEF IInv, LineOwns
    <2>5. r \in Waiting(queue) => refs[r] = {}
        BY <1>1 DEF IInv, LineOwns
    <2>6. \A f, g \in Own : f = g
        <3>1. ASSUME NEW t \in Threads, NEW u \in Threads, NEW d \in Depths(t),
                     NEW e \in Depths(u), OpAt(t, d) \in Owning, OpAt(u, e) \in Owning,
                     ReqAt(t, d) = r, ReqAt(u, e) = r
              PROVE  t = u /\ d = e
            BY <1>1, <2>2, <3>1 DEF IInv, OneFrame
        <3> QED
            BY <3>1
    <2>7. status[r] = "sent" => r \in Waiting(queue) \/ refs[r] # {} \/ Own # {}
        <3> SUFFICES ASSUME status[r] = "sent", r \notin Waiting(queue), refs[r] = {}
                     PROVE  Own # {}
            OBVIOUS
        <3>1. PICK t \in Threads : \E d \in Depths(t) : OpAt(t, d) \in Owning /\ ReqAt(t, d) = r
            BY <1>1 DEF IInv, SomeOwner
        <3>2. PICK d \in Depths(t) : OpAt(t, d) \in Owning /\ ReqAt(t, d) = r
            BY <3>1
        <3>3. d \in Nat
            BY <3>2 DEF Depths
        <3>4. <<t, d>> \in Own
            BY <3>2, <3>3
        <3> QED
            BY <3>4
    <2> HIDE DEF Own
    <2>8. CASE status[r] # "sent"
        <3>1. Places(r) = {}
            BY <2>1, <2>3, <2>4, <2>8
        <3> QED
            BY <2>8, <3>1, FS_EmptySet
    <2>9. CASE status[r] = "sent"
        <3>1. \E x : Places(r) = {x}
            <4>1. CASE r \in Waiting(queue)
                BY <2>1, <2>4, <2>5, <4>1
            <4>2. CASE refs[r] # {}
                BY <2>1, <2>4, <2>5, <4>2
            <4>3. CASE Own # {}
                BY <2>1, <2>3, <2>6, <4>3
            <4> QED
                BY <2>7, <2>9, <4>1, <4>2, <4>3
        <3> QED
            BY <2>9, <3>1, FS_Singleton
    <2> QED
        BY <2>8, <2>9
<1>2. IInv => OwnedOnce
    BY <1>1 DEF OwnedOnce
<1> QED
    BY <1>2, Invariance, PTL

-----------------------------------------------------------------------------
(* Callbacks that ask for pending().                                       *)

\* What a step of t does to everything but its own frames.
Elsewhere(t) ==
    /\ OthersKept(t)
    /\ mutex' \in {mutex, t, NoThread}
    /\ \A x \in Requests :
          t \in refs[x] \/ refs[x] = {} \/ op[x] # "none" \/ (refs'[x] = refs[x] /\ op'[x] = op[x])
    /\ \A x \in Curious : status'[x] = "new" => status[x] = "new"
    /\ \A x \in Waiting(queue') \cap Curious : NotRun(x)
    /\ \A x \in Curious : NotRun(x) /\ HostOf[x] \notin dnsCache => HostOf[x] \notin dnsCache'

\* A frame that t keeps, or has anew.
Stays(t, d) ==
    /\ d \in Depths(t) /\ OpAt(t, d)' = OpAt(t, d) /\ ReqAt(t, d)' = ReqAt(t, d)
    /\ OpAt(t, d) \notin Starting

Comes(t, d) ==
    /\ OpAt(t, d)' \in Starting => \A e \in Depths(t)' : e <= d
    /\ OpAt(t, d)' = "query" => mutex' # t
    /\ OpAt(t, d)' = "progress" => mutex' # t \/ ReqAt(t, d)' \notin Curious
    /\ OpAt(t, d)' = "run" => op'[ReqAt(t, d)'] = "none" /\ refs'[ReqAt(t, d)'] = {t}
    /\ OpAt(t, d)' = "completed" => ReqAt(t, d)' \notin Curious
    /\ OpAt(t, d)' \in {"send", "run"} =>
          ReqAt(t, d)' \notin Curious \/ \E x \in Curious : x = ReqAt(t, d)' /\ NotRun(x)

LEMMA AskStep ==
    ASSUME IInv, AskInv, NEW t \in Threads, Elsewhere(t),
           \A d \in Depths(t)' : Stays(t, d) \/ Comes(t, d)
    PROVE  AskInv'
<1>1. ASSUME NEW u \in Threads \ {t}
      PROVE  /\ Depths(u)' = Depths(u) /\ (mutex # u => mutex' # u)
             /\ \A d \in Depths(u) : OpAt(u, d)' = OpAt(u, d) /\ ReqAt(u, d)' = ReqAt(u, d)
    BY ClientAssumption DEF Elsewhere, OthersKept
<1>2. StartingOnTop'
    <2>1. ASSUME NEW d \in Depths(t)', NEW e \in Depths(t)', OpAt(t, d)' \in Starting
          PROVE  e <= d
        BY <2>1 DEF Stays, Comes
    <2>2. ASSUME NEW u \in Threads \ {t}, NEW d \in Depths(u)', NEW e \in Depths(u)',
                 OpAt(u, d)' \in Starting
          PROVE  e <= d
        BY <1>1, <2>2 DEF AskInv, StartingOnTop
    <2> QED
        BY <2>1, <2>2 DEF StartingOnTop
<1>3. RunAlone'
    <2>1. ASSUME NEW d \in Depths(t)', OpAt(t, d)' = "run"
          PROVE  op'[ReqAt(t, d)'] = "none" /\ refs'[ReqAt(t, d)'] = {t}
        BY <2>1 DEF Stays, Comes, Starting
    <2>2. ASSUME NEW u \in Threads \ {t}, NEW d \in Depths(u)', OpAt(u, d)' = "run"
          PROVE  op'[ReqAt(u, d)'] = "none" /\ refs'[ReqAt(u, d)'] = {u}
        <3>1. PICK x : x = ReqAt(u, d)
            OBVIOUS
        <3>2. d \in Depths(u) /\ OpAt(u, d) = "run" /\ ReqAt(u, d)' = x
            BY <1>1, <2>2, <3>1
        <3>3. x \in Requests
            BY <3>1, <3>2 DEF IInv, FramesNamed, Sharing
        <3>4. op[x] = "none" /\ refs[x] = {u}
            BY <3>1, <3>2 DEF AskInv, RunAlone
        <3>5. t \notin refs[x] /\ refs[x] # {}
            BY <3>4
        <3>6. refs'[x] = refs[x] /\ op'[x] = op[x]
            BY <3>3, <3>4, <3>5 DEF Elsewhere
        <3> QED
            BY <3>2, <3>4, <3>6
    <2> QED
        BY <2>1, <2>2 DEF RunAlone
<1>4. CompletedAnswered'
    <2>1. ASSUME NEW d \in Depths(t)', OpAt(t, d)' = "completed"
          PROVE  ReqAt(t, d)' \notin Curious
        BY <2>1 DEF Stays, Comes, AskInv, CompletedAnswered
    <2>2. ASSUME NEW u \in Threads \ {t}, NEW d \in Depths(u)', OpAt(u, d)' = "completed"
          PROVE  ReqAt(u, d)' \notin Curious
        BY <1>1, <2>2 DEF AskInv, CompletedAnswered
    <2> QED
        BY <2>1, <2>2 DEF CompletedAnswered
<1>5. Unresolved'
    <2>1. ASSUME NEW x \in Curious, NotRun(x)'
          PROVE  NotRun(x)
        <3>1. CASE status'[x] = "new"
            BY <3>1 DEF Elsewhere, NotRun
        <3>2. CASE x \in Waiting(queue')
            BY <3>2 DEF Elsewhere
        <3>3. ASSUME NEW d \in Depths(t)', OpAt(t, d)' \in {"send", "run"}, ReqAt(t, d)' = x
              PROVE  NotRun(x)
            <4>1. CASE Stays(t, d)
                BY <3>3, <4>1 DEF Stays, NotRun
            <4>2. CASE Comes(t, d)
                BY <3>3, <4>2 DEF Comes
            <4> QED
                BY <4>1, <4>2
        <3>4. ASSUME NEW u \in Threads \ {t}, NEW d \in Depths(u)',
                     OpAt(u, d)' \in {"send", "run"}, ReqAt(u, d)' = x
              PROVE  NotRun(x)
            BY <1>1, <3>4 DEF NotRun
        <3> QED
            BY <2>1, <3>1, <3>2, <3>3, <3>4 DEF NotRun
    <2> QED
        BY <2>1 DEF Elsewhere, AskInv, Unresolved
<1>6. AskedOutside'
    <2>1. ASSUME NEW d \in Depths(t)',
                 OpAt(t, d)' = "query" \/ (OpAt(t, d)' = "progress" /\ ReqAt(t, d)' \in Curious)
          PROVE  mutex' # t
        BY <2>1 DEF Stays, Comes, Starting
    <2>2. ASSUME NEW u \in Threads \ {t}, NEW d \in Depths(u)',
                 OpAt(u, d)' = "query" \/ (OpAt(u, d)' = "progress" /\ ReqAt(u, d)' \in Curious)
          PROVE  mutex' # u
        BY <1>1, <2>2 DEF AskInv, AskedOutside
    <2> QED
        BY <2>1, <2>2 DEF AskedOutside
<1> QED
    BY <1>2, <1>3, <1>4, <1>5, <1>6 DEF AskInv

\* Below the top frame nothing starts.
LEMMA BelowStays ==
    ASSUME AskInv, NEW t \in Threads, NEW n, NEW o, NEW r, OnTop(t, n, o, r), KeptBelow(t, n)
    PROVE  OthersKept(t) /\ \A d \in Depths(t) \ {n} : Stays(t, d)
<1>1. OthersKept(t)
    BY DEF KeptBelow, OthersKept
<1>2. ASSUME NEW d \in Depths(t) \ {n}
      PROVE  Stays(t, d)
    <2>1. d \in Nat /\ n \in Nat /\ d <= n /\ d # n
        BY DEF OnTop
    <2>2. ~(n <= d)
        BY <2>1
    <2>3. OpAt(t, d) \notin Starting
        BY <2>2 DEF AskInv, StartingOnTop, OnTop
    <2> QED
        BY <2>3 DEF Stays, KeptBelow
<1> QED
    BY <1>1, <1>2

\* The steps of a thread by what they do to its stack.
LEMMA AskPops ==
    ASSUME IInv, AskInv, NEW t \in Threads, NEW o, NEW r \in Requests \cup {NoRequest},
           At(t, o, r), Then(t, <<>>), OthersKept(t) => Elsewhere(t)
    PROVE  AskInv'
<1>1. PICK n : n = Len(stack[t])
    OBVIOUS
<1>2. TypeOK /\ stack[t] # <<>> /\ OnTop(t, n, o, r)
    BY <1>1, TopFrame DEF IInv, At
<1>3. Pops(t, n)
    BY <1>1, <1>2, Popped
<1>4. OthersKept(t) /\ \A d \in Depths(t) \ {n} : Stays(t, d)
    BY <1>2, <1>3, BelowStays DEF Pops
<1> QED
    BY <1>3, <1>4, AskStep DEF Pops

LEMMA AskTurns ==
    ASSUME IInv, AskInv, NEW t \in Threads, NEW o, NEW r \in Requests \cup {NoRequest},
           At(t, o, r), NEW p \in FrameOps, NEW x \in Requests \cup {NoRequest},
           Then(t, <<Do(p, x)>>), OthersKept(t) => Elsewhere(t),
           p \notin {"run", "progress"},
           p = "send" /\ x \in Curious => NotRun(x),
           p = "query" => mutex' # t,
           p = "completed" => x \notin Curious
    PROVE  AskInv'
<1>1. PICK n : n = Len(stack[t])
    OBVIOUS
<1>2. TypeOK /\ stack[t] # <<>> /\ OnTop(t, n, o, r)
    BY <1>1, TopFrame DEF IInv, At
<1>3. Turns(t, n, p, x)
    BY <1>1, <1>2, Turned
<1>4. OthersKept(t) /\ \A d \in Depths(t) \ {n} : Stays(t, d)
    BY <1>2, <1>3, BelowStays DEF Turns
<1>5. Comes(t, n)
    BY <1>2, <1>3 DEF Turns, Comes, OnTop
<1> QED
    BY <1>3, <1>4, <1>5, AskStep DEF Turns

LEMMA AskGrows ==
    ASSUME IInv, AskInv, NEW t \in Threads, NEW o, NEW r \in Requests \cup {NoRequest},
           At(t, o, r), NEW p \in FrameOps, NEW x \in Requests \cup {NoRequest},
           NEW q \in FrameOps, NEW y \in Requests \cup {NoRequest},
           Then(t, <<Do(q, y), Do(p, x)>>), OthersKept(t) => Elsewhere(t),
           p \notin Starting \cup {"send"}, q \notin {"send", "query", "completed"},
           p = "completed" => x \notin Curious,
           q = "progress" => y \notin Curious,
           q = "run" => op'[y] = "none" /\ refs'[y] = {t} /\ (y \in Curious => NotRun(y))
    PROVE  AskInv'
<1>1. PICK n : n = Len(stack[t])
    OBVIOUS
<1>2. TypeOK /\ stack[t] # <<>> /\ OnTop(t, n, o, r)
    BY <1>1, TopFrame DEF IInv, At
<1>3. Grows(t, n, p, x, q, y)
    BY <1>1, <1>2, Grown
<1>4. OthersKept(t) /\ \A d \in Depths(t) \ {n} : Stays(t, d)
    BY <1>2, <1>3, BelowStays DEF Grows
<1>5. Comes(t, n)
    BY <1>3 DEF Grows, Comes, Starting
<1>6. Comes(t, n + 1)
    <2>1. \A d \in Depths(t)' : d <= n + 1
        BY <1>2, <1>3 DEF Grows, OnTop
    <2> QED
        BY <1>3, <2>1 DEF Grows, Comes
<1> QED
    BY <1>3, <1>4, <1>5, <1>6, AskStep DEF Grows

\* A step that leaves the operations, the shares, the cache and the line alone, or
\* ends what it has a share of.
LEMMA Untouched ==
    ASSUME NEW t \in Threads, OthersKept(t),
           mutex' \in {mutex, t, NoThread},
           NEW r \in Requests \cup {NoRequest},
           r = NoRequest \/ t \in refs[r] \/ refs[r] = {} \/ op[r] # "none",
           \A x \in Requests \ {r} : refs'[x] = refs[x] /\ op'[x] = op[x],
           UNCHANGED dnsCache,
           \A x \in Curious : status'[x] = "new" => status[x] = "new",
           Waiting(queue') \subseteq Waiting(queue)
    PROVE  Elsewhere(t)
<1>1. \A x \in Requests : x # NoRequest
    BY ClientAssumption
<1> QED
    BY <1>1 DEF Elsewhere, NotRun

\* A socket is started with the mutex held.
LEMMA AskStart ==
    ASSUME IInv, AskInv, NEW t \in Threads, NEW o, NEW r \in Requests \cup {NoRequest},
           At(t, o, r), NEW x \in Requests, StartSocket(t, x), refs[x] = {},
           x \in Curious => NotRun(x),
           \A y \in Waiting(queue') \cap Curious : NotRun(y),
           UNCHANGED <<op, status, dnsCache>>
    PROVE  AskInv'
<1>1. /\ mutex' = t /\ refs' = [refs EXCEPT ![x] = {t}]
      /\ Then(t, <<Do("run", x), Do("unlock", x)>>)
    BY DEF StartSocket
<1>2. op[x] = "none"
    BY DEF IInv, SharesKept
<1>3. refs'[x] = {t} /\ \A y \in Requests \ {x} : refs'[y] = refs[y]
    BY <1>1 DEF IInv, TypeOK
<1>4. OthersKept(t) => Elsewhere(t)
    BY <1>1, <1>3 DEF Elsewhere
<1>5. "unlock" \notin Starting \cup {"send"} /\ "unlock" \in FrameOps /\ "run" \in FrameOps
    BY DEF Starting, FrameOps
<1> QED
    BY <1>1, <1>2, <1>3, <1>4, <1>5, AskGrows

LEMMA EnqueueAsks ==
    ASSUME IInv, AskInv, NEW t \in Threads, NEW r \in Requests, Enqueue(t, r)
    PROVE  AskInv'
<1>1. TypeOK /\ At(t, "send", r) /\ UNCHANGED <<op, status, dnsCache>>
    BY DEF IInv, Enqueue
<1>2. PICK n : OnTop(t, n, "send", r)
    BY <1>1, TopFrame
<1>3. refs[r] = {} /\ r \notin Waiting(queue) /\ NotRun(r)
    BY <1>2, ClientAssumption DEF IInv, FramesOwn, OnTop, Owning, NotRun
<1>4. PICK priority \in Priorities : PostNext(t, Insert(queue, r, priority), inFlight)
    BY DEF Enqueue
<1>5. PICK q : q = Insert(queue, r, priority)
    OBVIOUS
<1>6. q \in Seq(Entry) /\ Waiting(q) = Waiting(queue) \cup {r} /\ Distinct(q)
    BY <1>3, <1>5, InsertWaits, ClientAssumption DEF IInv, TypeOK, LineOwns
<1>7. PostNext(t, q, inFlight)
    BY <1>4, <1>5
<1>8. \A y \in Waiting(q) : NotRun(y) /\ refs[y] = {}
    BY <1>3, <1>6 DEF NotRun, IInv, LineOwns
<1>9. CASE queue' = q /\ Then(t, <<>>) /\ UNCHANGED <<mutex, refs>>
    <2>1. OthersKept(t) => Elsewhere(t)
        BY <1>1, <1>8, <1>9 DEF Elsewhere
    <2> QED
        BY <1>1, <1>9, <2>1, AskPops
<1>10. CASE q # <<>> /\ queue' = Tail(q) /\ StartSocket(t, Head(q).r)
    <2>1. PICK x : x = Head(q).r
        OBVIOUS
    <2>2. x \in Requests /\ Waiting(queue') \cup {x} = Waiting(q)
        BY <1>6, <1>10, <2>1, TailWaits
    <2> QED
        BY <1>1, <1>8, <1>10, <2>1, <2>2, AskStart
<1> QED
    BY <1>7, <1>9, <1>10 DEF PostNext

LEMMA CompletedNextAsks ==
    ASSUME IInv, AskInv, NEW t \in Threads, CompletedNext(t)
    PROVE  AskInv'
<1>1. TypeOK /\ At(t, "completed", NoRequest) /\ UNCHANGED <<op, status, dnsCache>>
    BY DEF IInv, CompletedNext
<1>2. queue \in Seq(Entry) /\ Distinct(queue)
    BY DEF IInv, TypeOK, LineOwns
<1>3. \A y \in Waiting(queue) : NotRun(y) /\ refs[y] = {}
    BY DEF NotRun, IInv, LineOwns
<1>4. CASE queue' = queue /\ Then(t, <<>>) /\ UNCHANGED <<mutex, refs>>
    <2>1. OthersKept(t) => Elsewhere(t)
        BY <1>1, <1>3, <1>4 DEF Elsewhere
    <2> QED
        BY <1>1, <1>4, <2>1, AskPops
<1>5. CASE queue # <<>> /\ queue' = Tail(queue) /\ StartSocket(t, Head(queue).r)
    <2>1. PICK x : x = Head(queue).r
        OBVIOUS
    <2>2. x \in Requests /\ Waiting(queue') \cup {x} = Waiting(queue)
        BY <1>2, <1>5, <2>1, TailWaits
    <2> QED
        BY <1>1, <1>3, <1>5, <2>1, <2>2, AskStart
<1> QED
    BY <1>4, <1>5 DEF CompletedNext, PostNext

LEMMA CompletedRetryAsks ==
    ASSUME IInv, AskInv, NEW t \in Threads, NEW r \in Requests, CompletedRetry(t, r)
    PROVE  AskInv'
<1>1. /\ TypeOK /\ At(t, "completed", r) /\ StartSocket(t, r)
      /\ UNCHANGED <<queue, op, status, dnsCache>>
    BY DEF IInv, CompletedRetry
<1>2. PICK n : OnTop(t, n, "completed", r)
    BY <1>1, TopFrame
<1>3. refs[r] = {} /\ r \notin Curious
    BY <1>2, ClientAssumption DEF IInv, FramesOwn, OnTop, Owning, AskInv, CompletedAnswered
<1>4. \A y \in Waiting(queue') \cap Curious : NotRun(y)
    BY <1>1 DEF NotRun
<1> QED
    BY <1>1, <1>3, <1>4, AskStart

\* Who works on a socket has a share of it.
LEMMA SharesTop ==
    ASSUME IInv, NEW t \in Threads, NEW o \in Sharing, NEW r, At(t, o, r)
    PROVE  t \in refs[r]
<1>1. PICK n : OnTop(t, n, o, r)
    BY TopFrame DEF IInv
<1> QED
    BY <1>1 DEF IInv, SharesKept, OnTop

\* The steps after which t has one frame less.
LEMMA PopAsks ==
    ASSUME IInv, AskInv, NEW t \in Threads, NEW r \in Requests,
           RunFake(t, r) \/ RunResolve(t, r) \/ Query(t, r) \/ Connect(t, r)
    PROVE  AskInv'
<1>1. /\ Then(t, <<>>)
      /\ UNCHANGED <<queue, mutex, status, dnsCache>>
    BY DEF RunFake, RunResolve, Query, Connect
<1>2. PICK o \in {"run", "query", "connect"} :
          At(t, o, r) /\ (o = "query" => UNCHANGED <<op, refs>>)
    BY DEF RunFake, RunResolve, Query, Connect
<1>3. \A x \in Requests \ {r} : refs'[x] = refs[x] /\ op'[x] = op[x]
    BY DEF IInv, TypeOK, RunFake, RunResolve, Query, Connect
<1>4. OthersKept(t) => Elsewhere(t)
    <2>1. CASE o = "query"
        <3>1. \A x \in Requests : refs'[x] = refs[x] /\ op'[x] = op[x]
            BY <1>2, <2>1
        <3> QED
            BY <1>1, <3>1, Untouched
    <2>2. CASE o \in {"run", "connect"}
        <3>1. t \in refs[r]
            BY <1>2, <2>2, SharesTop DEF Sharing
        <3> QED
            BY <1>1, <1>3, <3>1, Untouched
    <2> QED
        BY <2>1, <2>2
<1> QED
    BY <1>1, <1>2, <1>4, AskPops

LEMMA UnlockAsks ==
    ASSUME IInv, AskInv, NEW t \in Threads, NEW r \in Requests, Unlock(t, r)
    PROVE  AskInv'
<1>1. /\ At(t, "unlock", r) /\ mutex' = NoThread /\ Then(t, <<Do("drop", r)>>)
      /\ UNCHANGED <<queue, refs, op, status, dnsCache>>
    BY DEF Unlock
<1>2. OthersKept(t) => Elsewhere(t)
    BY <1>1, Untouched
<1> QED
    BY <1>1, <1>2, AskTurns DEF FrameOps

\* A request whose callback may ask is never started with its addresses known.
LEMMA RunResolvedAsks ==
    ASSUME AskersApart, IInv, AskInv, NEW t \in Threads, NEW r \in Requests, RunResolved(t, r)
    PROVE  AskInv'
<1>1. /\ At(t, "run", r) /\ Then(t, <<Do("progress", r), Do("connect", r)>>)
      /\ AddressesKnown(r)
      /\ UNCHANGED <<queue, mutex, refs, op, status, dnsCache>>
    BY DEF RunResolved
<1>2. PICK n : OnTop(t, n, "run", r)
    BY <1>1, TopFrame DEF IInv
<1>3. r \notin Curious
    <2>1. NotRun(r)
        BY <1>2 DEF NotRun, OnTop
    <2> QED
        BY <1>1, <2>1 DEF AskersApart, AddressesKnown, AskInv, Unresolved
<1>4. OthersKept(t) => Elsewhere(t)
    BY <1>1, Untouched
<1>5. /\ "connect" \notin Starting \cup {"send"} /\ "connect" \in FrameOps
      /\ "progress" \in FrameOps
    BY DEF Starting, FrameOps
<1> QED
    BY <1>1, <1>3, <1>4, <1>5, AskGrows

LEMMA ProgressAsks ==
    ASSUME IInv, AskInv, NEW t \in Threads, NEW r \in Requests, Progress(t, r)
    PROVE  AskInv'
<1>1. At(t, "progress", r) /\ UNCHANGED <<queue, mutex, refs, op, status, dnsCache>>
    BY DEF Progress
<1>2. OthersKept(t) => Elsewhere(t)
    BY <1>1, Untouched
<1>3. CASE Then(t, <<>>)
    BY <1>1, <1>2, <1>3, AskPops
<1>4. CASE r \in Curious /\ Then(t, <<Do("query", r)>>)
    <2>1. PICK n : OnTop(t, n, "progress", r)
        BY <1>1, TopFrame DEF IInv
    <2>2. mutex # t
        BY <1>4, <2>1 DEF AskInv, AskedOutside, OnTop
    <2> QED
        BY <1>1, <1>2, <1>4, <2>2, AskTurns DEF FrameOps
<1> QED
    BY <1>3, <1>4 DEF Progress

LEMMA DropAsks ==
    ASSUME IInv, AskInv, NEW t \in Threads, NEW r \in Requests, Drop(t, r)
    PROVE  AskInv'
<1>1. /\ At(t, "drop", r) /\ refs' = [refs EXCEPT ![r] = @ \ {t}]
      /\ UNCHANGED <<queue, mutex, op, status, dnsCache>>
      /\ Then(t, <<Do("destroy", r)>>) \/ Then(t, <<>>)
    BY DEF Drop
<1>2. t \in refs[r]
    BY <1>1, SharesTop DEF Sharing
<1>3. \A x \in Requests \ {r} : refs'[x] = refs[x] /\ op'[x] = op[x]
    BY <1>1 DEF IInv, TypeOK
<1>4. OthersKept(t) => Elsewhere(t)
    BY <1>1, <1>2, <1>3, Untouched
<1> QED
    BY <1>1, <1>4, AskPops, AskTurns DEF FrameOps

LEMMA DestroyAndRetryAsks ==
    ASSUME AskersApart, IInv, AskInv, NEW t \in Threads, NEW r \in Requests,
           DestroyAndRetry(t, r)
    PROVE  AskInv'
<1>1. /\ At(t, "destroy", r) /\ Then(t, <<Do("completed", r)>>) /\ r \in Retrying
      /\ UNCHANGED <<queue, mutex, refs, op, status, dnsCache>>
    BY DEF DestroyAndRetry, ShouldRetry
<1>2. OthersKept(t) => Elsewhere(t)
    BY <1>1, Untouched
<1>3. r \notin Curious
    BY <1>1 DEF AskersApart
<1> QED
    BY <1>1, <1>2, <1>3, AskTurns DEF FrameOps

LEMMA DeletionAsks ==
    ASSUME IInv, AskInv, NEW t \in Threads, NEW r \in Requests,
           DestroyAndDelete(t, r) \/ DeleteDrained(t, r)
    PROVE  AskInv'
<1>1. UNCHANGED <<queue, mutex, refs, op, dnsCache>> /\ status' = [status EXCEPT ![r] = "done"]
    BY DEF DestroyAndDelete, DeleteDrained, DeleteRequest
<1>2. \A x \in Requests : status'[x] = "new" => status[x] = "new"
    BY <1>1 DEF IInv, TypeOK
<1>3. OthersKept(t) => Elsewhere(t)
    BY <1>1, <1>2, Untouched, ClientAssumption
<1>4. "handler" \notin {"send", "run", "query", "completed", "progress"} /\ "handler" \in FrameOps
      /\ "completed" \notin Starting \cup {"send"} /\ "completed" \in FrameOps
      /\ NoRequest \notin Curious
    BY ClientAssumption DEF Starting, FrameOps
<1>5. CASE At(t, "destroy", r) /\ Then(t, HandlerFrames(r) \o <<Do("completed", NoRequest)>>)
    <2>1. CASE r \in owners
        <3>1. Do("handler", r) \in Frame /\ Do("completed", NoRequest) \in Frame
            BY FrameType DEF FrameOps
        <3>2. Then(t, <<Do("handler", r), Do("completed", NoRequest)>>)
            BY <1>5, <2>1, <3>1, OneAboveOther DEF HandlerFrames
        <3> QED
            BY <1>3, <1>4, <1>5, <3>2, AskGrows
    <2>2. CASE r \notin owners
        <3>1. HandlerFrames(r) \o <<Do("completed", NoRequest)>> = <<Do("completed", NoRequest)>>
            BY <2>2 DEF HandlerFrames
        <3>2. Then(t, <<Do("completed", NoRequest)>>)
            BY <1>5, <3>1
        <3> QED
            BY <1>3, <1>4, <1>5, <3>2, AskTurns
    <2> QED
        BY <2>1, <2>2
<1>6. CASE At(t, "delete", r) /\ Then(t, HandlerFrames(r))
    <2>1. Then(t, <<Do("handler", r)>>) \/ Then(t, <<>>)
        BY <1>6 DEF HandlerFrames
    <2> QED
        BY <1>3, <1>4, <1>6, <2>1, AskPops, AskTurns
<1> QED
    BY <1>5, <1>6 DEF DestroyAndDelete, DeleteDrained

\* The completion handler is not called with the mutex held.
LEMMA HandlerAsks ==
    ASSUME IInv, AskInv, NEW t \in Threads, NEW r \in Requests, Handler(t, r)
    PROVE  AskInv'
<1>1. At(t, "handler", r) /\ UNCHANGED <<queue, mutex, refs, op, dnsCache>>
    BY DEF Handler
<1>2. CASE Then(t, <<>>) /\ UNCHANGED status
    <2>1. OthersKept(t) => Elsewhere(t)
        BY <1>1, <1>2, Untouched
    <2> QED
        BY <1>1, <1>2, <2>1, AskPops
<1>3. CASE r \in Curious /\ Then(t, <<Do("query", r)>>) /\ UNCHANGED status
    <2>1. OthersKept(t) => Elsewhere(t)
        BY <1>1, <1>3, Untouched
    <2>2. PICK n : OnTop(t, n, "handler", r)
        BY <1>1, TopFrame DEF IInv
    <2>3. mutex # t
        <3> SUFFICES ASSUME mutex = t
                     PROVE  FALSE
            OBVIOUS
        <3>1. PICK d \in Depths(t) : OpAt(t, d) = "unlock"
            BY DEF IInv, MutexKept
        <3>2. d < n
            BY <2>2, <3>1 DEF OnTop
        <3> QED
            BY <2>2, <3>1, <3>2 DEF OnTop, IInv, MutexKept
    <2> QED
        BY <1>1, <1>3, <2>1, <2>3, AskTurns DEF FrameOps
<1>4. ASSUME NEW x \in Requests, status[x] = "new", status' = [status EXCEPT ![x] = "sent"],
             Then(t, <<Do("send", x)>>)
      PROVE  AskInv'
    <2>1. \A y \in Requests : status'[y] = "new" => status[y] = "new"
        BY <1>4 DEF IInv, TypeOK
    <2>2. OthersKept(t) => Elsewhere(t)
        BY <1>1, <2>1, Untouched, ClientAssumption
    <2>3. NotRun(x)
        BY <1>4 DEF NotRun
    <2> QED
        BY <1>1, <1>4, <2>2, <2>3, AskTurns DEF FrameOps
<1> QED
    BY <1>2, <1>3, <1>4 DEF Handler

LEMMA DestructorAsks ==
    ASSUME IInv, AskInv, NEW t \in Threads, Join(t) \/ DestroyMembers(t)
    PROVE  AskInv'
<1>1. UNCHANGED <<queue, mutex, refs, op, status, dnsCache>>
    BY DEF Join, DestroyMembers
<1>2. OthersKept(t) => Elsewhere(t)
    BY <1>1, Untouched
<1>3. CASE At(t, "join", NoRequest) /\ Then(t, <<>>)
    BY <1>2, <1>3, AskPops
<1>4. CASE At(t, "members", NoRequest) /\ Then(t, <<Do("unwind", NoRequest)>>)
    BY <1>2, <1>4, AskTurns DEF FrameOps
<1> QED
    BY <1>3, <1>4 DEF Join, DestroyMembers

LEMMA UnwindAsks ==
    ASSUME IInv, AskInv, NEW t \in Threads, Unwind(t)
    PROVE  AskInv'
<1>1. At(t, "unwind", NoRequest) /\ UNCHANGED <<queue, mutex, status, dnsCache>>
    BY DEF Unwind
<1>2. ASSUME NEW r \in Requests, op[r] # "none", op' = [op EXCEPT ![r] = "none"],
             refs' = [refs EXCEPT ![r] = {}],
             Then(t, <<Do("destroy", r), Do("unwind", NoRequest)>>)
      PROVE  AskInv'
    <2>1. \A x \in Requests \ {r} : refs'[x] = refs[x] /\ op'[x] = op[x]
        BY <1>2 DEF IInv, TypeOK
    <2>2. OthersKept(t) => Elsewhere(t)
        BY <1>1, <1>2, <2>1, Untouched
    <2>3. /\ "unwind" \notin Starting \cup {"send"} /\ "unwind" \in FrameOps
          /\ "destroy" \in FrameOps
        BY DEF Starting, FrameOps
    <2> QED
        BY <1>1, <1>2, <2>2, <2>3, AskGrows
<1>3. CASE Then(t, <<>>) /\ UNCHANGED <<op, refs>>
    <2>1. OthersKept(t) => Elsewhere(t)
        BY <1>1, <1>3, Untouched
    <2> QED
        BY <1>1, <1>3, <2>1, AskPops
<1> QED
    BY <1>2, <1>3 DEF Unwind

LEMMA SwapAsks ==
    ASSUME IInv, AskInv, NEW t \in Threads, Swap(t)
    PROVE  AskInv'
<1>1. PICK n : n = Len(stack[t])
    OBVIOUS
<1>2. PICK m, f : m = Len(queue) /\ f = [k \in 1..m |-> Do("delete", queue[k].r)]
    OBVIOUS
<1>3. TypeOK /\ At(t, "swap", NoRequest) /\ stack[t] # <<>> /\ OnTop(t, n, "swap", NoRequest)
    BY <1>1, TopFrame DEF IInv, Swap, At
<1>4. m \in Nat /\ \A k \in 1..m : f[k] \in Frame /\ f[k].op = "delete"
    <2>1. m \in Nat /\ \A k \in 1..m : queue[k] \in Entry
        BY <1>3, <1>2, ElementOfSeq, LenProperties DEF TypeOK
    <2>2. \A k \in 1..m : queue[k].r \in Requests
        BY <2>1 DEF Entry
    <2> QED
        BY <1>2, <2>1, <2>2, FrameType DEF FrameOps
<1>5. f \in Seq(Frame) /\ Len(f) = m
    <2>1. f \in [1..m -> Frame]
        BY <1>4, <1>2
    <2> QED
        BY <1>4, <2>1, SeqDef, LenProperties
<1>6. /\ KeptBelow(t, n) /\ n \in Nat /\ n >= 1 /\ Depths(t) = 1..n
      /\ Depths(t)' = 1..(n - 1 + m)
      /\ \A k \in 1..m : FrameAt(stack'[t], n - 1 + k) = f[m + 1 - k]
    <2>1. Then(t, f)
        BY <1>2 DEF Swap
    <2> QED
        BY <1>1, <1>3, <1>5, <2>1, Replaced
<1>7. OthersKept(t) /\ \A d \in Depths(t) \ {n} : Stays(t, d)
    BY <1>3, <1>6, BelowStays
<1>8. ASSUME NEW d \in Depths(t)' \ (Depths(t) \ {n})
      PROVE  Comes(t, d)
    <2>1. PICK k \in 1..m : d = n - 1 + k /\ m + 1 - k \in 1..m
        <3>1. d - n + 1 \in 1..m /\ d = n - 1 + (d - n + 1) /\ m + 1 - (d - n + 1) \in 1..m
            BY <1>4, <1>6
        <3> QED
            BY <3>1
    <2>2. OpAt(t, d)' = "delete"
        BY <1>4, <1>6, <2>1 DEF OpAt
    <2> QED
        BY <2>2 DEF Comes, Starting
<1>9. Waiting(queue') = {}
    BY EmptySeq DEF Swap, Waiting
<1>10. Elsewhere(t)
    BY <1>7, <1>9, Untouched DEF Swap
<1> QED
    BY <1>7, <1>8, <1>10, AskStep

\* An io thread runs a handler.
LEMMA HandleAsks ==
    ASSUME AskersApart, IInv, AskInv, NEW t \in Threads, NEW r \in Requests,
           HandleResolve(t, r) \/ HandleTransfer(t, r)
    PROVE  AskInv'
<1>1. /\ t \in IoThreads /\ stack[t] = <<>> /\ op[r] # "none"
      /\ op' = [op EXCEPT ![r] = "none"]
      /\ refs' = [refs EXCEPT ![r] = (@ \ {Op}) \cup {t}]
      /\ UNCHANGED <<queue, mutex, status>>
    BY DEF HandleResolve, HandleTransfer, RunHandler
<1>2. TypeOK /\ \A x \in Requests \ {r} : refs'[x] = refs[x] /\ op'[x] = op[x]
    BY <1>1 DEF IInv, TypeOK
<1>3. mutex # t
    BY <1>1, <1>2, Idle DEF IInv, MutexKept
<1>4. ~NotRun(r)
    <2>1. refs[r] # {} /\ status[r] = "sent" /\ r \notin Waiting(queue) /\ r # NoRequest
        BY <1>1, ClientAssumption DEF IInv, SharesKept, LineOwns
    <2>2. ASSUME NEW u \in Threads, NEW d \in Depths(u), ReqAt(u, d) = r,
                 OpAt(u, d) \in {"send", "run"}
          PROVE  FALSE
        BY <1>1, <2>1, <2>2 DEF IInv, FramesOwn, Owning, AskInv, RunAlone
    <2> QED
        BY <2>1, <2>2 DEF NotRun
<1>5. dnsCache' \subseteq dnsCache \cup {HostOf[r]}
    BY DEF HandleResolve, HandleTransfer
<1>6. ASSUME NEW x \in Curious, NotRun(x), HostOf[x] \notin dnsCache
      PROVE  HostOf[x] \notin dnsCache'
    <2>1. HostOf[r] # HostOf[x]
        BY <1>4, <1>6 DEF AskersApart
    <2> QED
        BY <1>5, <1>6, <2>1
<1>7. OthersKept(t) => Elsewhere(t)
    BY <1>1, <1>2, <1>6 DEF Elsewhere, NotRun
<1>8. CASE stack' = [stack EXCEPT ![t] =
                        <<Do("progress", r), Do("connect", r), Do("drop", r)>>]
    <2>1. /\ Depths(t)' = {1, 2, 3} /\ OthersKept(t)
          /\ OpAt(t, 1)' = "drop" /\ OpAt(t, 2)' = "connect" /\ OpAt(t, 3)' = "progress"
        BY <1>1, <1>2, <1>8, FilledWithHandler
    <2>2. Comes(t, 1) /\ Comes(t, 2) /\ Comes(t, 3)
        BY <1>1, <1>3, <2>1 DEF Comes, Starting
    <2> QED
        BY <1>7, <2>1, <2>2, AskStep
<1>9. CASE stack' = [stack EXCEPT ![t] = <<Do("drop", r)>>]
    <2>1. Depths(t)' = {1} /\ OthersKept(t) /\ OpAt(t, 1)' = "drop"
        BY <1>1, <1>2, <1>9, FilledWithOne DEF FrameOps
    <2>2. Comes(t, 1)
        BY <2>1 DEF Comes, Starting
    <2> QED
        BY <1>7, <2>1, <2>2, AskStep
<1> QED
    BY <1>8, <1>9 DEF HandleResolve, HandleTransfer

LEMMA CallAsks ==
    ASSUME IInv, AskInv, NEW t \in Threads, CallDestroy(t) \/ \E r \in Requests : CallSend(t, r)
    PROVE  AskInv'
<1>1. TypeOK /\ stack[t] = <<>> /\ UNCHANGED <<queue, mutex, refs, op, dnsCache>>
    <2>1. CASE CallDestroy(t)
        BY <2>1, ClientAssumption DEF IInv, CallDestroy
    <2>2. ASSUME NEW r \in Requests, CallSend(t, r)
          PROVE  TypeOK /\ stack[t] = <<>> /\ UNCHANGED <<queue, mutex, refs, op, dnsCache>>
        BY <2>2 DEF IInv, CallSend
    <2> QED
        BY <2>1, <2>2
<1>2. \A x \in Requests : status'[x] = "new" => status[x] = "new"
    <2>1. CASE UNCHANGED status
        BY <2>1
    <2>2. ASSUME NEW r \in Requests, status' = [status EXCEPT ![r] = "sent"]
          PROVE  \A x \in Requests : status'[x] = "new" => status[x] = "new"
        BY <2>2 DEF IInv, TypeOK
    <2> QED
        BY <2>1, <2>2 DEF CallDestroy, CallSend
<1>3. OthersKept(t) => Elsewhere(t)
    BY <1>1, <1>2, Untouched, ClientAssumption
<1>4. ASSUME NEW r \in Requests, CallSend(t, r)
      PROVE  AskInv'
    <2>1. /\ Depths(t)' = {1} /\ OthersKept(t)
          /\ OpAt(t, 1)' = "send" /\ ReqAt(t, 1)' = r
        BY <1>1, <1>4, FilledWithOne DEF FrameOps, CallSend
    <2>2. NotRun(r)
        BY <1>4 DEF CallSend, NotRun
    <2>3. Comes(t, 1)
        BY <2>1, <2>2 DEF Comes, Starting
    <2> QED
        BY <1>3, <2>1, <2>3, AskStep
<1>5. CASE CallDestroy(t)
    <2>1. /\ Depths(t)' = {1, 2, 3} /\ OthersKept(t)
          /\ OpAt(t, 1)' = "members" /\ OpAt(t, 2)' = "join" /\ OpAt(t, 3)' = "swap"
        BY <1>1, <1>5, FilledWithDestructor DEF CallDestroy
    <2>2. Comes(t, 1) /\ Comes(t, 2) /\ Comes(t, 3)
        BY <2>1 DEF Comes, Starting
    <2> QED
        BY <1>3, <2>1, <2>2, AskStep
<1> QED
    BY <1>4, <1>5

LEMMA QuietAsks ==
    ASSUME AskInv,
           \/ \E t \in Threads : UseAfterDestruction(t)
           \/ \E r \in Requests : Expire(r)
           \/ UNCHANGED vars
    PROVE  AskInv'
<1>1. UNCHANGED <<queue, mutex, stack, refs, op, status, dnsCache>>
    BY DEF UseAfterDestruction, Expire, vars
<1> QED
    BY <1>1 DEF AskInv, StartingOnTop, RunAlone, CompletedAnswered, Unresolved, NotRun,
                AskedOutside, Depths, OpAt, ReqAt

LEMMA InitAskInv == Init => AskInv
<1> SUFFICES ASSUME Init
             PROVE  AskInv
    OBVIOUS
<1>1. \A t \in Threads : Depths(t) = {}
    BY EmptySeq DEF Init, Depths
<1> QED
    BY <1>1 DEF Init, AskInv, StartingOnTop, RunAlone, CompletedAnswered, Unresolved, AskedOutside

LEMMA NextAskInv ==
    ASSUME AskersApart
    PROVE  IInv /\ AskInv /\ [Next]_vars => AskInv'
<1> SUFFICES ASSUME IInv, AskInv, [Next]_vars
             PROVE  AskInv'
    OBVIOUS
<1>1. ASSUME NEW t \in Threads, NEW r \in Requests,
             \/ Enqueue(t, r)
             \/ CompletedRetry(t, r)
             \/ Unlock(t, r)
             \/ Run(t, r)
             \/ Progress(t, r)
             \/ Query(t, r)
      PROVE  AskInv'
    BY <1>1, EnqueueAsks, CompletedRetryAsks, UnlockAsks, RunResolvedAsks, PopAsks,
       ProgressAsks DEF Run
<1>2. ASSUME NEW t \in Threads, NEW r \in Requests,
             \/ Connect(t, r)
             \/ Drop(t, r)
             \/ DestroyAndRetry(t, r)
             \/ DestroyAndDelete(t, r)
             \/ Handler(t, r)
             \/ DeleteDrained(t, r)
      PROVE  AskInv'
    BY <1>2, PopAsks, DropAsks, DestroyAndRetryAsks, DeletionAsks, HandlerAsks
<1>3. ASSUME NEW t \in Threads,
             \/ CompletedNext(t)
             \/ Swap(t)
             \/ Join(t)
             \/ DestroyMembers(t)
             \/ Unwind(t)
             \/ UseAfterDestruction(t)
             \/ CallDestroy(t)
      PROVE  AskInv'
    BY <1>3, CompletedNextAsks, SwapAsks, DestructorAsks, UnwindAsks, QuietAsks, CallAsks
<1>4. ASSUME NEW t \in Threads, NEW r \in Requests,
             HandleResolve(t, r) \/ HandleTransfer(t, r) \/ CallSend(t, r)
      PROVE  AskInv'
    BY <1>4, HandleAsks, CallAsks
<1>5. CASE \E r \in Requests : Expire(r)
    BY <1>5, QuietAsks
<1>6. CASE UNCHANGED vars
    BY <1>6, QuietAsks
<1> QED
    BY <1>1, <1>2, <1>3, <1>4, <1>5, <1>6 DEF Next, ThreadStep, IoStep, Finished

\* If callbacks ask how much is pending only for requests whose addresses are not
\* known when they start, no thread ever comes to a lock of requestQueueMutex that
\* it holds: `s' is declared before the lock, and onResolve calls the user's
\* progress callback under the mutex only when the addresses are known.
THEOREM MutexNotTakenTwice ==
    ASSUME AskersApart
    PROVE  Spec => []NoSelfDeadlock
<1>1. ASSUME IInv, AskInv, NEW t \in Threads, stack[t] # <<>>,
             Head(stack[t]).op \in {"send", "completed", "query", "swap"}, mutex = t
      PROVE  FALSE
    <2>1. PICK n : n = Len(stack[t])
        OBVIOUS
    <2>2. stack[t] \in Seq(Frame)
        BY <1>1 DEF IInv, TypeOK
    <2>3. n \in Nat /\ n >= 1 /\ FrameAt(stack[t], n) = Head(stack[t])
        BY <1>1, <2>1, <2>2, ReplaceTop, EmptySeq
    <2>4. /\ n \in Depths(t) /\ \A d \in Depths(t) : d \in Nat /\ d <= n
          /\ OpAt(t, n) \in {"send", "completed", "query", "swap"}
        BY <1>1, <2>1, <2>3 DEF Depths, OpAt
    <2>5. PICK d \in Depths(t) : OpAt(t, d) = "unlock"
        BY <1>1 DEF IInv, MutexKept
    <2>6. d < n
        <3>1. d # n
            BY <2>4, <2>5
        <3> QED
            BY <2>3, <2>4, <3>1
    <2>7. OpAt(t, n) \in {"run", "progress", "connect", "query"}
        BY <1>1, <2>4, <2>5, <2>6 DEF IInv, MutexKept
    <2>8. OpAt(t, n) # "query"
        BY <1>1, <2>4 DEF AskInv, AskedOutside
    <2> QED
        BY <2>4, <2>7, <2>8
<1>2. IInv /\ AskInv => NoSelfDeadlock
    BY <1>1 DEF NoSelfDeadlock
<1>3. IInv /\ AskInv /\ [Next]_vars => AskInv'
    BY NextAskInv
<1> QED
    BY <1>2, <1>3, InitAskInv, Invariance, PTL DEF Spec

-----------------------------------------------------------------------------
(* The refinement.                                                         *)

\* The scheduler inserts into its line as the client does.
LEMMA SameInsert ==
    ASSUME NEW q, NEW r, NEW priority
    PROVE  Sched!Insert(q, r, priority) = Insert(q, r, priority)
BY DEF Sched!Insert, Insert, Sched!Position, Position, Sched!Low, Low

\* A critical section of the client is a step of the scheduler, and no other step
\* touches the line or the counter.
LEMMA StepIsScheduled ==
    IInv /\ [Next]_vars => [Sched!SchedulerNext]_(Sched!schedulerVars)
<1> SUFFICES ASSUME IInv, [Next]_vars
             PROVE  Sched!SchedulerNext \/ UNCHANGED <<queue, inFlight>>
    BY DEF Sched!schedulerVars
<1>1. ASSUME NEW t \in Threads, NEW r \in Requests, Enqueue(t, r)
      PROVE  Sched!SchedulerNext
    <2>1. PICK n : n = Len(stack[t])
        OBVIOUS
    <2>2. OnTop(t, n, "send", r)
        BY <1>1, <2>1, TopFrame DEF IInv, Enqueue
    <2>3. r \notin Waiting(queue)
        BY <2>2, ClientAssumption DEF IInv, FramesOwn, OnTop, Owning
    <2>4. PICK priority \in Priorities : PostNext(t, Insert(queue, r, priority), inFlight)
        BY <1>1 DEF Enqueue
    <2>5. Sched!PostNext(Insert(queue, r, priority), inFlight)
        BY <2>4 DEF PostNext, Sched!PostNext
    <2>6. priority \in Sched!Priority
        BY ClientAssumption DEF Priority, Sched!Priority, Low, Medium, High, Sched!Low,
           Sched!Medium, Sched!High
    <2>7. Sched!SendRequest(r, priority)
        BY <2>3, <2>5, SameInsert DEF Sched!SendRequest, Sched!Waiting, Waiting
    <2> QED
        BY <2>6, <2>7 DEF Sched!SchedulerNext
<1>2. ASSUME NEW t \in Threads, CompletedNext(t)
      PROVE  Sched!SchedulerNext
    <2>1. PICK n : n = Len(stack[t])
        OBVIOUS
    <2>2. OnTop(t, n, "completed", NoRequest)
        BY <1>2, <2>1, TopFrame DEF IInv, CompletedNext
    <2>3. inFlight > 0
        BY <2>2, SlotToFree
    <2>4. Sched!PostNext(queue, inFlight - 1)
        BY <1>2 DEF CompletedNext, PostNext, Sched!PostNext
    <2> QED
        BY <2>3, <2>4 DEF Sched!SchedulerNext, Sched!Completed
<1>3. ASSUME NEW t \in Threads, Swap(t)
      PROVE  Sched!SchedulerNext
    BY <1>3 DEF Swap, Sched!SchedulerNext, Sched!Drain
<1>4. ASSUME NEW t \in Threads, NEW r \in Requests,
             \/ CompletedRetry(t, r)
             \/ Unlock(t, r)
             \/ Run(t, r)
             \/ Progress(t, r)
             \/ Query(t, r)
             \/ Connect(t, r)
             \/ Drop(t, r)
      PROVE  UNCHANGED <<queue, inFlight>>
    BY <1>4 DEF CompletedRetry, Unlock, Run, RunFake, RunResolved, RunResolve, Progress,
       Query, Connect, Drop
<1>5. ASSUME NEW t \in Threads, NEW r \in Requests,
             \/ DestroyAndRetry(t, r)
             \/ DestroyAndDelete(t, r)
             \/ Handler(t, r)
             \/ DeleteDrained(t, r)
             \/ HandleResolve(t, r)
             \/ HandleTransfer(t, r)
             \/ CallSend(t, r)
             \/ Expire(r)
      PROVE  UNCHANGED <<queue, inFlight>>
    BY <1>5 DEF DestroyAndRetry, DestroyAndDelete, Handler, DeleteDrained, HandleResolve,
       HandleTransfer, CallSend, Expire
<1>6. ASSUME NEW t \in Threads,
             \/ Join(t)
             \/ DestroyMembers(t)
             \/ Unwind(t)
             \/ UseAfterDestruction(t)
             \/ CallDestroy(t)
      PROVE  UNCHANGED <<queue, inFlight>>
    BY <1>6 DEF Join, DestroyMembers, Unwind, UseAfterDestruction, CallDestroy
<1>7. CASE UNCHANGED vars
    BY <1>7 DEF vars
<1>8. CASE \E r \in Requests : Expire(r)
    BY <1>8 DEF Expire
<1> QED
    BY <1>1, <1>2, <1>3, <1>4, <1>5, <1>6, <1>7, <1>8 DEF Next, ThreadStep, IoStep, Finished

\* Client implements Scheduler: behind requestQueueMutex it is a line and a counter.
THEOREM IsScheduler == Spec => ImplementsScheduler
<1>1. Init => Sched!SchedulerInit
    BY DEF Init, Sched!SchedulerInit
<1> QED
    BY <1>1, StepIsScheduled, Invariance, PTL DEF Spec, ImplementsScheduler,
       Sched!SchedulerSpec

\* The scheduler never leaves a slot free while a request waits.
LEMMA StaysBusy ==
    ASSUME IInv, [Next]_vars, Sched!WorkConserving
    PROVE  Sched!WorkConserving'
<1>1. /\ queue \in Seq(Entry) /\ inFlight \in Nat /\ MaxInFlight \in Nat
      /\ queue # <<>> => inFlight >= MaxInFlight
    BY ClientAssumption DEF IInv, TypeOK, Sched!WorkConserving
<1>2. ASSUME NEW r \in Requests, NEW priority \in Sched!Priority,
             Sched!SendRequest(r, priority)
      PROVE  queue' # <<>> => inFlight' >= MaxInFlight
    <2>1. priority \in Priority
        BY DEF Priority, Sched!Priority, Low, Medium, High, Sched!Low, Sched!Medium, Sched!High
    <2>2. PICK q : q = Insert(queue, r, priority)
        OBVIOUS
    <2>3. Sched!PostNext(q, inFlight)
        BY <1>2, <2>2, SameInsert DEF Sched!SendRequest
    <2>4. q \in Seq(Entry) /\ q # <<>> /\ Len(q) = Len(queue) + 1
        BY <1>1, <2>1, <2>2, InsertWaits
    <2>5. CASE queue = <<>>
        <3>1. Len(q) = 1
            BY <2>4, <2>5
        <3>2. Tail(q) \in Seq(Entry) /\ Len(Tail(q)) = 0
            BY <2>4, <3>1, HeadTailProperties
        <3>3. Tail(q) = <<>>
            BY <3>2, EmptySeq
        <3> QED
            BY <1>1, <2>3, <2>4, <3>3 DEF Sched!PostNext
    <2>6. CASE queue # <<>>
        BY <1>1, <2>3, <2>6 DEF Sched!PostNext
    <2> QED
        BY <2>5, <2>6
<1>3. ASSUME Sched!Completed
      PROVE  queue' # <<>> => inFlight' >= MaxInFlight
    BY <1>1, <1>3 DEF Sched!Completed, Sched!PostNext
<1>4. CASE Sched!Drain
    BY <1>4 DEF Sched!Drain, Sched!WorkConserving
<1>5. CASE UNCHANGED <<queue, inFlight>>
    BY <1>1, <1>5 DEF Sched!WorkConserving
<1>6. Sched!SchedulerNext \/ UNCHANGED <<queue, inFlight>>
    BY StepIsScheduled DEF Sched!schedulerVars
<1> QED
    BY <1>2, <1>3, <1>4, <1>5, <1>6 DEF Sched!SchedulerNext, Sched!WorkConserving

\* If ~Client comes to its end without using a member after its destruction, and the
\* client may send anything at all, every request it was given is answered: had one
\* been left in the line, a socket would have been in flight, and its destructor
\* would have asked for the mutex.
THEOREM EndIsClean ==
    ASSUME MaxInFlight > 0
    PROVE  Spec => []GoneClean
<1>1. ASSUME IInv, Sched!WorkConserving, life = "gone", NEW r \in Requests, status[r] = "sent"
      PROVE  FALSE
    <2>1. /\ \A t \in Threads : Depths(t) = {}
          /\ \A x \in Requests : op[x] = "none"
        BY <1>1 DEF IInv, NobodyWorks
    <2>2. \A x \in Requests : refs[x] = {}
        <3>1. \A x \in Requests : refs[x] \subseteq Threads \cup {Op}
            BY <1>1 DEF IInv, TypeOK
        <3>2. \A x \in Requests : Op \notin refs[x]
            BY <1>1, <2>1 DEF IInv, SharesKept
        <3>3. \A x \in Requests : \A t \in Threads : t \notin refs[x]
            BY <1>1, <2>1 DEF IInv, SharesKept
        <3> QED
            BY <3>1, <3>2, <3>3
    <2>3. LiveSockets = {} /\ FramesDoing(Ending) = {}
        BY <2>1, <2>2, FramesView DEF LiveSockets
    <2>4. inFlight = Cardinality(LiveSockets) + Cardinality(FramesDoing(Ending))
        BY <1>1 DEF IInv, Counted, InFlightExact, Ending
    <2>5. inFlight = 0
        BY <2>3, <2>4, FS_EmptySet
    <2>6. queue = <<>>
        BY <1>1, <2>5, ClientAssumption DEF Sched!WorkConserving
    <2>7. Waiting(queue) = {}
        BY <2>6 DEF Waiting
    <2> QED
        BY <1>1, <2>1, <2>2, <2>7 DEF IInv, SomeOwner
<1>2. IInv /\ Sched!WorkConserving => GoneClean
    BY <1>1 DEF GoneClean
<1>3. Init => Sched!WorkConserving
    BY DEF Init, Sched!WorkConserving
<1>4. IInv /\ [Next]_vars /\ Sched!WorkConserving => Sched!WorkConserving'
    BY StaysBusy
<1> QED
    BY <1>2, <1>3, <1>4, Invariance, PTL DEF Spec
===============================================================================
