----------------------------- MODULE ClientSteps ------------------------------
(***************************************************************************)
(* Every kind of step keeps the inductive invariant of the client.         *)
(*                                                                         *)
(* A step does one of four things to a stack: the top frame goes, turns    *)
(* into another, turns into two, or an idle thread gets its first frames   *)
(* (Pops, Turns, Grows, Fills). Each lemma describes a step by what it     *)
(* does to the top frame and to the few variables the invariant is about;  *)
(* ClientProofs shows which action takes which step.                       *)
(***************************************************************************)
EXTENDS ClientFrames, PriorityQueueProofs, FiniteSetTheorems

-----------------------------------------------------------------------------
(* What a step does to a stack.                                            *)

\* A frame is an operation and a request.
LEMMA FrameType ==
    ASSUME NEW o \in FrameOps, NEW r \in Requests \cup {NoRequest}
    PROVE  Do(o, r) \in Frame /\ Do(o, r).op = o /\ Do(o, r).r = r
BY DEF Do, Frame

\* The frames below the top one stay where they are, the new ones come above.
LEMMA ReplaceTop ==
    ASSUME NEW s \in Seq(Frame), s # <<>>, NEW f \in Seq(Frame)
    PROVE  /\ f \o Tail(s) \in Seq(Frame)
           /\ Len(s) \in Nat /\ Len(s) >= 1 /\ Len(f) \in Nat
           /\ Len(f \o Tail(s)) = Len(s) - 1 + Len(f)
           /\ FrameAt(s, Len(s)) = Head(s)
           /\ \A d \in 1..(Len(s) - 1) : FrameAt(f \o Tail(s), d) = FrameAt(s, d)
           /\ \A k \in 1..Len(f) : FrameAt(f \o Tail(s), Len(s) - 1 + k) = f[Len(f) + 1 - k]
<1>1. /\ Len(s) \in Nat /\ Len(s) # 0 /\ Len(f) \in Nat
      /\ Tail(s) \in Seq(Frame) /\ Len(Tail(s)) = Len(s) - 1
      /\ \A i \in 1..Len(Tail(s)) : Tail(s)[i] = s[i + 1]
    BY LenProperties, EmptySeq, HeadTailProperties
<1>2. /\ f \o Tail(s) \in Seq(Frame)
      /\ Len(f \o Tail(s)) = Len(f) + Len(Tail(s))
      /\ \A i \in 1..Len(f) + Len(Tail(s)) : (f \o Tail(s))[i] =
             IF i <= Len(f) THEN f[i] ELSE Tail(s)[i - Len(f)]
    BY <1>1, ConcatProperties
<1>3. FrameAt(s, Len(s)) = Head(s)
    BY <1>1 DEF FrameAt
<1>4. ASSUME NEW d \in 1..(Len(s) - 1)
      PROVE  FrameAt(f \o Tail(s), d) = FrameAt(s, d)
    <2> DEFINE i == Len(f \o Tail(s)) + 1 - d
    <2>1. i \in 1..Len(f) + Len(Tail(s)) /\ i > Len(f) /\ i - Len(f) = Len(s) - d
        BY <1>1, <1>2
    <2>2. Len(s) - d \in 1..Len(Tail(s)) /\ Len(s) - d + 1 = Len(s) + 1 - d
        BY <1>1
    <2> HIDE DEF i
    <2>3. (f \o Tail(s))[i] = Tail(s)[Len(s) - d]
        BY <1>1, <1>2, <2>1
    <2>4. Tail(s)[Len(s) - d] = s[Len(s) + 1 - d]
        BY <1>1, <2>2
    <2> QED
        BY <2>3, <2>4 DEF FrameAt, i
<1>5. ASSUME NEW k \in 1..Len(f)
      PROVE  FrameAt(f \o Tail(s), Len(s) - 1 + k) = f[Len(f) + 1 - k]
    <2>1. Len(f \o Tail(s)) + 1 - (Len(s) - 1 + k) = Len(f) + 1 - k
        BY <1>1, <1>2
    <2>2. Len(f) + 1 - k \in 1..Len(f)
        BY <1>1
    <2>3. (f \o Tail(s))[Len(f) + 1 - k] = f[Len(f) + 1 - k]
        BY <1>1, <1>2, <2>2
    <2> QED
        BY <2>1, <2>3 DEF FrameAt
<1> QED
    BY <1>1, <1>2, <1>3, <1>4, <1>5

\* The frames of thread t below depth n, and all frames of other threads, are
\* what they were.
KeptBelow(t, n) ==
    /\ \A u \in Threads \ {t} : Depths(u)' = Depths(u)
    /\ \A u \in Threads : \A d \in Depths(u) :
          u # t \/ d # n => OpAt(u, d)' = OpAt(u, d) /\ ReqAt(u, d)' = ReqAt(u, d)

\* Thread t, with n frames, is about to do o for r.
OnTop(t, n, o, r) ==
    /\ Depths(t) \subseteq Nat /\ n \in Depths(t)
    /\ OpAt(t, n) = o /\ ReqAt(t, n) = r
    /\ \A d \in Depths(t) : d <= n

\* The top frame is at the depth that is the length of the stack.
LEMMA TopFrame ==
    ASSUME TypeOK, NEW t \in Threads, NEW o, NEW r, At(t, o, r), NEW n, n = Len(stack[t])
    PROVE  OnTop(t, n, o, r)
<1>1. stack[t] \in Seq(Frame) /\ stack[t] # <<>>
    BY DEF TypeOK, At
<1>2. FrameAt(stack[t], n) = Head(stack[t]) /\ n \in Nat /\ n >= 1
    BY <1>1, ReplaceTop, EmptySeq
<1> QED
    BY <1>2 DEF At, OnTop, OpAt, ReqAt, Depths, Do

\* The frames of t are replaced from the top one on.
LEMMA Replaced ==
    ASSUME TypeOK, NEW t \in Threads, stack[t] # <<>>, NEW n, n = Len(stack[t]),
           NEW f \in Seq(Frame), Then(t, f)
    PROVE  /\ stack' \in [Threads -> Seq(Frame)]
           /\ KeptBelow(t, n)
           /\ n \in Nat /\ n >= 1 /\ Depths(t) = 1..n
           /\ Depths(t)' = 1..(n - 1 + Len(f))
           /\ \A k \in 1..Len(f) : FrameAt(stack'[t], n - 1 + k) = f[Len(f) + 1 - k]
<1>1. stack \in [Threads -> Seq(Frame)] /\ stack' = [stack EXCEPT ![t] = f \o Tail(stack[t])]
    BY DEF TypeOK, Then
<1>2. stack[t] \in Seq(Frame) /\ stack'[t] = f \o Tail(stack[t])
    BY <1>1
<1>3. /\ f \o Tail(stack[t]) \in Seq(Frame)
      /\ n \in Nat /\ n >= 1 /\ Len(f) \in Nat
      /\ Len(f \o Tail(stack[t])) = n - 1 + Len(f)
      /\ \A d \in 1..(n - 1) : FrameAt(f \o Tail(stack[t]), d) = FrameAt(stack[t], d)
      /\ \A k \in 1..Len(f) :
            FrameAt(f \o Tail(stack[t]), n - 1 + k) = f[Len(f) + 1 - k]
    BY <1>2, ReplaceTop
<1>4. stack' \in [Threads -> Seq(Frame)] /\ \A u \in Threads \ {t} : stack'[u] = stack[u]
    BY <1>1, <1>3
<1>5. \A d \in 1..(n - 1) : FrameAt(stack'[t], d) = FrameAt(stack[t], d)
    BY <1>2, <1>3
<1>6. \A d \in Depths(t) : d # n => d \in 1..(n - 1)
    BY <1>3 DEF Depths
<1>7. KeptBelow(t, n)
    BY <1>4, <1>5, <1>6 DEF KeptBelow, Depths, OpAt, ReqAt
<1> QED
    BY <1>2, <1>3, <1>4, <1>7 DEF Depths

\* Nothing takes the place of the top one ...
Pops(t, n) ==
    /\ stack' \in [Threads -> Seq(Frame)]
    /\ KeptBelow(t, n)
    /\ Depths(t)' = Depths(t) \ {n}

\* A top frame that leaves nothing to do is gone.
LEMMA Popped ==
    ASSUME TypeOK, NEW t \in Threads, stack[t] # <<>>, NEW n, n = Len(stack[t]),
           Then(t, <<>>)
    PROVE  Pops(t, n)
<1>1. PICK f \in Seq(Frame) : f = <<>> /\ Len(f) = 0
    BY EmptySeq
<1>2. Then(t, f)
    BY <1>1
<1>3. /\ stack' \in [Threads -> Seq(Frame)]
      /\ KeptBelow(t, n)
      /\ n \in Nat /\ n >= 1 /\ Depths(t) = 1..n
      /\ Depths(t)' = 1..(n - 1 + Len(f))
      /\ \A k \in 1..Len(f) : FrameAt(stack'[t], n - 1 + k) = f[Len(f) + 1 - k]
    BY <1>2, Replaced
<1> QED
    BY <1>1, <1>3 DEF Pops

\* ... or one frame ...
Turns(t, n, o, r) ==
    /\ stack' \in [Threads -> Seq(Frame)]
    /\ KeptBelow(t, n)
    /\ Depths(t)' = Depths(t)
    /\ OpAt(t, n)' = o /\ ReqAt(t, n)' = r

\* A top frame that leaves one thing to do becomes it.
LEMMA Turned ==
    ASSUME TypeOK, NEW t \in Threads, stack[t] # <<>>, NEW n, n = Len(stack[t]),
           NEW o \in FrameOps, NEW r \in Requests \cup {NoRequest}, Then(t, <<Do(o, r)>>)
    PROVE  Turns(t, n, o, r)
<1> DEFINE f == <<Do(o, r)>>
<1>1. f \in Seq(Frame) /\ Len(f) = 1 /\ f[1] = Do(o, r)
    BY FrameType
<1> HIDE DEF f
<1>2. Then(t, f)
    BY DEF f
<1>3. /\ stack' \in [Threads -> Seq(Frame)]
      /\ KeptBelow(t, n)
      /\ n \in Nat /\ n >= 1 /\ Depths(t) = 1..n
      /\ Depths(t)' = 1..(n - 1 + Len(f))
      /\ \A k \in 1..Len(f) : FrameAt(stack'[t], n - 1 + k) = f[Len(f) + 1 - k]
    BY <1>1, <1>2, Replaced
<1>4. FrameAt(stack'[t], n) = f[1] /\ Depths(t)' = Depths(t)
    BY <1>1, <1>3
<1>5. OpAt(t, n)' = o /\ ReqAt(t, n)' = r
    BY <1>1, <1>4, FrameType DEF OpAt, ReqAt
<1> QED
    BY <1>3, <1>4, <1>5 DEF Turns

\* ... or two, of which the second one is above the first.
Grows(t, n, o1, r1, o2, r2) ==
    /\ stack' \in [Threads -> Seq(Frame)]
    /\ KeptBelow(t, n)
    /\ Depths(t)' = Depths(t) \cup {n + 1}
    /\ OpAt(t, n)' = o1 /\ ReqAt(t, n)' = r1
    /\ OpAt(t, n + 1)' = o2 /\ ReqAt(t, n + 1)' = r2

\* A top frame that leaves two things to do becomes the second, under the first.
LEMMA Grown ==
    ASSUME TypeOK, NEW t \in Threads, stack[t] # <<>>, NEW n, n = Len(stack[t]),
           NEW o1 \in FrameOps, NEW r1 \in Requests \cup {NoRequest},
           NEW o2 \in FrameOps, NEW r2 \in Requests \cup {NoRequest},
           Then(t, <<Do(o2, r2), Do(o1, r1)>>)
    PROVE  Grows(t, n, o1, r1, o2, r2)
<1> DEFINE f == <<Do(o2, r2), Do(o1, r1)>>
<1>1. f \in Seq(Frame) /\ Len(f) = 2 /\ f[1] = Do(o2, r2) /\ f[2] = Do(o1, r1)
    BY FrameType
<1> HIDE DEF f
<1>2. Then(t, f)
    BY DEF f
<1>3. /\ stack' \in [Threads -> Seq(Frame)]
      /\ KeptBelow(t, n)
      /\ n \in Nat /\ n >= 1 /\ Depths(t) = 1..n
      /\ Depths(t)' = 1..(n - 1 + Len(f))
      /\ \A k \in 1..Len(f) : FrameAt(stack'[t], n - 1 + k) = f[Len(f) + 1 - k]
    BY <1>1, <1>2, Replaced
<1>4. /\ FrameAt(stack'[t], n - 1 + 1) = f[2]
      /\ FrameAt(stack'[t], n - 1 + 2) = f[1]
    BY <1>1, <1>3
<1>5. /\ FrameAt(stack'[t], n) = f[2]
      /\ FrameAt(stack'[t], n + 1) = f[1]
      /\ Depths(t)' = Depths(t) \cup {n + 1}
    BY <1>1, <1>3, <1>4
<1>6. OpAt(t, n)' = o1 /\ ReqAt(t, n)' = r1
    BY <1>1, <1>5, FrameType DEF OpAt, ReqAt
<1>7. OpAt(t, n + 1)' = o2 /\ ReqAt(t, n + 1)' = r2
    BY <1>1, <1>5, FrameType DEF OpAt, ReqAt
<1> QED
    BY <1>3, <1>5, <1>6, <1>7 DEF Grows

\* The frames of the other threads are what they were.
OthersKept(t) ==
    \A u \in Threads \ {t} :
        /\ Depths(u)' = Depths(u)
        /\ \A d \in Depths(u) : OpAt(u, d)' = OpAt(u, d) /\ ReqAt(u, d)' = ReqAt(u, d)

\* A thread that is idle gets its first frames.
Fills(t, f) ==
    /\ stack' \in [Threads -> Seq(Frame)]
    /\ OthersKept(t)
    /\ Depths(t) = {}
    /\ Depths(t)' = 1..Len(f)
    /\ \A k \in 1..Len(f) : FrameAt(stack'[t], k) = f[Len(f) + 1 - k]

\* What an idle thread is given are its frames.
LEMMA Filled ==
    ASSUME TypeOK, NEW t \in Threads, stack[t] = <<>>, NEW f \in Seq(Frame),
           stack' = [stack EXCEPT ![t] = f]
    PROVE  Fills(t, f)
<1>1. /\ stack \in [Threads -> Seq(Frame)]
      /\ stack' \in [Threads -> Seq(Frame)]
      /\ stack'[t] = f
      /\ \A u \in Threads \ {t} : stack'[u] = stack[u]
    BY DEF TypeOK
<1>2. Len(stack[t]) = 0
    BY EmptySeq
<1>3. Depths(t) = {} /\ Depths(t)' = 1..Len(f)
    BY <1>1, <1>2 DEF Depths
<1>4. OthersKept(t)
    BY <1>1 DEF OthersKept, Depths, OpAt, ReqAt
<1>5. ASSUME NEW k \in 1..Len(f)
      PROVE  FrameAt(stack'[t], k) = f[Len(f) + 1 - k]
    BY <1>1 DEF FrameAt
<1> QED
    BY <1>1, <1>3, <1>4, <1>5 DEF Fills

\* An idle thread has no frames.
LEMMA Idle ==
    ASSUME TypeOK, NEW t \in Threads
    PROVE  (stack[t] = <<>>) <=> (Depths(t) = {})
<1>1. stack[t] \in Seq(Frame)
    BY DEF TypeOK
<1>2. Len(stack[t]) \in Nat /\ (stack[t] # <<>> => Len(stack[t]) # 0) /\ Len(<<>>) = 0
    BY <1>1, EmptySeq, LenProperties
<1>3. CASE stack[t] = <<>>
    BY <1>2, <1>3 DEF Depths
<1>4. CASE stack[t] # <<>>
    <2>1. Len(stack[t]) \in 1..Len(stack[t])
        BY <1>2, <1>4
    <2> QED
        BY <1>4, <2>1 DEF Depths
<1> QED
    BY <1>3, <1>4

\* The frames that do one of these things, thread by thread.
LEMMA FramesView ==
    ASSUME NEW ops
    PROVE  FramesDoing(ops) =
              {f \in Threads \X Nat : f[2] \in Depths(f[1]) /\ OpAt(f[1], f[2]) \in ops}
BY DEF FramesDoing, Frames, Depths, OpAt

\* What becomes of the frames that stand for a slot.
LEMMA EndingView ==
    ASSUME NEW t \in Threads, NEW n, NEW o, NEW r, OnTop(t, n, o, r)
    PROVE  /\ <<t, n>> \in FramesDoing(Ending) <=> o \in Ending
           /\ <<t, n + 1>> \notin FramesDoing(Ending)
           /\ FramesDoing(Ending) =
                 {f \in Threads \X Nat : f[2] \in Depths(f[1]) /\ OpAt(f[1], f[2]) \in Ending}
           /\ FramesDoing(Ending)' =
                 {f \in Threads \X Nat : f[2] \in Depths(f[1])' /\ OpAt(f[1], f[2])' \in Ending}
           /\ n \in Nat /\ n \in Depths(t) /\ Depths(t) \subseteq Nat
           /\ \A d \in Depths(t) : d <= n
<1>1. FramesDoing(Ending) =
         {f \in Threads \X Nat : f[2] \in Depths(f[1]) /\ OpAt(f[1], f[2]) \in Ending}
    BY FramesView
<1>2. FramesDoing(Ending)' =
         {f \in Threads \X Nat : f[2] \in Depths(f[1])' /\ OpAt(f[1], f[2])' \in Ending}
    BY DEF FramesDoing, Frames, Depths, OpAt
<1>3. /\ n \in Nat /\ n \in Depths(t) /\ Depths(t) \subseteq Nat
      /\ OpAt(t, n) = o /\ \A d \in Depths(t) : d <= n
    BY DEF OnTop
<1>4. <<t, n>> \in FramesDoing(Ending) <=> o \in Ending
    BY <1>1, <1>3
<1>5. <<t, n + 1>> \notin FramesDoing(Ending)
    BY <1>1, <1>3
<1> QED
    BY <1>1, <1>2, <1>3, <1>4, <1>5

\* A slot's frame that is done is one frame less.
LEMMA EndingPops ==
    ASSUME NEW t \in Threads, NEW n, NEW o, NEW r, OnTop(t, n, o, r), Pops(t, n)
    PROVE  /\ <<t, n>> \in FramesDoing(Ending) <=> o \in Ending
           /\ FramesDoing(Ending)' = FramesDoing(Ending) \ {<<t, n>>}
<1>1. /\ FramesDoing(Ending) =
            {f \in Threads \X Nat : f[2] \in Depths(f[1]) /\ OpAt(f[1], f[2]) \in Ending}
      /\ FramesDoing(Ending)' =
            {f \in Threads \X Nat : f[2] \in Depths(f[1])' /\ OpAt(f[1], f[2])' \in Ending}
      /\ n \in Nat /\ n \in Depths(t) /\ Depths(t) \subseteq Nat
      /\ \A d \in Depths(t) : d <= n
    BY EndingView
<1>2. FramesDoing(Ending)' = FramesDoing(Ending) \ {<<t, n>>}
    BY <1>1 DEF Pops, KeptBelow
<1> QED
    BY <1>2, EndingView

\* A frame that turns into another stands for a slot if the new one does.
LEMMA EndingTurns ==
    ASSUME NEW t \in Threads, NEW n, NEW o, NEW r, OnTop(t, n, o, r),
           NEW o1, NEW r1, Turns(t, n, o1, r1)
    PROVE  /\ <<t, n>> \in FramesDoing(Ending) <=> o \in Ending
           /\ FramesDoing(Ending)' =
                 (FramesDoing(Ending) \ {<<t, n>>})
                 \cup (IF o1 \in Ending THEN {<<t, n>>} ELSE {})
<1>1. /\ FramesDoing(Ending) =
            {f \in Threads \X Nat : f[2] \in Depths(f[1]) /\ OpAt(f[1], f[2]) \in Ending}
      /\ FramesDoing(Ending)' =
            {f \in Threads \X Nat : f[2] \in Depths(f[1])' /\ OpAt(f[1], f[2])' \in Ending}
      /\ n \in Nat /\ n \in Depths(t) /\ Depths(t) \subseteq Nat
      /\ \A d \in Depths(t) : d <= n
    BY EndingView
<1>2. FramesDoing(Ending)' = 
         (FramesDoing(Ending) \ {<<t, n>>})
         \cup (IF o1 \in Ending THEN {<<t, n>>} ELSE {})
    BY <1>1 DEF Turns, KeptBelow
<1> QED
    BY <1>2, EndingView

\* And so does the frame that comes above it.
LEMMA EndingGrows ==
    ASSUME NEW t \in Threads, NEW n, NEW o, NEW r, OnTop(t, n, o, r),
           NEW o1, NEW r1, NEW o2, NEW r2, Grows(t, n, o1, r1, o2, r2)
    PROVE  /\ <<t, n>> \in FramesDoing(Ending) <=> o \in Ending
           /\ <<t, n + 1>> \notin FramesDoing(Ending)
           /\ FramesDoing(Ending)' =
                 (FramesDoing(Ending) \ {<<t, n>>})
                 \cup (IF o1 \in Ending THEN {<<t, n>>} ELSE {})
                 \cup (IF o2 \in Ending THEN {<<t, n + 1>>} ELSE {})
<1>1. /\ FramesDoing(Ending) =
            {f \in Threads \X Nat : f[2] \in Depths(f[1]) /\ OpAt(f[1], f[2]) \in Ending}
      /\ FramesDoing(Ending)' =
            {f \in Threads \X Nat : f[2] \in Depths(f[1])' /\ OpAt(f[1], f[2])' \in Ending}
      /\ n \in Nat /\ n \in Depths(t) /\ Depths(t) \subseteq Nat
      /\ \A d \in Depths(t) : d <= n
    BY EndingView
<1>2. FramesDoing(Ending)' = 
         (FramesDoing(Ending) \ {<<t, n>>})
         \cup (IF o1 \in Ending THEN {<<t, n>>} ELSE {})
         \cup (IF o2 \in Ending THEN {<<t, n + 1>>} ELSE {})
    BY <1>1 DEF Grows, KeptBelow
<1> QED
    BY <1>2, EndingView

-----------------------------------------------------------------------------
(* What a step does to the line.                                           *)

\* Requests wait in the line.
LEMMA WaitingType ==
    ASSUME NEW q \in Seq(Entry)
    PROVE  Waiting(q) \subseteq Requests
<1>1. \A k \in 1..Len(q) : q[k] \in Entry
    BY ElementOfSeq
<1> QED
    BY <1>1 DEF Waiting, Entry

-----------------------------------------------------------------------------
(* Each step keeps the invariant.                                          *)

\* A frame that neither owns nor shares more than it did is done.
LEMMA CalmPop ==
    ASSUME IInv, NEW t \in Threads, NEW n, NEW o, NEW r,
           OnTop(t, n, o, r), o \in {"run", "progress", "query", "connect", "handler"},
           Pops(t, n), TypeOK',
           UNCHANGED <<queue, inFlight, mutex, refs, op, status, handled, life>>
    PROVE  IInv'
<1>1. /\ o \notin Owning /\ o \notin Dropping /\ o \notin Ending
      /\ o \notin {"unlock", "swap", "join", "members", "unwind"}
    BY DEF Owning, Dropping, Ending
<1>2. /\ n \in Depths(t) /\ OpAt(t, n) = o /\ ReqAt(t, n) = r
      /\ KeptBelow(t, n) /\ Depths(t)' = Depths(t) \ {n}
    BY DEF OnTop, Pops
<1>3. FramesNamed'
    BY <1>2 DEF IInv, FramesNamed, KeptBelow
<1>4. MutexKept'
    BY <1>1, <1>2 DEF IInv, MutexKept, KeptBelow
<1>5. SharesKept'
    BY <1>1, <1>2 DEF IInv, SharesKept, KeptBelow
<1>6. FramesOwn'
    BY <1>2 DEF IInv, FramesOwn, KeptBelow
<1>7. OneFrame'
    BY <1>2 DEF IInv, OneFrame, KeptBelow
<1>8. LineOwns'
    BY DEF IInv, LineOwns
<1>9. SomeOwner'
    BY <1>1, <1>2 DEF IInv, SomeOwner, KeptBelow
<1>10. DestructorFrames'
    BY <1>1, <1>2 DEF IInv, OnTop, DestructorFrames, KeptBelow, IoIdle, Threads
<1>11. DestructorAlone'
    BY <1>2 DEF IInv, DestructorAlone, KeptBelow, Threads
<1>12. NobodyWorks'
    BY <1>2 DEF IInv, NobodyWorks, KeptBelow, IoIdle, Threads
<1>13. HandledOnce'
    BY DEF IInv, HandledOnce
<1>14. Counted'
    <2>1. FramesDoing(Ending)' = FramesDoing(Ending)
        BY <1>1, EndingPops
    <2> QED
        BY <2>1 DEF IInv, Counted, InFlightExact, LiveSockets, Ending
<1> QED
    BY <1>3, <1>4, <1>5, <1>6, <1>7, <1>8, <1>9, <1>10, <1>11, <1>12, <1>13, <1>14 DEF IInv

\* A callback asks how much is pending.
LEMMA CalmTurn ==
    ASSUME IInv, NEW t \in Threads, NEW n, NEW o, NEW r \in Requests,
           OnTop(t, n, o, r), o \in {"progress", "handler"}, Turns(t, n, "query", r), TypeOK',
           UNCHANGED <<queue, inFlight, mutex, refs, op, status, handled, life>>
    PROVE  IInv'
<1>1. /\ o \notin Owning /\ o \notin Dropping /\ o \notin Ending
      /\ o \notin {"unlock", "swap", "join", "members", "unwind"}
      /\ "query" \notin Owning /\ "query" \notin Sharing /\ "query" \notin Dropping
      /\ "query" \notin Ending
    BY DEF Owning, Sharing, Dropping, Ending
<1>2. /\ n \in Depths(t) /\ OpAt(t, n) = o /\ ReqAt(t, n) = r
      /\ KeptBelow(t, n) /\ Depths(t)' = Depths(t)
      /\ OpAt(t, n)' = "query" /\ ReqAt(t, n)' = r
    BY DEF OnTop, Turns
<1>3. FramesNamed'
    BY <1>1, <1>2 DEF IInv, FramesNamed, KeptBelow
<1>4. MutexKept'
    BY <1>1, <1>2 DEF IInv, MutexKept, KeptBelow
<1>5. SharesKept'
    BY <1>1, <1>2 DEF IInv, SharesKept, KeptBelow
<1>6. FramesOwn'
    BY <1>1, <1>2 DEF IInv, FramesOwn, KeptBelow
<1>7. OneFrame'
    BY <1>1, <1>2 DEF IInv, OneFrame, KeptBelow
<1>8. LineOwns'
    BY <1>1, <1>2 DEF IInv, LineOwns, KeptBelow
<1>9. SomeOwner'
    BY <1>1, <1>2 DEF IInv, SomeOwner, KeptBelow
<1>10. DestructorFrames'
    BY <1>1, <1>2 DEF IInv, DestructorFrames, KeptBelow, OnTop, IoIdle, Threads
<1>11. DestructorAlone'
    BY <1>1, <1>2 DEF IInv, DestructorAlone, KeptBelow, Threads
<1>12. NobodyWorks'
    BY <1>1, <1>2 DEF IInv, NobodyWorks, KeptBelow, IoIdle, Threads
<1>13. HandledOnce'
    BY <1>1, <1>2 DEF IInv, HandledOnce, KeptBelow
<1>14. Counted'
    <2>1. FramesDoing(Ending)' = FramesDoing(Ending)
        BY <1>1, <1>2, EndingTurns
    <2> QED
        BY <2>1, <1>2 DEF IInv, Counted, InFlightExact, LiveSockets, Ending
<1> QED
    BY <1>3, <1>4, <1>5, <1>6, <1>7, <1>8, <1>9, <1>10, <1>11, <1>12, <1>13,
           <1>14 DEF IInv

\* An operation is started: its handler shares the socket.
LEMMA OperationStarted ==
    ASSUME IInv, NEW t \in Threads, NEW n, NEW o, NEW r \in Requests, NEW kind,
           OnTop(t, n, o, r), o \in {"run", "connect"}, kind \in {"resolve", "transfer"},
           Pops(t, n), TypeOK',
           op' = [op EXCEPT ![r] = kind], refs' = [refs EXCEPT ![r] = @ \cup {Op}],
           UNCHANGED <<queue, inFlight, mutex, status, handled, life>>
    PROVE  IInv'
<1>1. /\ o \notin Owning /\ o \notin Dropping /\ o \notin Ending /\ o \in Sharing
      /\ o \notin {"unlock", "swap", "join", "members", "unwind"}
      /\ Op \notin Threads /\ kind # "none"
    BY ClientAssumption DEF Owning, Sharing, Dropping, Ending, Op
<1>2. /\ n \in Depths(t) /\ OpAt(t, n) = o /\ ReqAt(t, n) = r
      /\ KeptBelow(t, n) /\ Depths(t)' = Depths(t) \ {n}
    BY DEF OnTop, Pops
<1>3. /\ t \in refs[r] /\ refs'[r] = refs[r] \cup {Op} /\ op'[r] = kind
      /\ \A x \in Requests \ {r} : refs'[x] = refs[x] /\ op'[x] = op[x]
    BY <1>1, <1>2 DEF IInv, TypeOK, SharesKept
<1>4. /\ \A x \in Requests : refs'[x] = {} <=> refs[x] = {}
      /\ \A u \in Threads : \A x \in Requests : u \in refs'[x] <=> u \in refs[x]
    BY <1>1, <1>3
<1>5. FramesNamed'
    BY <1>1, <1>2, <1>3, <1>4 DEF IInv, FramesNamed, KeptBelow
<1>6. MutexKept'
    BY <1>1, <1>2, <1>3, <1>4 DEF IInv, MutexKept, KeptBelow
<1>7. SharesKept'
    BY <1>1, <1>2, <1>3, <1>4 DEF IInv, SharesKept, KeptBelow
<1>8. FramesOwn'
    BY <1>1, <1>2, <1>3, <1>4 DEF IInv, FramesOwn, KeptBelow
<1>9. OneFrame'
    BY <1>1, <1>2, <1>3, <1>4 DEF IInv, OneFrame, KeptBelow
<1>10. LineOwns'
    BY <1>1, <1>2, <1>3, <1>4 DEF IInv, LineOwns, KeptBelow
<1>11. SomeOwner'
    BY <1>1, <1>2, <1>3, <1>4 DEF IInv, SomeOwner, KeptBelow
<1>12. DestructorFrames'
    BY <1>1, <1>2, <1>3, <1>4
       DEF IInv, DestructorFrames, KeptBelow, OnTop, IoIdle, Threads
<1>13. DestructorAlone'
    BY <1>1, <1>2, <1>3, <1>4 DEF IInv, DestructorAlone, KeptBelow, Threads
<1>14. NobodyWorks'
    BY <1>1, <1>2, <1>3, <1>4 DEF IInv, NobodyWorks, KeptBelow, IoIdle, Threads
<1>15. HandledOnce'
    BY <1>1, <1>2, <1>3, <1>4 DEF IInv, HandledOnce, KeptBelow
<1>16. Counted'
    <2>1. FramesDoing(Ending)' = FramesDoing(Ending)
        <3>1. /\ <<t, n>> \in FramesDoing(Ending) <=> o \in Ending
              /\ FramesDoing(Ending)' = FramesDoing(Ending) \ {<<t, n>>}
            BY EndingPops
        <3>2. <<t, n>> \notin FramesDoing(Ending)
            BY <1>1, <3>1
        <3> QED
            BY <3>1, <3>2
    <2>2. LiveSockets' = LiveSockets
        BY <1>4 DEF LiveSockets
    <2>3. Counted /\ inFlight' = inFlight
        BY DEF IInv
    <2> QED
        BY <2>1, <2>2, <2>3, Zenon DEF Counted, InFlightExact, Ending
<1> QED
    BY <1>5, <1>6, <1>7, <1>8, <1>9, <1>10, <1>11, <1>12, <1>13, <1>14, <1>15,
           <1>16 DEF IInv

\* The addresses are known: the progress callback comes next, and the connection.
LEMMA ResolvedAtOnce ==
    ASSUME IInv, NEW t \in Threads, NEW n, NEW r \in Requests,
           OnTop(t, n, "run", r), Grows(t, n, "connect", r, "progress", r), TypeOK',
           UNCHANGED <<queue, inFlight, mutex, refs, op, status, handled, life>>
    PROVE  IInv'
<1>1. \A o \in {"run", "connect", "progress"} :
          /\ o \notin Owning /\ o \notin Dropping /\ o \notin Ending /\ o \in Sharing
          /\ o \notin {"unlock", "swap", "join", "members", "unwind"}
    BY DEF Owning, Sharing, Dropping, Ending
<1>2. /\ n \in Depths(t) /\ OpAt(t, n) = "run" /\ ReqAt(t, n) = r
      /\ Depths(t) \subseteq Nat /\ n + 1 \notin Depths(t) /\ \A d \in Depths(t) : d <= n
      /\ KeptBelow(t, n) /\ Depths(t)' = Depths(t) \cup {n + 1}
      /\ OpAt(t, n)' = "connect" /\ ReqAt(t, n)' = r
      /\ OpAt(t, n + 1)' = "progress" /\ ReqAt(t, n + 1)' = r
    BY DEF OnTop, Grows
<1>3. FramesNamed'
    BY <1>1, <1>2 DEF IInv, FramesNamed, KeptBelow
<1>4. MutexKept'
    BY <1>1, <1>2 DEF IInv, MutexKept, KeptBelow
<1>5. SharesKept'
    BY <1>1, <1>2 DEF IInv, SharesKept, KeptBelow
<1>6. FramesOwn'
    BY <1>1, <1>2 DEF IInv, FramesOwn, KeptBelow
<1>7. OneFrame'
    BY <1>1, <1>2 DEF IInv, OneFrame, KeptBelow
<1>8. LineOwns'
    BY <1>1, <1>2 DEF IInv, LineOwns, KeptBelow
<1>9. SomeOwner'
    BY <1>1, <1>2 DEF IInv, SomeOwner, KeptBelow
<1>10. DestructorFrames'
    BY <1>1, <1>2 DEF IInv, DestructorFrames, KeptBelow, OnTop, IoIdle, Threads
<1>11. DestructorAlone'
    BY <1>1, <1>2 DEF IInv, DestructorAlone, KeptBelow, Threads
<1>12. NobodyWorks'
    BY <1>1, <1>2 DEF IInv, NobodyWorks, KeptBelow, IoIdle, Threads
<1>13. HandledOnce'
    BY <1>1, <1>2 DEF IInv, HandledOnce, KeptBelow
<1>14. Counted'
    <2>1. FramesDoing(Ending)' = FramesDoing(Ending)
        <3>1. /\ <<t, n>> \notin FramesDoing(Ending)
              /\ FramesDoing(Ending)' =
                    (FramesDoing(Ending) \ {<<t, n>>})
                    \cup (IF "connect" \in Ending THEN {<<t, n>>} ELSE {})
                    \cup (IF "progress" \in Ending THEN {<<t, n + 1>>} ELSE {})
            BY <1>1, EndingGrows
        <3> QED
            BY <1>1, <3>1
    <2> QED
        BY <2>1 DEF IInv, Counted, InFlightExact, LiveSockets, Ending
<1> QED
    BY <1>3, <1>4, <1>5, <1>6, <1>7, <1>8, <1>9, <1>10, <1>11, <1>12, <1>13,
           <1>14 DEF IInv

\* A request joins the line, or a slot is given back, and nothing starts.
LEMMA NothingStarted ==
    ASSUME IInv, NEW t \in Threads, NEW n, NEW o, NEW r,
           OnTop(t, n, o, r), Pops(t, n), TypeOK',
           \/ /\ o = "send" /\ r \in Requests
              /\ Waiting(queue') = Waiting(queue) \cup {r}
              /\ inFlight' = inFlight
           \/ /\ o = "completed" /\ r = NoRequest
              /\ Waiting(queue') = Waiting(queue)
              /\ inFlight' = inFlight - 1,
           Distinct(queue'),
           UNCHANGED <<mutex, refs, op, status, handled, life>>
    PROVE  IInv'
<1>1. /\ o \in Owning /\ o \notin Dropping /\ o \notin Sharing
      /\ o \notin {"unlock", "swap", "join", "members", "unwind"}
      /\ NoRequest \notin Requests
    BY ClientAssumption DEF Owning, Sharing, Dropping
<1>2. /\ n \in Depths(t) /\ OpAt(t, n) = o /\ ReqAt(t, n) = r
      /\ KeptBelow(t, n) /\ Depths(t)' = Depths(t) \ {n}
    BY DEF OnTop, Pops
<1>3. r \in Requests => status[r] = "sent" /\ refs[r] = {}
    BY <1>1, <1>2 DEF IInv, FramesOwn
<1>4. FramesNamed'
    BY <1>1, <1>2, <1>3 DEF IInv, FramesNamed, KeptBelow
<1>5. MutexKept'
    BY <1>1, <1>2, <1>3 DEF IInv, MutexKept, KeptBelow
<1>6. SharesKept'
    BY <1>1, <1>2, <1>3 DEF IInv, SharesKept, KeptBelow
<1>7. FramesOwn'
    BY <1>1, <1>2, <1>3 DEF IInv, FramesOwn, KeptBelow, OneFrame
<1>8. OneFrame'
    BY <1>1, <1>2, <1>3 DEF IInv, OneFrame, KeptBelow
<1>9. LineOwns'
    BY <1>1, <1>2, <1>3 DEF IInv, LineOwns, KeptBelow
<1>10. SomeOwner'
    BY <1>1, <1>2, <1>3 DEF IInv, SomeOwner, KeptBelow
<1>11. DestructorFrames'
    BY <1>1, <1>2, <1>3
       DEF IInv, DestructorFrames, KeptBelow, OnTop, IoIdle, Threads
<1>12. DestructorAlone'
    BY <1>1, <1>2, <1>3 DEF IInv, DestructorAlone, KeptBelow, Threads
<1>13. NobodyWorks'
    BY <1>1, <1>2, <1>3 DEF IInv, NobodyWorks, KeptBelow, IoIdle, Threads
<1>14. HandledOnce'
    BY <1>1, <1>2, <1>3 DEF IInv, HandledOnce, KeptBelow
<1>15. Counted'
    <2>1. LiveSockets' = LiveSockets
        BY DEF LiveSockets
    <2>2. CASE o = "send"
        <3>1. FramesDoing(Ending)' = FramesDoing(Ending)
            BY <2>2, EndingPops DEF Ending
        <3> QED
            BY <1>1, <2>1, <2>2, <3>1 DEF IInv, Counted, InFlightExact, Ending
    <2>3. CASE o = "completed"
        <3>1. /\ <<t, n>> \in FramesDoing(Ending)
              /\ FramesDoing(Ending)' = FramesDoing(Ending) \ {<<t, n>>}
            BY <2>3, EndingPops DEF Ending
        <3>2. /\ IsFiniteSet(FramesDoing(Ending)')
              /\ Cardinality(FramesDoing(Ending)') = Cardinality(FramesDoing(Ending)) - 1
            BY <3>1, FS_RemoveElement DEF IInv, Counted
        <3>3. inFlight' = inFlight - 1
            BY <2>3
        <3>4. /\ inFlight = Cardinality(LiveSockets) + Cardinality(FramesDoing(Ending))
              /\ IsFiniteSet(LiveSockets)
            BY DEF IInv, Counted, InFlightExact, Ending
        <3>5. Cardinality(LiveSockets) \in Nat /\ Cardinality(FramesDoing(Ending)) \in Nat
            BY FS_CardinalityType DEF IInv, Counted
        <3>6. inFlight' = Cardinality(LiveSockets)' + Cardinality(FramesDoing(Ending))'
            BY <2>1, <3>2, <3>3, <3>4, <3>5
        <3> QED
            BY <2>1, <3>2, <3>4, <3>6 DEF Counted, InFlightExact, Ending
    <2> QED
        BY <2>2, <2>3
<1> QED
    BY <1>4, <1>5, <1>6, <1>7, <1>8, <1>9, <1>10, <1>11, <1>12, <1>13, <1>14,
           <1>15 DEF IInv

\* A request leaves the line, or the hands of the thread, for a socket of its own.
LEMMA SocketStarted ==
    ASSUME IInv, NEW t \in Threads, NEW n, NEW o, NEW r, NEW x \in Requests,
           OnTop(t, n, o, r), Grows(t, n, "unlock", x, "run", x), TypeOK',
           o \in {"send", "completed"}, r \in Requests \cup {NoRequest},
           Waiting(queue') \cup {x} = Waiting(queue) \cup ({r} \ {NoRequest}),
           x \notin Waiting(queue'), Distinct(queue'),
           inFlight' = inFlight + (IF o = "send" THEN 1 ELSE 0),
           mutex = NoThread, mutex' = t, refs' = [refs EXCEPT ![x] = {t}],
           life \in {"up", "stopped"},
           UNCHANGED <<op, status, handled, life>>
    PROVE  IInv'
<1>1. /\ o \in Owning /\ o \notin Dropping /\ o \notin Sharing
      /\ "unlock" \in Sharing /\ "unlock" \in Dropping /\ "unlock" \notin Owning
      /\ "run" \in Sharing /\ "run" \notin Dropping /\ "run" \notin Owning
      /\ o \notin {"unlock", "swap", "join", "members", "unwind"}
      /\ NoRequest \notin Requests /\ NoThread \notin Threads /\ Op \notin Threads
    BY ClientAssumption DEF Owning, Sharing, Dropping, Op
<1>2. /\ n \in Depths(t) /\ OpAt(t, n) = o /\ ReqAt(t, n) = r
      /\ Depths(t) \subseteq Nat /\ n + 1 \notin Depths(t) /\ \A d \in Depths(t) : d <= n
      /\ KeptBelow(t, n) /\ Depths(t)' = Depths(t) \cup {n + 1}
      /\ OpAt(t, n)' = "unlock" /\ ReqAt(t, n)' = x
      /\ OpAt(t, n + 1)' = "run" /\ ReqAt(t, n + 1)' = x
    BY DEF OnTop, Grows
<1>3. x \in Waiting(queue) \/ x = r
    OBVIOUS
<1>4. status[x] = "sent" /\ refs[x] = {}
    <2>1. CASE x \in Waiting(queue)
        BY <2>1 DEF IInv, LineOwns
    <2>2. CASE x = r
        <3>1. OpAt(t, n) \in Owning /\ ReqAt(t, n) = x /\ x # NoRequest
            BY <1>1, <1>2, <2>2
        <3> QED
            BY <1>2, <3>1 DEF IInv, FramesOwn
    <2> QED
        BY <1>3, <2>1, <2>2
<1>5. /\ Waiting(queue') \subseteq Requests
      /\ \A y \in Waiting(queue') : y # x /\ (y \in Waiting(queue) \/ y = r)
      /\ r \in Requests => status[r] = "sent" /\ refs[r] = {} /\ r \notin Waiting(queue)
    <2>1. queue' \in Seq(Entry)
        BY DEF TypeOK
    <2>2. Waiting(queue') \subseteq Requests
        BY <2>1, WaitingType
    <2>3. \A y \in Waiting(queue') : y # x /\ (y \in Waiting(queue) \/ y = r)
        OBVIOUS
    <2>4. r \in Requests => status[r] = "sent" /\ refs[r] = {} /\ r \notin Waiting(queue)
        <3>1. r \in Requests => r # NoRequest
            BY <1>1
        <3> QED
            BY <1>1, <1>2, <3>1 DEF IInv, FramesOwn
    <2> QED
        BY <2>2, <2>3, <2>4
<1>6. refs'[x] = {t} /\ \A y \in Requests \ {x} : refs'[y] = refs[y]
    BY DEF IInv, TypeOK
<1>7. \A u \in Threads : \A d \in Depths(u) :
          (u # t \/ d # n) /\ OpAt(u, d) \in Owning /\ ReqAt(u, d) # NoRequest
             => ReqAt(u, d) # x /\ ReqAt(u, d) # r
    BY <1>1, <1>2, <1>3 DEF IInv, FramesOwn, OneFrame
<1>8. FramesNamed'
    BY <1>1, <1>2, <1>3, <1>4, <1>5, <1>6, <1>7 DEF IInv, FramesNamed, KeptBelow
<1>9. MutexKept'
    BY <1>1, <1>2, <1>3, <1>4, <1>5, <1>6, <1>7 DEF IInv, MutexKept, KeptBelow
<1>10. SharesKept'
    BY <1>1, <1>2, <1>3, <1>4, <1>5, <1>6, <1>7 DEF IInv, SharesKept, KeptBelow
<1>11. FramesOwn'
    BY <1>1, <1>2, <1>3, <1>4, <1>5, <1>6, <1>7 DEF IInv, FramesOwn, KeptBelow
<1>12. OneFrame'
    BY <1>1, <1>2, <1>3, <1>4, <1>5, <1>6, <1>7 DEF IInv, OneFrame, KeptBelow
<1>13. LineOwns'
    BY <1>1, <1>2, <1>3, <1>4, <1>5, <1>6, <1>7 DEF IInv, LineOwns, KeptBelow
<1>14. SomeOwner'
    BY <1>1, <1>2, <1>3, <1>4, <1>5, <1>6, <1>7 DEF IInv, SomeOwner, KeptBelow
<1>15. DestructorFrames'
    BY <1>1, <1>2, <1>3, <1>4, <1>5, <1>6, <1>7
       DEF IInv, DestructorFrames, KeptBelow, OnTop, IoIdle, Threads
<1>16. DestructorAlone'
    BY <1>1, <1>2, <1>3, <1>4, <1>5, <1>6, <1>7
       DEF IInv, DestructorAlone, KeptBelow, Threads
<1>17. NobodyWorks'
    BY <1>1, <1>2, <1>3, <1>4, <1>5, <1>6, <1>7
       DEF IInv, NobodyWorks, KeptBelow, IoIdle, Threads
<1>18. HandledOnce'
    BY <1>1, <1>2, <1>3, <1>4, <1>5, <1>6, <1>7 DEF IInv, HandledOnce, KeptBelow
<1>19. Counted'
    <2>1. LiveSockets' = LiveSockets \cup {x} /\ x \notin LiveSockets
        BY <1>4, <1>6 DEF LiveSockets
    <2>2. /\ IsFiniteSet(LiveSockets')
          /\ Cardinality(LiveSockets') = Cardinality(LiveSockets) + 1
        BY <2>1, FS_AddElement DEF IInv, Counted
    <2>3. /\ inFlight = Cardinality(LiveSockets) + Cardinality(FramesDoing(Ending))
          /\ Cardinality(LiveSockets) \in Nat /\ Cardinality(FramesDoing(Ending)) \in Nat
        BY FS_CardinalityType DEF IInv, Counted, InFlightExact, Ending
    <2>4. /\ <<t, n>> \in FramesDoing(Ending) <=> o \in Ending
          /\ FramesDoing(Ending)' =
                (FramesDoing(Ending) \ {<<t, n>>})
                \cup (IF "unlock" \in Ending THEN {<<t, n>>} ELSE {})
                \cup (IF "run" \in Ending THEN {<<t, n + 1>>} ELSE {})
        BY EndingGrows
    <2>5. "unlock" \notin Ending /\ "run" \notin Ending
        BY DEF Ending
    <2>6. FramesDoing(Ending)' = FramesDoing(Ending) \ {<<t, n>>}
        BY <2>4, <2>5
    <2>7. CASE o = "send"
        <3>1. FramesDoing(Ending)' = FramesDoing(Ending)
            BY <2>7, <2>4, <2>6 DEF Ending
        <3>2. inFlight' = Cardinality(LiveSockets)' + Cardinality(FramesDoing(Ending))'
            BY <2>2, <2>3, <2>7, <3>1
        <3> QED
            BY <2>2, <3>1, <3>2 DEF IInv, Counted, InFlightExact, Ending
    <2>8. CASE o = "completed"
        <3>1. /\ <<t, n>> \in FramesDoing(Ending)
              /\ FramesDoing(Ending)' = FramesDoing(Ending) \ {<<t, n>>}
            BY <2>8, <2>4, <2>6 DEF Ending
        <3>2. /\ IsFiniteSet(FramesDoing(Ending)')
              /\ Cardinality(FramesDoing(Ending)') = Cardinality(FramesDoing(Ending)) - 1
            BY <3>1, FS_RemoveElement DEF IInv, Counted
        <3>3. inFlight' = Cardinality(LiveSockets)' + Cardinality(FramesDoing(Ending))'
            BY <2>2, <2>3, <2>8, <3>2
        <3> QED
            BY <2>2, <3>2, <3>3 DEF Counted, InFlightExact, Ending
    <2> QED
        BY <2>7, <2>8
<1> QED
    BY <1>8, <1>9, <1>10, <1>11, <1>12, <1>13, <1>14, <1>15, <1>16, <1>17,
           <1>18, <1>19 DEF IInv

\* The mutex is released, the share of the socket comes next.
LEMMA LockReleased ==
    ASSUME IInv, NEW t \in Threads, NEW n, NEW r \in Requests,
           OnTop(t, n, "unlock", r), Turns(t, n, "drop", r), TypeOK', mutex' = NoThread,
           UNCHANGED <<queue, inFlight, refs, op, status, handled, life>>
    PROVE  IInv'
<1>1. /\ "unlock" \notin Owning /\ "unlock" \in Sharing /\ "unlock" \in Dropping
      /\ "drop" \notin Owning /\ "drop" \in Sharing /\ "drop" \in Dropping
    BY DEF Owning, Sharing, Dropping
<1>2. /\ n \in Depths(t) /\ OpAt(t, n) = "unlock" /\ ReqAt(t, n) = r
      /\ Depths(t) \subseteq Nat /\ \A d \in Depths(t) : d <= n
      /\ KeptBelow(t, n) /\ Depths(t)' = Depths(t)
      /\ OpAt(t, n)' = "drop" /\ ReqAt(t, n)' = r
    BY DEF OnTop, Turns
<1>3. mutex = t /\ NoThread \notin Threads
    BY <1>2, ClientAssumption DEF IInv, MutexKept
<1>4. FramesNamed'
    BY <1>1, <1>2, <1>3 DEF IInv, FramesNamed, KeptBelow
<1>5. MutexKept'
    BY <1>1, <1>2, <1>3 DEF IInv, MutexKept, KeptBelow
<1>6. SharesKept'
    BY <1>1, <1>2, <1>3 DEF IInv, SharesKept, KeptBelow
<1>7. FramesOwn'
    BY <1>1, <1>2, <1>3 DEF IInv, FramesOwn, KeptBelow
<1>8. OneFrame'
    BY <1>1, <1>2, <1>3 DEF IInv, OneFrame, KeptBelow
<1>9. LineOwns'
    BY <1>1, <1>2, <1>3 DEF IInv, LineOwns, KeptBelow
<1>10. SomeOwner'
    BY <1>1, <1>2, <1>3 DEF IInv, SomeOwner, KeptBelow
<1>11. DestructorFrames'
    BY <1>1, <1>2, <1>3
       DEF IInv, DestructorFrames, KeptBelow, OnTop, IoIdle, Threads
<1>12. DestructorAlone'
    BY <1>1, <1>2, <1>3 DEF IInv, DestructorAlone, KeptBelow, Threads
<1>13. NobodyWorks'
    BY <1>1, <1>2, <1>3 DEF IInv, NobodyWorks, KeptBelow, IoIdle, Threads
<1>14. HandledOnce'
    BY <1>1, <1>2, <1>3 DEF IInv, HandledOnce, KeptBelow
<1>15. Counted'
    <2>1. FramesDoing(Ending)' = FramesDoing(Ending)
        BY <1>2, EndingTurns DEF Ending
    <2> QED
        BY <2>1, <1>2 DEF IInv, Counted, InFlightExact, LiveSockets, Ending
<1> QED
    BY <1>4, <1>5, <1>6, <1>7, <1>8, <1>9, <1>10, <1>11, <1>12, <1>13, <1>14,
           <1>15 DEF IInv

\* A share of a socket goes that is not the last one.
LEMMA ShareDropped ==
    ASSUME IInv, NEW t \in Threads, NEW n, NEW r \in Requests,
           OnTop(t, n, "drop", r), refs[r] # {t}, Pops(t, n), TypeOK',
           refs' = [refs EXCEPT ![r] = @ \ {t}],
           UNCHANGED <<queue, inFlight, mutex, op, status, handled, life>>
    PROVE  IInv'
<1>1. /\ "drop" \notin Owning /\ "drop" \in Sharing /\ "drop" \in Dropping
    BY DEF Owning, Sharing, Dropping
<1>2. /\ n \in Depths(t) /\ OpAt(t, n) = "drop" /\ ReqAt(t, n) = r
      /\ Depths(t) \subseteq Nat /\ \A d \in Depths(t) : d <= n
      /\ KeptBelow(t, n) /\ Depths(t)' = Depths(t) \ {n}
    BY DEF OnTop, Pops
<1>3. /\ t \in refs[r] /\ status[r] = "sent" /\ r \notin Waiting(queue)
      /\ refs'[r] = refs[r] \ {t} /\ \A x \in Requests \ {r} : refs'[x] = refs[x]
      /\ Op \notin Threads
    BY <1>1, <1>2, ClientAssumption DEF IInv, TypeOK, SharesKept, LineOwns, Op
<1>4. /\ \A d \in Depths(t) : d # n /\ OpAt(t, d) \in Sharing => ReqAt(t, d) # r
      /\ \A u \in Threads : \A d \in Depths(u) :
            OpAt(u, d) \in Owning /\ ReqAt(u, d) # NoRequest => ReqAt(u, d) # r
    BY <1>1, <1>2, <1>3 DEF IInv, SharesKept, FramesOwn
<1>5. \A x \in Requests : refs'[x] = {} <=> refs[x] = {}
    BY <1>3
<1>6. FramesNamed'
    BY <1>1, <1>2, <1>3, <1>4, <1>5 DEF IInv, FramesNamed, KeptBelow
<1>7. MutexKept'
    BY <1>1, <1>2, <1>3, <1>4, <1>5 DEF IInv, MutexKept, KeptBelow
<1>8. SharesKept'
    BY <1>1, <1>2, <1>3, <1>4, <1>5 DEF IInv, SharesKept, KeptBelow
<1>9. FramesOwn'
    BY <1>1, <1>2, <1>3, <1>4, <1>5 DEF IInv, FramesOwn, KeptBelow
<1>10. OneFrame'
    BY <1>1, <1>2, <1>3, <1>4, <1>5 DEF IInv, OneFrame, KeptBelow
<1>11. LineOwns'
    BY <1>1, <1>2, <1>3, <1>4, <1>5 DEF IInv, LineOwns, KeptBelow
<1>12. SomeOwner'
    BY <1>1, <1>2, <1>3, <1>4, <1>5 DEF IInv, SomeOwner, KeptBelow
<1>13. DestructorFrames'
    BY <1>1, <1>2, <1>3, <1>4, <1>5
       DEF IInv, DestructorFrames, KeptBelow, OnTop, IoIdle, Threads
<1>14. DestructorAlone'
    BY <1>1, <1>2, <1>3, <1>4, <1>5 DEF IInv, DestructorAlone, KeptBelow, Threads
<1>15. NobodyWorks'
    BY <1>1, <1>2, <1>3, <1>4, <1>5
       DEF IInv, NobodyWorks, KeptBelow, IoIdle, Threads
<1>16. HandledOnce'
    BY <1>1, <1>2, <1>3, <1>4, <1>5 DEF IInv, HandledOnce, KeptBelow
<1>17. Counted'
    <2>1. FramesDoing(Ending)' = FramesDoing(Ending)
        BY <1>2, EndingPops DEF Ending
    <2>2. LiveSockets' = LiveSockets
        BY <1>5 DEF LiveSockets
    <2> QED
        BY <2>1, <2>2 DEF IInv, Counted, InFlightExact, Ending
<1> QED
    BY <1>6, <1>7, <1>8, <1>9, <1>10, <1>11, <1>12, <1>13, <1>14, <1>15, <1>16,
           <1>17 DEF IInv

\* The last share goes, and the destructor of the socket owns the request.
LEMMA LastShareDropped ==
    ASSUME IInv, NEW t \in Threads, NEW n, NEW r \in Requests,
           OnTop(t, n, "drop", r), refs[r] = {t}, Turns(t, n, "destroy", r), TypeOK',
           refs' = [refs EXCEPT ![r] = @ \ {t}],
           UNCHANGED <<queue, inFlight, mutex, op, status, handled, life>>
    PROVE  IInv'
<1>1. /\ "drop" \notin Owning /\ "drop" \in Sharing /\ "drop" \in Dropping
      /\ "destroy" \in Owning /\ "destroy" \notin Sharing /\ "destroy" \notin Dropping
    BY DEF Owning, Sharing, Dropping
<1>2. /\ n \in Depths(t) /\ OpAt(t, n) = "drop" /\ ReqAt(t, n) = r
      /\ Depths(t) \subseteq Nat /\ \A d \in Depths(t) : d <= n
      /\ KeptBelow(t, n) /\ Depths(t)' = Depths(t)
      /\ OpAt(t, n)' = "destroy" /\ ReqAt(t, n)' = r
    BY DEF OnTop, Turns
<1>3. /\ t \in refs[r] /\ status[r] = "sent" /\ r \notin Waiting(queue)
      /\ refs'[r] = refs[r] \ {t} /\ \A x \in Requests \ {r} : refs'[x] = refs[x]
      /\ Op \notin Threads
    BY <1>1, <1>2, ClientAssumption DEF IInv, TypeOK, SharesKept, LineOwns, Op
<1>4. /\ \A d \in Depths(t) : d # n /\ OpAt(t, d) \in Sharing => ReqAt(t, d) # r
      /\ \A u \in Threads : \A d \in Depths(u) :
            OpAt(u, d) \in Owning /\ ReqAt(u, d) # NoRequest => ReqAt(u, d) # r
    BY <1>1, <1>2, <1>3 DEF IInv, SharesKept, FramesOwn
<1>5. refs'[r] = {}
    BY <1>3
<1>6. FramesNamed'
    BY <1>1, <1>2, <1>3, <1>4, <1>5 DEF IInv, FramesNamed, KeptBelow
<1>7. MutexKept'
    BY <1>1, <1>2, <1>3, <1>4, <1>5 DEF IInv, MutexKept, KeptBelow
<1>8. SharesKept'
    BY <1>1, <1>2, <1>3, <1>4, <1>5 DEF IInv, SharesKept, KeptBelow
<1>9. FramesOwn'
    BY <1>1, <1>2, <1>3, <1>4, <1>5 DEF IInv, FramesOwn, KeptBelow
<1>10. OneFrame'
    BY <1>1, <1>2, <1>3, <1>4, <1>5 DEF IInv, OneFrame, KeptBelow
<1>11. LineOwns'
    BY <1>1, <1>2, <1>3, <1>4, <1>5 DEF IInv, LineOwns, KeptBelow
<1>12. SomeOwner'
    BY <1>1, <1>2, <1>3, <1>4, <1>5 DEF IInv, SomeOwner, KeptBelow
<1>13. DestructorFrames'
    BY <1>1, <1>2, <1>3, <1>4, <1>5
       DEF IInv, DestructorFrames, KeptBelow, OnTop, IoIdle, Threads
<1>14. DestructorAlone'
    BY <1>1, <1>2, <1>3, <1>4, <1>5 DEF IInv, DestructorAlone, KeptBelow, Threads
<1>15. NobodyWorks'
    BY <1>1, <1>2, <1>3, <1>4, <1>5
       DEF IInv, NobodyWorks, KeptBelow, IoIdle, Threads
<1>16. HandledOnce'
    BY <1>1, <1>2, <1>3, <1>4, <1>5 DEF IInv, HandledOnce, KeptBelow
<1>17. Counted'
    <2>1. LiveSockets' = LiveSockets \ {r} /\ r \in LiveSockets
        BY <1>3, <1>5 DEF LiveSockets
    <2>2. /\ <<t, n>> \notin FramesDoing(Ending)
          /\ FramesDoing(Ending)' = FramesDoing(Ending) \cup {<<t, n>>}
        <3>1. /\ <<t, n>> \in FramesDoing(Ending) <=> "drop" \in Ending
              /\ FramesDoing(Ending)' =
                    (FramesDoing(Ending) \ {<<t, n>>})
                    \cup (IF "destroy" \in Ending THEN {<<t, n>>} ELSE {})
            BY EndingTurns
        <3> QED
            BY <3>1 DEF Ending
    <2>3. /\ IsFiniteSet(LiveSockets')
          /\ Cardinality(LiveSockets') = Cardinality(LiveSockets) - 1
        BY <2>1, FS_RemoveElement DEF IInv, Counted
    <2>4. /\ IsFiniteSet(FramesDoing(Ending)')
          /\ Cardinality(FramesDoing(Ending)') = Cardinality(FramesDoing(Ending)) + 1
        BY <2>2, FS_AddElement DEF IInv, Counted
    <2>5. /\ inFlight = Cardinality(LiveSockets) + Cardinality(FramesDoing(Ending))
          /\ Cardinality(LiveSockets) \in Nat /\ Cardinality(FramesDoing(Ending)) \in Nat
        BY FS_CardinalityType DEF IInv, Counted, InFlightExact, Ending
    <2>6. inFlight' = Cardinality(LiveSockets)' + Cardinality(FramesDoing(Ending))'
        BY <2>3, <2>4, <2>5
    <2> QED
        BY <2>3, <2>4, <2>6 DEF Counted, InFlightExact, Ending
<1> QED
    BY <1>6, <1>7, <1>8, <1>9, <1>10, <1>11, <1>12, <1>13, <1>14, <1>15, <1>16,
           <1>17 DEF IInv

\* The clone takes the place of the request.
LEMMA Retried ==
    ASSUME IInv, NEW t \in Threads, NEW n, NEW r \in Requests,
           OnTop(t, n, "destroy", r), Turns(t, n, "completed", r), TypeOK',
           UNCHANGED <<queue, inFlight, mutex, refs, op, status, handled, life>>
    PROVE  IInv'
<1>1. /\ "destroy" \in Owning /\ "destroy" \notin Sharing /\ "destroy" \notin Dropping
      /\ "completed" \in Owning /\ "completed" \notin Sharing /\ "completed" \notin Dropping
    BY DEF Owning, Sharing, Dropping
<1>2. /\ n \in Depths(t) /\ OpAt(t, n) = "destroy" /\ ReqAt(t, n) = r
      /\ Depths(t) \subseteq Nat /\ \A d \in Depths(t) : d <= n
      /\ KeptBelow(t, n) /\ Depths(t)' = Depths(t)
      /\ OpAt(t, n)' = "completed" /\ ReqAt(t, n)' = r
    BY DEF OnTop, Turns
<1>3. FramesNamed'
    BY <1>1, <1>2 DEF IInv, FramesNamed, KeptBelow
<1>4. MutexKept'
    BY <1>1, <1>2 DEF IInv, MutexKept, KeptBelow
<1>5. SharesKept'
    BY <1>1, <1>2 DEF IInv, SharesKept, KeptBelow
<1>6. FramesOwn'
    BY <1>1, <1>2 DEF IInv, FramesOwn, KeptBelow
<1>7. OneFrame'
    BY <1>1, <1>2 DEF IInv, OneFrame, KeptBelow
<1>8. LineOwns'
    BY <1>1, <1>2 DEF IInv, LineOwns, KeptBelow
<1>9. SomeOwner'
    BY <1>1, <1>2 DEF IInv, SomeOwner, KeptBelow
<1>10. DestructorFrames'
    BY <1>1, <1>2 DEF IInv, DestructorFrames, KeptBelow, OnTop, IoIdle, Threads
<1>11. DestructorAlone'
    BY <1>1, <1>2 DEF IInv, DestructorAlone, KeptBelow, Threads
<1>12. NobodyWorks'
    BY <1>1, <1>2 DEF IInv, NobodyWorks, KeptBelow, IoIdle, Threads
<1>13. HandledOnce'
    BY <1>1, <1>2 DEF IInv, HandledOnce, KeptBelow
<1>14. Counted'
    <2>1. /\ <<t, n>> \in FramesDoing(Ending) <=> "destroy" \in Ending
          /\ FramesDoing(Ending)' =
                (FramesDoing(Ending) \ {<<t, n>>})
                \cup (IF "completed" \in Ending THEN {<<t, n>>} ELSE {})
        BY EndingTurns
    <2>2. FramesDoing(Ending)' = FramesDoing(Ending)
        BY <2>1 DEF Ending
    <2> QED
        BY <2>2 DEF IInv, Counted, InFlightExact, LiveSockets, Ending
<1> QED
    BY <1>3, <1>4, <1>5, <1>6, <1>7, <1>8, <1>9, <1>10, <1>11, <1>12, <1>13,
           <1>14 DEF IInv

\* The request is deleted, and its slot is to be given back.
LEMMA DeletedBySocket ==
    ASSUME IInv, NEW t \in Threads, NEW n, NEW r \in Requests,
           OnTop(t, n, "destroy", r), Turns(t, n, "completed", NoRequest), TypeOK',
           status' = [status EXCEPT ![r] = "done"],
           handled' = [handled EXCEPT ![r] = IF r \in owners THEN @ + 1 ELSE @],
           UNCHANGED <<queue, inFlight, mutex, refs, op, life>>
    PROVE  IInv'
<1>1. /\ "destroy" \in Owning /\ "destroy" \notin Sharing /\ "destroy" \notin Dropping
      /\ "completed" \in Owning /\ "completed" \notin Sharing /\ "completed" \notin Dropping
    BY DEF Owning, Sharing, Dropping
<1>2. /\ n \in Depths(t) /\ OpAt(t, n) = "destroy" /\ ReqAt(t, n) = r
      /\ Depths(t) \subseteq Nat /\ \A d \in Depths(t) : d <= n
      /\ KeptBelow(t, n) /\ Depths(t)' = Depths(t)
      /\ OpAt(t, n)' = "completed" /\ ReqAt(t, n)' = NoRequest
    BY DEF OnTop, Turns
<1>3. /\ status[r] = "sent" /\ refs[r] = {} /\ r \notin Waiting(queue)
      /\ NoRequest \notin Requests
      /\ status'[r] = "done" /\ \A x \in Requests \ {r} : status'[x] = status[x]
    BY <1>1, <1>2, ClientAssumption DEF IInv, TypeOK, FramesOwn
<1>4. \A u \in Threads : \A d \in Depths(u) :
          (u # t \/ d # n) /\ OpAt(u, d) \in Owning /\ ReqAt(u, d) # NoRequest
             => ReqAt(u, d) # r
    BY <1>1, <1>2 DEF IInv, OneFrame
<1>5. FramesNamed'
    BY <1>1, <1>2, <1>3, <1>4 DEF IInv, FramesNamed, KeptBelow
<1>6. MutexKept'
    BY <1>1, <1>2, <1>3, <1>4 DEF IInv, MutexKept, KeptBelow
<1>7. SharesKept'
    BY <1>1, <1>2, <1>3, <1>4 DEF IInv, SharesKept, KeptBelow
<1>8. FramesOwn'
    BY <1>1, <1>2, <1>3, <1>4 DEF IInv, FramesOwn, KeptBelow
<1>9. OneFrame'
    BY <1>1, <1>2, <1>3, <1>4 DEF IInv, OneFrame, KeptBelow
<1>10. LineOwns'
    BY <1>1, <1>2, <1>3, <1>4 DEF IInv, LineOwns, KeptBelow
<1>11. SomeOwner'
    BY <1>1, <1>2, <1>3, <1>4 DEF IInv, SomeOwner, KeptBelow
<1>12. DestructorFrames'
    BY <1>1, <1>2, <1>3, <1>4
       DEF IInv, DestructorFrames, KeptBelow, OnTop, IoIdle, Threads
<1>13. DestructorAlone'
    BY <1>1, <1>2, <1>3, <1>4 DEF IInv, DestructorAlone, KeptBelow, Threads
<1>14. NobodyWorks'
    BY <1>1, <1>2, <1>3, <1>4 DEF IInv, NobodyWorks, KeptBelow, IoIdle, Threads
<1>15. HandledOnce'
    <2>1. handled[r] = 0
        <3>1. HandledOnce /\ handled \in [Requests -> Nat]
            BY DEF IInv, TypeOK
        <3> QED
            BY <1>3, <3>1 DEF HandledOnce
    <2>2. handled'[r] \in {0, 1} /\ \A x \in Requests \ {r} : handled'[x] = handled[x]
        BY <2>1 DEF IInv, TypeOK
    <2>3. HandledOnce
        BY DEF IInv
    <2> QED
        BY <1>3, <2>1, <2>2, <2>3 DEF HandledOnce
<1>16. Counted'
    <2>1. /\ <<t, n>> \in FramesDoing(Ending) <=> "destroy" \in Ending
          /\ FramesDoing(Ending)' =
                (FramesDoing(Ending) \ {<<t, n>>})
                \cup (IF "completed" \in Ending THEN {<<t, n>>} ELSE {})
        BY EndingTurns
    <2>2. FramesDoing(Ending)' = FramesDoing(Ending)
        BY <2>1 DEF Ending
    <2> QED
        BY <2>2 DEF IInv, Counted, InFlightExact, LiveSockets, Ending
<1> QED
    BY <1>5, <1>6, <1>7, <1>8, <1>9, <1>10, <1>11, <1>12, <1>13, <1>14, <1>15,
           <1>16 DEF IInv

\* The same with a completion handler to call first.
LEMMA DeletedBySocketAndTold ==
    ASSUME IInv, NEW t \in Threads, NEW n, NEW r \in Requests,
           OnTop(t, n, "destroy", r),
           Grows(t, n, "completed", NoRequest, "handler", r), TypeOK',
           status' = [status EXCEPT ![r] = "done"],
           handled' = [handled EXCEPT ![r] = IF r \in owners THEN @ + 1 ELSE @],
           UNCHANGED <<queue, inFlight, mutex, refs, op, life>>
    PROVE  IInv'
<1>1. /\ "destroy" \in Owning /\ "destroy" \notin Sharing /\ "destroy" \notin Dropping
      /\ "completed" \in Owning /\ "completed" \notin Sharing /\ "completed" \notin Dropping
      /\ "handler" \notin Owning /\ "handler" \notin Sharing /\ "handler" \notin Dropping
    BY DEF Owning, Sharing, Dropping
<1>2. /\ n \in Depths(t) /\ OpAt(t, n) = "destroy" /\ ReqAt(t, n) = r
      /\ Depths(t) \subseteq Nat /\ \A d \in Depths(t) : d <= n
      /\ KeptBelow(t, n) /\ n + 1 \notin Depths(t) /\ Depths(t)' = Depths(t) \cup {n + 1}
      /\ OpAt(t, n)' = "completed" /\ ReqAt(t, n)' = NoRequest
      /\ OpAt(t, n + 1)' = "handler" /\ ReqAt(t, n + 1)' = r
    BY DEF OnTop, Grows
<1>3. /\ status[r] = "sent" /\ refs[r] = {} /\ r \notin Waiting(queue)
      /\ NoRequest \notin Requests
      /\ status'[r] = "done" /\ \A x \in Requests \ {r} : status'[x] = status[x]
    BY <1>1, <1>2, ClientAssumption DEF IInv, TypeOK, FramesOwn
<1>4. \A u \in Threads : \A d \in Depths(u) :
          (u # t \/ d # n) /\ OpAt(u, d) \in Owning /\ ReqAt(u, d) # NoRequest
             => ReqAt(u, d) # r
    BY <1>1, <1>2 DEF IInv, OneFrame
<1>5. FramesNamed'
    BY <1>1, <1>2, <1>3, <1>4 DEF IInv, FramesNamed, KeptBelow
<1>6. MutexKept'
    BY <1>1, <1>2, <1>3, <1>4 DEF IInv, MutexKept, KeptBelow
<1>7. SharesKept'
    BY <1>1, <1>2, <1>3, <1>4 DEF IInv, SharesKept, KeptBelow
<1>8. FramesOwn'
    BY <1>1, <1>2, <1>3, <1>4 DEF IInv, FramesOwn, KeptBelow
<1>9. OneFrame'
    BY <1>1, <1>2, <1>3, <1>4 DEF IInv, OneFrame, KeptBelow
<1>10. LineOwns'
    BY <1>1, <1>2, <1>3, <1>4 DEF IInv, LineOwns, KeptBelow
<1>11. SomeOwner'
    BY <1>1, <1>2, <1>3, <1>4 DEF IInv, SomeOwner, KeptBelow
<1>12. DestructorFrames'
    BY <1>1, <1>2, <1>3, <1>4
       DEF IInv, DestructorFrames, KeptBelow, OnTop, IoIdle, Threads
<1>13. DestructorAlone'
    BY <1>1, <1>2, <1>3, <1>4 DEF IInv, DestructorAlone, KeptBelow, Threads
<1>14. NobodyWorks'
    BY <1>1, <1>2, <1>3, <1>4 DEF IInv, NobodyWorks, KeptBelow, IoIdle, Threads
<1>15. HandledOnce'
    <2>1. handled[r] = 0
        <3>1. HandledOnce /\ handled \in [Requests -> Nat]
            BY DEF IInv, TypeOK
        <3> QED
            BY <1>3, <3>1 DEF HandledOnce
    <2>2. handled'[r] \in {0, 1} /\ \A x \in Requests \ {r} : handled'[x] = handled[x]
        BY <2>1 DEF IInv, TypeOK
    <2>3. HandledOnce
        BY DEF IInv
    <2> QED
        BY <1>3, <2>1, <2>2, <2>3 DEF HandledOnce
<1>16. Counted'
    <2>1. /\ <<t, n>> \in FramesDoing(Ending) <=> "destroy" \in Ending
          /\ FramesDoing(Ending)' =
                (FramesDoing(Ending) \ {<<t, n>>})
                \cup (IF "completed" \in Ending THEN {<<t, n>>} ELSE {})
                \cup (IF "handler" \in Ending THEN {<<t, n + 1>>} ELSE {})
        BY EndingGrows
    <2>2. FramesDoing(Ending)' = FramesDoing(Ending)
        BY <2>1 DEF Ending
    <2> QED
        BY <2>2 DEF IInv, Counted, InFlightExact, LiveSockets, Ending
<1> QED
    BY <1>5, <1>6, <1>7, <1>8, <1>9, <1>10, <1>11, <1>12, <1>13, <1>14, <1>15,
           <1>16 DEF IInv

\* A request that was waiting is deleted.
LEMMA DeletedByDrain ==
    ASSUME IInv, NEW t \in Threads, NEW n, NEW r \in Requests,
           OnTop(t, n, "delete", r), Pops(t, n), TypeOK',
           status' = [status EXCEPT ![r] = "done"],
           handled' = [handled EXCEPT ![r] = IF r \in owners THEN @ + 1 ELSE @],
           UNCHANGED <<queue, inFlight, mutex, refs, op, life>>
    PROVE  IInv'
<1>1. /\ "delete" \in Owning /\ "delete" \notin Sharing /\ "delete" \notin Dropping
    BY DEF Owning, Sharing, Dropping
<1>2. /\ n \in Depths(t) /\ OpAt(t, n) = "delete" /\ ReqAt(t, n) = r
      /\ Depths(t) \subseteq Nat /\ \A d \in Depths(t) : d <= n
      /\ KeptBelow(t, n) /\ Depths(t)' = Depths(t) \ {n}
    BY DEF OnTop, Pops
<1>3. /\ status[r] = "sent" /\ refs[r] = {} /\ r \notin Waiting(queue)
      /\ NoRequest \notin Requests
      /\ status'[r] = "done" /\ \A x \in Requests \ {r} : status'[x] = status[x]
    BY <1>1, <1>2, ClientAssumption DEF IInv, TypeOK, FramesOwn
<1>4. \A u \in Threads : \A d \in Depths(u) :
          (u # t \/ d # n) /\ OpAt(u, d) \in Owning /\ ReqAt(u, d) # NoRequest
             => ReqAt(u, d) # r
    BY <1>1, <1>2 DEF IInv, OneFrame
<1>5. FramesNamed'
    BY <1>1, <1>2, <1>3, <1>4 DEF IInv, FramesNamed, KeptBelow
<1>6. MutexKept'
    BY <1>1, <1>2, <1>3, <1>4 DEF IInv, MutexKept, KeptBelow
<1>7. SharesKept'
    BY <1>1, <1>2, <1>3, <1>4 DEF IInv, SharesKept, KeptBelow
<1>8. FramesOwn'
    BY <1>1, <1>2, <1>3, <1>4 DEF IInv, FramesOwn, KeptBelow
<1>9. OneFrame'
    BY <1>1, <1>2, <1>3, <1>4 DEF IInv, OneFrame, KeptBelow
<1>10. LineOwns'
    BY <1>1, <1>2, <1>3, <1>4 DEF IInv, LineOwns, KeptBelow
<1>11. SomeOwner'
    BY <1>1, <1>2, <1>3, <1>4 DEF IInv, SomeOwner, KeptBelow
<1>12. DestructorFrames'
    BY <1>1, <1>2, <1>3, <1>4
       DEF IInv, DestructorFrames, KeptBelow, OnTop, IoIdle, Threads
<1>13. DestructorAlone'
    BY <1>1, <1>2, <1>3, <1>4 DEF IInv, DestructorAlone, KeptBelow, Threads
<1>14. NobodyWorks'
    BY <1>1, <1>2, <1>3, <1>4 DEF IInv, NobodyWorks, KeptBelow, IoIdle, Threads
<1>15. HandledOnce'
    <2>1. handled[r] = 0
        <3>1. HandledOnce /\ handled \in [Requests -> Nat]
            BY DEF IInv, TypeOK
        <3> QED
            BY <1>3, <3>1 DEF HandledOnce
    <2>2. handled'[r] \in {0, 1} /\ \A x \in Requests \ {r} : handled'[x] = handled[x]
        BY <2>1 DEF IInv, TypeOK
    <2>3. HandledOnce
        BY DEF IInv
    <2> QED
        BY <1>3, <2>1, <2>2, <2>3 DEF HandledOnce
<1>16. Counted'
    <2>1. FramesDoing(Ending)' = FramesDoing(Ending)
        BY <1>2, EndingPops DEF Ending
    <2> QED
        BY <2>1, <1>2 DEF IInv, Counted, InFlightExact, LiveSockets, Ending
<1> QED
    BY <1>5, <1>6, <1>7, <1>8, <1>9, <1>10, <1>11, <1>12, <1>13, <1>14, <1>15,
           <1>16 DEF IInv

\* The same with a completion handler to call.
LEMMA DeletedByDrainAndTold ==
    ASSUME IInv, NEW t \in Threads, NEW n, NEW r \in Requests,
           OnTop(t, n, "delete", r), Turns(t, n, "handler", r), TypeOK',
           status' = [status EXCEPT ![r] = "done"],
           handled' = [handled EXCEPT ![r] = IF r \in owners THEN @ + 1 ELSE @],
           UNCHANGED <<queue, inFlight, mutex, refs, op, life>>
    PROVE  IInv'
<1>1. /\ "delete" \in Owning /\ "delete" \notin Sharing /\ "delete" \notin Dropping
      /\ "handler" \notin Owning /\ "handler" \notin Sharing /\ "handler" \notin Dropping
    BY DEF Owning, Sharing, Dropping
<1>2. /\ n \in Depths(t) /\ OpAt(t, n) = "delete" /\ ReqAt(t, n) = r
      /\ Depths(t) \subseteq Nat /\ \A d \in Depths(t) : d <= n
      /\ KeptBelow(t, n) /\ Depths(t)' = Depths(t)
      /\ OpAt(t, n)' = "handler" /\ ReqAt(t, n)' = r
    BY DEF OnTop, Turns
<1>3. /\ status[r] = "sent" /\ refs[r] = {} /\ r \notin Waiting(queue)
      /\ NoRequest \notin Requests
      /\ status'[r] = "done" /\ \A x \in Requests \ {r} : status'[x] = status[x]
    BY <1>1, <1>2, ClientAssumption DEF IInv, TypeOK, FramesOwn
<1>4. \A u \in Threads : \A d \in Depths(u) :
          (u # t \/ d # n) /\ OpAt(u, d) \in Owning /\ ReqAt(u, d) # NoRequest
             => ReqAt(u, d) # r
    BY <1>1, <1>2 DEF IInv, OneFrame
<1>5. FramesNamed'
    BY <1>1, <1>2, <1>3, <1>4 DEF IInv, FramesNamed, KeptBelow
<1>6. MutexKept'
    BY <1>1, <1>2, <1>3, <1>4 DEF IInv, MutexKept, KeptBelow
<1>7. SharesKept'
    BY <1>1, <1>2, <1>3, <1>4 DEF IInv, SharesKept, KeptBelow
<1>8. FramesOwn'
    BY <1>1, <1>2, <1>3, <1>4 DEF IInv, FramesOwn, KeptBelow
<1>9. OneFrame'
    BY <1>1, <1>2, <1>3, <1>4 DEF IInv, OneFrame, KeptBelow
<1>10. LineOwns'
    BY <1>1, <1>2, <1>3, <1>4 DEF IInv, LineOwns, KeptBelow
<1>11. SomeOwner'
    BY <1>1, <1>2, <1>3, <1>4 DEF IInv, SomeOwner, KeptBelow
<1>12. DestructorFrames'
    BY <1>1, <1>2, <1>3, <1>4
       DEF IInv, DestructorFrames, KeptBelow, OnTop, IoIdle, Threads
<1>13. DestructorAlone'
    BY <1>1, <1>2, <1>3, <1>4 DEF IInv, DestructorAlone, KeptBelow, Threads
<1>14. NobodyWorks'
    BY <1>1, <1>2, <1>3, <1>4 DEF IInv, NobodyWorks, KeptBelow, IoIdle, Threads
<1>15. HandledOnce'
    <2>1. handled[r] = 0
        <3>1. HandledOnce /\ handled \in [Requests -> Nat]
            BY DEF IInv, TypeOK
        <3> QED
            BY <1>3, <3>1 DEF HandledOnce
    <2>2. handled'[r] \in {0, 1} /\ \A x \in Requests \ {r} : handled'[x] = handled[x]
        BY <2>1 DEF IInv, TypeOK
    <2>3. HandledOnce
        BY DEF IInv
    <2> QED
        BY <1>3, <2>1, <2>2, <2>3 DEF HandledOnce
<1>16. Counted'
    <2>1. FramesDoing(Ending)' = FramesDoing(Ending)
        BY <1>2, EndingTurns DEF Ending
    <2> QED
        BY <2>1, <1>2 DEF IInv, Counted, InFlightExact, LiveSockets, Ending
<1> QED
    BY <1>5, <1>6, <1>7, <1>8, <1>9, <1>10, <1>11, <1>12, <1>13, <1>14, <1>15,
           <1>16 DEF IInv

\* A completion handler sends another request.
LEMMA HandlerSends ==
    ASSUME IInv, NEW t \in Threads, NEW n, NEW r, NEW x \in Requests,
           OnTop(t, n, "handler", r), status[x] = "new", Turns(t, n, "send", x), TypeOK',
           status' = [status EXCEPT ![x] = "sent"],
           UNCHANGED <<queue, inFlight, mutex, refs, op, handled, life>>
    PROVE  IInv'
<1>1. /\ "handler" \notin Owning /\ "handler" \notin Sharing /\ "handler" \notin Dropping
      /\ "send" \in Owning /\ "send" \notin Sharing /\ "send" \notin Dropping
    BY DEF Owning, Sharing, Dropping
<1>2. /\ n \in Depths(t) /\ OpAt(t, n) = "handler" /\ ReqAt(t, n) = r
      /\ Depths(t) \subseteq Nat /\ \A d \in Depths(t) : d <= n
      /\ KeptBelow(t, n) /\ Depths(t)' = Depths(t)
      /\ OpAt(t, n)' = "send" /\ ReqAt(t, n)' = x
    BY DEF OnTop, Turns
<1>3. /\ status'[x] = "sent" /\ \A y \in Requests \ {x} : status'[y] = status[y]
      /\ refs[x] = {} /\ x \notin Waiting(queue)
    BY DEF IInv, TypeOK, LineOwns
<1>4. FramesNamed'
    BY <1>1, <1>2, <1>3 DEF IInv, FramesNamed, KeptBelow
<1>5. MutexKept'
    BY <1>1, <1>2, <1>3 DEF IInv, MutexKept, KeptBelow
<1>6. SharesKept'
    BY <1>1, <1>2, <1>3 DEF IInv, SharesKept, KeptBelow
<1>7. FramesOwn'
    BY <1>1, <1>2, <1>3 DEF IInv, FramesOwn, KeptBelow
<1>8. OneFrame'
    BY <1>1, <1>2, <1>3 DEF IInv, OneFrame, KeptBelow, FramesOwn
<1>9. LineOwns'
    BY <1>1, <1>2, <1>3 DEF IInv, LineOwns, KeptBelow
<1>10. SomeOwner'
    BY <1>1, <1>2, <1>3 DEF IInv, SomeOwner, KeptBelow
<1>11. DestructorFrames'
    BY <1>1, <1>2, <1>3
       DEF IInv, DestructorFrames, KeptBelow, OnTop, IoIdle, Threads
<1>12. DestructorAlone'
    BY <1>1, <1>2, <1>3 DEF IInv, DestructorAlone, KeptBelow, Threads
<1>13. NobodyWorks'
    BY <1>1, <1>2, <1>3 DEF IInv, NobodyWorks, KeptBelow, IoIdle, Threads
<1>14. HandledOnce'
    BY <1>1, <1>2, <1>3 DEF IInv, HandledOnce, KeptBelow
<1>15. Counted'
    <2>1. FramesDoing(Ending)' = FramesDoing(Ending)
        BY <1>2, EndingTurns DEF Ending
    <2> QED
        BY <2>1, <1>2 DEF IInv, Counted, InFlightExact, LiveSockets, Ending
<1> QED
    BY <1>4, <1>5, <1>6, <1>7, <1>8, <1>9, <1>10, <1>11, <1>12, <1>13, <1>14,
           <1>15 DEF IInv

\* The io threads have ended.
LEMMA IoThreadsJoined ==
    ASSUME IInv, NEW t \in Threads, NEW n, OnTop(t, n, "join", NoRequest), Pops(t, n), TypeOK',
           \A io \in IoThreads : stack[io] = <<>>,
           UNCHANGED <<queue, inFlight, mutex, refs, op, status, handled, life>>
    PROVE  IInv'
<1>1. /\ "join" \notin Owning /\ "join" \notin Sharing /\ "join" \notin Dropping
    BY DEF Owning, Sharing, Dropping
<1>2. /\ n \in Depths(t) /\ OpAt(t, n) = "join" /\ ReqAt(t, n) = NoRequest
      /\ Depths(t) \subseteq Nat /\ \A d \in Depths(t) : d <= n
      /\ KeptBelow(t, n) /\ Depths(t)' = Depths(t) \ {n}
    BY DEF OnTop, Pops
<1>3. n = 2
    BY <1>2 DEF IInv, DestructorFrames
<1>4. IoIdle
    BY Idle DEF IInv, IoIdle, Threads
<1>5. IoIdle'
    BY <1>2, <1>4 DEF IoIdle, KeptBelow, Threads
<1>6. FramesNamed'
    BY <1>1, <1>2, <1>4, <1>5 DEF IInv, FramesNamed, KeptBelow
<1>7. MutexKept'
    BY <1>1, <1>2, <1>4, <1>5 DEF IInv, MutexKept, KeptBelow
<1>8. SharesKept'
    BY <1>1, <1>2, <1>4, <1>5 DEF IInv, SharesKept, KeptBelow
<1>9. FramesOwn'
    BY <1>1, <1>2, <1>4, <1>5 DEF IInv, FramesOwn, KeptBelow
<1>10. OneFrame'
    BY <1>1, <1>2, <1>4, <1>5 DEF IInv, OneFrame, KeptBelow
<1>11. LineOwns'
    BY <1>1, <1>2, <1>4, <1>5 DEF IInv, LineOwns, KeptBelow
<1>12. SomeOwner'
    BY <1>1, <1>2, <1>4, <1>5 DEF IInv, SomeOwner, KeptBelow
<1>13. DestructorFrames'
    <2>1. /\ \A u \in Threads : \A d \in Depths(u)' :
                d \in Depths(u) /\ OpAt(u, d)' = OpAt(u, d) /\ (u = t => d # 2 /\ d <= 2)
          /\ \A u \in Threads \ {t} :
                Depths(u)' = Depths(u) /\ \A d \in Depths(u) : OpAt(u, d)' = OpAt(u, d)
        BY <1>2, <1>3 DEF KeptBelow
    <2>2. life' = life /\ IoIdle'
        BY <1>5
    <2>3. DestructorFrames
        BY DEF IInv
    <2> QED
        BY <2>1, <2>2, <2>3 DEF DestructorFrames
<1>14. DestructorAlone'
    BY <1>1, <1>2, <1>4, <1>5 DEF IInv, DestructorAlone, KeptBelow, Threads
<1>15. NobodyWorks'
    BY <1>1, <1>2, <1>4, <1>5 DEF IInv, NobodyWorks, KeptBelow, IoIdle, Threads
<1>16. HandledOnce'
    BY <1>1, <1>2, <1>4, <1>5 DEF IInv, HandledOnce, KeptBelow
<1>17. Counted'
    <2>1. FramesDoing(Ending)' = FramesDoing(Ending)
        <3>1. /\ <<t, n>> \in FramesDoing(Ending) <=> "join" \in Ending
              /\ FramesDoing(Ending)' = FramesDoing(Ending) \ {<<t, n>>}
            BY EndingPops
        <3> QED
            BY <3>1 DEF Ending
    <2> QED
        BY <2>1 DEF IInv, Counted, InFlightExact, LiveSockets, Ending
<1> QED
    BY <1>6, <1>7, <1>8, <1>9, <1>10, <1>11, <1>12, <1>13, <1>14, <1>15, <1>16,
           <1>17 DEF IInv

\* The members go, and nobody is left to work on a socket.
LEMMA MembersDestroyed ==
    ASSUME IInv, NEW t \in Threads, NEW n, OnTop(t, n, "members", NoRequest),
           Turns(t, n, "unwind", NoRequest), TypeOK', life' = "unwinding",
           UNCHANGED <<queue, inFlight, mutex, refs, op, status, handled>>
    PROVE  IInv'
<1>1. /\ "members" \notin Owning /\ "members" \notin Sharing /\ "members" \notin Dropping
      /\ "unwind" \notin Owning /\ "unwind" \notin Sharing /\ "unwind" \notin Dropping
    BY DEF Owning, Sharing, Dropping
<1>2. /\ n = 1 /\ n \in Depths(t) /\ OpAt(t, n) = "members"
      /\ Depths(t) \subseteq Nat /\ \A d \in Depths(t) : d <= n
      /\ KeptBelow(t, n) /\ Depths(t)' = Depths(t)
      /\ OpAt(t, n)' = "unwind" /\ ReqAt(t, n)' = NoRequest
    BY DEF OnTop, Turns, IInv, DestructorFrames
<1>3. life = "stopped" /\ t \in Callers /\ IoIdle
    BY <1>2 DEF IInv, DestructorFrames
<1>4. \A u \in Threads \ {t} : Depths(u) = {}
    BY <1>2, <1>3 DEF IInv, DestructorAlone, IoIdle, Threads
<1>5. Depths(t) = {1}
    BY <1>2 DEF Depths
<1>6. IoIdle'
    BY <1>2, <1>3, <1>4, ClientAssumption DEF IoIdle, KeptBelow, Threads
<1>7. FramesNamed'
    BY <1>1, <1>2, <1>3, <1>4, <1>5, <1>6 DEF IInv, FramesNamed, KeptBelow
<1>8. MutexKept'
    BY <1>1, <1>2, <1>3, <1>4, <1>5, <1>6 DEF IInv, MutexKept, KeptBelow
<1>9. SharesKept'
    BY <1>1, <1>2, <1>3, <1>4, <1>5, <1>6 DEF IInv, SharesKept, KeptBelow
<1>10. FramesOwn'
    BY <1>1, <1>2, <1>3, <1>4, <1>5, <1>6 DEF IInv, FramesOwn, KeptBelow
<1>11. OneFrame'
    BY <1>1, <1>2, <1>3, <1>4, <1>5, <1>6 DEF IInv, OneFrame, KeptBelow
<1>12. LineOwns'
    BY <1>1, <1>2, <1>3, <1>4, <1>5, <1>6 DEF IInv, LineOwns, KeptBelow
<1>13. SomeOwner'
    BY <1>1, <1>2, <1>3, <1>4, <1>5, <1>6 DEF IInv, SomeOwner, KeptBelow
<1>14. DestructorFrames'
    BY <1>1, <1>2, <1>3, <1>4, <1>5, <1>6
       DEF IInv, DestructorFrames, KeptBelow, OnTop, IoIdle, Threads
<1>15. DestructorAlone'
    BY <1>1, <1>2, <1>3, <1>4, <1>5, <1>6
       DEF IInv, DestructorAlone, KeptBelow, Threads
<1>16. NobodyWorks'
    BY <1>1, <1>2, <1>3, <1>4, <1>5, <1>6
       DEF IInv, NobodyWorks, KeptBelow, IoIdle, Threads
<1>17. HandledOnce'
    BY <1>1, <1>2, <1>3, <1>4, <1>5, <1>6 DEF IInv, HandledOnce, KeptBelow
<1>18. Counted'
    <2>1. FramesDoing(Ending)' = FramesDoing(Ending)
        BY <1>2, EndingTurns DEF Ending
    <2> QED
        BY <2>1, <1>2 DEF IInv, Counted, InFlightExact, LiveSockets, Ending
<1> QED
    BY <1>7, <1>8, <1>9, <1>10, <1>11, <1>12, <1>13, <1>14, <1>15, <1>16, <1>17,
           <1>18 DEF IInv

\* ~io_context destroys a handler, and with it the last share of its socket.
LEMMA UnwindsOne ==
    ASSUME IInv, NEW t \in Threads, NEW n, NEW r \in Requests,
           OnTop(t, n, "unwind", NoRequest), op[r] # "none",
           Grows(t, n, "unwind", NoRequest, "destroy", r), TypeOK',
           op' = [op EXCEPT ![r] = "none"], refs' = [refs EXCEPT ![r] = {}],
           UNCHANGED <<queue, inFlight, mutex, status, handled, life>>
    PROVE  IInv'
<1>1. /\ "unwind" \notin Owning /\ "unwind" \notin Sharing /\ "unwind" \notin Dropping
      /\ "destroy" \in Owning /\ "destroy" \notin Sharing /\ "destroy" \notin Dropping
    BY DEF Owning, Sharing, Dropping
<1>2. /\ n \in Depths(t) /\ OpAt(t, n) = "unwind" /\ ReqAt(t, n) = NoRequest
      /\ Depths(t) \subseteq Nat /\ \A d \in Depths(t) : d <= n
      /\ KeptBelow(t, n) /\ n + 1 \notin Depths(t) /\ Depths(t)' = Depths(t) \cup {n + 1}
      /\ OpAt(t, n)' = "unwind" /\ ReqAt(t, n)' = NoRequest
      /\ OpAt(t, n + 1)' = "destroy" /\ ReqAt(t, n + 1)' = r
    BY DEF OnTop, Grows
<1>3. /\ life \in {"unwinding", "undefined"} /\ t \in Callers
      /\ \A u \in Threads : \A d \in Depths(u) : OpAt(u, d) \notin Sharing
      /\ IoIdle
    BY <1>2 DEF IInv, DestructorFrames, NobodyWorks
<1>4. /\ Op \in refs[r] /\ status[r] = "sent" /\ r \notin Waiting(queue)
      /\ refs'[r] = {} /\ op'[r] = "none"
      /\ \A x \in Requests \ {r} : refs'[x] = refs[x] /\ op'[x] = op[x]
      /\ NoRequest \notin Requests
    BY ClientAssumption DEF IInv, TypeOK, SharesKept, LineOwns
<1>5. \A u \in Threads : \A d \in Depths(u) :
          OpAt(u, d) \in Owning /\ ReqAt(u, d) # NoRequest => ReqAt(u, d) # r
    BY <1>4 DEF IInv, FramesOwn
<1>6. IoIdle'
    BY <1>2, <1>3, ClientAssumption DEF IoIdle, KeptBelow, Threads
<1>7. FramesNamed'
    BY <1>1, <1>2, <1>3, <1>4, <1>5, <1>6 DEF IInv, FramesNamed, KeptBelow
<1>8. MutexKept'
    BY <1>1, <1>2, <1>3, <1>4, <1>5, <1>6 DEF IInv, MutexKept, KeptBelow
<1>9. SharesKept'
    BY <1>1, <1>2, <1>3, <1>4, <1>5, <1>6
       DEF IInv, SharesKept, KeptBelow, Dropping, Sharing
<1>10. FramesOwn'
    BY <1>1, <1>2, <1>3, <1>4, <1>5, <1>6 DEF IInv, FramesOwn, KeptBelow
<1>11. OneFrame'
    BY <1>1, <1>2, <1>3, <1>4, <1>5, <1>6 DEF IInv, OneFrame, KeptBelow
<1>12. LineOwns'
    BY <1>1, <1>2, <1>3, <1>4, <1>5, <1>6 DEF IInv, LineOwns, KeptBelow
<1>13. SomeOwner'
    BY <1>1, <1>2, <1>3, <1>4, <1>5, <1>6 DEF IInv, SomeOwner, KeptBelow
<1>14. DestructorFrames'
    BY <1>1, <1>2, <1>3, <1>4, <1>5, <1>6
       DEF IInv, DestructorFrames, KeptBelow, OnTop, IoIdle, Threads
<1>15. DestructorAlone'
    BY <1>1, <1>2, <1>3, <1>4, <1>5, <1>6
       DEF IInv, DestructorAlone, KeptBelow, Threads
<1>16. NobodyWorks'
    BY <1>1, <1>2, <1>3, <1>4, <1>5, <1>6
       DEF IInv, NobodyWorks, KeptBelow, IoIdle, Threads
<1>17. HandledOnce'
    BY <1>1, <1>2, <1>3, <1>4, <1>5, <1>6 DEF IInv, HandledOnce, KeptBelow
<1>18. Counted'
    <2>1. LiveSockets' = LiveSockets \ {r} /\ r \in LiveSockets
        BY <1>4 DEF LiveSockets
    <2>2. /\ <<t, n + 1>> \notin FramesDoing(Ending)
          /\ FramesDoing(Ending)' = FramesDoing(Ending) \cup {<<t, n + 1>>}
        <3>1. /\ <<t, n>> \in FramesDoing(Ending) <=> "unwind" \in Ending
              /\ <<t, n + 1>> \notin FramesDoing(Ending)
              /\ FramesDoing(Ending)' =
                    (FramesDoing(Ending) \ {<<t, n>>})
                    \cup (IF "unwind" \in Ending THEN {<<t, n>>} ELSE {})
                    \cup (IF "destroy" \in Ending THEN {<<t, n + 1>>} ELSE {})
            BY EndingGrows
        <3> QED
            BY <3>1 DEF Ending
    <2>3. /\ IsFiniteSet(LiveSockets')
          /\ Cardinality(LiveSockets') = Cardinality(LiveSockets) - 1
        BY <2>1, FS_RemoveElement DEF IInv, Counted
    <2>4. /\ IsFiniteSet(FramesDoing(Ending)')
          /\ Cardinality(FramesDoing(Ending)') = Cardinality(FramesDoing(Ending)) + 1
        BY <2>2, FS_AddElement DEF IInv, Counted
    <2>5. /\ inFlight = Cardinality(LiveSockets) + Cardinality(FramesDoing(Ending))
          /\ Cardinality(LiveSockets) \in Nat /\ Cardinality(FramesDoing(Ending)) \in Nat
        BY FS_CardinalityType DEF IInv, Counted, InFlightExact, Ending
    <2>6. inFlight' = Cardinality(LiveSockets)' + Cardinality(FramesDoing(Ending))'
        BY <2>3, <2>4, <2>5
    <2> QED
        BY <2>3, <2>4, <2>6 DEF Counted, InFlightExact, Ending
<1> QED
    BY <1>7, <1>8, <1>9, <1>10, <1>11, <1>12, <1>13, <1>14, <1>15, <1>16, <1>17,
           <1>18 DEF IInv

\* No handler is left.
LEMMA UnwindsAll ==
    ASSUME IInv, NEW t \in Threads, NEW n, OnTop(t, n, "unwind", NoRequest), Pops(t, n),
           TypeOK', life' = "gone", \A r \in Requests : op[r] = "none",
           UNCHANGED <<queue, inFlight, mutex, refs, op, status, handled>>
    PROVE  IInv'
<1>1. /\ "unwind" \notin Owning /\ "unwind" \notin Sharing /\ "unwind" \notin Dropping
    BY DEF Owning, Sharing, Dropping
<1>2. /\ n \in Depths(t) /\ OpAt(t, n) = "unwind" /\ ReqAt(t, n) = NoRequest
      /\ Depths(t) \subseteq Nat /\ \A d \in Depths(t) : d <= n
      /\ KeptBelow(t, n) /\ Depths(t)' = Depths(t) \ {n}
    BY DEF OnTop, Pops
<1>3. n = 1
    BY <1>2 DEF IInv, DestructorFrames
<1>4. /\ life \in {"unwinding", "undefined"} /\ t \in Callers
      /\ \A u \in Threads : \A d \in Depths(u) : OpAt(u, d) \notin Sharing
      /\ IoIdle
    BY <1>2 DEF IInv, DestructorFrames, NobodyWorks
<1>5. \A u \in Threads \ {t} : Depths(u) = {}
    BY <1>2, <1>4 DEF IInv, DestructorAlone, IoIdle, Threads
<1>6. \A u \in Threads : Depths(u)' = {}
    BY <1>2, <1>3, <1>5 DEF Depths, KeptBelow
<1>7. FramesNamed'
    BY <1>1, <1>2, <1>4, <1>5, <1>6 DEF IInv, FramesNamed, KeptBelow
<1>8. MutexKept'
    BY <1>1, <1>2, <1>4, <1>5, <1>6 DEF IInv, MutexKept, KeptBelow
<1>9. SharesKept'
    BY <1>1, <1>2, <1>4, <1>5, <1>6 DEF IInv, SharesKept, KeptBelow
<1>10. FramesOwn'
    BY <1>1, <1>2, <1>4, <1>5, <1>6 DEF IInv, FramesOwn, KeptBelow
<1>11. OneFrame'
    BY <1>1, <1>2, <1>4, <1>5, <1>6 DEF IInv, OneFrame, KeptBelow
<1>12. LineOwns'
    BY <1>1, <1>2, <1>4, <1>5, <1>6 DEF IInv, LineOwns, KeptBelow
<1>13. SomeOwner'
    BY <1>1, <1>2, <1>4, <1>5, <1>6 DEF IInv, SomeOwner, KeptBelow
<1>14. DestructorFrames'
    BY <1>1, <1>2, <1>4, <1>5, <1>6
       DEF IInv, DestructorFrames, KeptBelow, OnTop, IoIdle, Threads
<1>15. DestructorAlone'
    BY <1>1, <1>2, <1>4, <1>5, <1>6 DEF IInv, DestructorAlone, KeptBelow, Threads
<1>16. NobodyWorks'
    BY <1>1, <1>2, <1>4, <1>5, <1>6
       DEF IInv, NobodyWorks, KeptBelow, IoIdle, Threads
<1>17. HandledOnce'
    BY <1>1, <1>2, <1>4, <1>5, <1>6 DEF IInv, HandledOnce, KeptBelow
<1>18. Counted'
    <2>1. FramesDoing(Ending)' = FramesDoing(Ending)
        <3>1. /\ <<t, n>> \in FramesDoing(Ending) <=> "unwind" \in Ending
              /\ FramesDoing(Ending)' = FramesDoing(Ending) \ {<<t, n>>}
            BY EndingPops
        <3> QED
            BY <3>1 DEF Ending
    <2> QED
        BY <2>1 DEF IInv, Counted, InFlightExact, LiveSockets, Ending
<1> QED
    BY <1>7, <1>8, <1>9, <1>10, <1>11, <1>12, <1>13, <1>14, <1>15, <1>16, <1>17,
           <1>18 DEF IInv

\* No stack changes; an owner may go, or what comes next is undefined.
LEMMA NothingMoves ==
    ASSUME IInv, TypeOK',
           life' = life \/ (life = "unwinding" /\ life' = "undefined"),
           UNCHANGED <<queue, inFlight, mutex, stack, refs, op, status, handled>>
    PROVE  IInv'
<1>1. \A u \in Threads :
          /\ Depths(u)' = Depths(u)
          /\ \A d \in Depths(u) : OpAt(u, d)' = OpAt(u, d) /\ ReqAt(u, d)' = ReqAt(u, d)
    BY DEF Depths, OpAt, ReqAt
<1>2. IoIdle => IoIdle'
    BY <1>1 DEF IoIdle, Threads
<1>3. FramesNamed'
    BY <1>1, <1>2 DEF IInv, FramesNamed
<1>4. MutexKept'
    BY <1>1, <1>2 DEF IInv, MutexKept
<1>5. SharesKept'
    BY <1>1, <1>2 DEF IInv, SharesKept
<1>6. FramesOwn'
    BY <1>1, <1>2 DEF IInv, FramesOwn
<1>7. OneFrame'
    BY <1>1, <1>2 DEF IInv, OneFrame
<1>8. LineOwns'
    BY <1>1, <1>2 DEF IInv, LineOwns
<1>9. SomeOwner'
    BY <1>1, <1>2 DEF IInv, SomeOwner
<1>10. DestructorFrames'
    BY <1>1, <1>2 DEF IInv, DestructorFrames, OnTop, IoIdle, Threads
<1>11. DestructorAlone'
    BY <1>1, <1>2 DEF IInv, DestructorAlone, Threads
<1>12. NobodyWorks'
    BY <1>1, <1>2 DEF IInv, NobodyWorks, IoIdle, Threads
<1>13. HandledOnce'
    BY <1>1, <1>2 DEF IInv, HandledOnce
<1>14. Counted'
    <2>1. FramesDoing(Ending)' = FramesDoing(Ending)
        BY DEF FramesDoing, Frames
    <2> QED
        BY <2>1 DEF IInv, Counted, InFlightExact, LiveSockets, Ending
<1> QED
    BY <1>3, <1>4, <1>5, <1>6, <1>7, <1>8, <1>9, <1>10, <1>11, <1>12, <1>13,
           <1>14 DEF IInv

\* The frames that stand for a slot, when every thread keeps the ones it has.
LEMMA EndingKept ==
    ASSUME \A u \in Threads : \A d \in Nat :
              d \in Depths(u)' /\ OpAt(u, d)' \in Ending
                 <=> d \in Depths(u) /\ OpAt(u, d) \in Ending
    PROVE  FramesDoing(Ending)' = FramesDoing(Ending)
<1>1. FramesDoing(Ending) =
         {f \in Threads \X Nat : f[2] \in Depths(f[1]) /\ OpAt(f[1], f[2]) \in Ending}
    BY FramesView
<1>2. FramesDoing(Ending)' =
         {f \in Threads \X Nat : f[2] \in Depths(f[1])' /\ OpAt(f[1], f[2])' \in Ending}
    BY DEF FramesDoing, Frames, Depths, OpAt
<1> QED
    BY <1>1, <1>2

\* The destructor owns what was in the line.
LEMMA LineTaken ==
    ASSUME IInv, NEW t \in Threads, NEW n, NEW new, OnTop(t, n, "swap", NoRequest), TypeOK',
           KeptBelow(t, n), Depths(t)' = (Depths(t) \ {n}) \cup new,
           \A d \in new : d \notin Depths(t) \ {n} /\ OpAt(t, d)' = "delete",
           {ReqAt(t, d)' : d \in new} = Waiting(queue),
           \A d, e \in new : ReqAt(t, d)' = ReqAt(t, e)' => d = e,
           Waiting(queue') = {}, Distinct(queue'),
           UNCHANGED <<inFlight, mutex, refs, op, status, handled, life>>
    PROVE  IInv'
<1>1. /\ "swap" \notin Owning /\ "swap" \notin Sharing /\ "swap" \notin Dropping
      /\ "delete" \in Owning /\ "delete" \notin Sharing /\ "delete" \notin Dropping
    BY DEF Owning, Sharing, Dropping
<1>2. /\ n \in Depths(t) /\ OpAt(t, n) = "swap" /\ ReqAt(t, n) = NoRequest
      /\ Depths(t) \subseteq Nat /\ \A d \in Depths(t) : d <= n
      /\ KeptBelow(t, n) /\ Depths(t)' = (Depths(t) \ {n}) \cup new
      /\ \A d \in new : d \notin Depths(t) \ {n} /\ OpAt(t, d)' = "delete"
      /\ \A d \in new : ReqAt(t, d)' \in Waiting(queue)
    BY DEF OnTop
<1>3. /\ \A r \in Waiting(queue) : \E d \in new : ReqAt(t, d)' = r
      /\ \A d, e \in new : ReqAt(t, d)' = ReqAt(t, e)' => d = e
    OBVIOUS
<1>4. Waiting(queue) \subseteq Requests
    BY WaitingType DEF IInv, TypeOK
<1>5. /\ n = 3 /\ life = "stopped" /\ t \in Callers
    BY <1>2 DEF IInv, DestructorFrames
<1>6. \A u \in Threads : \A d \in Depths(u) :
          OpAt(u, d) \in Owning /\ ReqAt(u, d) # NoRequest => ReqAt(u, d) \notin Waiting(queue)
    BY DEF IInv, FramesOwn
<1>7. \A d \in new : status[ReqAt(t, d)'] = "sent" /\ refs[ReqAt(t, d)'] = {}
    BY <1>2 DEF IInv, LineOwns
<1>8. FramesNamed'
    BY <1>1, <1>2, <1>4 DEF IInv, FramesNamed, KeptBelow
<1>9. MutexKept'
    BY <1>1, <1>2, <1>4 DEF IInv, MutexKept, KeptBelow
<1>10. SharesKept'
    BY <1>1, <1>2, <1>4 DEF IInv, SharesKept, KeptBelow
<1>11. FramesOwn'
    BY <1>1, <1>2, <1>4, <1>7 DEF IInv, FramesOwn, KeptBelow
<1>12. OneFrame'
    BY <1>1, <1>2, <1>3, <1>4, <1>6 DEF IInv, OneFrame, KeptBelow
<1>13. LineOwns'
    BY <1>1, <1>2, <1>4 DEF IInv, LineOwns, KeptBelow
<1>14. SomeOwner'
    BY <1>1, <1>2, <1>3, <1>4 DEF IInv, SomeOwner, KeptBelow
<1>15. DestructorFrames'
    BY <1>1, <1>2, <1>4, <1>5
       DEF IInv, DestructorFrames, KeptBelow, OnTop, IoIdle, Threads
<1>16. DestructorAlone'
    BY <1>1, <1>2, <1>4, <1>5 DEF IInv, DestructorAlone, KeptBelow, Threads
<1>17. NobodyWorks'
    BY <1>1, <1>2, <1>4, <1>5 DEF IInv, NobodyWorks, KeptBelow, IoIdle, Threads
<1>18. HandledOnce'
    BY <1>1, <1>2, <1>4 DEF IInv, HandledOnce, KeptBelow
<1>19. Counted'
    <2>1. FramesDoing(Ending)' = FramesDoing(Ending)
        <3>1. \A u \in Threads : \A d \in Nat :
                 d \in Depths(u)' /\ OpAt(u, d)' \in Ending
                    <=> d \in Depths(u) /\ OpAt(u, d) \in Ending
            BY <1>2 DEF Ending, KeptBelow
        <3> QED
            BY <3>1, EndingKept
    <2> QED
        BY <2>1 DEF IInv, Counted, InFlightExact, LiveSockets, Ending
<1> QED
    BY <1>8, <1>9, <1>10, <1>11, <1>12, <1>13, <1>14, <1>15, <1>16, <1>17,
           <1>18, <1>19 DEF IInv

\* A handler moves out of the io_context into an idle io thread.
LEMMA HandlerStarts ==
    ASSUME NEW t \in IoThreads, NEW r \in Requests, IInv, TypeOK', Depths(t) = {},
           OthersKept(t),
           1 \in Depths(t)', OpAt(t, 1)' = "drop", Depths(t)' \subseteq Nat \ {0},
           \A d \in Depths(t)' : ReqAt(t, d)' = r,
           \A d \in Depths(t)' \ {1} : OpAt(t, d)' \in {"progress", "connect"},
           op[r] # "none", life = "up",
           op' = [op EXCEPT ![r] = "none"],
           refs' = [refs EXCEPT ![r] = (@ \ {Op}) \cup {t}],
           UNCHANGED <<queue, inFlight, mutex, status, handled, life>>
    PROVE  IInv'
<1>1. /\ t \in Threads /\ t # Op /\ NoRequest \notin Requests /\ t \notin Callers
      /\ \A u \in Threads : u # Op
    BY ClientAssumption DEF Threads, Op
<1>2. /\ Depths(t) = {} /\ 1 \in Depths(t)' /\ OpAt(t, 1)' = "drop"
      /\ Depths(t)' \subseteq Nat \ {0}
      /\ \A d \in Depths(t)' : ReqAt(t, d)' = r
      /\ \A d \in Depths(t)' \ {1} : OpAt(t, d)' \in {"progress", "connect"}
      /\ \A u \in Threads \ {t} :
              Depths(u)' = Depths(u)
              /\ \A d \in Depths(u) : OpAt(u, d)' = OpAt(u, d) /\ ReqAt(u, d)' = ReqAt(u, d)
    BY DEF OthersKept
<1>3. \A d \in Depths(t)' :
          /\ OpAt(t, d)' \in {"drop", "progress", "connect"}
          /\ OpAt(t, d)' \in Sharing /\ OpAt(t, d)' \notin Owning
          /\ OpAt(t, d)' \in Dropping => d = 1
    BY <1>2 DEF Owning, Sharing, Dropping
<1>4. /\ Op \in refs[r] /\ status[r] = "sent" /\ r \notin Waiting(queue)
      /\ refs'[r] = (refs[r] \ {Op}) \cup {t} /\ t \notin refs[r]
      /\ op'[r] = "none" /\ life = "up"
      /\ \A x \in Requests \ {r} : refs'[x] = refs[x] /\ op'[x] = op[x] /\ t \notin refs[x]
    BY <1>1 DEF IInv, TypeOK, SharesKept, LineOwns
<1>5. "drop" \in Dropping
    BY DEF Dropping
<1>6. FramesNamed'
    BY <1>1, <1>2, <1>3, <1>4 DEF IInv, FramesNamed
<1>7. MutexKept'
    BY <1>1, <1>2, <1>3, <1>4 DEF IInv, MutexKept
<1>8. SharesKept'
    BY <1>1, <1>2, <1>3, <1>4, <1>5 DEF IInv, SharesKept
<1>9. FramesOwn'
    BY <1>1, <1>2, <1>3, <1>4 DEF IInv, FramesOwn
<1>10. OneFrame'
    BY <1>1, <1>2, <1>3, <1>4 DEF IInv, OneFrame
<1>11. LineOwns'
    BY <1>1, <1>2, <1>3, <1>4 DEF IInv, LineOwns
<1>12. SomeOwner'
    BY <1>1, <1>2, <1>3, <1>4 DEF IInv, SomeOwner
<1>13. DestructorFrames'
    BY <1>1, <1>2, <1>3, <1>4 DEF IInv, DestructorFrames, OnTop, IoIdle, Threads
<1>14. DestructorAlone'
    BY <1>1, <1>2, <1>3, <1>4 DEF IInv, DestructorAlone, Threads
<1>15. NobodyWorks'
    BY <1>1, <1>2, <1>3, <1>4 DEF IInv, NobodyWorks, IoIdle, Threads
<1>16. HandledOnce'
    BY <1>1, <1>2, <1>3, <1>4 DEF IInv, HandledOnce
<1>17. Counted'
    <2>1. FramesDoing(Ending)' = FramesDoing(Ending)
        <3>1. \A u \in Threads : \A d \in Nat :
                 d \in Depths(u)' /\ OpAt(u, d)' \in Ending
                    <=> d \in Depths(u) /\ OpAt(u, d) \in Ending
            BY <1>2 DEF Ending, KeptBelow
        <3> QED
            BY <3>1, EndingKept
    <2>2. LiveSockets' = LiveSockets
        BY <1>4 DEF LiveSockets
    <2> QED
        BY <2>1, <2>2 DEF IInv, Counted, InFlightExact, Ending
<1> QED
    BY <1>6, <1>7, <1>8, <1>9, <1>10, <1>11, <1>12, <1>13, <1>14, <1>15, <1>16,
           <1>17 DEF IInv

\* A caller gives the client a new request.
LEMMA RequestHandedOver ==
    ASSUME NEW t \in Callers, NEW r \in Requests, IInv, TypeOK', Depths(t) = {},
           OthersKept(t),
           Depths(t)' = {1}, OpAt(t, 1)' = "send", ReqAt(t, 1)' = r,
           status[r] = "new", life = "up", status' = [status EXCEPT ![r] = "sent"],
           UNCHANGED <<queue, inFlight, mutex, refs, op, handled, life>>
    PROVE  IInv'
<1>1. /\ t \in Threads /\ t \notin IoThreads
      /\ "send" \in Owning /\ "send" \notin Sharing /\ "send" \notin Dropping
    BY ClientAssumption DEF Threads, Owning, Sharing, Dropping
<1>2. /\ Depths(t) = {} /\ Depths(t)' = {1} /\ OpAt(t, 1)' = "send" /\ ReqAt(t, 1)' = r
      /\ \A u \in Threads \ {t} :
              Depths(u)' = Depths(u)
              /\ \A d \in Depths(u) : OpAt(u, d)' = OpAt(u, d) /\ ReqAt(u, d)' = ReqAt(u, d)
    BY DEF OthersKept
<1>3. /\ status[r] = "new" /\ status'[r] = "sent" /\ refs[r] = {} /\ r \notin Waiting(queue)
      /\ \A x \in Requests \ {r} : status'[x] = status[x]
      /\ \A u \in Threads : \A d \in Depths(u) :
            OpAt(u, d) \in Owning /\ ReqAt(u, d) # NoRequest => ReqAt(u, d) # r
    BY DEF IInv, TypeOK, LineOwns, FramesOwn
<1>4. life = "up" /\ life' = "up" 
    OBVIOUS
<1>5. FramesNamed'
    BY <1>1, <1>2, <1>3, <1>4 DEF IInv, FramesNamed
<1>6. MutexKept'
    BY <1>1, <1>2, <1>3, <1>4 DEF IInv, MutexKept
<1>7. SharesKept'
    BY <1>1, <1>2, <1>3, <1>4 DEF IInv, SharesKept
<1>8. FramesOwn'
    BY <1>1, <1>2, <1>3, <1>4 DEF IInv, FramesOwn
<1>9. OneFrame'
    BY <1>1, <1>2, <1>3, <1>4 DEF IInv, OneFrame
<1>10. LineOwns'
    BY <1>1, <1>2, <1>3, <1>4 DEF IInv, LineOwns
<1>11. SomeOwner'
    BY <1>1, <1>2, <1>3, <1>4 DEF IInv, SomeOwner
<1>12. DestructorFrames'
    BY <1>1, <1>2, <1>3, <1>4 DEF IInv, DestructorFrames, OnTop, IoIdle, Threads
<1>13. DestructorAlone'
    BY <1>1, <1>2, <1>3, <1>4 DEF IInv, DestructorAlone, Threads
<1>14. NobodyWorks'
    BY <1>1, <1>2, <1>3, <1>4 DEF IInv, NobodyWorks, IoIdle, Threads
<1>15. HandledOnce'
    BY <1>1, <1>2, <1>3, <1>4 DEF IInv, HandledOnce
<1>16. Counted'
    <2>1. FramesDoing(Ending)' = FramesDoing(Ending)
        <3>1. \A u \in Threads : \A d \in Nat :
                 d \in Depths(u)' /\ OpAt(u, d)' \in Ending
                    <=> d \in Depths(u) /\ OpAt(u, d) \in Ending
            BY <1>2 DEF Ending, KeptBelow
        <3> QED
            BY <3>1, EndingKept
    <2> QED
        BY <2>1 DEF IInv, Counted, InFlightExact, LiveSockets, Ending
<1> QED
    BY <1>5, <1>6, <1>7, <1>8, <1>9, <1>10, <1>11, <1>12, <1>13, <1>14, <1>15,
           <1>16 DEF IInv

\* A caller destroys the client while no caller is inside it.
LEMMA DestructorStarts ==
    ASSUME NEW t \in Callers, IInv, TypeOK', Depths(t) = {},
           OthersKept(t),
           Depths(t)' = {1, 2, 3}, \A d \in Depths(t)' : ReqAt(t, d)' = NoRequest,
           OpAt(t, 1)' = "members", OpAt(t, 2)' = "join", OpAt(t, 3)' = "swap",
           \A u \in Callers : Depths(u) = {}, life = "up", life' = "stopped",
           UNCHANGED <<queue, inFlight, mutex, refs, op, status, handled>>
    PROVE  IInv'
<1>1. /\ t \in Threads /\ t \notin IoThreads
      /\ \A o \in {"swap", "join", "members"} :
            o \notin Owning /\ o \notin Sharing /\ o \notin Dropping
    BY ClientAssumption DEF Threads, Owning, Sharing, Dropping
<1>2. /\ Depths(t) = {} /\ Depths(t)' = {1, 2, 3}
      /\ \A d \in Depths(t)' : ReqAt(t, d)' = NoRequest
      /\ OpAt(t, 1)' = "members" /\ OpAt(t, 2)' = "join" /\ OpAt(t, 3)' = "swap"
      /\ \A u \in Threads \ {t} :
              Depths(u)' = Depths(u)
              /\ \A d \in Depths(u) : OpAt(u, d)' = OpAt(u, d) /\ ReqAt(u, d)' = ReqAt(u, d)
    BY DEF OthersKept
<1>3. \A d \in Depths(t)' :
          /\ OpAt(t, d)' \in {"swap", "join", "members"}
          /\ OpAt(t, d)' \notin Owning /\ OpAt(t, d)' \notin Sharing
          /\ OpAt(t, d)' \notin Dropping
    BY <1>1, <1>2
<1>4. life = "up" /\ life' = "stopped" /\ \A u \in Callers : Depths(u) = {}
    OBVIOUS
<1>5. FramesNamed'
    BY <1>1, <1>2, <1>3, <1>4 DEF IInv, FramesNamed
<1>6. MutexKept'
    BY <1>1, <1>2, <1>3, <1>4 DEF IInv, MutexKept
<1>7. SharesKept'
    BY <1>1, <1>2, <1>3, <1>4 DEF IInv, SharesKept
<1>8. FramesOwn'
    BY <1>1, <1>2, <1>3, <1>4 DEF IInv, FramesOwn
<1>9. OneFrame'
    BY <1>1, <1>2, <1>3, <1>4 DEF IInv, OneFrame
<1>10. LineOwns'
    BY <1>1, <1>2, <1>3, <1>4 DEF IInv, LineOwns
<1>11. SomeOwner'
    BY <1>1, <1>2, <1>3, <1>4 DEF IInv, SomeOwner
<1>12. DestructorFrames'
    BY <1>1, <1>2, <1>3, <1>4 DEF IInv, DestructorFrames, OnTop, IoIdle, Threads
<1>13. DestructorAlone'
    BY <1>1, <1>2, <1>3, <1>4 DEF IInv, DestructorAlone, Threads
<1>14. NobodyWorks'
    BY <1>1, <1>2, <1>3, <1>4 DEF IInv, NobodyWorks, IoIdle, Threads
<1>15. HandledOnce'
    BY <1>1, <1>2, <1>3, <1>4 DEF IInv, HandledOnce
<1>16. Counted'
    <2>1. FramesDoing(Ending)' = FramesDoing(Ending)
        <3>1. \A u \in Threads : \A d \in Nat :
                 d \in Depths(u)' /\ OpAt(u, d)' \in Ending
                    <=> d \in Depths(u) /\ OpAt(u, d) \in Ending
            BY <1>2 DEF Ending, KeptBelow
        <3> QED
            BY <3>1, EndingKept
    <2> QED
        BY <2>1 DEF IInv, Counted, InFlightExact, LiveSockets, Ending
<1> QED
    BY <1>5, <1>6, <1>7, <1>8, <1>9, <1>10, <1>11, <1>12, <1>13, <1>14, <1>15,
           <1>16 DEF IInv
===============================================================================
