--------------------------- MODULE OvertakingProofs ---------------------------
(***************************************************************************)
(* The waiting line keeps its order, its accounting and its bound on        *)
(* overtaking for every set of requests, every multiplier and every number  *)
(* of slots.                                                                *)
(***************************************************************************)
EXTENDS Overtaking, PriorityQueueProofs

\* The relation between a line and its history that every insertion and every
\* removal preserves, stated for values so that it can be carried through the
\* line sendRequest has in the middle of its critical section.
Consistent(q, c, p, b) ==
    /\ q \in Seq(Entry)
    /\ Descending(q)
    /\ Distinct(q)
    /\ \A k \in 1..Len(q) :
          /\ q[k].pri = PriorityMultiplier * c[q[k].r] + p[q[k].r]
          /\ q[k].pri <= PriorityMultiplier * High
    /\ \A i, j \in 1..Len(q) :
          (i < j /\ <<q[j].r, q[i].r>> \in b) => c[q[i].r] > c[q[j].r]

\* The history c1, p1 after r has arrived in the line q with history c, p.
Aged(q, c, p, r, priority, c1, p1) ==
    /\ c1[r] = priority /\ p1[r] = 0
    /\ \A x \in Requests \ {r} :
          /\ c1[x] = c[x]
          /\ p1[x] = IF x \in {q[k].r : k \in Displaced(q, priority)}
                     THEN p[x] + 1 ELSE p[x]

\* The inductive invariant. The history must not speak of requests that have
\* left, or a Request that is sent again would inherit an old quarrel.
IInv ==
    /\ TypeOK
    /\ Consistent(queue, class, passed, before)
    /\ before \subseteq Waiting(queue) \X Waiting(queue)
    /\ Capacity
    /\ WorkConserving

\* The numbers that Priority multiplies to, without a product of variables.
LEMMA Classes ==
    /\ PriorityMultiplier \in Nat /\ PriorityMultiplier > 0
    /\ \A c \in Priority : /\ c \in Nat /\ c <= High
                           /\ PriorityMultiplier * c \in Nat
                           /\ PriorityMultiplier * c >= PriorityMultiplier
                           /\ PriorityMultiplier * c <= PriorityMultiplier * High
    /\ \A c, d \in Priority :
          PriorityMultiplier * c < PriorityMultiplier * d => c < d
<1>1. PriorityMultiplier \in Nat /\ PriorityMultiplier > 0
    BY PriorityMultiplierAssumption
<1>2. Priority = {1, 2, 3} /\ High = 3
    BY DEF Priority, Low, Medium, High
<1> QED
    BY <1>1, <1>2

\* What a type-correct line says about its pairs.
LEMMA LineElements ==
    ASSUME NEW q \in Seq(Entry)
    PROVE  /\ Len(q) \in Nat
           /\ \A k \in 1..Len(q) : /\ q[k] \in Entry
                                   /\ q[k].r \in Requests
                                   /\ q[k].pri \in Nat
                                   /\ q[k].r \in Waiting(q)
           /\ Waiting(q) \subseteq Requests
<1>1. Len(q) \in Nat /\ \A k \in 1..Len(q) : q[k] \in Entry
    BY ElementOfSeq, LenProperties
<1> QED
    BY <1>1 DEF Entry, Waiting

\* What separates the pairs that stay from those that are displaced.
LEMMA NumbersApart ==
    \A a, b, x \in Nat : a >= x /\ b < x => a >= b + 1
OBVIOUS

\* An insertion carries the relation over to the new line, with the history
\* that Send builds.
LEMMA InsertConsistent ==
    ASSUME NEW q, NEW c \in [Requests -> Priority], NEW p \in [Requests -> Nat], NEW b,
           NEW r \in Requests, NEW priority \in Priority,
           NEW c1, NEW p1, NEW b1,
           Consistent(q, c, p, b),
           b \subseteq Waiting(q) \X Waiting(q),
           r \notin Waiting(q),
           Aged(q, c, p, r, priority, c1, p1),
           b1 = b \cup (Waiting(q) \X {r})
    PROVE  Consistent(Insert(q, r, priority), c1, p1, b1)
<1> DEFINE new == Insert(q, r, priority)
           P == PriorityMultiplier * priority
           Top == PriorityMultiplier * High
<1>1. /\ q \in Seq(Entry) /\ Descending(q) /\ Distinct(q)
      /\ \A j \in 1..Len(q) : /\ q[j].pri = PriorityMultiplier * c[q[j].r] + p[q[j].r]
                              /\ q[j].pri <= Top
      /\ \A j, k \in 1..Len(q) :
            (j < k /\ <<q[k].r, q[j].r>> \in b) => c[q[j].r] > c[q[k].r]
    BY DEF Consistent
<1>2. /\ Len(q) \in Nat
      /\ \A j \in 1..Len(q) : /\ q[j].r \in Requests \ {r}
                              /\ q[j].pri \in Nat
    BY <1>1, LineElements
<1>3. ASSUME NEW j \in 1..Len(q)
      PROVE  /\ PriorityMultiplier * c[q[j].r] \in Nat
             /\ c[q[j].r] \in Priority
             /\ p[q[j].r] \in Nat
             /\ q[j].pri >= PriorityMultiplier
    <2>1. c[q[j].r] \in Priority /\ p[q[j].r] \in Nat
        BY <1>2
    <2>2. /\ PriorityMultiplier \in Nat
          /\ PriorityMultiplier * c[q[j].r] \in Nat
          /\ PriorityMultiplier * c[q[j].r] >= PriorityMultiplier
        BY <2>1, Classes
    <2>3. q[j].pri = PriorityMultiplier * c[q[j].r] + p[q[j].r]
        BY <1>1
    <2> QED
        BY <2>1, <2>2, <2>3
<1>4. P \in Nat /\ Top \in Nat /\ P <= Top
    BY Classes DEF Priority
<1>5. PICK i \in 1..(Len(q) + 1) :
             /\ Displaced(q, priority) = i..Len(q)
             /\ new \in Seq(Entry)
             /\ Len(new) = Len(q) + 1
             /\ \A k \in 1..(i - 1) : new[k] = q[k]
             /\ new[i] = [r |-> r, pri |-> P]
             /\ \A k \in (i + 1)..(Len(q) + 1) :
                    new[k] = [r |-> q[k - 1].r, pri |-> q[k - 1].pri + 1]
             /\ \A k \in 1..(i - 1) : q[k].pri >= P
             /\ \A k \in i..Len(q) : q[k].pri < P
    <2>1. \A k \in 1..Len(q) : q[k].pri >= PriorityMultiplier
        BY <1>3
    <2>2. Descending(q) /\ q \in Seq(Entry)
        BY <1>1
    <2> QED
        BY <2>1, <2>2, InsertShape
<1> HIDE DEF new, P, Top
<1>6. new[i].r = r /\ new[i].pri = P
    BY <1>5
<1>7. ASSUME NEW m \in 1..Len(new), m # i
      PROVE  \E j \in 1..Len(q) :
                /\ new[m].r = q[j].r
                /\ \/ m < i /\ m = j /\ new[m].pri = q[j].pri /\ q[j].pri >= P
                   \/ m > i /\ m = j + 1 /\ new[m].pri = q[j].pri + 1 /\ q[j].pri < P
    <2>1. CASE m < i
        <3>1. m \in 1..Len(q) /\ m \in 1..(i - 1)
            BY <1>2, <1>5, <2>1
        <3>2. new[m] = q[m] /\ q[m].pri >= P
            BY <1>5, <3>1
        <3> QED
            BY <2>1, <3>1, <3>2
    <2>2. CASE m > i
        <3>1. PICK j \in 1..Len(q) : m = j + 1 /\ j = m - 1 /\ j \in i..Len(q)
            <4>1. m - 1 \in i..Len(q) /\ m - 1 \in 1..Len(q) /\ m = (m - 1) + 1
                BY <1>2, <1>5, <2>2
            <4> QED
                BY <4>1
        <3>2. m \in (i + 1)..(Len(q) + 1)
            BY <1>2, <1>5, <2>2
        <3>3. new[m] = [r |-> q[j].r, pri |-> q[j].pri + 1] /\ q[j].pri < P
            BY <1>5, <3>1, <3>2
        <3>4. new[m].r = q[j].r /\ new[m].pri = q[j].pri + 1
            BY <3>3
        <3> QED
            BY <2>2, <3>1, <3>3, <3>4
    <2> QED
        BY <1>2, <1>5, <1>7, <2>1, <2>2
<1>8. ASSUME NEW m \in 1..Len(new), NEW n \in 1..Len(new), m < n
      PROVE  new[m].pri >= new[n].pri
    <2>1. \A j, k \in 1..Len(q) : j < k => q[j].pri >= q[k].pri
        BY <1>1 DEF Descending
    <2>2. m \in Nat /\ n \in Nat /\ i \in Nat
        BY <1>2, <1>5
    <2>3. CASE m = i
        <3>1. PICK k \in 1..Len(q) : new[n].pri = q[k].pri + 1 /\ q[k].pri < P
            BY <1>7, <1>8, <2>2, <2>3
        <3> QED
            BY <1>2, <1>4, <1>6, <2>3, <3>1
    <2>4. CASE n = i
        <3>1. PICK j \in 1..Len(q) : new[m].pri = q[j].pri /\ q[j].pri >= P
            BY <1>7, <1>8, <2>2, <2>4
        <3> QED
            BY <1>6, <2>4, <3>1
    <2>5. CASE m # i /\ n # i
        <3>1. PICK j \in 1..Len(q) :
                \/ m < i /\ m = j /\ new[m].pri = q[j].pri /\ q[j].pri >= P
                \/ m > i /\ m = j + 1 /\ new[m].pri = q[j].pri + 1 /\ q[j].pri < P
            BY <1>7, <2>5
        <3>2. PICK k \in 1..Len(q) :
                \/ n < i /\ n = k /\ new[n].pri = q[k].pri /\ q[k].pri >= P
                \/ n > i /\ n = k + 1 /\ new[n].pri = q[k].pri + 1 /\ q[k].pri < P
            BY <1>7, <2>5
        <3>3. q[j].pri \in Nat /\ q[k].pri \in Nat /\ (j < k => q[j].pri >= q[k].pri)
            BY <1>2, <2>1
        <3>4. j \in Nat /\ k \in Nat
            BY <1>2
        <3>5. CASE n < i
            <4>1. new[m].pri = q[j].pri /\ new[n].pri = q[k].pri /\ j < k
                BY <1>8, <2>2, <3>1, <3>2, <3>4, <3>5
            <4> QED
                BY <3>3, <4>1
        <3>6. CASE m > i
            <4>1. new[m].pri = q[j].pri + 1 /\ new[n].pri = q[k].pri + 1 /\ j < k
                BY <1>8, <2>2, <3>1, <3>2, <3>4, <3>6
            <4> QED
                BY <3>3, <4>1
        <3>7. CASE m < i /\ n > i
            <4>1. new[m].pri = q[j].pri /\ q[j].pri >= P
                BY <2>2, <3>1, <3>7
            <4>2. new[n].pri = q[k].pri + 1 /\ q[k].pri < P
                BY <2>2, <3>2, <3>7
            <4>3. q[j].pri >= q[k].pri + 1
                BY <1>4, <3>3, <4>1, <4>2, NumbersApart
            <4> QED
                BY <4>1, <4>2, <4>3
        <3> QED
            BY <1>8, <2>2, <2>5, <3>5, <3>6, <3>7
    <2> QED
        BY <2>3, <2>4, <2>5
<1>9. ASSUME NEW m \in 1..Len(new), NEW n \in 1..Len(new), new[m].r = new[n].r
      PROVE  m = n
    <2>1. ASSUME NEW k \in 1..Len(new), k # i PROVE new[k].r # r
        <3>1. PICK j \in 1..Len(q) : new[k].r = q[j].r
            BY <1>7, <2>1
        <3> QED
            BY <1>2, <3>1
    <2>2. CASE m = i \/ n = i
        BY <1>6, <1>9, <2>1, <2>2
    <2>3. CASE m # i /\ n # i
        <3>1. PICK j \in 1..Len(q) :
                /\ new[m].r = q[j].r
                /\ \/ m < i /\ m = j /\ new[m].pri = q[j].pri /\ q[j].pri >= P
                   \/ m > i /\ m = j + 1 /\ new[m].pri = q[j].pri + 1 /\ q[j].pri < P
            BY <1>7, <2>3
        <3>2. PICK k \in 1..Len(q) :
                /\ new[n].r = q[k].r
                /\ \/ n < i /\ n = k /\ new[n].pri = q[k].pri /\ q[k].pri >= P
                   \/ n > i /\ n = k + 1 /\ new[n].pri = q[k].pri + 1 /\ q[k].pri < P
            BY <1>7, <2>3
        <3>3. j = k
            BY <1>1, <1>9, <3>1, <3>2 DEF Distinct
        <3>4. i \in Nat /\ j \in Nat
            BY <1>2
        <3> QED
            BY <3>1, <3>2, <3>3, <3>4
    <2> QED
        BY <2>2, <2>3
<1>10. ASSUME NEW m \in 1..Len(new)
       PROVE  /\ new[m].pri = PriorityMultiplier * c1[new[m].r] + p1[new[m].r]
              /\ new[m].pri <= Top
    <2>1. CASE m = i
        <3>1. c1[r] = priority /\ p1[r] = 0
            BY DEF Aged
        <3>2. P = PriorityMultiplier * c1[r] + p1[r]
            BY <1>4, <3>1 DEF P
        <3> QED
            BY <1>4, <1>6, <2>1, <3>2
    <2>2. CASE m # i
        <3>1. PICK j \in 1..Len(q) :
                /\ new[m].r = q[j].r
                /\ \/ m < i /\ m = j /\ new[m].pri = q[j].pri /\ q[j].pri >= P
                   \/ m > i /\ m = j + 1 /\ new[m].pri = q[j].pri + 1 /\ q[j].pri < P
            BY <1>7, <2>2
        <3>2. /\ q[j].pri = PriorityMultiplier * c[q[j].r] + p[q[j].r]
              /\ q[j].pri <= Top /\ q[j].pri \in Nat
            BY <1>1, <1>2
        <3>3. c1[q[j].r] = c[q[j].r]
            BY <1>2 DEF Aged
        <3>4. i \in Nat /\ j \in Nat
            BY <1>2
        <3>5. CASE m < i
            <4>1. ASSUME NEW k \in Displaced(q, priority) PROVE q[k].r # q[j].r
                <5>1. k \in 1..Len(q) /\ k # j
                    BY <1>2, <1>5, <3>1, <3>5
                <5> QED
                    BY <1>1, <5>1 DEF Distinct
            <4>2. p1[q[j].r] = p[q[j].r]
                BY <1>2, <4>1 DEF Aged
            <4>3. new[m].pri = q[j].pri
                BY <3>1, <3>4, <3>5
            <4> QED
                BY <3>1, <3>2, <3>3, <4>2, <4>3
        <3>6. CASE m > i
            <4>1. j \in Displaced(q, priority)
                BY <1>5, <3>1, <3>4, <3>6
            <4>2. p1[q[j].r] = p[q[j].r] + 1
                BY <1>2, <4>1 DEF Aged
            <4>3. new[m].pri = q[j].pri + 1 /\ q[j].pri < P
                BY <3>1, <3>4, <3>6
            <4>4. q[j].pri + 1 = PriorityMultiplier * c[q[j].r] + (p[q[j].r] + 1)
                BY <1>3, <3>2
            <4>5. new[m].pri = PriorityMultiplier * c1[new[m].r] + p1[new[m].r]
                BY <3>1, <3>3, <4>2, <4>3, <4>4
            <4>6. new[m].pri <= Top
                BY <1>4, <3>2, <4>3
            <4> QED
                BY <4>5, <4>6
        <3> QED
            BY <3>1, <3>5, <3>6
    <2> QED
        BY <2>1, <2>2
<1>11. ASSUME NEW m \in 1..Len(new), NEW n \in 1..Len(new), m < n,
              <<new[n].r, new[m].r>> \in b1
       PROVE  c1[new[m].r] > c1[new[n].r]
    <2>1. i \in Nat /\ m \in Nat /\ n \in Nat
        BY <1>2, <1>5
    <2>2. CASE <<new[n].r, new[m].r>> \in b
        <3>1. m # i /\ n # i
            BY <1>6, <2>2
        <3>2. PICK j \in 1..Len(q) :
                /\ new[m].r = q[j].r
                /\ \/ m < i /\ m = j /\ new[m].pri = q[j].pri /\ q[j].pri >= P
                   \/ m > i /\ m = j + 1 /\ new[m].pri = q[j].pri + 1 /\ q[j].pri < P
            BY <1>7, <3>1
        <3>3. PICK k \in 1..Len(q) :
                /\ new[n].r = q[k].r
                /\ \/ n < i /\ n = k /\ new[n].pri = q[k].pri /\ q[k].pri >= P
                   \/ n > i /\ n = k + 1 /\ new[n].pri = q[k].pri + 1 /\ q[k].pri < P
            BY <1>7, <3>1
        <3>4. j \in Nat /\ k \in Nat
            BY <1>2
        <3>5. j < k
            BY <1>11, <2>1, <3>2, <3>3, <3>4
        <3>6. c[q[j].r] > c[q[k].r]
            BY <1>1, <2>2, <3>2, <3>3, <3>5
        <3>7. c1[q[j].r] = c[q[j].r] /\ c1[q[k].r] = c[q[k].r]
            BY <1>2 DEF Aged
        <3> QED
            BY <3>2, <3>3, <3>6, <3>7
    <2>3. CASE <<new[n].r, new[m].r>> \in Waiting(q) \X {r}
        <3>1. new[m].r = r
            BY <2>3
        <3>2. m = i
            <4>1. i \in 1..Len(new)
                BY <1>5
            <4> QED
                BY <1>6, <1>9, <3>1, <4>1
        <3>3. PICK k \in 1..Len(q) : new[n].r = q[k].r /\ q[k].pri < P
            BY <1>7, <1>11, <2>1, <3>2
        <3>4. c[q[k].r] < priority
            <4>1. /\ q[k].pri = PriorityMultiplier * c[q[k].r] + p[q[k].r]
                  /\ q[k].pri \in Nat
                BY <1>1, <1>2
            <4>2. /\ PriorityMultiplier * c[q[k].r] \in Nat
                  /\ c[q[k].r] \in Priority /\ p[q[k].r] \in Nat
                BY <1>3
            <4>3. PriorityMultiplier * c[q[k].r] < P
                BY <1>4, <3>3, <4>1, <4>2
            <4> QED
                BY <4>2, <4>3, Classes DEF P
        <3>5. c1[r] = priority /\ c1[q[k].r] = c[q[k].r]
            BY <1>2 DEF Aged
        <3>6. c[q[k].r] \in Nat /\ priority \in Nat
            <4>1. c[q[k].r] \in Priority
                BY <1>3
            <4> QED
                BY <4>1, Classes
        <3> QED
            BY <3>1, <3>3, <3>4, <3>5, <3>6
    <2> QED
        BY <1>11, <2>2, <2>3
<1>12. Descending(new) /\ Distinct(new)
    BY <1>8, <1>9 DEF Descending, Distinct
<1>13. Consistent(new, c1, p1, b1)
    BY <1>5, <1>10, <1>11, <1>12 DEF Consistent, Top
<1> QED
    BY <1>13 DEF new

\* Starting the front request leaves a consistent line.
LEMMA TailConsistent ==
    ASSUME NEW q, NEW c, NEW p, NEW b, Consistent(q, c, p, b), q # <<>>
    PROVE  Consistent(Tail(q), c, p, b)
<1>1. /\ Tail(q) \in Seq(Entry)
      /\ Len(Tail(q)) = Len(q) - 1
      /\ \A k \in 1..Len(Tail(q)) : Tail(q)[k] = q[k + 1]
    BY HeadTailProperties DEF Consistent
<1>2. Len(q) \in Nat
    BY LenProperties DEF Consistent
<1>3. \A k \in 1..Len(Tail(q)) : k + 1 \in 1..Len(q)
    BY <1>1, <1>2
<1>4. Descending(Tail(q)) /\ Distinct(Tail(q))
    BY <1>1, <1>2, <1>3 DEF Consistent, Descending, Distinct
<1> QED
    BY <1>1, <1>2, <1>3, <1>4 DEF Consistent

\* Remember keeps the relation while it forgets the requests that have left.
LEMMA RememberConsistent ==
    ASSUME NEW c \in [Requests -> Priority], NEW p \in [Requests -> Nat],
           NEW b \in SUBSET (Requests \X Requests),
           Remember(c, p, b), Consistent(queue', c, p, b)
    PROVE  /\ class' \in [Requests -> Priority]
           /\ passed' \in [Requests -> Nat]
           /\ before' \subseteq Requests \X Requests
           /\ before' \subseteq Waiting(queue') \X Waiting(queue')
           /\ Consistent(queue', class', passed', before')
<1> DEFINE left == Requests \ Waiting(queue')
<1>1. /\ class'  = [x \in Requests |-> IF x \in left THEN Low ELSE c[x]]
      /\ passed' = [x \in Requests |-> IF x \in left THEN 0 ELSE p[x]]
      /\ before' = {pair \in b : pair[1] \notin left /\ pair[2] \notin left}
    BY DEF Remember
<1>2. queue' \in Seq(Entry)
    BY DEF Consistent
<1>3. \A k \in 1..Len(queue') : /\ queue'[k].r \in Requests
                                /\ queue'[k].r \in Waiting(queue')
    BY <1>2, LineElements
<1>4. \A k \in 1..Len(queue') : /\ class'[queue'[k].r] = c[queue'[k].r]
                                /\ passed'[queue'[k].r] = p[queue'[k].r]
    BY <1>1, <1>3
<1>5. before' \subseteq b
    BY <1>1
<1>6. Consistent(queue', class', passed', before')
    BY <1>4, <1>5 DEF Consistent
<1>7. before' \subseteq Waiting(queue') \X Waiting(queue')
    BY <1>1
<1>8. class' \in [Requests -> Priority] /\ passed' \in [Requests -> Nat]
    BY <1>1 DEF Priority
<1> QED
    BY <1>5, <1>6, <1>7, <1>8

\* postNext keeps the line it is given, or its tail, consistent, and leaves no
\* slot free while a request waits.
LEMMA PostNextConsistent ==
    ASSUME NEW q, NEW n \in Nat, NEW c, NEW p, NEW b,
           Consistent(q, c, p, b), n <= MaxInFlight,
           Len(q) > 1 => n + 1 >= MaxInFlight,
           PostNext(q, n)
    PROVE  /\ Consistent(queue', c, p, b)
           /\ queue' \in Seq(Entry) /\ inFlight' \in Nat
           /\ Capacity' /\ WorkConserving'
<1>1. MaxInFlight \in Nat
    BY MaxInFlightAssumption
<1>2. CASE (n >= MaxInFlight \/ q = <<>>) /\ queue' = q /\ inFlight' = n
    BY <1>1, <1>2 DEF Consistent, Capacity, WorkConserving
<1>3. CASE n < MaxInFlight /\ q # <<>> /\ queue' = Tail(q) /\ inFlight' = n + 1
    <2>1. Consistent(queue', c, p, b)
        BY <1>3, TailConsistent
    <2>2. queue' # <<>> => Len(q) > 1
        <3>1. q \in Seq(Entry) /\ Len(q) \in Nat /\ Len(Tail(q)) = Len(q) - 1
            BY <1>3, HeadTailProperties, LenProperties DEF Consistent
        <3>2. queue' \in Seq(Entry) /\ Len(queue') = Len(q) - 1
            BY <1>3, <2>1, <3>1 DEF Consistent
        <3>3. queue' # <<>> => Len(queue') # 0
            BY <3>2, EmptySeq
        <3> QED
            BY <1>3, <3>1, <3>2, <3>3, LenProperties
    <2> QED
        BY <1>1, <1>3, <2>1, <2>2 DEF Consistent, Capacity, WorkConserving
<1> QED
    BY <1>2, <1>3 DEF PostNext

\* The empty line of Init, and of Drain, is consistent with any history.
LEMMA EmptyConsistent ==
    ASSUME NEW c, NEW p, NEW b
    PROVE  Consistent(<<>>, c, p, b)
BY EmptySeq DEF Consistent, Descending, Distinct

LEMMA InitIInv == Init => IInv
<1> SUFFICES ASSUME Init PROVE IInv
    OBVIOUS
<1>1. queue = <<>> /\ inFlight = 0 /\ before = {}
    BY DEF Init, SchedulerInit
<1>2. TypeOK
    BY <1>1, EmptySeq DEF TypeOK, SchedulerTypeOK, Init, Priority
<1>3. Consistent(queue, class, passed, before)
    BY <1>1, EmptyConsistent
<1> QED
    BY <1>1, <1>2, <1>3, MaxInFlightAssumption DEF IInv, Capacity, WorkConserving

LEMMA NextIInv == IInv /\ [Next]_vars => IInv'
<1> SUFFICES ASSUME IInv, [Next]_vars PROVE IInv'
    OBVIOUS
<1>1. /\ queue \in Seq(Entry) /\ inFlight \in Nat /\ inFlight <= MaxInFlight
      /\ class \in [Requests -> Priority] /\ passed \in [Requests -> Nat]
      /\ before \subseteq Requests \X Requests
      /\ Consistent(queue, class, passed, before)
      /\ before \subseteq Waiting(queue) \X Waiting(queue)
      /\ Len(queue) \in Nat /\ (Len(queue) > 0 => inFlight >= MaxInFlight)
    <2>1. queue \in Seq(Entry)
        BY DEF IInv, TypeOK, SchedulerTypeOK
    <2>2. Len(queue) \in Nat /\ (Len(queue) > 0 => queue # <<>>)
        BY <2>1, EmptySeq, LenProperties
    <2> QED
        BY <2>1, <2>2 DEF IInv, TypeOK, SchedulerTypeOK, Capacity, WorkConserving
<1>2. ASSUME NEW c \in [Requests -> Priority], NEW p \in [Requests -> Nat],
             NEW b \in SUBSET (Requests \X Requests),
             NEW q, NEW n \in Nat, n <= MaxInFlight,
             Len(q) > 1 => n + 1 >= MaxInFlight,
             Consistent(q, c, p, b), PostNext(q, n), Remember(c, p, b)
      PROVE  IInv'
    <2>1. /\ Consistent(queue', c, p, b)
          /\ queue' \in Seq(Entry) /\ inFlight' \in Nat
          /\ Capacity' /\ WorkConserving'
        BY <1>2, PostNextConsistent
    <2>2. /\ class' \in [Requests -> Priority]
          /\ passed' \in [Requests -> Nat]
          /\ before' \subseteq Requests \X Requests
          /\ before' \subseteq Waiting(queue') \X Waiting(queue')
          /\ Consistent(queue', class', passed', before')
        BY <1>2, <2>1, RememberConsistent
    <2> QED
        BY <2>1, <2>2 DEF IInv, TypeOK, SchedulerTypeOK
<1>3. ASSUME NEW r \in Requests, NEW priority \in Priority, Send(r, priority)
      PROVE  IInv'
    <2> DEFINE c == [class EXCEPT ![r] = priority]
               p == [x \in Requests |->
                        IF x = r THEN 0
                        ELSE IF x \in {queue[k].r : k \in Displaced(queue, priority)}
                             THEN passed[x] + 1 ELSE passed[x]]
               b == before \cup (Waiting(queue) \X {r})
               q == Insert(queue, r, priority)
    <2>1. r \notin Waiting(queue) /\ PostNext(q, inFlight) /\ Remember(c, p, b)
        BY <1>3 DEF Send, SendRequest
    <2>2. Consistent(q, c, p, b)
        <3>1. Aged(queue, class, passed, r, priority, c, p)
            BY <1>1 DEF Aged
        <3> HIDE DEF c, p
        <3> QED
            BY <1>1, <2>1, <3>1, InsertConsistent
    <2>3. /\ c \in [Requests -> Priority] /\ p \in [Requests -> Nat]
          /\ b \in SUBSET (Requests \X Requests)
        BY <1>1, LineElements
    <2>4. Len(q) = Len(queue) + 1
        <3>1. \A k \in 1..Len(queue) : queue[k].pri >= PriorityMultiplier
            <4>1. ASSUME NEW k \in 1..Len(queue)
                  PROVE  queue[k].pri >= PriorityMultiplier
                <5>1. class[queue[k].r] \in Priority /\ passed[queue[k].r] \in Nat
                    BY <1>1, LineElements
                <5>2. /\ PriorityMultiplier * class[queue[k].r] \in Nat
                      /\ PriorityMultiplier * class[queue[k].r] >= PriorityMultiplier
                      /\ PriorityMultiplier \in Nat
                    BY <5>1, Classes
                <5>3. queue[k].pri = PriorityMultiplier * class[queue[k].r]
                                        + passed[queue[k].r]
                    BY <1>1 DEF Consistent
                <5> QED
                    BY <5>1, <5>2, <5>3
            <4> QED
                BY <4>1
        <3>2. Descending(queue)
            BY <1>1 DEF Consistent
        <3> QED
            BY <1>1, <3>1, <3>2, InsertShape
    <2>5. Len(q) > 1 => inFlight + 1 >= MaxInFlight
        BY <1>1, <2>4, MaxInFlightAssumption
    <2> HIDE DEF c, p, b, q
    <2> QED
        BY <1>1, <1>2, <2>1, <2>2, <2>3, <2>5
<1>4. CASE Finish
    <2>1. /\ inFlight - 1 \in Nat /\ inFlight - 1 <= MaxInFlight
          /\ PostNext(queue, inFlight - 1)
          /\ Remember(class, passed, before)
        BY <1>1, <1>4, MaxInFlightAssumption DEF Finish, Completed
    <2>2. Len(queue) > 1 => inFlight - 1 + 1 >= MaxInFlight
        BY <1>1, MaxInFlightAssumption
    <2> QED
        BY <1>1, <1>2, <2>1, <2>2
<1>5. CASE Clear
    <2>1. queue' = <<>> /\ inFlight' = inFlight /\ Remember(class, passed, before)
        BY <1>5 DEF Clear, Drain
    <2>2. Consistent(queue', class, passed, before)
        BY <2>1, EmptyConsistent
    <2>3. /\ class' \in [Requests -> Priority]
          /\ passed' \in [Requests -> Nat]
          /\ before' \subseteq Requests \X Requests
          /\ before' \subseteq Waiting(queue') \X Waiting(queue')
          /\ Consistent(queue', class', passed', before')
        BY <1>1, <2>1, <2>2, RememberConsistent
    <2> QED
        BY <1>1, <2>1, <2>3, EmptySeq
        DEF IInv, TypeOK, SchedulerTypeOK, Capacity, WorkConserving
<1>6. CASE UNCHANGED vars
    BY <1>6 DEF IInv, TypeOK, SchedulerTypeOK, Capacity, WorkConserving, vars
<1> QED
    BY <1>3, <1>4, <1>5, <1>6 DEF Next

LEMMA Invariance == Spec => []IInv
BY InitIInv, NextIInv, PTL DEF Spec

\* The variables keep their types.
THEOREM TypeCorrect == Spec => []TypeOK
<1>1. IInv => TypeOK
    BY DEF IInv
<1> QED
    BY <1>1, Invariance, PTL

\* The line stays ordered by number, with no request in it twice, although
\* every insertion of sendRequest rewrites the numbers behind it.
THEOREM LineSorted == Spec => []Sorted
<1>1. IInv => Sorted
    BY DEF IInv, Consistent, Sorted
<1> QED
    BY <1>1, Invariance, PTL

\* Numbers are the class plus one per displacement and never pass that of a
\* fresh High request.
THEOREM NumbersAccounted == Spec => []AgeAccounting
<1>1. IInv => AgeAccounting
    BY DEF IInv, Consistent, AgeAccounting
<1> QED
    BY <1>1, Invariance, PTL

\* No request is overtaken more often than its class allows.
THEOREM OvertakingBounded == Spec => []OvertakenBound
<1>1. IInv => OvertakenBound
    <2> SUFFICES ASSUME IInv, NEW r \in Waiting(queue)
                 PROVE  passed[r] <= PriorityMultiplier * (High - class[r])
        BY DEF OvertakenBound
    <2>1. PICK k \in 1..Len(queue) : queue[k].r = r
        BY DEF Waiting
    <2>2. /\ class[r] \in Priority /\ passed[r] \in Nat
          /\ PriorityMultiplier * class[r] + passed[r] <= PriorityMultiplier * High
        <3>1. r \in Requests
            BY <2>1, LineElements DEF IInv, Consistent
        <3> QED
            BY <2>1, <3>1 DEF IInv, TypeOK, Consistent
    <2>3. class[r] \in {1, 2, 3} /\ High = 3 /\ PriorityMultiplier \in Nat
        BY <2>2, Classes DEF Priority, Low, Medium, High
    <2> QED
        BY <2>2, <2>3
<1> QED
    BY <1>1, Invariance, PTL

\* Only a request of a strictly higher class is ever served before one that
\* was sent earlier.
THEOREM ArrivalOrderKept == Spec => []OnlyHigherOvertakes
<1>1. IInv => OnlyHigherOvertakes
    BY DEF IInv, Consistent, OnlyHigherOvertakes
<1> QED
    BY <1>1, Invariance, PTL

\* maxInFlight is never exceeded.
THEOREM SlotsBounded == Spec => []Capacity
<1>1. IInv => Capacity
    BY DEF IInv
<1> QED
    BY <1>1, Invariance, PTL

\* No slot is free while a request waits.
THEOREM SlotsBusy == Spec => []WorkConserving
<1>1. IInv => WorkConserving
    BY DEF IInv
<1> QED
    BY <1>1, Invariance, PTL
==============================================================================
