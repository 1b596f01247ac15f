------------------------- MODULE PriorityQueueProofs -------------------------
(***************************************************************************)
(* What PriorityQueue!Insert returns, for every line and every multiplier. *)
(***************************************************************************)
EXTENDS PriorityQueue, SequenceTheorems, WellFoundedInduction, TLAPS

\* A non-empty set of naturals has a least element.
LEMMA LeastNatural ==
    ASSUME NEW T, T \subseteq Nat, T # {}
    PROVE  \E m \in T : \A n \in T : m <= n
<1> DEFINE Less == {pair \in Nat \X Nat : pair[1] < pair[2]}
<1>1. IsWellFoundedOn(Less, Nat)
    BY NatLessThanWellFounded, Zenon DEF OpToRel
<1>2. \A m, n \in Nat : n < m => <<n, m>> \in Less
    OBVIOUS
<1> HIDE DEF Less
<1>3. PICK m \in T : \A n \in T : ~ (<<n, m>> \in Less)
    BY <1>1, WFMin
<1>4. \A n \in T : ~ (n < m)
    BY <1>2, <1>3
<1> QED
    BY <1>4

\* The search of sendRequest stops at the first pair with a smaller number.
LEMMA PositionFirst ==
    ASSUME NEW q \in Seq(Entry), NEW p \in Nat
    PROVE  /\ Position(q, p) \in 1..(Len(q) + 1)
           /\ \A j \in 1..(Position(q, p) - 1) : q[j].pri >= p
           /\ Position(q, p) <= Len(q) => q[Position(q, p)].pri < p
<1> DEFINE Stop == {k \in 1..(Len(q) + 1) : k <= Len(q) => q[k].pri < p}
<1>0. Len(q) \in Nat /\ \A k \in 1..Len(q) : q[k] \in Entry
    BY ElementOfSeq, LenProperties
<1>1. Len(q) \in Nat /\ \A k \in 1..Len(q) : q[k].pri \in Nat
    BY <1>0 DEF Entry
<1>2. Stop \subseteq Nat /\ Len(q) + 1 \in Stop
    BY <1>1
<1>3. PICK k \in Stop : \A n \in Stop : k <= n
    BY <1>2, LeastNatural
<1>4. /\ k \in 1..(Len(q) + 1)
      /\ \A j \in 1..(k - 1) : q[j].pri >= p
      /\ k <= Len(q) => q[k].pri < p
    BY <1>1, <1>3
<1> QED
    BY <1>4, Zenon DEF Position

\* The line after an insertion, position by position: what is ahead of the new
\* pair keeps its place and number, what is behind it moves back and ages.
LEMMA InsertShape ==
    ASSUME NEW q \in Seq(Entry), NEW r \in Requests, NEW priority \in Priority,
           Descending(q),
           \A k \in 1..Len(q) : q[k].pri >= PriorityMultiplier
    PROVE  \E i \in 1..(Len(q) + 1) :
             /\ Displaced(q, priority) = i..Len(q)
             /\ Insert(q, r, priority) \in Seq(Entry)
             /\ Len(Insert(q, r, priority)) = Len(q) + 1
             /\ \A k \in 1..(i - 1) : Insert(q, r, priority)[k] = q[k]
             /\ Insert(q, r, priority)[i] =
                    [r |-> r, pri |-> PriorityMultiplier * priority]
             /\ \A k \in (i + 1)..(Len(q) + 1) :
                    Insert(q, r, priority)[k] =
                        [r |-> q[k - 1].r, pri |-> q[k - 1].pri + 1]
             /\ \A k \in 1..(i - 1) : q[k].pri >= PriorityMultiplier * priority
             /\ \A k \in i..Len(q) : q[k].pri < PriorityMultiplier * priority
<1> DEFINE p == PriorityMultiplier * priority
           new == Insert(q, r, priority)
<1>1. PriorityMultiplier \in Nat /\ priority \in {1, 2, 3} /\ p \in Nat
    BY PriorityMultiplierAssumption DEF Priority, Low, Medium, High
<1>2. Len(q) \in Nat /\ \A k \in 1..Len(q) : q[k] \in Entry
    BY ElementOfSeq, LenProperties
<1>3. \A k \in 1..Len(q) : q[k].pri \in Nat /\ q[k].r \in Requests
    BY <1>2 DEF Entry
<1>4. [r |-> r, pri |-> p] \in Entry
    BY <1>1 DEF Entry
<1>5. CASE priority = Low
    <2>1. p = PriorityMultiplier
        BY <1>1, <1>5 DEF Low
    <2>2. new = Append(q, [r |-> r, pri |-> p]) /\ Displaced(q, priority) = {}
        BY <1>5, Zenon DEF Insert, Displaced
    <2>3. /\ new \in Seq(Entry)
          /\ Len(new) = Len(q) + 1
          /\ \A k \in 1..Len(q) : new[k] = q[k]
          /\ new[Len(q) + 1] = [r |-> r, pri |-> p]
        BY <1>2, <1>4, <2>2, AppendProperties
    <2>4. Len(q) + 1 \in 1..(Len(q) + 1) /\ (Len(q) + 1)..Len(q) = {}
        BY <1>2
    <2> QED
        BY <1>2, <1>3, <2>1, <2>2, <2>3, <2>4
<1>6. CASE priority # Low
    <2> DEFINE i == Position(q, p)
    <2>1. /\ i \in 1..(Len(q) + 1)
          /\ \A j \in 1..(i - 1) : q[j].pri >= p
          /\ i <= Len(q) => q[i].pri < p
        BY <1>1, PositionFirst
    <2>2. new = [k \in 1..(Len(q) + 1) |->
                    IF k < i THEN q[k]
                    ELSE IF k = i THEN [r |-> r, pri |-> p]
                    ELSE [r |-> q[k - 1].r, pri |-> q[k - 1].pri + 1]]
        BY <1>6, Zenon DEF Insert
    <2>3. Displaced(q, priority) = i..Len(q)
        BY <1>6, Zenon DEF Displaced
    <2> HIDE DEF i, p, new
    <2>4. \A k \in i..Len(q) : q[k].pri < p
        BY <1>1, <1>2, <1>3, <2>1 DEF Descending
    <2>5. ASSUME NEW k \in 1..(Len(q) + 1)
          PROVE  (IF k < i THEN q[k]
                  ELSE IF k = i THEN [r |-> r, pri |-> p]
                  ELSE [r |-> q[k - 1].r, pri |-> q[k - 1].pri + 1]) \in Entry
        <3>1. CASE k < i
            BY <1>2, <2>1, <3>1
        <3>2. CASE k = i
            BY <1>4, <3>2 DEF p
        <3>3. CASE k > i
            <4>1. k - 1 \in 1..Len(q)
                BY <1>2, <2>1, <3>3
            <4> QED
                BY <1>2, <1>3, <2>1, <3>3, <4>1 DEF Entry
        <3> QED
            BY <1>2, <2>1, <3>1, <3>2, <3>3
    <2>6. new \in [1..(Len(q) + 1) -> Entry]
        BY <2>2, <2>5
    <2>7. new \in Seq(Entry) /\ Len(new) = Len(q) + 1
        BY <1>2, <2>6, SeqDef, LenProperties
    <2>8. /\ \A k \in 1..(i - 1) : new[k] = q[k]
          /\ new[i] = [r |-> r, pri |-> p]
          /\ \A k \in (i + 1)..(Len(q) + 1) :
                new[k] = [r |-> q[k - 1].r, pri |-> q[k - 1].pri + 1]
        BY <1>2, <2>1, <2>2
    <2> QED
        BY <2>1, <2>3, <2>4, <2>7, <2>8 DEF p, new
<1> QED
    BY <1>5, <1>6

\* An insertion, wherever it happens, adds one request to those in the line.
LEMMA InsertedAt ==
    ASSUME NEW q \in Seq(Entry), NEW new \in Seq(Entry), NEW r \in Requests,
           NEW i \in 1..(Len(q) + 1), Len(new) = Len(q) + 1, new[i].r = r,
           \A k \in 1..(i - 1) : new[k].r = q[k].r,
           \A k \in (i + 1)..(Len(q) + 1) : new[k].r = q[k - 1].r
    PROVE  /\ Waiting(new) = Waiting(q) \cup {r}
           /\ Distinct(q) /\ r \notin Waiting(q) => Distinct(new)
<1>1. Len(q) \in Nat /\ Len(new) \in Nat
    BY LenProperties
<1>2. \A k \in 1..Len(new) : k = i \/ k \in 1..(i - 1) \/ k \in (i + 1)..(Len(q) + 1)
    BY <1>1
<1>3. ASSUME NEW k \in 1..Len(new)
      PROVE  new[k].r \in Waiting(q) \cup {r}
    <2>1. CASE k \in 1..(i - 1)
        BY <1>1, <2>1 DEF Waiting
    <2>2. CASE k \in (i + 1)..(Len(q) + 1)
        <3>1. k - 1 \in 1..Len(q)
            BY <1>1, <2>2
        <3> QED
            BY <2>2, <3>1 DEF Waiting
    <2> QED
        BY <1>2, <2>1, <2>2
<1>4. ASSUME NEW j \in 1..Len(q)
      PROVE  q[j].r \in Waiting(new)
    <2>1. CASE j < i
        BY <1>1, <2>1 DEF Waiting
    <2>2. CASE j >= i
        <3>1. j + 1 \in (i + 1)..(Len(q) + 1) /\ j + 1 \in 1..Len(new) /\ (j + 1) - 1 = j
            BY <1>1, <2>2
        <3>2. new[j + 1].r = q[j].r
            BY <3>1
        <3> QED
            BY <3>1, <3>2 DEF Waiting
    <2> QED
        BY <1>1, <2>1, <2>2
<1>5. r \in Waiting(new)
    BY <1>1 DEF Waiting
<1>6. Waiting(new) = Waiting(q) \cup {r}
    BY <1>3, <1>4, <1>5 DEF Waiting
<1>7. ASSUME Distinct(q), r \notin Waiting(q), NEW k \in 1..Len(new), NEW l \in 1..Len(new),
             new[k].r = new[l].r
      PROVE  k = l
    <2> DEFINE Old(m) == IF m < i THEN m ELSE m - 1
    <2>1. \A m \in 1..Len(new) : m # i => Old(m) \in 1..Len(q) /\ new[m].r = q[Old(m)].r
        BY <1>1, <1>2
    <2>2. \A m \in 1..Len(new) : m # i => new[m].r # r
        BY <1>7, <2>1 DEF Waiting
    <2>3. k = i <=> l = i
        BY <1>7, <2>2
    <2>4. CASE k # i /\ l # i
        <3>1. PICK a, b \in 1..Len(q) : a = Old(k) /\ b = Old(l) /\ q[a].r = q[b].r
            BY <1>7, <2>1, <2>4
        <3>2. a = b
            BY <1>7, <3>1 DEF Distinct
        <3> QED
            BY <1>1, <2>4, <3>1, <3>2
    <2> QED
        BY <2>3, <2>4
<1> QED
    BY <1>6, <1>7 DEF Distinct

\* sendRequest adds its request to the line, and no request waits twice if this
\* one did not wait already.
LEMMA InsertWaits ==
    ASSUME NEW q \in Seq(Entry), NEW r \in Requests, NEW priority \in Priority
    PROVE  /\ Insert(q, r, priority) \in Seq(Entry)
           /\ Len(Insert(q, r, priority)) = Len(q) + 1
           /\ Insert(q, r, priority) # <<>>
           /\ Waiting(Insert(q, r, priority)) = Waiting(q) \cup {r}
           /\ Distinct(q) /\ r \notin Waiting(q) => Distinct(Insert(q, r, priority))
<1> DEFINE p == PriorityMultiplier * priority
           new == Insert(q, r, priority)
<1>1. PriorityMultiplier \in Nat /\ priority \in {1, 2, 3} /\ p \in Nat
    BY PriorityMultiplierAssumption DEF Priority, Low, Medium, High
<1>2. Len(q) \in Nat /\ \A k \in 1..Len(q) : q[k] \in Entry
    BY ElementOfSeq, LenProperties
<1>3. \A k \in 1..Len(q) : q[k].pri \in Nat /\ q[k].r \in Requests
    BY <1>2 DEF Entry
<1>4. [r |-> r, pri |-> p] \in Entry
    BY <1>1 DEF Entry
<1>5. \E i \in 1..(Len(q) + 1) :
         /\ new \in Seq(Entry)
         /\ Len(new) = Len(q) + 1
         /\ new[i].r = r
         /\ \A k \in 1..(i - 1) : new[k].r = q[k].r
         /\ \A k \in (i + 1)..(Len(q) + 1) : new[k].r = q[k - 1].r
    <2>1. CASE priority = Low
        <3>1. new = Append(q, [r |-> r, pri |-> p])
            BY <2>1, Zenon DEF Insert
        <3>2. /\ new \in Seq(Entry)
              /\ Len(new) = Len(q) + 1
              /\ \A k \in 1..Len(q) : new[k] = q[k]
              /\ new[Len(q) + 1] = [r |-> r, pri |-> p]
            BY <1>2, <1>4, <3>1, AppendProperties
        <3> HIDE DEF new, p
        <3>3. new[Len(q) + 1].r = r
            BY <3>2
        <3> QED
            BY <1>2, <3>2, <3>3
    <2>2. CASE priority # Low
        <3> DEFINE i == Position(q, p)
        <3>1. i \in 1..(Len(q) + 1)
            BY <1>1, PositionFirst
        <3>2. new = [k \in 1..(Len(q) + 1) |->
                        IF k < i THEN q[k]
                        ELSE IF k = i THEN [r |-> r, pri |-> p]
                        ELSE [r |-> q[k - 1].r, pri |-> q[k - 1].pri + 1]]
            BY <2>2, Zenon DEF Insert
        <3> HIDE DEF i, p, new
        <3>3. ASSUME NEW k \in 1..(Len(q) + 1)
              PROVE  (IF k < i THEN q[k]
                      ELSE IF k = i THEN [r |-> r, pri |-> p]
                      ELSE [r |-> q[k - 1].r, pri |-> q[k - 1].pri + 1]) \in Entry
            <4>1. CASE k < i
                BY <1>2, <3>1, <4>1
            <4>2. CASE k = i
                BY <1>4, <4>2 DEF p
            <4>3. CASE k > i
                <5>1. k - 1 \in 1..Len(q)
                    BY <1>2, <3>1, <4>3
                <5> QED
                    BY <1>2, <1>3, <3>1, <4>3, <5>1 DEF Entry
            <4> QED
                BY <1>2, <3>1, <4>1, <4>2, <4>3
        <3>4. new \in [1..(Len(q) + 1) -> Entry]
            BY <3>2, <3>3
        <3>5. new \in Seq(Entry) /\ Len(new) = Len(q) + 1
            BY <1>2, <3>4, SeqDef, LenProperties
        <3>6. /\ new[i].r = r
              /\ \A k \in 1..(i - 1) : new[k].r = q[k].r
              /\ \A k \in (i + 1)..(Len(q) + 1) : new[k].r = q[k - 1].r
            BY <1>2, <3>1, <3>2
        <3> QED
            BY <3>1, <3>5, <3>6
    <2> QED
        BY <2>1, <2>2
<1> HIDE DEF new
<1>6. new # <<>>
    BY <1>2, <1>5, EmptySeq
<1>7. PICK i \in 1..(Len(q) + 1) :
         /\ new \in Seq(Entry)
         /\ Len(new) = Len(q) + 1
         /\ new[i].r = r
         /\ \A k \in 1..(i - 1) : new[k].r = q[k].r
         /\ \A k \in (i + 1)..(Len(q) + 1) : new[k].r = q[k - 1].r
    BY <1>5
<1>8. /\ Waiting(new) = Waiting(q) \cup {r}
      /\ Distinct(q) /\ r \notin Waiting(q) => Distinct(new)
    BY <1>7, InsertedAt
<1> QED
    BY <1>6, <1>7, <1>8 DEF new

\* postNext takes the first request out of the line, and it was there once.
LEMMA TailWaits ==
    ASSUME NEW q \in Seq(Entry), q # <<>>
    PROVE  /\ Tail(q) \in Seq(Entry)
           /\ Head(q).r \in Requests
           /\ Waiting(q) = Waiting(Tail(q)) \cup {Head(q).r}
           /\ Distinct(q) => Distinct(Tail(q)) /\ Head(q).r \notin Waiting(Tail(q))
<1> DEFINE t == Tail(q)
<1>1. /\ Len(q) \in Nat /\ Len(q) >= 1
      /\ t \in Seq(Entry) /\ Len(t) = Len(q) - 1
      /\ \A k \in 1..Len(t) : t[k] = q[k + 1]
      /\ Head(q) = q[1] /\ q[1] \in Entry
    BY LenProperties, EmptySeq, HeadTailProperties, ElementOfSeq
<1> HIDE DEF t
<1>2. Head(q).r \in Requests
    BY <1>1 DEF Entry
<1>3. \A k \in 1..Len(t) : t[k].r = q[k + 1].r /\ k + 1 \in 1..Len(q) /\ k + 1 # 1
    BY <1>1
<1>4. \A j \in 1..Len(q) : j # 1 => j - 1 \in 1..Len(t) /\ q[j].r = t[j - 1].r
    BY <1>1
<1>5. Waiting(q) = Waiting(t) \cup {Head(q).r}
    <2>1. Waiting(t) \subseteq Waiting(q) /\ Head(q).r \in Waiting(q)
        BY <1>1, <1>3 DEF Waiting
    <2>2. \A j \in 1..Len(q) : q[j].r \in Waiting(t) \cup {Head(q).r}
        BY <1>1, <1>4 DEF Waiting
    <2> QED
        BY <2>1, <2>2 DEF Waiting
<1>6. Distinct(q) => Distinct(t) /\ Head(q).r \notin Waiting(t)
    <2> SUFFICES ASSUME Distinct(q)
                 PROVE  Distinct(t) /\ Head(q).r \notin Waiting(t)
        OBVIOUS
    <2>1. ASSUME NEW k \in 1..Len(t)
          PROVE  t[k].r # q[1].r
        <3>1. k + 1 \in 1..Len(q) /\ 1 \in 1..Len(q) /\ k + 1 # 1
            BY <1>1
        <3> QED
            BY <1>3, <3>1 DEF Distinct
    <2>2. ASSUME NEW k \in 1..Len(t), NEW l \in 1..Len(t), t[k].r = t[l].r
          PROVE  k = l
        <3>1. k + 1 = l + 1
            BY <1>3, <2>2 DEF Distinct
        <3> QED
            BY <3>1
    <2> QED
        BY <1>1, <2>1, <2>2 DEF Distinct, Waiting
<1> QED
    BY <1>1, <1>2, <1>5, <1>6 DEF t
==============================================================================
