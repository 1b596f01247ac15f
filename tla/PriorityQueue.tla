---------------------------- MODULE PriorityQueue ----------------------------
(***************************************************************************)
(* The waiting line of tp_http::Client as pure operators: a deque of       *)
(* (Request*, uint32_t) pairs in which Client::sendRequest inserts by      *)
(* priority and ages every pair it displaces.                              *)
(***************************************************************************)
EXTENDS Naturals, Sequences

CONSTANTS
    Requests,           \* the Request objects that may wait in the line
    PriorityMultiplier  \* Client::Private::priorityMultiplier, 10 in the code

ASSUME PriorityMultiplierAssumption == PriorityMultiplier \in Nat \ {0}

Low    == 1
Medium == 2
High   == 3

Priority == {Low, Medium, High}

\* A pair of the deque. The second member starts at a multiple of the
\* multiplier and only ever grows.
Entry == [r : Requests, pri : Nat]

\* The requests that wait in the line q.
Waiting(q) == {q[k].r : k \in 1..Len(q)}

\* Slip: the search stops in front of equal numbers (> in place of >=).
PositionBeforeEquals(q, p) ==
    CHOOSE k \in 1..(Len(q) + 1) :
        /\ \A j \in 1..(k - 1) : q[j].pri > p
        /\ k <= Len(q) => q[k].pri <= p

\* The first position whose pair has a smaller number than p; one past the
\* end when there is none.
Position(q, p) ==
    CHOOSE k \in 1..(Len(q) + 1) :
        /\ \A j \in 1..(k - 1) : q[j].pri >= p
        /\ k <= Len(q) => q[k].pri < p

\* The positions that the arrival of a request of this priority displaces. A
\* Low request is appended without looking at the line.
Displaced(q, priority) ==
    IF priority = Low THEN {}
    ELSE Position(q, PriorityMultiplier * priority)..Len(q)

\* Slip: the displaced pairs are moved without `tmp.second++'.
InsertWithoutAgeing(q, r, priority) ==
    LET p == PriorityMultiplier * priority
    IN  IF priority = Low
        THEN Append(q, [r |-> r, pri |-> p])
        ELSE [k \in 1..(Len(q) + 1) |->
                 IF k < Position(q, p) THEN q[k]
                 ELSE IF k = Position(q, p) THEN [r |-> r, pri |-> p]
                 ELSE q[k - 1]]

\* The line after Client::sendRequest has inserted r: the displaced pairs move
\* one place back and age by one.
Insert(q, r, priority) ==
    LET p == PriorityMultiplier * priority
    IN  IF priority = Low
        THEN Append(q, [r |-> r, pri |-> p])
        ELSE [k \in 1..(Len(q) + 1) |->
                 IF k < Position(q, p) THEN q[k]
                 ELSE IF k = Position(q, p) THEN [r |-> r, pri |-> p]
                 ELSE [r |-> q[k - 1].r, pri |-> q[k - 1].pri + 1]]

\* The numbers in the line never increase from front to back.
Descending(q) == \A i, j \in 1..Len(q) : i < j => q[i].pri >= q[j].pri

\* No request waits twice.
Distinct(q) == \A i, j \in 1..Len(q) : q[i].r = q[j].r => i = j
==============================================================================
