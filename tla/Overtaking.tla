------------------------------ MODULE Overtaking ------------------------------
(***************************************************************************)
(* Who passes whom in the waiting line. The scheduler, with the history a   *)
(* user of Client would keep to complain: which class each request was      *)
(* sent with, how many later requests were put in front of it, and which    *)
(* waiting request was sent before which.                                   *)
(***************************************************************************)
EXTENDS Scheduler

VARIABLES
    class,      \* the Priority each waiting request was sent with
    passed,     \* how many later requests were inserted ahead of it
    before      \* pairs <<a, b>> of waiting requests, a sent before b

historyVars == <<class, passed, before>>
vars == <<queue, inFlight, class, passed, before>>

Init ==
    /\ SchedulerInit
    /\ class = [r \in Requests |-> Low]
    /\ passed = [r \in Requests |-> 0]
    /\ before = {}

\* The history is kept for waiting requests only, so that a Request object may
\* stand for a new one once it has left the line.
Remember(newClass, newPassed, newBefore) ==
    LET left == Requests \ Waiting(queue')
    IN  /\ class'  = [x \in Requests |-> IF x \in left THEN Low ELSE newClass[x]]
        /\ passed' = [x \in Requests |-> IF x \in left THEN 0 ELSE newPassed[x]]
        /\ before' = {pair \in newBefore : pair[1] \notin left /\ pair[2] \notin left}

Send(r, priority) ==
    LET displaced == {queue[k].r : k \in Displaced(queue, priority)}
    IN  /\ SendRequest(r, priority)
        /\ Remember([class EXCEPT ![r] = priority],
                    [x \in Requests |->
                        IF x = r THEN 0
                        ELSE IF x \in displaced THEN passed[x] + 1 ELSE passed[x]],
                    before \cup (Waiting(queue) \X {r}))

Finish == Completed /\ Remember(class, passed, before)

Clear == Drain /\ Remember(class, passed, before)

Next ==
    \/ \E r \in Requests, priority \in Priority : Send(r, priority)
    \/ Finish
    \/ Clear

Spec == Init /\ [][Next]_vars

\* Every request in flight comes to an end. Nothing is assumed about the
\* arrivals: new requests of any class may keep coming.
FairSpec == Spec /\ WF_vars(Finish)

-----------------------------------------------------------------------------
TypeOK ==
    /\ SchedulerTypeOK
    /\ class \in [Requests -> Priority]
    /\ passed \in [Requests -> Nat]
    /\ before \subseteq Requests \X Requests

\* The line stays ordered by number although every insertion rewrites the
\* numbers behind it: sendRequest's linear search relies on it.
Sorted == Descending(queue) /\ Distinct(queue)

\* A pair's number is its class's number plus one for each request that was
\* put ahead of it, and never exceeds that of a fresh High request: the
\* uint32_t cannot wrap and no request ages past High.
AgeAccounting ==
    \A k \in 1..Len(queue) :
        /\ queue[k].pri = PriorityMultiplier * class[queue[k].r] + passed[queue[k].r]
        /\ queue[k].pri <= PriorityMultiplier * High

\* Ageing bounds overtaking: a request is passed at most as often as its class
\* is below High, times the multiplier. A High request is never passed.
OvertakenBound ==
    \A r \in Waiting(queue) : passed[r] <= PriorityMultiplier * (High - class[r])

\* Only a request of a strictly higher class overtakes: among requests of one
\* class, and against any lower one, sendRequest keeps the order of arrival.
OnlyHigherOvertakes ==
    \A i, j \in 1..Len(queue) :
        (i < j /\ <<queue[j].r, queue[i].r>> \in before)
            => class[queue[i].r] > class[queue[j].r]

\* No starvation: however many Medium and High requests keep arriving, a
\* request that waits leaves the line. This is what incrementPriority is for.
NoStarvation == \A r \in Requests : r \in Waiting(queue) ~> r \notin Waiting(queue)
==============================================================================
