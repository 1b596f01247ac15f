----------------------------- MODULE ClientFrames -----------------------------
(***************************************************************************)
(* The inductive invariant of the client.                                  *)
(*                                                                         *)
(* A stack is a sequence whose head is the next thing to do, so the index  *)
(* of a frame changes with every step. Its depth does not: a step changes  *)
(* the top frame of one thread and those it puts there. The invariant sees *)
(* a stack only through the depths it has and the operation and the        *)
(* request at each (Depths, OpAt, ReqAt).                                  *)
(***************************************************************************)
EXTENDS Client

Depths(t) == 1..Len(stack[t])

\* What a frame does and for which request.
OpAt(t, d) == FrameAt(stack[t], d).op
ReqAt(t, d) == FrameAt(stack[t], d).r

\* Frames that use a socket, that will drop a share of it, and that own a request.
Sharing == {"run", "progress", "connect", "unlock", "drop"}
Dropping == {"unlock", "drop"}
Owning == {"send", "destroy", "completed", "delete"}

\* Every frame but those of the teardown and `completed' names a request.
FramesNamed ==
    \A t \in Threads : \A d \in Depths(t) :
        OpAt(t, d) \in Sharing \cup {"send", "destroy", "delete", "handler", "query"}
            => ReqAt(t, d) \in Requests

\* Whoever holds the mutex has to unlock it, and above that frame there is only
\* what a start does under the mutex.
MutexKept ==
    \A t \in Threads :
        /\ mutex = t <=> \E d \in Depths(t) : OpAt(t, d) = "unlock"
        /\ \A d, e \in Depths(t) :
              OpAt(t, d) = "unlock" /\ d < e
                 => OpAt(t, e) \in {"run", "progress", "connect", "query"}

\* A thread that uses a socket holds a share of it and drops it last; nobody
\* holds a share without having to drop it.
SharesKept ==
    /\ \A t \in Threads : \A d \in Depths(t) :
          OpAt(t, d) \in Sharing => t \in refs[ReqAt(t, d)]
    /\ \A t \in Threads : \A d, e \in Depths(t) :
          OpAt(t, d) \in Sharing /\ OpAt(t, e) \in Dropping /\ d < e
             => ReqAt(t, d) # ReqAt(t, e)
    /\ \A r \in Requests : Op \in refs[r] <=> op[r] # "none"
    /\ \A t \in Threads : \A r \in Requests :
          t \in refs[r] => \E d \in Depths(t) : OpAt(t, d) \in Dropping /\ ReqAt(t, d) = r

\* A request that a frame owns is the client's, and neither in the line nor in a
\* socket.
FramesOwn ==
    \A t \in Threads : \A d \in Depths(t) :
        OpAt(t, d) \in Owning /\ ReqAt(t, d) # NoRequest =>
            /\ status[ReqAt(t, d)] = "sent"
            /\ refs[ReqAt(t, d)] = {}
            /\ ReqAt(t, d) \notin Waiting(queue)

\* No other frame owns it.
OneFrame ==
    \A t, u \in Threads : \A d \in Depths(t) : \A e \in Depths(u) :
        /\ OpAt(t, d) \in Owning /\ OpAt(u, e) \in Owning
        /\ ReqAt(t, d) = ReqAt(u, e) /\ ReqAt(t, d) # NoRequest
        => t = u /\ d = e

\* A request in the line or in a socket is the client's, and not in both.
LineOwns ==
    /\ \A r \in Waiting(queue) : status[r] = "sent" /\ refs[r] = {}
    /\ Distinct(queue)
    /\ \A r \in Requests : refs[r] # {} => status[r] = "sent"

\* A request that the client owns is somewhere.
SomeOwner ==
    \A r \in Requests : status[r] = "sent" =>
        \/ r \in Waiting(queue)
        \/ refs[r] # {}
        \/ \E t \in Threads : \E d \in Depths(t) : OpAt(t, d) \in Owning /\ ReqAt(t, d) = r

IoIdle == \A t \in IoThreads : Depths(t) = {}

\* The destructor's frames are at the bottom of one caller's stack, in order; the
\* io threads are idle when they have been joined.
DestructorFrames ==
    \A t \in Threads : \A d \in Depths(t) :
        /\ OpAt(t, d) = "swap" => d = 3 /\ 2 \in Depths(t) /\ OpAt(t, 2) = "join"
        /\ OpAt(t, d) = "join" => d = 2 /\ 1 \in Depths(t) /\ OpAt(t, 1) = "members"
        /\ OpAt(t, d) \in {"members", "unwind"} => d = 1
        /\ OpAt(t, d) \in {"swap", "join", "members"} => life = "stopped" /\ t \in Callers
        /\ OpAt(t, d) = "unwind" => life \in {"unwinding", "undefined"} /\ t \in Callers
        /\ OpAt(t, d) = "members" =>
              IF 2 \in Depths(t) THEN OpAt(t, 2) = "join" ELSE IoIdle

\* No other caller is inside the client any more.
DestructorAlone ==
    life # "up" => \E t \in Callers : \A u \in Callers \ {t} : Depths(u) = {}

\* Once the members are being destroyed nobody works on a socket, and in the end
\* nobody does anything.
NobodyWorks ==
    /\ life \in {"unwinding", "gone", "undefined"} =>
          IoIdle /\ \A t \in Threads : \A d \in Depths(t) : OpAt(t, d) \notin Sharing
    /\ life = "gone" => /\ \A t \in Threads : Depths(t) = {}
                        /\ \A r \in Requests : op[r] = "none"

\* The slots are counted, and there is a number of them.
Ending == {"destroy", "completed"}

Counted ==
    /\ InFlightExact
    /\ IsFiniteSet(LiveSockets)
    /\ IsFiniteSet(FramesDoing(Ending))

\* The inductive invariant.
IInv ==
    /\ TypeOK
    /\ FramesNamed
    /\ MutexKept
    /\ SharesKept
    /\ FramesOwn
    /\ OneFrame
    /\ LineOwns
    /\ SomeOwner
    /\ DestructorFrames
    /\ DestructorAlone
    /\ NobodyWorks
    /\ HandledOnce
    /\ Counted
-----------------------------------------------------------------------------
(* Callbacks that ask for pending().                                       *)

\* An application that asks how much is pending only in the callbacks of requests
\* whose addresses it does not give, that it does not retry, and that have their
\* hosts for themselves.
AskersApart ==
    \A r \in Curious : /\ r \notin Known \cup Retrying
                       /\ \A s \in Requests : HostOf[s] = HostOf[r] => s = r

\* What a start does before it waits, and a question, is never under a frame.
Starting == {"run", "progress", "query"}

StartingOnTop ==
    \A t \in Threads : \A d, e \in Depths(t) : OpAt(t, d) \in Starting => e <= d

\* A request that is being run has no operation, and nobody else works on it.
RunAlone ==
    \A t \in Threads : \A d \in Depths(t) :
        OpAt(t, d) = "run" => op[ReqAt(t, d)] = "none" /\ refs[ReqAt(t, d)] = {t}

\* A retry clone does not ask.
CompletedAnswered ==
    \A t \in Threads : \A d \in Depths(t) :
        OpAt(t, d) = "completed" => ReqAt(t, d) \notin Curious

\* The host of a request that may ask is not in the cache before it has been run.
NotRun(r) ==
    \/ status[r] = "new"
    \/ r \in Waiting(queue)
    \/ \E t \in Threads : \E d \in Depths(t) : OpAt(t, d) \in {"send", "run"} /\ ReqAt(t, d) = r

Unresolved == \A r \in Curious : NotRun(r) => HostOf[r] \notin dnsCache

\* So whoever asks does it without the mutex.
AskedOutside ==
    \A t \in Threads : \A d \in Depths(t) :
        \/ OpAt(t, d) = "query"
        \/ OpAt(t, d) = "progress" /\ ReqAt(t, d) \in Curious
        => mutex # t

AskInv == StartingOnTop /\ RunAlone /\ CompletedAnswered /\ Unresolved /\ AskedOutside

==============================================================================
