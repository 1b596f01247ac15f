# A verification development for tp_http

`tp_http` is an HTTP client library on Boost.Asio. An application hands `Request` objects to a
`Client`, which keeps them in a waiting line ordered by priority, runs at most `maxInFlight` of
them at a time on the threads of one `io_context`, retries those that ask for it, and reports
through callbacks. This directory models it in TLA+, checks it with TLC and proves what matters
most with TLAPS. Line numbers are those of `src/src/Client.cpp` unless
another file is named.

## The system

| Component | State | Operations | Where |
|---|---|---|---|
| Waiting line | `requestQueue`: pairs of `Request*` and a `uint32_t` | insert by priority with ageing, take the front | 765-787, 311 |
| Scheduler | `requestQueue`, `inFlight` under `requestQueueMutex` | `sendRequest`, `postNext`, `completed`, the swap in `~Private` | 282-317, 759-791, 220-241 |
| Client | the scheduler, `ioContext`, its threads, the lifetime of the members | run a request, share its socket, delete it, retry it, call the user, stop and join | 170-241, 321-389, 91-112 |
| Connection | one `SocketDetails_lt`: pending operation, `deadlineTimer`, `Handle_lt` | `onResolve` to `onRead`, `setTimeout`, `clearTimeout`, the timer's handler, the destructor | 47-166, 393-742 |
| Request | destination, form data, body mode, handlers, `alive` token, verdict | setters, `generateRequest`, three kinds of clone, `fail`, `setCompleted`, `setProgress` | `src/src/Request.cpp` |
| DNS cache | `dnsCache` under `dnsCacheMutex` | look up, store | 342-376 |
| Statistics | byte counters under `statsMutex` | record, update every second, read | 244-279 |
| AsyncTimer | a token with a mutex and a flag, a `deadline_timer` | fire and re-arm, destroy | `src/src/AsyncTimer.cpp` |
| Encodings | none | `urlEncode`, `urlEncodedForm`, `jsonEncodedForm`, `multipartEncodedForm` | `src/src/Globals.cpp` 47-163 |
| TLS | none | reads the platform's certificate stores into OpenSSL | `src/src/Globals.cpp` |

How they interact. Application threads call `sendRequest`; io threads run the handlers of
asynchronous operations. Both reach `postNext` with `requestQueueMutex` held, which starts a
request on the spot. A started request is a `SocketDetails_lt` that lives as long as somebody
holds a `shared_ptr` to it: the handler of its pending operation and the thread working on it.
Whoever drops the last one runs its destructor, which deletes the `Request` (calling the user's
completion handler, which may call `sendRequest`) and then calls `completed`, which takes the
mutex, frees the slot and may start the next request, whose immediate failure does all of this
again on the same stack. Timer events and operation results of one socket are queued in the same
`io_context` and meet in any order. The statistics are updated by an `AsyncTimer` on the same
threads. A request is written down (`generateRequest`) by the handler that has a connection, so
the message of a retry is generated from the clone, not from the request the application built.

What makes each of them correct:

- *Waiting line*: sorted, stable within a class, no number that wraps, and bounded overtaking,
  so that a low request is served however many others arrive.
- *Scheduler*: never more than `maxInFlight` slots used, and none idle while a request waits.
- *Client*: a request is owned by exactly one place until it is deleted; the counter agrees with
  the sockets; no thread locks a mutex it holds; the completion handler is called once; the
  destructor ends and leaves nothing behind.
- *Connection*: every wait for the network has a deadline; only a deadline that has passed fails
  the request; a late timer event touches nothing; the first reason is the one reported; every
  way out leaves a verdict.
- *AsyncTimer*: no callback after the destructor, a token that outlives its users, a heartbeat
  that neither dies out nor multiplies. *Statistics*: no division by zero, every record reported once.
- *Requests*: what is sent again is what was sent first; whoever asked is told once. *Encodings*:
  decoding gives the form back. *DNS cache*: whether it is filled decides which path a start
  takes, so nothing above may depend on it.

`PROJECT.json` lists the hazards of the code line by line with the property that watches each.

## The modules

| Module | Models | Composes |
|---|---|---|
| `PriorityQueue` | the line as pure operators: `Position` is the search (771-773), `Insert` the whole insertion | |
| `Scheduler` | the promise of the client: line and counter, one step per critical section | extends `PriorityQueue` |
| `Overtaking` | the scheduler with a history: class sent with, times passed, order of arrival | extends `Scheduler` |
| `Client` | threads, mutex, stacks, shared ownership, callbacks, retries, DNS cache, teardown | extends `PriorityQueue`, implements `Scheduler` |
| `Transfer` | the promise of a started socket: resolve, transfer, verdict, destruction | |
| `Connection` | one socket, its operations and its timer | implements `Transfer` |
| `PeriodicTimer` | the promise of an `AsyncTimer`: calls, one at a time, until destroyed | |
| `AsyncTimer` | the wait, its handler, the token and the destructor | |
| `Statistics` | the counters, the clock and the readers and writers on the io threads | extends `AsyncTimer`, implements `PeriodicTimer` |
| `Forms` | the encodings as functions, and a server's decoders | |
| `Request` | a request object, its clones, what they send and whom they tell | extends `Forms` |
| `MCClient`, `MCRequest` | hosts, symmetry; small forms of awkward bytes | extend `Client`, `Request` |
| `PriorityQueueProofs`, `OvertakingProofs`, `ConnectionProofs`, `StatisticsProofs`, `FormsProofs` | theorems | extend the modules they are about |
| `RequestProofs` | theorems | extends `Request`, `FormsProofs` |
| `ClientFrames`, `ClientSteps`, `ClientProofs` | the client's inductive invariant; a lemma for each kind of step; its actions and theorems | extend `Client`, one another, `PriorityQueueProofs` |

Three pairs of an abstract specification and a detailed one are checked by refinement and
proved: `Scheduler` and `Client`, `Transfer` and `Connection`, `PeriodicTimer` and `Statistics`.

**PriorityQueue and Scheduler.** A pair of the deque is a record `[r, pri]`. `sendRequest` is
`PostNext(Insert(queue, r, priority), inFlight)`: the insertion and the `postNext(nullptr)` that
follows it (790) are one step, as they are one critical section. `completed` with a retry clone
(299-302) lowers and raises the counter within one critical section and is a stutter here.

**Overtaking.** The history is kept for waiting requests only, so a name in `Requests` may stand
for one request after another and the state space is finite although arrivals never end.

**Client.** Each thread has a stack of frames; a frame names what is to be done next (`run`,
`drop`, `destroy`, `completed`, ...) and for which request. A step replaces the top frame by the
frames it leads to, which is how the nested destructors, callbacks and `sendRequest` calls keep
their order. Critical sections that start nothing are single steps; when a socket is started the
mutex stays held by the thread until the frame `unlock`, because user code runs in between. The
frame `drop` after `unlock` is the local `s` declared before the lock (297, 762): "Assigning to s
is important". `refs[r]` is the set of holders of the socket's `shared_ptr`. A retry clone is the
same request with one more try. `life` follows the destructor: `stopped` (223), `unwinding` (the
members are being destroyed, 174-200 in reverse), `gone`; `undefined` when something touches the
destroyed mutex, after which the model says nothing. `dnsCache` is the set of hosts whose entry
holds addresses: `run` looks (342-351), and the handler of `async_resolve` stores whatever it got
(371-376), so that an error empties the entry of its host. Requests in `Known` were given their
addresses by the application, those in `Faked` a failure; `makeRetryClone` copies neither, so a
clone resolves and does not fake. The operations from `async_connect` to the
last read are one operation, `transfer`: its handlers touch neither the mutex nor the line, and
`Connection` models them. User functions are nondeterministic: `shouldRetry` may say yes for
requests in `Retrying`, completion handlers may send another request (`Resubmitters`) or call
`pending()` (`Curious`), owners may go away (`Mortal`).

**Connection.** Time is abstract: the deadline is `off`, `running` or `due`. `fired` holds the
expired waits whose handlers are ready, which `cancel` no longer reaches; `TimerCheck` and
`TimerAct` are the two halves of the handler under `handle->mutex`, so that with two io threads
an operation's handler may come between them; `Destroy` waits for that mutex as the code does
(94). `Start` is the pattern of every handler: a new deadline, and then the operation is pending
or its start has thrown. `Cancel` is `socket.cancel()` as Asio does it: it ends the attempt on the
current address only, and misses what has already completed, or an operation of several reads and
writes (`Composed`) of which one is just done. The modelled choice `Start` covers
each of the catch clauses. `Stage` is the client's view of it: everything after the resolver is
the one `transfer` of `Client`.

**AsyncTimer and Statistics.** The handler is taken apart where another thread can come between:
it finds the token or not (`Fire`), locks its mutex and looks at the flag (`Enter`), calls, arms
the timer again (`Rearm`), unlocks, and drops its share of the token, whose `holders` are modelled
because the last one deletes the mutex. The destructor is three steps on the thread `Owner` and
may come at any time. `~Private` joins the io threads before it deletes the timer, so the client
needs less than what is checked; `AsyncTimer` is a class of its own and is modelled as such.
`Statistics` gives the timer its callback (262-279) and adds the handlers that record bytes; each
section under `statsMutex` is one step. `OnRead` records the last chunk once more (674 and 720).
`history` is what the properties compare the counters with.

**Forms and Request.** A text is a sequence of bytes; a fixed text that no data can be mistaken
for is one number above 255. Byte by byte encodings are modelled by what they do, with the two
hexadecimal digits and the separators; for JSON, which a library writes, only the object is
modelled. The decoders are external: RFC 3986 and RFC 2046, as a server has them. One reads a URL
encoded form byte by byte (`Read`, `AfterReading`); the other cuts a message where its delimiter
ends (`Cut`, `AfterCutting`) and takes each part from its header and what follows it
(`DecodedPart`). Both are functions on the length read so far, which TLC evaluates and the
prover can reason about. A `Request` is
a record of the members that decide what is sent and who is told. The destination stands for the
members that are copied alike by every clone (protocol, host, port, verb, endpoint, headers).
`Slots` are the request the application builds and the clone it makes of it in the completion
handler; a retry clone takes the place of the object it was made from. `makeClone`,
`makeDeadClone` and `makeRetryClone` are the three lists of fields of `src/src/Request.cpp`
116-171. When `dump()` throws, the process ends and the model does not go on.

Each model has a few operators marked *Slip*: a mistake that a change of the code could make
(a dropped guard, a lock released late). They are not part of the specifications; `PROJECT.json`
names for every property one slip that violates it.

## The runs

| Run | Instance | Shows |
|---|---|---|
| `overtaking` | 4 requests, multiplier 2, 1 slot | `Sorted`, `AgeAccounting`, `OvertakenBound`, `OnlyHigherOvertakes`, `Capacity`, `WorkConserving`; `NoStarvation` under `WF(Finish)` |
| `client` | 3 requests, 2 callers, 2 io threads, 1 slot, 1 retry, 2 priorities | `OwnedOnce`, `NoSelfDeadlock`, `HandledOnce`, `GoneClean`, and that the client implements `Scheduler` |
| `client_two_slots` | the same, 1 caller, 2 slots | `InFlightExact`, `SocketHeld` and the refinement with two sockets dying at once |
| `client_live` | 3 requests, one of them silent, 2 callers, 1 io thread, 2 slots | `EveryRequestFinished`, `DestructorReturns` |
| `connection` | 1 or 2 io threads, up to 2 addresses, up to 2 chunks | `NoUnguardedWait`, `LateTimerHarmless`, `VerdictAtEnd`, `OnlyDueTimeoutsFail`, `FirstReasonKept`, `EndsOrTimesOut` under fairness, and that the connection implements `Transfer` |
| `statistics` | 2 io threads, a period of 2 ticks, 2 bytes each way | `CallbackSafe`, `TokenSafe`, `OneHeartbeat`, `WholePeriod`, `BytesAccounted`; `KeepsTicking` and `DestructorReturns` under fairness; that the timer implements `PeriodicTimer` |
| `requests` | up to 2 pairs in each form, 2 tries | `SendsTheSame`, `FormReadable`, `ToldOnce` |
| `progress_deadlock` | violated | a progress callback may run with the mutex held |
| `drain_leak` | violated | the destructor's swap misses what handlers send afterwards |
| `use_after_destruction` | violated | pending handlers outlive the mutex |
| `null_handle` | violated | a null handle does not mean that the message is gone: with two addresses, connecting goes on |
| `json_repeated_names` | violated | a form in JSON mode loses a pair whose name is repeated |

*Bounds.* With a multiplier of 2 and four requests a Low request ages through Medium to High and
every class overtakes and is overtaken; three waiting requests are enough for a search that stops
at the front, inside and at the end. Three requests in `Client` are one in flight, one waiting
and one sent from a handler or by another caller; one retry is enough to tell a clone from the
original; the bound `MaxRetries` stands for a `shouldRetry` that says no in the end. One slot
makes every completion a hand-over, two let two sockets die at the same time. In `client`, `r2`
is the one whose callbacks call `pending()`; it has its host for itself and is not retried, so
its addresses are never in the cache when it starts, which keeps it out of the deadlock that
`progress_deadlock` shows; the other two share a host, so one may fill or empty the entry the
other uses. Two addresses and two chunks give `Connection` an attempt that is not the last one
and a read that is not the first. In `Statistics` a period of two ticks tells a late handler from
a prompt one, and two io threads let a record, a handler and the destructor meet. The pairs of
`MCRequest` hold what an encoding can get wrong: separators, an empty name, bytes above 127 and
below 16, an escape that is data, a line end and the start of a delimiter; two pairs make a
separator between them. `FormReadable` takes `PlainForm` for granted in multi part mode: no quote
or line end in a name, no delimiter in the data, since nothing is escaped and the boundary is
fixed. `MaxAddresses`, `MaxChunks`, `MaxRetries`, `MaxTries`, `MaxPairs` and `MaxBytes` are the
only bounds, and the clocks of `Statistics` stop at `Period` because nobody tells later times
apart; no state constraint is used.

*Fairness.* `Overtaking` assumes that requests in flight end, and nothing about arrivals.
`Client` assumes weak fairness of each thread (the operating system runs it) and of the handlers
for each idle io thread (`io_context::run`), not of the callers: nobody has to send or to destroy
anything. The handlers of `Silent` requests are left out: their operations may never end, as the
code allows, because `async_resolve` has no deadline (368) and because no deadline acts once a
timeout has cleared `handle->s` (finding 4). So `EveryRequestFinished` is about the other requests,
as long as the silent ones are fewer than the slots. In `client_live`, `r3` may keep one of the two
slots for good, with every retry, and `r1` and `r2` are still finished; with one slot they are not.
That an operation of theirs ends is assumed, and `Connection` shows how far the timeouts see to it
(`EndsOrTimesOut`). `Connection` assumes that ready handlers run, that time passes and that the resolver
answers (it has no deadline, a listed hazard); the peer owes nothing. `EveryRequestFinished` and
`DestructorReturns` end at `undefined` too, since nothing is promised after a use after
destruction. `Statistics` assumes that time passes, that ready handlers run and that a thread in a
handler goes on, and strong fairness of the destructor's step: a handler takes the token's mutex
again once a period, so weak fairness would let the destructor wait forever. `std::mutex` is not
promised to be fair, but between two calls the mutex is free for a whole period.

*Stopping.* Deadlock is checked in every run. `Finished` is the only stuttering step: it is
enabled when everything is done. `WholePeriod` is about a clock that does not step back;
`currentTimeMS` is the system clock.

## What the checks found

1. **`progress_deadlock`**. `postNext` holds `requestQueueMutex` while it calls `run`; when the
   addresses are set or cached, `run` calls `onResolve` directly (338, 359), which calls the
   progress callback (401). A callback that calls `pending()` or `inFlight()` stops on its own
   mutex. The same callback works on the first request to a host.
2. **`drain_leak`**. `~Private` swaps the line out once (229). A completion handler run by its
   `delete` (233) may send another request; it is put into a line that is never looked at again.
3. **`use_after_destruction`**. `requestQueueMutex` (186) is declared after `ioContext` (179), so
   it is destroyed first. Operations still pending are dropped by `~io_context`; their sockets'
   destructors call `completed` (298), which locks the destroyed mutex. It takes one request in
   flight when the client is destroyed.
4. **`null_handle`**. A connect timeout sets `handle->s` to null (147) although the message
   lives, and `socket.cancel()` makes `async_connect` go on with the next address. No timeout
   acts any more (122), and a peer that never answers keeps the slot. `NullHandleLeadsToDeletion`
   speaks of a pending connect, so that the trace is this one: two addresses, a timeout during the
   first, a second that accepts and then says nothing. A cancel that misses an operation which is
   just done leaves the handle null too; nothing in the repository says more of that case.
5. **`json_repeated_names`**. `formPostData` is a list and keeps repeated names; URL and multi
   part mode send them all. `jsonEncodedForm` assigns `j[i.first]` (`src/src/Globals.cpp:90`), so
   in JSON mode the last pair of a name replaces those before it.

One thing that looked like a flaw and is not listed: a request may be completed and failed at
once. `FakeAFailure::completed` defaults to `true` (`src/inc/tp_http/Request.h:23`), so the
repository means it.

## What is proved

For every number of requests, multiplier above zero and number of slots (`OvertakingProofs`, on
`PriorityQueueProofs`): `TypeCorrect`, `LineSorted`, `NumbersAccounted`, `OvertakingBounded`,
`ArrivalOrderKept`, `SlotsBounded`, `SlotsBusy`. The argument: `InsertShape` says what one
insertion does to the line, as one position `i` with everything before it kept and everything
after it moved and aged by one. None of the four properties of the line is inductive alone. An
insertion keeps the line sorted because the pairs behind `i` are below the new number; they stay
below or equal after ageing, so ageing never passes `High`; a number is its class plus the times
passed, which gives the bound; and a request put in front of an earlier one has a higher class
because the other's number, at least its class's, is below its own. `IInv` joins them with the
types and with the fact that the history speaks of waiting requests only. `SlotsBusy` needs only
that `PostNext` starts one request per freed slot or new arrival.

For every set of callers and io threads, every set of requests, every number of slots and
whatever the application's callbacks do (`ClientProofs`): `TypeCorrect`, `SlotsCounted`,
`SocketsHeld`, `RequestsOwnedOnce`, `HandledAtMostOnce`, `EndIsClean` and the refinement
`IsScheduler`; and `MutexNotTakenTwice` for applications that are `AskersApart`: callbacks that call
`pending()` or `inFlight()` belong to requests whose addresses are not given, that are not retried
and whose host no other request has. The restriction is finding 1; the runs `client` and
`client_two_slots` satisfy it. `ClientFrames` states the argument. A stack's top
is the head of a sequence, so every step moves the indices; the proofs speak of the depth of a
frame, which stays. `IInv` says who owns a request: the line, a socket (`LineOwns`) or one frame
(`FramesOwn`, `OneFrame`), and one of them does (`SomeOwner`), which gives `OwnedOnce`. A thread
with a frame that uses a socket holds a share and has to drop it in a frame below, on its own
stack (`SharesKept`): this is why nobody's last share goes while he works. The mutex is held by
the thread with the frame `unlock`, and above it is only what a start does (`MutexKept`), none
of which locks unless a progress callback asks. That an asking callback meets a free mutex is
`AskInv`, a second invariant on top of `IInv`: `run` calls progress only when the addresses are
known, so it has to be shown that they are not. The host of a request that may ask is not in the
cache before its `run` (`Unresolved`), because only an `onResolve` of that host caches it, the
host is its own, and while a frame runs a request no operation of it is pending (`RunAlone`); the
frames of a start are on top of the stack (`StartingOnTop`), so none is left under the handler
that caches. So every asking callback comes from an io handler that holds nothing
(`AskedOutside`). The number of slots follows the sockets and the
frames `destroy` and `completed` one by one (`Counted`). For the end of the client the invariant
adds where the destructor's frames are (`DestructorFrames`, `DestructorAlone`) and that nobody
uses a socket once the members go (`NobodyWorks`): the io threads have been joined, so the
handlers that `~io_context` destroys hold the last shares. `EndIsClean` also needs that the
scheduler leaves no slot free while a request waits. `ClientSteps` has one lemma for each way a
step changes the stacks, `ClientProofs` one for each action.

For every set of thread counts, number of addresses and number of chunks (`ConnectionProofs`):
`TypeCorrect`, `WaitsGuarded`, `LateEventsHarmless`, `VerdictGiven`, and the action properties
`ReasonKept` and `DueTimeoutsOnly`. `IInv` adds to the checked invariants that a running deadline
has a wait (so an event that fires has a name), that with one thread the deadline stays due
between the two halves of the timer's handler, and that the chain ends with a reason, or
completed and with the timer off (so a timeout cannot overwrite a success). Most handlers are
instances of two lemmas: one starts an operation, one gives up. `KeepsPromise` is the refinement of
`Transfer`. Most steps map to one of its actions by the stage before and after; a timeout does
only if it comes after the resolver, which is why `ResolvesUntimed` (no deadline and no event of
one while the name is resolved) is an invariant of its own.

For every number of io threads, period and number of bytes (`StatisticsProofs`): `TypeCorrect`,
`CallbacksSafe`, `TokenKept`, `HeartbeatKept`, `WholePeriods`, `BytesAccountedFor` and the
refinement `IsPeriodicTimer`.
The argument: whoever is between `Enter` and `Unlock` holds the mutex, so they are one at most;
where the destructor is decides the flag, the timer and its share of the token; so a callback
meets a timer that is alive, and the destructor waits for it. The heartbeat is stated without
counting: an armed wait, a ready one and a handler on its way exclude each other, which gives the
sum of one. While the timer is armed no less time has passed since the last update than since it
was armed, so when it fires a whole period has passed. `Enter`, `UpdateStats` and `Silence` map to
`Call`, `Return` and `Destroy`, everything else to a stutter. `BytesAccounted` is not inductive:
that no more bytes are counted twice than were received needs the bytes that threads between
`onReadSome` and `onRead` are about to count again. `Accounts` has them as a set (`Pending`, one
member for each byte of each thread), so that the sum over the threads is a cardinality.

For every form, of any number of pairs of any bytes (`FormsProofs`): `UrlFormReadable`, what
`urlEncodedForm` makes is decoded to the form; and `MultipartFormReadable`, so is what
`multipartEncodedForm` makes, for a boundary without line ends and a form that is `PlainForm`:
no quote or line end in a name, no delimiter in the data, since the code escapes nothing. These
are inductions over texts and forms. The library's induction theorems are about an operator, which
the prover does not instantiate, so each induction is about the set of those texts for which
the fact holds: `SequenceInduction` says that such a set, if it has the empty sequence and every
extension of its members, has them all, and it follows from the least number of a set
(`LeastNumber`). The functions defined by recursion (`FlattenSeq` of the library, `AfterReading`,
`AfterCutting`) are treated alike: there is one function with their equation, it is theirs, so the
step for one more byte is theirs (`FlattenProperties`, `AfterReadingProperties`,
`AfterCuttingProperties`). For a URL form the reader is followed through a percent escape
(`ReadEscape`), a text, a pair and the form. A multi part message is followed from one delimiter
to the next: no delimiter ends inside a part before its end (`PieceUncut`), so the cuts are where
the code has put them (`PairPiece`); the name and the file name are found because a name holds no
quote and the fixed texts are no bytes (`HeadDecoded`), and the first empty line is the one after
the header because the header has no line end (`PieceDecoded`).

For every set of destinations, pairs and raw bodies, any boundary without line ends and any number
of tries (`RequestProofs`): `TypeCorrect`, `HeardOnce`, `TriesAskForTheSame` and `FormsReadable`,
which are all the invariants of `Request`. What was sent says nothing of what a clone will send, so
`SendsTheSame` is not inductive. `Inv` says that everything sent for an object is what the object
would send now (`SentInv`): a retry clone keeps it because it has every field the message is made
of, and two messages of one object are the same up to the order of the query. `Consistent` says
that who may hear of a request has a handler to hear with; that the clone's slot is empty until
the application's own object is gone (`CloneInv`) keeps the two slots apart; and a clone has its
original's forms (`OriginInv`). `FormsReadable` is then the two theorems of `FormsProofs`, for the
query in whatever order the `unordered_multimap` gives it.

Assumptions: `PriorityMultiplierAssumption` (the code's 10), `MaxInFlightAssumption` (any natural
number, zero included; `EndIsClean` asks for one), `ClientAssumption` (callers and io threads are
different, the null values are not requests and threads), `ConnectionAssumption` (at least one thread and one address),
`AsyncTimerAssumption` (finitely many threads, the owner is none of them, a period above zero),
`MaxBytesAssumption` and `RequestAssumption` (the texts of pairs and raw bodies are sequences of
bytes, the boundary has no line end: the code's is a fixed text of letters, digits and dashes).

Only model-checked: all liveness (`NoStarvation`, `EveryRequestFinished`, `DestructorReturns`,
`EndsOrTimesOut`, `KeepsTicking`), which needs ENABLED and fairness, out of the prover's reach.
Every safety property a passing run checks is a theorem. The five violations are TLC's.

## What is not modelled, and the plan

Done: all components but TLS. In this order next:

1. `Connection` with the handlers of two threads in smaller steps, as nothing serialises them: what
   the data race inside `expires_from_now` and `fail` may lead to.
2. The window in `setProgress` between the test of the token and the call, with the owner's
   destruction as a step of its own.
3. Addresses in the DNS cache that grow stale, and `makeClone`, which copies the empty result of a
   resolve that failed; nothing in the repository says what either should do.

Left out for good: the certificate stores (`addSSLVerifyPaths`, `makeCTX`), which are input and
output without a state of their own; logging and `toString`; the exceptions that leave an io
thread (the second read of `onReadSome`, 704, and `dump()` under `generateRequest`, 583), after
which there is no process; a callback that destroys its own `AsyncTimer`, which the repository
does not have; and the build files.
