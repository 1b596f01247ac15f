-------------------------------- MODULE Request -------------------------------
(***************************************************************************)
(* tp_http::Request: what the application puts into a request, the clones  *)
(* that are made of it, and what is sent and reported for each of them.    *)
(*                                                                         *)
(* The application builds a request and hands it to the client, which      *)
(* generates the message once for each object, replaces an object that has *)
(* failed by a retry clone, and deletes the last one. The deletion calls    *)
(* the completion handler, where the application may clone the request and *)
(* send the clone. Addresses and faked failures are in Client.             *)
(***************************************************************************)
EXTENDS Forms

CONSTANTS
    Destinations,   \* protocol, host, port, verb, endpoint and header data
    PostPairs,      \* pairs of formPostData: key, data and filename
    GetPairs,       \* pairs of formGetData: key and data
    RawBodies,      \* rawBodyData with its contentType
    Boundary,       \* the fixed boundary of multi part messages
    MaxPairs,       \* BOUND: pairs in a form
    MaxTries        \* BOUND: how often the message of one request is sent

ASSUME RequestAssumption ==
    /\ PostPairs \subseteq [key : Text, data : Text, filename : Text]
    /\ GetPairs \subseteq [key : Text, data : Text]
    /\ RawBodies \subseteq [data : Text, type : STRING]
    /\ Boundary \in Seq(Byte \ ToSet(LineEnd))
    /\ MaxPairs \in Nat /\ MaxTries \in Nat

VARIABLES
    request,        \* the request object of each slot, or what is left of it
    sent,           \* the messages sent for each slot, retries included
    told,           \* how often the completion handler was called for each slot
    origin,         \* the object that the application has cloned, or Null
    owned           \* the owner still holds the `alive' token

vars == <<request, sent, told, origin, owned>>

\* The request the application builds, and the clone it makes of it.
Slots == {"own", "clone"}

Modes == {"JSON", "URL", "MultiPart", "Raw", "Empty"}

Null == [exists |-> FALSE, alive |-> "nobody"]

\* What the constructors make, with the destination that is set next.
New(destination) ==
    [exists |-> TRUE,
     handler |-> "user",            \* or "none": a function that does nothing
     alive |-> "owner",             \* or "nobody": an empty weak_ptr
     shouldRetry |-> TRUE,          \* a function that may say yes is set
     destination |-> destination,
     formPostData |-> <<>>,
     formGetData |-> <<>>,
     rawBodyData |-> <<>>, contentType |-> "",
     bodyEncodeMode |-> "URL",
     addedToClient |-> FALSE,
     generated |-> FALSE]           \* `request' is populated

\* The application has created a request and said where it goes (setProtocol to
\* addHeaderData).
Init ==
    /\ \E destination \in Destinations :
          request = [s \in Slots |-> IF s = "own" THEN New(destination) ELSE Null]
    /\ sent = [s \in Slots |-> <<>>]
    /\ told = [s \in Slots |-> 0]
    /\ origin = Null
    /\ owned = TRUE

-----------------------------------------------------------------------------
(* Building the request.                                                   *)

Building ==
    /\ request["own"].exists /\ ~request["own"].addedToClient
    /\ UNCHANGED <<sent, told, origin, owned>>

Update(s, r) == request' = [request EXCEPT ![s] = r]

addFormPostData(pair) ==
    /\ Building
    /\ Len(request["own"].formPostData) < MaxPairs
    /\ Update("own", [request["own"] EXCEPT !.formPostData = Append(@, pair)])

addFormGetData(pair) ==
    /\ Building
    /\ Len(request["own"].formGetData) < MaxPairs
    /\ Update("own", [request["own"] EXCEPT !.formGetData = Append(@, pair)])

setRawBodyData(raw) ==
    /\ Building
    /\ Update("own", [request["own"] EXCEPT !.rawBodyData = raw.data, !.contentType = raw.type])

setBodyEncodeMode(mode) ==
    /\ Building
    /\ Update("own", [request["own"] EXCEPT !.bodyEncodeMode = mode])

\* sendRequest: setAddedToClient.
setAddedToClient(s) ==
    /\ request[s].exists /\ ~request[s].addedToClient
    /\ Update(s, [request[s] EXCEPT !.addedToClient = TRUE])
    /\ UNCHANGED <<sent, told, origin, owned>>

-----------------------------------------------------------------------------
(* The message.                                                            *)

\* formGetData is an unordered_multimap: its pairs come in any order.
Orders(pairs) ==
    {[k \in 1..Len(pairs) |-> pairs[order[k]]] :
        order \in {f \in [1..Len(pairs) -> 1..Len(pairs)] :
                      ToSet(f) = 1..Len(pairs)}}

\* The texts are sequences of bytes; what jsonEncodedForm makes is not.
Body(r) ==
    CASE r.bodyEncodeMode = "JSON" -> [json |-> jsonEncodedForm(r.formPostData)]
      [] r.bodyEncodeMode = "URL" -> [text |-> urlEncodedForm(r.formPostData)]
      [] r.bodyEncodeMode = "MultiPart" ->
            [text |-> multipartEncodedForm(r.formPostData, Boundary)]
      [] r.bodyEncodeMode = "Raw" -> [text |-> r.rawBodyData]
      [] r.bodyEncodeMode = "Empty" -> [text |-> <<>>]

ContentType(r) ==
    CASE r.bodyEncodeMode = "JSON" -> "application/json"
      [] r.bodyEncodeMode = "URL" -> "application/x-www-form-urlencoded"
      [] r.bodyEncodeMode = "MultiPart" -> "multipart/form-data"
      [] r.bodyEncodeMode = "Raw" -> r.contentType
      [] r.bodyEncodeMode = "Empty" -> "unset"

\* What generateRequest may put into `request'. The destination stands for the
\* method, the endpoint and the headers, and for where it is sent.
Messages(r) ==
    {[destination |-> r.destination,
      query |-> urlEncodedForm(pairs),
      contentType |-> ContentType(r),
      contentLength |-> r.bodyEncodeMode # "Empty",
      body |-> Body(r)] : pairs \in Orders(r.formGetData)}

\* asyncWrite: the message is generated and written. What jsonEncodedForm
\* throws is caught by nobody.
generateRequest(s) ==
    /\ request[s].exists /\ request[s].addedToClient /\ ~request[s].generated
    /\ Len(sent[s]) < MaxTries
    /\ ~(request[s].bodyEncodeMode = "JSON" /\ jsonThrows(request[s].formPostData))
    /\ \E message \in Messages(request[s]) : sent' = [sent EXCEPT ![s] = Append(@, message)]
    /\ Update(s, [request[s] EXCEPT !.generated = TRUE])
    /\ UNCHANGED <<told, origin, owned>>

-----------------------------------------------------------------------------
(* Clones.                                                                 *)

\* The fields that every kind of clone copies.
CopyOf(r) ==
    [New(r.destination) EXCEPT
        !.alive = r.alive, !.handler = r.handler, !.shouldRetry = r.shouldRetry,
        !.formPostData = r.formPostData, !.formGetData = r.formGetData]

makeClone(r) == CopyOf(r)

\* Nobody's token, an empty handler and no shouldRetry.
makeDeadClone(r) ==
    [CopyOf(r) EXCEPT !.alive = "nobody", !.handler = "none", !.shouldRetry = FALSE]

\* Slip: the mode is left at its default, as makeClone does.
makeRetryCloneInUrlMode(r) ==
    [CopyOf(r) EXCEPT
        !.rawBodyData = r.rawBodyData, !.contentType = r.contentType,
        !.addedToClient = r.addedToClient]

makeRetryClone(r) ==
    [CopyOf(r) EXCEPT
        !.rawBodyData = r.rawBodyData, !.contentType = r.contentType,
        !.bodyEncodeMode = r.bodyEncodeMode,
        !.addedToClient = r.addedToClient]

\* Slip: makeRetryClone leaves the original its handler.
AfterRetryCloneKeeping(r) == r

\* makeRetryClone takes the handlers away from the original.
AfterRetryClone(r) == [r EXCEPT !.handler = "none"]

\* ~Request: whether the user's completion handler is called.
Tells(r) == r.handler = "user" /\ r.alive = "owner" /\ owned

Told(s, r) == told' = [told EXCEPT ![s] = IF Tells(r) THEN @ + 1 ELSE @]

\* ~SocketDetails_lt when shouldRetry says yes: the clone takes the place of the
\* original, which is deleted.
Retry(s) ==
    /\ request[s].exists /\ request[s].addedToClient
    /\ request[s].shouldRetry
    /\ Len(sent[s]) < MaxTries
    /\ Update(s, makeRetryClone(request[s]))
    /\ Told(s, AfterRetryClone(request[s]))
    /\ UNCHANGED <<sent, origin, owned>>

\* What the deletion leaves for the properties: whose token the object had.
Gone(r) == [Null EXCEPT !.alive = r.alive]

\* Otherwise the request is deleted. In its completion handler the application
\* may clone it; the clone is sent as it is.
Delete(s) ==
    /\ request[s].exists /\ request[s].addedToClient
    /\ Told(s, request[s])
    /\ \/ Update(s, Gone(request[s])) /\ UNCHANGED origin
       \/ /\ s = "own" /\ Tells(request[s])
          /\ origin' = request[s]
          /\ \E clone \in {makeClone(request[s]), makeDeadClone(request[s])} :
                request' = [request EXCEPT !["own"] = Gone(@), !["clone"] = clone]
    /\ UNCHANGED <<sent, owned>>

OwnerGoes ==
    /\ owned
    /\ owned' = FALSE
    /\ UNCHANGED <<request, sent, told, origin>>

-----------------------------------------------------------------------------
Finished == (\A s \in Slots : ~request[s].exists) /\ UNCHANGED vars

Next ==
    \/ \E pair \in PostPairs : addFormPostData(pair)
    \/ \E pair \in GetPairs : addFormGetData(pair)
    \/ \E raw \in RawBodies : setRawBodyData(raw)
    \/ \E mode \in Modes : setBodyEncodeMode(mode)
    \/ \E s \in Slots : setAddedToClient(s) \/ generateRequest(s) \/ Retry(s) \/ Delete(s)
    \/ OwnerGoes
    \/ Finished

Spec == Init /\ [][Next]_vars

-----------------------------------------------------------------------------
ObjectOK(r) ==
    /\ r.alive \in {"owner", "nobody"}
    /\ r.exists =>
          /\ r.handler \in {"user", "none"}
          /\ r.destination \in Destinations
          /\ Len(r.formPostData) <= MaxPairs /\ Len(r.formGetData) <= MaxPairs
          /\ ToSet(r.formPostData) \subseteq PostPairs
          /\ ToSet(r.formGetData) \subseteq GetPairs
          /\ r.bodyEncodeMode \in Modes
          /\ r.generated => r.addedToClient

TypeOK ==
    /\ \A s \in Slots : ObjectOK(request[s]) /\ told[s] \in 0..1 /\ Len(sent[s]) <= MaxTries
    /\ ObjectOK(origin)
    /\ owned \in BOOLEAN

\* The forms that the query of a message may be made of.
GetForms == UNION {[1..n -> GetPairs] : n \in 0..MaxPairs}

\* Two messages ask for the same: only the order of the query may differ.
SameMessage(m1, m2) ==
    /\ \E form \in GetForms :
          {m1.query, m2.query} \subseteq {urlEncodedForm(pairs) : pairs \in Orders(form)}
    /\ [m1 EXCEPT !.query = m2.query] = m2

\* Every try of a request sends what the first one sent, although each is made
\* by another object that was copied field by field. What the application's
\* own clone sends is the same too, but only for a form in URL mode: makeClone
\* and makeDeadClone leave out the mode and the raw body.
SendsTheSame ==
    /\ \A s \in Slots : \A k \in 1..Len(sent[s]) : SameMessage(sent[s][1], sent[s][k])
    /\ origin # Null /\ origin.bodyEncodeMode = "URL" =>
          \A k \in 1..Len(sent["clone"]) : sent["clone"][k] \in Messages(origin)

\* A server that decodes the message finds the form and the query as they were
\* given, whatever bytes they are made of: in URL mode always, in multi part
\* mode as long as nothing needs escaping and the boundary is not in the data.
FormReadable ==
    \A s \in Slots : request[s].exists /\ request[s].generated =>
        LET r == request[s]
            message == Last(sent[s])
        IN  /\ UrlDecodedForm(message.query) \in Orders(r.formGetData)
            /\ r.bodyEncodeMode = "URL" =>
                  UrlDecodedForm(message.body.text) = PlainPairs(r.formPostData)
            /\ r.bodyEncodeMode = "MultiPart" /\ PlainForm(r.formPostData, Boundary) =>
                  MultipartDecodedForm(message.body.text, Boundary) = r.formPostData

\* The application hears of every request, and of the clone it has made, once and
\* when the last object that stands for it goes, however many retry clones have
\* stood for it before; it never hears of a dead clone, nor once its owner has
\* gone.
ToldOnce ==
    \A s \in Slots :
        /\ request[s].exists => told[s] = 0
        /\ ~request[s].exists /\ owned =>
              told[s] = (IF request[s].alive = "owner" THEN 1 ELSE 0)

\* "Add data to be encoded in the document body" (Request.h): every pair of a
\* form in JSON mode is in the body.
JsonKeepsEveryPair ==
    \A s \in Slots : request[s].exists /\ request[s].generated =>
        LET r == request[s]
        IN  r.bodyEncodeMode = "JSON" =>
               \A k \in 1..Len(r.formPostData) :
                  [key |-> r.formPostData[k].key, data |-> r.formPostData[k].data]
                     \in Last(sent[s]).body.json.object
==============================================================================
