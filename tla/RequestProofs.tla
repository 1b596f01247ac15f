----------------------------- MODULE RequestProofs ----------------------------
(***************************************************************************)
(* Proofs about requests and their clones.                                 *)
(***************************************************************************)
EXTENDS Request, FormsProofs

-----------------------------------------------------------------------------
(* The inductive invariant.                                                *)

\* A request object, and what is left of one.
Object ==
    [exists : {TRUE}, handler : {"user", "none"}, alive : {"owner", "nobody"},
     shouldRetry : BOOLEAN, destination : Destinations,
     formPostData : Seq(PostPairs), formGetData : Seq(GetPairs),
     rawBodyData : Text, contentType : {""} \cup {raw.type : raw \in RawBodies},
     bodyEncodeMode : Modes,
     addedToClient : BOOLEAN, generated : BOOLEAN]

Remains == [exists : {FALSE}, alive : {"owner", "nobody"}]

\* An object is as big as it may be, only the client generates its message, and
\* whoever may hear of it has a handler to hear with.
Consistent(r) ==
    /\ Len(r.formPostData) <= MaxPairs /\ Len(r.formGetData) <= MaxPairs
    /\ r.generated => r.addedToClient
    /\ r.alive = "owner" => r.handler = "user"

TypeInv ==
    /\ request \in [Slots -> Object \cup Remains]
    /\ origin \in Object \cup Remains
    /\ sent \in [Slots -> Seq(UNION {Messages(r) : r \in Object})]
    /\ told \in [Slots -> 0..1]
    /\ owned \in BOOLEAN
    /\ \A s \in Slots : Len(sent[s]) <= MaxTries
    /\ \A s \in Slots : request[s].exists => Consistent(request[s])
    /\ origin.exists => Consistent(origin)

\* Until the application clones its request there is nothing in the clone's
\* slot; afterwards its own object is gone.
CloneInv ==
    /\ ~origin.exists => /\ origin = Null /\ request["clone"] = Null
                         /\ told["clone"] = 0 /\ sent["clone"] = <<>>
    /\ origin.exists => ~request["own"].exists

\* What has been sent for an object is what it would send now.
SentInv(r, messages) ==
    /\ \A k \in 1..Len(messages) : messages[k] \in Messages(r)
    /\ ~r.addedToClient => messages = <<>>
    /\ r.generated => messages # <<>>

\* What a clone has of its original, if it is sent in URL mode.
SameForms(r1, r2) ==
    /\ r1.destination = r2.destination
    /\ r1.formPostData = r2.formPostData /\ r1.formGetData = r2.formGetData
    /\ r1.bodyEncodeMode = r2.bodyEncodeMode

OriginInv ==
    origin.exists /\ request["clone"].exists /\ origin.bodyEncodeMode = "URL" =>
        SameForms(request["clone"], origin)

Inv ==
    /\ TypeInv
    /\ CloneInv
    /\ ToldOnce
    /\ \A s \in Slots : request[s].exists => SentInv(request[s], sent[s])
    /\ OriginInv
    /\ SendsTheSame

-----------------------------------------------------------------------------
(* What the constructors and the clones are.                               *)

LEMMA NewType ==
    ASSUME NEW d \in Destinations
    PROVE  /\ New(d) \in Object
           /\ Consistent(New(d))
           /\ New(d).destination = d /\ New(d).bodyEncodeMode = "URL"
           /\ ~New(d).addedToClient /\ ~New(d).generated
<1>1. <<>> \in Seq(PostPairs) /\ <<>> \in Seq(GetPairs) /\ <<>> \in Text
  BY DEF Text
<1>2. "URL" \in Modes /\ Len(<<>>) = 0 /\ 0 <= MaxPairs
  BY RequestAssumption DEF Modes
<1>3. New(d) \in Object
  BY <1>1, <1>2 DEF New, Object
<1>4. QED  BY <1>2, <1>3 DEF New, Consistent

\* CopyOf, and what the other kinds of clone change of it.
LEMMA CopyType ==
    ASSUME NEW r \in Object, Consistent(r)
    PROVE  /\ CopyOf(r) \in Object
           /\ Consistent(CopyOf(r))
           /\ CopyOf(r).bodyEncodeMode = "URL"
           /\ CopyOf(r).destination = r.destination
           /\ CopyOf(r).formPostData = r.formPostData /\ CopyOf(r).formGetData = r.formGetData
           /\ CopyOf(r).alive = r.alive /\ CopyOf(r).handler = r.handler
           /\ ~CopyOf(r).addedToClient /\ ~CopyOf(r).generated
<1>1. PICK n \in Object : n = New(r.destination)
  BY NewType DEF Object
<1>2. /\ n.destination = r.destination /\ n.bodyEncodeMode = "URL"
      /\ ~n.addedToClient /\ ~n.generated
  BY <1>1, NewType DEF Object
<1>3. PICK c : c = [n EXCEPT
        !.alive = r.alive, !.handler = r.handler, !.shouldRetry = r.shouldRetry,
        !.formPostData = r.formPostData, !.formGetData = r.formGetData]
  OBVIOUS
<1>4. c \in Object
  BY <1>3 DEF Object
<1>5. /\ c.destination = n.destination /\ c.bodyEncodeMode = n.bodyEncodeMode
      /\ c.addedToClient = n.addedToClient /\ c.generated = n.generated
      /\ c.formPostData = r.formPostData /\ c.formGetData = r.formGetData
      /\ c.alive = r.alive /\ c.handler = r.handler
  BY <1>3 DEF Object
<1>6. c = CopyOf(r)
  BY <1>1, <1>3 DEF CopyOf
<1>7. Consistent(c)
  BY <1>2, <1>5 DEF Consistent
<1>8. QED  BY <1>2, <1>4, <1>5, <1>6, <1>7

LEMMA RetryCloneType ==
    ASSUME NEW r \in Object, Consistent(r)
    PROVE  /\ makeRetryClone(r) \in Object
           /\ Consistent(makeRetryClone(r))
           /\ SameForms(makeRetryClone(r), r)
           /\ makeRetryClone(r).rawBodyData = r.rawBodyData
           /\ makeRetryClone(r).contentType = r.contentType
           /\ makeRetryClone(r).addedToClient = r.addedToClient
           /\ makeRetryClone(r).alive = r.alive
           /\ ~makeRetryClone(r).generated
<1>1. PICK c \in Object : c = CopyOf(r)
  BY CopyType
<1>2. PICK m : m = [c EXCEPT
        !.rawBodyData = r.rawBodyData, !.contentType = r.contentType,
        !.bodyEncodeMode = r.bodyEncodeMode,
        !.addedToClient = r.addedToClient]
  OBVIOUS
<1>3. m \in Object
  BY <1>2 DEF Object
<1>4. /\ m.destination = c.destination /\ m.bodyEncodeMode = r.bodyEncodeMode
      /\ m.formPostData = c.formPostData /\ m.formGetData = c.formGetData
      /\ m.rawBodyData = r.rawBodyData /\ m.contentType = r.contentType
      /\ m.addedToClient = r.addedToClient /\ m.generated = c.generated
      /\ m.alive = c.alive /\ m.handler = c.handler
  BY <1>2 DEF Object
<1>5. m = makeRetryClone(r)
  BY <1>1, <1>2 DEF makeRetryClone
<1>6. /\ c.destination = r.destination
      /\ c.formPostData = r.formPostData /\ c.formGetData = r.formGetData
      /\ c.alive = r.alive /\ c.handler = r.handler /\ ~c.generated
  BY <1>1, CopyType
<1>7. Consistent(m)
  BY <1>4, <1>6 DEF Consistent
<1>8. QED  BY <1>3, <1>4, <1>5, <1>6, <1>7 DEF SameForms

LEMMA ApplicationCloneType ==
    ASSUME NEW r \in Object, Consistent(r), NEW c \in {makeClone(r), makeDeadClone(r)}
    PROVE  /\ c \in Object
           /\ Consistent(c)
           /\ r.bodyEncodeMode = "URL" => SameForms(c, r)
           /\ ~c.addedToClient /\ ~c.generated
<1>1. CASE c = makeClone(r)
  BY <1>1, CopyType DEF makeClone, SameForms
<1>2. CASE c = makeDeadClone(r)
  <2>1. PICK n \in Object : n = CopyOf(r)
    BY CopyType
  <2>2. c = [n EXCEPT !.alive = "nobody", !.handler = "none", !.shouldRetry = FALSE]
    BY <1>2, <2>1 DEF makeDeadClone
  <2>3. c \in Object
    BY <2>2 DEF Object
  <2>4. /\ c.destination = n.destination /\ c.bodyEncodeMode = n.bodyEncodeMode
        /\ c.formPostData = n.formPostData /\ c.formGetData = n.formGetData
        /\ c.addedToClient = n.addedToClient /\ c.generated = n.generated /\ c.alive = "nobody"
    BY <2>2 DEF Object
  <2>5. QED  BY <2>1, <2>3, <2>4, CopyType DEF Consistent, SameForms
<1>3. QED  BY <1>1, <1>2

-----------------------------------------------------------------------------
(* What they send.                                                         *)

SameRaw(r1, r2) == r1.rawBodyData = r2.rawBodyData /\ r1.contentType = r2.contentType

\* A clone sends the same messages as its original: a retry clone always, one of
\* the application in URL mode, where the raw body is not sent.
LEMMA SameMessages ==
    ASSUME NEW r1, NEW r2, SameForms(r1, r2), SameRaw(r1, r2) \/ r1.bodyEncodeMode = "URL"
    PROVE  Messages(r1) = Messages(r2)
<1>1. /\ r1.destination = r2.destination /\ r1.bodyEncodeMode = r2.bodyEncodeMode
      /\ r1.formPostData = r2.formPostData /\ r1.formGetData = r2.formGetData
  BY DEF SameForms
<1>2. Body(r1) = Body(r2) /\ ContentType(r1) = ContentType(r2)
  <2>1. CASE SameRaw(r1, r2)
    BY <1>1, <2>1, Zenon DEF SameRaw, Body, ContentType
  <2>2. CASE r1.bodyEncodeMode = "URL"
    BY <1>1, <2>2, Zenon DEF Body, ContentType
  <2>3. QED  BY <2>1, <2>2
<1>3. QED  BY <1>1, <1>2, Zenon DEF Messages

\* Two messages of one object ask for the same.
LEMMA MessagesAskForTheSame ==
    ASSUME NEW r \in Object, Consistent(r), NEW m1 \in Messages(r), NEW m2 \in Messages(r)
    PROVE  SameMessage(m1, m2)
<1>1. PICK form : form = r.formGetData
  OBVIOUS
<1>2. form \in GetForms
  <2>4. form \in Seq(GetPairs) /\ Len(form) <= MaxPairs
    BY <1>1 DEF Object, Consistent
  <2>5. MaxPairs \in Nat
    BY RequestAssumption
  <2>1. form \in Seq(GetPairs) /\ Len(form) \in 0..MaxPairs
    BY <2>4, <2>5, LenProperties
  <2>2. form \in [1..Len(form) -> GetPairs]
    BY <2>1
  <2>3. QED  BY <2>1, <2>2 DEF GetForms
<1>3. ASSUME NEW m \in Messages(r)
      PROVE  /\ m = [destination |-> r.destination, query |-> m.query,
                     contentType |-> ContentType(r),
                     contentLength |-> r.bodyEncodeMode # "Empty", body |-> Body(r)]
             /\ m.query \in {urlEncodedForm(pairs) : pairs \in Orders(form)}
  <2>1. PICK pairs \in Orders(form) :
            m = [destination |-> r.destination, query |-> urlEncodedForm(pairs),
                 contentType |-> ContentType(r),
                 contentLength |-> r.bodyEncodeMode # "Empty", body |-> Body(r)]
    BY <1>1 DEF Messages
  <2>2. m.query = urlEncodedForm(pairs)
    BY <2>1
  <2>3. QED  BY <2>1, <2>2
<1>4. [m1 EXCEPT !.query = m2.query] = m2
  <2>1. PICK d, t, l, b : /\ d = r.destination /\ t = ContentType(r)
                          /\ l = (r.bodyEncodeMode # "Empty") /\ b = Body(r)
    OBVIOUS
  <2>2. PICK q1, q2 : q1 = m1.query /\ q2 = m2.query
    OBVIOUS
  <2>3. /\ m1 = [destination |-> d, query |-> q1,
                 contentType |-> t, contentLength |-> l, body |-> b]
        /\ m2 = [destination |-> d, query |-> q2,
                 contentType |-> t, contentLength |-> l, body |-> b]
    BY <1>3, <2>1, <2>2
  <2>4. QED  BY <2>2, <2>3
<1>5. QED  BY <1>2, <1>3, <1>4 DEF SameMessage

-----------------------------------------------------------------------------
(* The invariant holds.                                                    *)

LEMMA InitInv == Init => Inv
<1> SUFFICES ASSUME Init PROVE Inv
  OBVIOUS
<1>1. PICK d \in Destinations :
          request = [s \in Slots |-> IF s = "own" THEN New(d) ELSE Null]
  BY DEF Init
<1>2. /\ "own" \in Slots /\ "clone" \in Slots /\ request["own"] = New(d) /\ request["clone"] = Null
      /\ \A s \in Slots : s = "own" \/ s = "clone"
  BY <1>1 DEF Slots
<1>3. New(d) \in Object /\ Consistent(New(d)) /\ ~New(d).addedToClient /\ ~New(d).generated
  BY NewType
<1>4. Null \in Remains /\ ~Null.exists /\ Null.alive = "nobody" /\ New(d).exists
  BY <1>3 DEF Null, Remains, Object
<1>5. /\ sent = [s \in Slots |-> <<>>] /\ told = [s \in Slots |-> 0]
      /\ origin = Null /\ owned = TRUE
  BY DEF Init
<1>6. \A s \in Slots : sent[s] = <<>> /\ Len(sent[s]) = 0 /\ told[s] = 0
  BY <1>5
<1>7. TypeInv
  <2>1. request \in [Slots -> Object \cup Remains]
    BY <1>1, <1>3, <1>4
  <2>2. sent \in [Slots -> Seq(UNION {Messages(r) : r \in Object})]
    BY <1>5
  <2>3. told \in [Slots -> 0..1]
    BY <1>5
  <2>4. MaxTries \in Nat
    BY RequestAssumption
  <2>5. \A s \in Slots : request[s].exists => Consistent(request[s])
    BY <1>2, <1>3, <1>4
  <2>6. QED  BY <1>4, <1>5, <1>6, <2>1, <2>2, <2>3, <2>4, <2>5 DEF TypeInv
<1>8. CloneInv
  BY <1>2, <1>4, <1>5, <1>6 DEF CloneInv
<1>9. ToldOnce
  BY <1>2, <1>4, <1>6 DEF ToldOnce
<1>10. \A s \in Slots : request[s].exists => SentInv(request[s], sent[s])
  BY <1>2, <1>3, <1>4, <1>6 DEF SentInv
<1>11. OriginInv
  BY <1>4, <1>5 DEF OriginInv
<1>12. SendsTheSame
  BY <1>2, <1>5, <1>6 DEF SendsTheSame
<1>13. QED  BY <1>7, <1>8, <1>9, <1>10, <1>11, <1>12 DEF Inv

\* One object is replaced by one that exists.
LEMMA UpdateType ==
    ASSUME TypeInv, NEW s \in Slots, NEW r \in Object, Consistent(r), Update(s, r),
           UNCHANGED <<told, origin, owned>>,
           sent' \in [Slots -> Seq(UNION {Messages(q) : q \in Object})],
           \A t \in Slots : Len(sent'[t]) <= MaxTries
    PROVE  /\ TypeInv'
           /\ request'[s] = r /\ \A t \in Slots : t # s => request'[t] = request[t]
           /\ r.exists
<1>1. request' = [request EXCEPT ![s] = r] /\ request \in [Slots -> Object \cup Remains]
  BY DEF Update, TypeInv
<1>2. request' \in [Slots -> Object \cup Remains]
  BY <1>1
<1>3. request'[s] = r /\ \A t \in Slots : t # s => request'[t] = request[t]
  BY <1>1
<1>4. r.exists
  BY DEF Object
<1>5. \A t \in Slots : request'[t].exists => Consistent(request'[t])
  BY <1>3 DEF TypeInv
<1>6. QED  BY <1>2, <1>3, <1>4, <1>5 DEF TypeInv

LEMMA UpdateOthers ==
    ASSUME Inv, NEW s \in Slots, NEW r, request[s].exists, r.exists,
           request'[s] = r,
           \A t \in Slots : t # s => request'[t] = request[t] /\ sent'[t] = sent[t],
           UNCHANGED <<told, origin, owned>>
    PROVE  CloneInv' /\ ToldOnce'
<1>1. s = "own" \/ s = "clone"
  BY DEF Slots
<1>2. Null.exists = FALSE /\ "own" \in Slots /\ "clone" \in Slots
  BY DEF Null, Slots
<1>3. CloneInv'
  BY <1>1, <1>2 DEF Inv, CloneInv
<1>4. ToldOnce'
  BY DEF Inv, ToldOnce
<1>5. QED  BY <1>3, <1>4

\* The application's object changes before it is handed to the client: nothing
\* has been sent for it.
LEMMA BuildingStep ==
    ASSUME Inv, Building, NEW r \in Object, Consistent(r), ~r.addedToClient, Update("own", r)
    PROVE  Inv'
<1>1. "own" \in Slots /\ request["own"].exists /\ ~request["own"].addedToClient
      /\ UNCHANGED <<sent, told, origin, owned>>
  BY DEF Building, Slots
<1>2. /\ TypeInv'
      /\ request'["own"] = r /\ \A t \in Slots : t # "own" => request'[t] = request[t]
      /\ r.exists
  BY <1>1, UpdateType DEF Inv, TypeInv
<1>3. CloneInv' /\ ToldOnce'
  BY <1>1, <1>2, UpdateOthers
<1>4. \A s \in Slots : request'[s].exists => SentInv(request'[s], sent'[s])
  <2>1. sent["own"] = <<>>
    BY <1>1 DEF Inv, SentInv
  <2>2. SentInv(r, <<>>)
    BY DEF SentInv, Consistent
  <2>3. QED  BY <1>1, <1>2, <2>1, <2>2 DEF Inv
<1>5. OriginInv'
  BY <1>1, <1>2 DEF Inv, OriginInv, CloneInv
<1>6. SendsTheSame'
  BY <1>1 DEF Inv, SendsTheSame
<1>7. QED  BY <1>2, <1>3, <1>4, <1>5, <1>6 DEF Inv

\* An object is replaced by one that sends the same, and nothing is sent.
LEMMA RenewStep ==
    ASSUME Inv, NEW s \in Slots, request[s].exists,
           NEW r \in Object, Consistent(r), SameForms(r, request[s]), SameRaw(r, request[s]),
           r.addedToClient, ~r.generated, Update(s, r), UNCHANGED <<sent, told, origin, owned>>
    PROVE  Inv'
<1>1. /\ TypeInv'
      /\ request'[s] = r /\ \A t \in Slots : t # s => request'[t] = request[t]
      /\ r.exists
  BY UpdateType DEF Inv, TypeInv
<1>2. CloneInv' /\ ToldOnce'
  BY <1>1, UpdateOthers
<1>3. \A t \in Slots : request'[t].exists => SentInv(request'[t], sent'[t])
  <2>1. Messages(r) = Messages(request[s])
    BY SameMessages
  <2>2. SentInv(request[s], sent[s])
    BY DEF Inv
  <2>3. SentInv(r, sent[s])
    BY <2>1, <2>2 DEF SentInv
  <2>4. QED  BY <1>1, <2>3 DEF Inv
<1>4. OriginInv'
  <2>1. CASE s = "clone"
    BY <1>1, <2>1 DEF Inv, OriginInv, SameForms
  <2>2. CASE s # "clone"
    <3>1. request'["clone"] = request["clone"]
      BY <1>1, <2>2 DEF Slots
    <3>2. QED  BY <3>1 DEF Inv, OriginInv
  <2>3. QED  BY <2>1, <2>2
<1>5. SendsTheSame'
  BY DEF Inv, SendsTheSame
<1>6. QED  BY <1>1, <1>2, <1>3, <1>4, <1>5 DEF Inv

LEMMA ExistingType ==
    ASSUME Inv, NEW s \in Slots, request[s].exists
    PROVE  request[s] \in Object /\ Consistent(request[s])
BY DEF Inv, TypeInv, Remains

LEMMA addFormPostDataStep ==
    ASSUME Inv, NEW pair \in PostPairs, addFormPostData(pair)
    PROVE  Inv'
<1>1. PICK r \in Object : r = request["own"] /\ Consistent(r) /\ ~r.addedToClient
  BY ExistingType DEF addFormPostData, Building, Slots
<1>2. PICK form \in Seq(PostPairs) : form = Append(r.formPostData, pair)
  <2>1. r.formPostData \in Seq(PostPairs)
    BY DEF Object
  <2>2. Append(r.formPostData, pair) \in Seq(PostPairs)
    BY <2>1
  <2>3. QED  BY <2>2
<1>3. Len(form) <= MaxPairs
  <2>1. r.formPostData \in Seq(PostPairs) /\ Len(r.formPostData) < MaxPairs /\ MaxPairs \in Nat
    BY <1>1, RequestAssumption DEF addFormPostData, Object
  <2>2. Len(form) = Len(r.formPostData) + 1
    BY <1>2, <2>1
  <2>3. QED  BY <2>1, <2>2, LenProperties
<1>4. PICK q : q = [r EXCEPT !.formPostData = form]
  OBVIOUS
<1>5. q \in Object /\ Consistent(q) /\ ~q.addedToClient
  BY <1>1, <1>3, <1>4 DEF Object, Consistent
<1>6. Update("own", q) /\ Building
  BY <1>1, <1>2, <1>4 DEF addFormPostData
<1>7. QED  BY <1>5, <1>6, BuildingStep

LEMMA addFormGetDataStep ==
    ASSUME Inv, NEW pair \in GetPairs, addFormGetData(pair)
    PROVE  Inv'
<1>1. PICK r \in Object : r = request["own"] /\ Consistent(r) /\ ~r.addedToClient
  BY ExistingType DEF addFormGetData, Building, Slots
<1>2. PICK form \in Seq(GetPairs) : form = Append(r.formGetData, pair)
  <2>1. r.formGetData \in Seq(GetPairs)
    BY DEF Object
  <2>2. Append(r.formGetData, pair) \in Seq(GetPairs)
    BY <2>1
  <2>3. QED  BY <2>2
<1>3. Len(form) <= MaxPairs
  <2>1. r.formGetData \in Seq(GetPairs) /\ Len(r.formGetData) < MaxPairs /\ MaxPairs \in Nat
    BY <1>1, RequestAssumption DEF addFormGetData, Object
  <2>2. Len(form) = Len(r.formGetData) + 1
    BY <1>2, <2>1
  <2>3. QED  BY <2>1, <2>2, LenProperties
<1>4. PICK q : q = [r EXCEPT !.formGetData = form]
  OBVIOUS
<1>5. q \in Object /\ Consistent(q) /\ ~q.addedToClient
  BY <1>1, <1>3, <1>4 DEF Object, Consistent
<1>6. Update("own", q) /\ Building
  BY <1>1, <1>2, <1>4 DEF addFormGetData
<1>7. QED  BY <1>5, <1>6, BuildingStep

LEMMA setRawBodyDataStep ==
    ASSUME Inv, NEW raw \in RawBodies, setRawBodyData(raw)
    PROVE  Inv'
<1>1. PICK r \in Object : r = request["own"] /\ Consistent(r) /\ ~r.addedToClient
  BY ExistingType DEF setRawBodyData, Building, Slots
<1>2. PICK d \in Text, t \in {x.type : x \in RawBodies} : d = raw.data /\ t = raw.type
  BY RequestAssumption
<1>3. PICK q : q = [r EXCEPT !.rawBodyData = d, !.contentType = t]
  OBVIOUS
<1>4. q \in Object /\ Consistent(q) /\ ~q.addedToClient
  BY <1>1, <1>3 DEF Object, Consistent
<1>5. Update("own", q) /\ Building
  BY <1>1, <1>2, <1>3 DEF setRawBodyData
<1>6. QED  BY <1>4, <1>5, BuildingStep

LEMMA setBodyEncodeModeStep ==
    ASSUME Inv, NEW mode \in Modes, setBodyEncodeMode(mode)
    PROVE  Inv'
<1>1. PICK r \in Object : r = request["own"] /\ Consistent(r) /\ ~r.addedToClient
  BY ExistingType DEF setBodyEncodeMode, Building, Slots
<1>2. PICK q : q = [r EXCEPT !.bodyEncodeMode = mode]
  OBVIOUS
<1>3. q \in Object /\ Consistent(q) /\ ~q.addedToClient
  BY <1>1, <1>2 DEF Object, Consistent
<1>4. Update("own", q) /\ Building
  BY <1>1, <1>2 DEF setBodyEncodeMode
<1>5. QED  BY <1>3, <1>4, BuildingStep

LEMMA setAddedToClientStep ==
    ASSUME Inv, NEW s \in Slots, setAddedToClient(s)
    PROVE  Inv'
<1>1. PICK r \in Object : r = request[s] /\ Consistent(r) /\ r.exists /\ ~r.addedToClient
  BY ExistingType DEF setAddedToClient
<1>2. PICK q : q = [r EXCEPT !.addedToClient = TRUE]
  OBVIOUS
<1>3. /\ q \in Object /\ Consistent(q) /\ q.addedToClient /\ ~q.generated
      /\ SameForms(q, r) /\ SameRaw(q, r)
  BY <1>1, <1>2 DEF Object, Consistent, SameForms, SameRaw
<1>4. Update(s, q) /\ UNCHANGED <<sent, told, origin, owned>>
  BY <1>1, <1>2 DEF setAddedToClient
<1>5. QED  BY <1>1, <1>3, <1>4, RenewStep

LEMMA RetryStep ==
    ASSUME Inv, NEW s \in Slots, Retry(s)
    PROVE  Inv'
<1>1. PICK r \in Object : r = request[s] /\ Consistent(r) /\ r.exists /\ r.addedToClient
  BY ExistingType DEF Retry
<1>2. PICK q : q = makeRetryClone(r)
  OBVIOUS
<1>3. /\ q \in Object /\ Consistent(q) /\ q.addedToClient /\ ~q.generated
      /\ SameForms(q, r) /\ SameRaw(q, r)
  BY <1>1, <1>2, RetryCloneType DEF SameRaw
<1>4. told' = told
  <2>1. ~Tells(AfterRetryClone(request[s]))
    BY <1>1 DEF Tells, AfterRetryClone, Object
  <2>2. told' = [told EXCEPT ![s] = told[s]]
    BY <2>1 DEF Retry, Told
  <2>3. QED  BY <2>2 DEF Inv, TypeInv
<1>5. Update(s, q) /\ UNCHANGED <<sent, told, origin, owned>>
  BY <1>1, <1>2, <1>4 DEF Retry
<1>6. QED  BY <1>1, <1>3, <1>5, RenewStep

LEMMA generateRequestStep ==
    ASSUME Inv, NEW s \in Slots, generateRequest(s)
    PROVE  Inv'
<1>1. PICK r \in Object : r = request[s] /\ Consistent(r) /\ r.exists /\ r.addedToClient
  BY ExistingType DEF generateRequest
<1>2. PICK q : q = [r EXCEPT !.generated = TRUE]
  OBVIOUS
<1>3. /\ q \in Object /\ Consistent(q) /\ q.addedToClient /\ q.generated
      /\ SameForms(q, r) /\ SameRaw(q, r)
  BY <1>1, <1>2 DEF Object, Consistent, SameForms, SameRaw
<1>4. PICK message \in Messages(r) : sent' = [sent EXCEPT ![s] = Append(@, message)]
  BY <1>1 DEF generateRequest
<1>5. PICK All : All = UNION {Messages(x) : x \in Object}
  OBVIOUS
<1>6. sent \in [Slots -> Seq(All)] /\ message \in All
  BY <1>1, <1>4, <1>5 DEF Inv, TypeInv
<1>7. PICK before \in Seq(All), after \in Seq(All) :
          before = sent[s] /\ after = Append(before, message)
  <2>1. sent[s] \in Seq(All) /\ Append(sent[s], message) \in Seq(All)
    BY <1>6
  <2>2. QED  BY <2>1
<1>8. /\ after \in Seq(All) /\ Len(after) = Len(before) + 1 /\ after[Len(before) + 1] = message
      /\ \A k \in 1..Len(before) : after[k] = before[k]
  BY <1>6, <1>7, AppendProperties
<1>9. /\ sent' \in [Slots -> Seq(All)] /\ sent'[s] = after
      /\ \A t \in Slots : t # s => sent'[t] = sent[t]
  BY <1>4, <1>6, <1>7, <1>8
<1>10. Update(s, q) /\ UNCHANGED <<told, origin, owned>>
  BY <1>1, <1>2 DEF generateRequest
<1>11. \A t \in Slots : Len(sent'[t]) <= MaxTries
  <2>1. Len(before) < MaxTries /\ Len(before) \in Nat /\ MaxTries \in Nat
    BY <1>7, RequestAssumption, LenProperties DEF generateRequest
  <2>2. Len(after) <= MaxTries
    BY <1>8, <2>1
  <2>3. QED  BY <1>9, <2>2 DEF Inv, TypeInv
<1>12. /\ TypeInv'
       /\ request'[s] = q /\ \A t \in Slots : t # s => request'[t] = request[t]
       /\ q.exists
  BY <1>3, <1>5, <1>9, <1>10, <1>11, UpdateType DEF Inv
<1>13. CloneInv' /\ ToldOnce'
  BY <1>1, <1>9, <1>10, <1>12, UpdateOthers
<1>14. \A k \in 1..Len(after) : after[k] \in Messages(r)
  <2>1. \A k \in 1..Len(before) : before[k] \in Messages(r)
    BY <1>1, <1>7 DEF Inv, SentInv
  <2>2. Len(before) \in Nat
    BY <1>7, LenProperties
  <2>3. ASSUME NEW k \in 1..Len(after) PROVE after[k] \in Messages(r)
    <3>1. k \in 1..Len(before) \/ k = Len(before) + 1
      BY <1>8, <2>2
    <3>2. QED  BY <1>4, <1>8, <2>1, <3>1
  <2>4. QED  BY <2>3
<1>15. \A t \in Slots : request'[t].exists => SentInv(request'[t], sent'[t])
  <2>1. Messages(q) = Messages(r)
    BY <1>3, SameMessages
  <2>2. after # <<>>
    BY <1>7, <1>8, LenProperties
  <2>3. SentInv(q, after)
    BY <1>3, <1>14, <2>1, <2>2 DEF SentInv
  <2>4. QED  BY <1>9, <1>12, <2>3 DEF Inv
<1>16. OriginInv'
  <2>1. CASE s = "clone"
    BY <1>1, <1>3, <1>10, <1>12, <2>1 DEF Inv, OriginInv, SameForms
  <2>2. CASE s # "clone"
    <3>1. request'["clone"] = request["clone"]
      BY <1>12, <2>2 DEF Slots
    <3>2. QED  BY <1>10, <3>1 DEF Inv, OriginInv
  <2>3. QED  BY <2>1, <2>2
<1>17. SendsTheSame'
  <2>1. ASSUME NEW k \in 1..Len(after) PROVE SameMessage(after[1], after[k])
    <3>1. 1 \in 1..Len(after)
      BY <1>7, <1>8, LenProperties
    <3>2. after[1] \in Messages(r) /\ after[k] \in Messages(r)
      BY <1>14, <3>1
    <3>3. QED  BY <1>1, <3>2, MessagesAskForTheSame
  <2>2. \A t \in Slots : \A k \in 1..Len(sent'[t]) : SameMessage(sent'[t][1], sent'[t][k])
    BY <1>9, <2>1 DEF Inv, SendsTheSame
  <2>3. ASSUME origin' # Null, origin'.bodyEncodeMode = "URL"
        PROVE  \A k \in 1..Len(sent'["clone"]) : sent'["clone"][k] \in Messages(origin')
    <3>1. origin # Null /\ origin.bodyEncodeMode = "URL" /\ origin' = origin
      BY <1>10, <2>3
    <3>2. CASE s = "clone"
      <4>1. origin.exists
        BY <3>1 DEF Inv, CloneInv
      <4>2. SameForms(r, origin)
        BY <1>1, <3>1, <3>2, <4>1 DEF Inv, OriginInv
      <4>3. Messages(r) = Messages(origin)
        BY <3>1, <4>2, SameMessages DEF SameForms
      <4>4. QED  BY <1>9, <1>14, <3>1, <3>2, <4>3
    <3>3. CASE s # "clone"
      <4>1. sent'["clone"] = sent["clone"]
        BY <1>9, <3>3 DEF Slots
      <4>2. QED  BY <3>1, <4>1 DEF Inv, SendsTheSame
    <3>4. QED  BY <3>2, <3>3
  <2>4. QED  BY <2>2, <2>3 DEF SendsTheSame
<1>18. QED  BY <1>12, <1>13, <1>15, <1>16, <1>17 DEF Inv

\* What the completion handler's counter is after the object of a slot is deleted.
LEMMA ToldByDeletion ==
    ASSUME Inv, NEW s \in Slots, request[s].exists, Told(s, request[s])
    PROVE  /\ told' \in [Slots -> 0..1]
           /\ \A t \in Slots : t # s => told'[t] = told[t]
           /\ owned => told'[s] = (IF request[s].alive = "owner" THEN 1 ELSE 0)
<1>1. told \in [Slots -> 0..1] /\ told[s] = 0
  BY DEF Inv, TypeInv, ToldOnce
<1>2. told' = [told EXCEPT ![s] = IF Tells(request[s]) THEN 1 ELSE 0]
  BY <1>1 DEF Told
<1>3. owned => (Tells(request[s]) <=> request[s].alive = "owner")
  BY ExistingType DEF Tells, Consistent
<1>4. QED  BY <1>1, <1>2, <1>3

LEMMA DeleteStep ==
    ASSUME Inv, NEW s \in Slots, Delete(s)
    PROVE  Inv'
<1>1. PICK r \in Object : r = request[s] /\ Consistent(r) /\ r.exists /\ r.addedToClient
  BY ExistingType DEF Delete
<1>2. PICK gone : gone = Gone(r)
  OBVIOUS
<1>3. gone \in Remains /\ ~gone.exists /\ gone.alive = r.alive
  BY <1>2 DEF Gone, Null, Remains, Object
<1>4. /\ told' \in [Slots -> 0..1]
      /\ \A t \in Slots : t # s => told'[t] = told[t]
      /\ owned => told'[s] = (IF r.alive = "owner" THEN 1 ELSE 0)
  BY <1>1, ToldByDeletion DEF Delete
<1>5. sent' = sent /\ owned' = owned
  BY DEF Delete
<1>6. "own" \in Slots /\ "clone" \in Slots /\ (\A t \in Slots : t = "own" \/ t = "clone")
  BY DEF Slots
<1>7. CASE Update(s, Gone(request[s])) /\ UNCHANGED origin
  <2>1. /\ request' = [request EXCEPT ![s] = gone]
        /\ request \in [Slots -> Object \cup Remains] /\ origin' = origin
    BY <1>1, <1>2, <1>7 DEF Update, Inv, TypeInv
  <2>2. /\ request' \in [Slots -> Object \cup Remains] /\ request'[s] = gone
        /\ \A t \in Slots : t # s => request'[t] = request[t]
    BY <1>3, <2>1
  <2>3. TypeInv'
    BY <1>3, <1>4, <1>5, <2>1, <2>2 DEF Inv, TypeInv
  <2>4. CloneInv'
    <3>1. s = "clone" => origin.exists
      BY <1>1 DEF Inv, CloneInv, Null
    <3>2. QED  BY <1>3, <1>4, <1>5, <1>6, <2>1, <2>2, <3>1 DEF Inv, CloneInv
  <2>5. ToldOnce'
    BY <1>3, <1>4, <1>5, <2>2 DEF Inv, ToldOnce
  <2>6. \A t \in Slots : request'[t].exists => SentInv(request'[t], sent'[t])
    BY <1>3, <1>5, <2>2 DEF Inv
  <2>7. OriginInv'
    BY <1>3, <1>6, <2>1, <2>2 DEF Inv, OriginInv
  <2>8. SendsTheSame'
    BY <1>5, <2>1 DEF Inv, SendsTheSame
  <2>9. QED  BY <2>3, <2>4, <2>5, <2>6, <2>7, <2>8 DEF Inv
<1>8. CASE /\ s = "own" /\ Tells(request[s])
           /\ origin' = request[s]
           /\ \E clone \in {makeClone(request[s]), makeDeadClone(request[s])} :
                 request' = [request EXCEPT !["own"] = Gone(@), !["clone"] = clone]
  <2>1. PICK clone \in {makeClone(r), makeDeadClone(r)} :
            request' = [request EXCEPT !["own"] = Gone(@), !["clone"] = clone]
    BY <1>1, <1>8
  <2>2. /\ clone \in Object /\ Consistent(clone) /\ ~clone.addedToClient /\ ~clone.generated
        /\ r.bodyEncodeMode = "URL" => SameForms(clone, r)
    BY <1>1, ApplicationCloneType
  <2>3. /\ request' \in [Slots -> Object \cup Remains]
        /\ request'["own"] = gone /\ request'["clone"] = clone
    <3>1. request' = [request EXCEPT !["own"] = gone, !["clone"] = clone]
      BY <1>1, <1>2, <1>8, <2>1
    <3>2. request \in [Slots -> Object \cup Remains]
      BY DEF Inv, TypeInv
    <3>3. QED  BY <1>3, <1>6, <2>2, <3>1, <3>2
  <2>4. clone.exists /\ origin' = r /\ s = "own" /\ owned
    BY <1>1, <1>8, <2>2 DEF Object, Tells
  <2>5. ~origin.exists /\ told["clone"] = 0 /\ sent["clone"] = <<>>
    BY <1>1, <1>8 DEF Inv, CloneInv
  <2>6. TypeInv'
    <3>1. \A t \in Slots : request'[t].exists => Consistent(request'[t])
      BY <1>3, <1>6, <2>2, <2>3
    <3>2. QED  BY <1>1, <1>4, <1>5, <2>3, <2>4, <3>1 DEF Inv, TypeInv
  <2>7. CloneInv'
    BY <1>1, <1>3, <2>3, <2>4 DEF CloneInv
  <2>8. ToldOnce'
    BY <1>3, <1>4, <1>5, <1>6, <2>3, <2>4, <2>5 DEF ToldOnce
  <2>9. \A t \in Slots : request'[t].exists => SentInv(request'[t], sent'[t])
    <3>1. SentInv(clone, <<>>)
      BY <2>2 DEF SentInv
    <3>2. QED  BY <1>3, <1>5, <1>6, <2>3, <2>5, <3>1
  <2>10. OriginInv'
    BY <2>2, <2>3, <2>4 DEF OriginInv
  <2>11. SendsTheSame'
    BY <1>5, <2>5 DEF Inv, SendsTheSame
  <2>12. QED  BY <2>6, <2>7, <2>8, <2>9, <2>10, <2>11 DEF Inv
<1>9. QED  BY <1>7, <1>8 DEF Delete

LEMMA UnchangedStep ==
    ASSUME Inv, UNCHANGED <<request, sent, told, origin>>, owned' \in BOOLEAN, owned' => owned
    PROVE  Inv'
<1>1. TypeInv' /\ CloneInv' /\ OriginInv'
  BY DEF Inv, TypeInv, CloneInv, OriginInv
<1>2. ToldOnce'
  BY DEF Inv, ToldOnce
<1>3. SendsTheSame' /\ \A s \in Slots : request'[s].exists => SentInv(request'[s], sent'[s])
  BY DEF Inv, SendsTheSame
<1>4. QED  BY <1>1, <1>2, <1>3 DEF Inv

LEMMA NextInv == Inv /\ [Next]_vars => Inv'
<1> SUFFICES ASSUME Inv, [Next]_vars PROVE Inv'
  OBVIOUS
<1>1. ASSUME NEW pair \in PostPairs, addFormPostData(pair) PROVE Inv'
  BY <1>1, addFormPostDataStep
<1>2. ASSUME NEW pair \in GetPairs, addFormGetData(pair) PROVE Inv'
  BY <1>2, addFormGetDataStep
<1>3. ASSUME NEW raw \in RawBodies, setRawBodyData(raw) PROVE Inv'
  BY <1>3, setRawBodyDataStep
<1>4. ASSUME NEW mode \in Modes, setBodyEncodeMode(mode) PROVE Inv'
  BY <1>4, setBodyEncodeModeStep
<1>5. ASSUME NEW s \in Slots, setAddedToClient(s) PROVE Inv'
  BY <1>5, setAddedToClientStep
<1>6. ASSUME NEW s \in Slots, generateRequest(s) PROVE Inv'
  BY <1>6, generateRequestStep
<1>7. ASSUME NEW s \in Slots, Retry(s) PROVE Inv'
  BY <1>7, RetryStep
<1>8. ASSUME NEW s \in Slots, Delete(s) PROVE Inv'
  BY <1>8, DeleteStep
<1>9. CASE OwnerGoes
  BY <1>9, UnchangedStep DEF OwnerGoes
<1>10. CASE Finished \/ UNCHANGED vars
  <2>1. owned \in BOOLEAN
    BY DEF Inv, TypeInv
  <2>2. QED  BY <1>10, <2>1, UnchangedStep DEF Finished, vars
<1>11. QED
  BY <1>1, <1>2, <1>3, <1>4, <1>5, <1>6, <1>7, <1>8, <1>9, <1>10 DEF Next

LEMMA Invariant == Spec => []Inv
<1>1. Init => Inv
  BY InitInv
<1>2. Inv /\ [Next]_vars => Inv'
  BY NextInv
<1>3. QED  BY <1>1, <1>2, PTL DEF Spec

-----------------------------------------------------------------------------
(* What a server reads of them.                                            *)

\* A form in any order of its pairs, as a server finds it.
LEMMA OrdersReadable ==
    ASSUME NEW form \in Seq(GetPairs), NEW pairs \in Orders(form)
    PROVE  UrlDecodedForm(urlEncodedForm(pairs)) = pairs
<1>1. PICK n \in Nat : n = Len(form)
  BY LenProperties
<1>2. PICK order \in [1..n -> 1..n] : pairs = [k \in 1..n |-> form[order[k]]]
  BY <1>1 DEF Orders
<1>3. \A k \in 1..n : form[order[k]] \in GetPairs
  BY <1>1, <1>2
<1>4. pairs \in Seq(GetPairs) /\ Len(pairs) = n
  BY <1>2, <1>3
<1>5. \A pair \in GetPairs : pair \in [key : Text, data : Text]
  BY RequestAssumption
<1>6. \A pair \in GetPairs : pair.key \in Text /\ pair.data \in Text /\ Plain(pair) = pair
  BY <1>5 DEF Plain
<1>7. UrlDecodedForm(urlEncodedForm(pairs)) = PlainPairs(pairs)
  BY <1>4, <1>6, UrlFormReadable
<1>8. PlainPairs(pairs) = pairs
  <2>1. \A k \in 1..n : pairs[k] \in GetPairs
    BY <1>4
  <2>2. PlainPairs(pairs) = [k \in 1..n |-> pairs[k]]
    BY <1>4, <1>6, <2>1 DEF PlainPairs
  <2>3. QED  BY <1>4, <2>2
<1>9. QED  BY <1>7, <1>8

\* What a server finds in a message that an object may send is what the object
\* holds.
Readable(r, message) ==
    /\ UrlDecodedForm(message.query) \in Orders(r.formGetData)
    /\ r.bodyEncodeMode = "URL" =>
          UrlDecodedForm(message.body.text) = PlainPairs(r.formPostData)
    /\ r.bodyEncodeMode = "MultiPart" /\ PlainForm(r.formPostData, Boundary) =>
          MultipartDecodedForm(message.body.text, Boundary) = r.formPostData

LEMMA MessagesReadable ==
    ASSUME NEW r \in Object, NEW message \in Messages(r)
    PROVE  Readable(r, message)
<1>1. PICK get, post : get = r.formGetData /\ post = r.formPostData
  OBVIOUS
<1>2. get \in Seq(GetPairs) /\ post \in Seq(PostPairs)
  BY <1>1 DEF Object
<1>3. PICK pairs \in Orders(get) : message.query = urlEncodedForm(pairs) /\ message.body = Body(r)
  <2>1. PICK pairs \in Orders(get) :
            message = [destination |-> r.destination, query |-> urlEncodedForm(pairs),
                       contentType |-> ContentType(r),
                       contentLength |-> r.bodyEncodeMode # "Empty", body |-> Body(r)]
    BY <1>1 DEF Messages
  <2>2. QED  BY <2>1
<1>4. UrlDecodedForm(message.query) \in Orders(get)
  BY <1>2, <1>3, OrdersReadable
<1>5. \A pair \in PostPairs : pair \in [key : Text, data : Text, filename : Text]
  BY RequestAssumption
<1>6. ASSUME r.bodyEncodeMode = "URL" PROVE UrlDecodedForm(message.body.text) = PlainPairs(post)
  <2>1. "URL" # "JSON"
    OBVIOUS
  <2>2. Body(r) = [text |-> urlEncodedForm(post)]
    BY <1>1, <1>6, <2>1, Zenon DEF Body
  <2>3. message.body.text = urlEncodedForm(post)
    BY <1>3, <2>2
  <2>4. \A pair \in PostPairs : pair.key \in Text /\ pair.data \in Text
    BY <1>5
  <2>5. UrlDecodedForm(urlEncodedForm(post)) = PlainPairs(post)
    BY <1>2, <2>4, UrlFormReadable
  <2>6. QED  BY <2>3, <2>5
<1>7. ASSUME r.bodyEncodeMode = "MultiPart", PlainForm(post, Boundary)
      PROVE  MultipartDecodedForm(message.body.text, Boundary) = post
  <2>1. "MultiPart" # "JSON" /\ "MultiPart" # "URL"
    OBVIOUS
  <2>2. Body(r) = [text |-> multipartEncodedForm(post, Boundary)]
    BY <1>1, <1>7, <2>1, Zenon DEF Body
  <2>3. message.body.text = multipartEncodedForm(post, Boundary)
    BY <1>3, <2>2
  <2>4. PostPairs \in SUBSET [key : Text, data : Text, filename : Text]
    BY RequestAssumption
  <2>5. Boundary \in Seq(Byte \ ToSet(LineEnd))
    BY RequestAssumption
  <2>6. MultipartDecodedForm(multipartEncodedForm(post, Boundary), Boundary) = post
    BY <1>2, <1>7, <2>4, <2>5, MultipartFormReadable
  <2>7. QED  BY <2>3, <2>6
<1>8. QED  BY <1>1, <1>4, <1>6, <1>7 DEF Readable

-----------------------------------------------------------------------------
(* The theorems.                                                           *)

\* The type invariant of requests and their clones.
THEOREM TypeCorrect == Spec => []TypeOK
<1>1. ASSUME Inv PROVE TypeOK
  <2>1. ASSUME NEW r \in Object \cup Remains, r.exists => Consistent(r) PROVE ObjectOK(r)
    <3>1. CASE r \in Object
      <4>1. r.formPostData \in Seq(PostPairs) /\ r.formGetData \in Seq(GetPairs)
        BY <3>1 DEF Object
      <4>2. ToSet(r.formPostData) \subseteq PostPairs /\ ToSet(r.formGetData) \subseteq GetPairs
        BY <4>1 DEF ToSet
      <4>3. QED  BY <2>1, <3>1, <4>2 DEF Object, Consistent, ObjectOK
    <3>2. CASE r \in Remains
      BY <3>2 DEF Remains, ObjectOK
    <3>3. QED  BY <3>1, <3>2
  <2>2. QED  BY <1>1, <2>1 DEF Inv, TypeInv, TypeOK
<1>2. QED  BY <1>1, Invariant, PTL

\* The application hears of every request it makes, and of the clone it makes of
\* it, once and when the last object that stands for it goes, and never of a
\* dead clone (makeRetryClone, ~Request).
THEOREM HeardOnce == Spec => []ToldOnce
<1>1. Inv => ToldOnce
  BY DEF Inv
<1>2. QED  BY <1>1, Invariant, PTL

\* Every try of a request asks for the same, whatever objects were copied from
\* one another in between, and so does the application's clone of a request in
\* URL mode (makeClone, makeRetryClone, generateRequest).
THEOREM TriesAskForTheSame == Spec => []SendsTheSame
<1>1. Inv => SendsTheSame
  BY DEF Inv
<1>2. QED  BY <1>1, Invariant, PTL

\* What has been generated is on the wire, and a server that decodes it finds the
\* pairs the object holds: in the query in some order, in the body in their own
\* (generateRequest, urlEncodedForm, multipartEncodedForm).
THEOREM FormsReadable == Spec => []FormReadable
<1>1. ASSUME Inv PROVE FormReadable
  <2>1. SUFFICES ASSUME NEW s \in Slots, request[s].exists, request[s].generated
                 PROVE  Readable(request[s], Last(sent[s]))
    BY Zenon DEF FormReadable, Readable
  <2>2. PICK r \in Object : r = request[s]
    BY <1>1, <2>1, ExistingType
  <2>3. sent[s] \in Seq(UNION {Messages(q) : q \in Object})
    BY <1>1 DEF Inv, TypeInv
  <2>4. /\ \A k \in 1..Len(sent[s]) : sent[s][k] \in Messages(r)
        /\ sent[s] # <<>>
    BY <1>1, <2>1, <2>2 DEF Inv, SentInv
  <2>5. Len(sent[s]) \in 1..Len(sent[s])
    BY <2>3, <2>4
  <2>6. Last(sent[s]) \in Messages(r)
    BY <2>4, <2>5 DEF Last
  <2>7. QED  BY <2>2, <2>6, MessagesReadable
<1>2. QED  BY <1>1, Invariant, PTL
==============================================================================
