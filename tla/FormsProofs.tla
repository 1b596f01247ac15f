------------------------------ MODULE FormsProofs ------------------------------
(***************************************************************************)
(* Proofs about the form encodings: what a server decodes of an encoded    *)
(* form is the form, for every sequence of pairs of any texts.             *)
(*                                                                         *)
(* The decoders and FlattenSeq are recursive functions, and the facts are  *)
(* about all texts and all forms, so the proofs go by induction. Each one  *)
(* is over the set of texts or forms for which its fact holds:             *)
(* SequenceInduction says that the set has them all. The modules of the    *)
(* library say the same of an operator, which no prover here instantiates. *)
(***************************************************************************)
EXTENDS Forms, SequenceTheorems, WellFoundedInduction, TLAPS

-----------------------------------------------------------------------------
(* Induction.                                                              *)

\* Every set of numbers that is not empty has a least element.
LEMMA LeastNumber ==
    ASSUME NEW T \in SUBSET Nat, T # {}
    PROVE  \E n \in T : \A m \in T : n <= m
<1>1. PICK n \in T : \A m \in T : <<m, n>> \notin OpToRel(<, Nat)
  BY NatLessThanWellFounded, WFMin
<1>2. ASSUME NEW m \in T PROVE n <= m
  <2>1. m \in Nat /\ n \in Nat
    OBVIOUS
  <2>2. <<m, n>> \in OpToRel(<, Nat) <=> m < n
    BY <2>1 DEF OpToRel
  <2>3. <<m, n>> \notin OpToRel(<, Nat)
    BY <1>1, Zenon
  <2>4. ~(m < n)
    BY <2>2, <2>3, Zenon
  <2>5. QED  BY <2>1, <2>4
<1>3. QED  BY <1>2

\* Induction for a set of numbers.
LEMMA NumberInduction ==
    ASSUME NEW S, 0 \in S, \A n \in Nat : n \in S => n + 1 \in S
    PROVE  Nat \subseteq S
<1>1. SUFFICES ASSUME Nat \ S # {} PROVE FALSE
  OBVIOUS
<1>2. PICK n \in Nat \ S : \A m \in Nat \ S : n <= m
  BY <1>1, LeastNumber
<1>3. n # 0 /\ n - 1 \in Nat
  BY <1>2
<1>4. n - 1 \in S
  BY <1>2, <1>3
<1>5. QED  BY <1>2, <1>3, <1>4

\* Induction for a set of sequences.
LEMMA SequenceInduction ==
    ASSUME NEW A, NEW S, <<>> \in S,
           \A s \in Seq(A) : \A x \in A : s \in S => Append(s, x) \in S
    PROVE  Seq(A) \subseteq S
<1> DEFINE N == {n \in Nat : \A s \in Seq(A) : Len(s) = n => s \in S}
<1>1. 0 \in N
  <2>1. \A s \in Seq(A) : Len(s) = 0 => s = <<>>
    OBVIOUS
  <2>2. QED  BY <2>1
<1>2. ASSUME NEW n \in Nat, n \in N PROVE n + 1 \in N
  <2>1. ASSUME NEW s \in Seq(A), Len(s) = n + 1 PROVE s \in S
    <3>1. s # <<>>
      BY <2>1
    <3>2. PICK front \in Seq(A), x \in A : s = Append(front, x)
      BY <3>1, SequenceEmptyOrAppend
    <3>3. Len(front) = n
      BY <2>1, <3>2, AppendProperties, LenProperties
    <3>4. front \in S
      BY <1>2, <3>3
    <3>5. QED  BY <3>2, <3>4
  <2>2. QED  BY <2>1
<1> HIDE DEF N
<1>3. Nat \subseteq N
  BY <1>1, <1>2, NumberInduction
<1>4. ASSUME NEW s \in Seq(A) PROVE s \in S
  <2>1. Len(s) \in N
    BY <1>3, LenProperties
  <2>2. QED  BY <2>1 DEF N
<1>5. QED  BY <1>4

-----------------------------------------------------------------------------
(* FlattenSeq.                                                             *)

Flattening(f, s) == f = [i \in 1..Len(s) |-> IF i = 1 THEN s[i] ELSE f[i - 1] \o s[i]]

LEMMA FlattenDef ==
    ASSUME NEW s, Len(s) # 0
    PROVE  FlattenSeq(s) = (CHOOSE f : Flattening(f, s))[Len(s)]
BY DEF FlattenSeq, Flattening

LEMMA FlatteningExists ==
    ASSUME NEW A
    PROVE  \A s \in Seq(Seq(A)) : \E f \in [1..Len(s) -> Seq(A)] : Flattening(f, s)
<1> DEFINE S == {s \in Seq(Seq(A)) : \E f \in [1..Len(s) -> Seq(A)] : Flattening(f, s)}
<1>1. <<>> \in S
  <2> DEFINE f == [i \in 1..0 |-> <<>>]
  <2>1. Len(<<>>) = 0 /\ <<>> \in Seq(Seq(A))
    OBVIOUS
  <2>2. f \in [1..Len(<<>>) -> Seq(A)]
    BY <2>1
  <2>3. Flattening(f, <<>>)
    BY <2>1 DEF Flattening
  <2> HIDE DEF f
  <2>4. QED  BY <2>1, <2>2, <2>3
<1>2. ASSUME NEW s \in Seq(Seq(A)), NEW x \in Seq(A), s \in S PROVE Append(s, x) \in S
  <2>1. PICK f \in [1..Len(s) -> Seq(A)] : Flattening(f, s)
    BY <1>2
  <2> DEFINE t == Append(s, x)
             n == Len(s)
             g == [i \in 1..n + 1 |-> IF i <= n THEN f[i] ELSE IF i = 1 THEN x ELSE f[i - 1] \o x]
  <2>2. t \in Seq(Seq(A)) /\ Len(t) = n + 1 /\ n \in Nat
        /\ t[n + 1] = x /\ \A i \in 1..n : t[i] = s[i]
    BY AppendProperties, LenProperties
  <2>3. \A i \in 1..n : f[i] \in Seq(A) /\ f[i] = IF i = 1 THEN s[i] ELSE f[i - 1] \o s[i]
    BY <2>1 DEF Flattening
  <2> HIDE DEF t, n
  <2>4. g \in [1..n + 1 -> Seq(A)]
    <3>1. ASSUME NEW i \in 1..n + 1 PROVE g[i] \in Seq(A)
      BY <2>2, <2>3
    <3>2. QED  BY <3>1
  <2>5. ASSUME NEW i \in 1..n + 1
        PROVE  g[i] = IF i = 1 THEN t[i] ELSE g[i - 1] \o t[i]
    BY <2>2, <2>3
  <2> HIDE DEF g
  <2>6. g = [i \in 1..n + 1 |-> IF i = 1 THEN t[i] ELSE g[i - 1] \o t[i]]
    BY <2>4, <2>5
  <2>8. Flattening(g, t)
    BY <2>2, <2>6 DEF Flattening
  <2>7. QED  BY <2>2, <2>4, <2>8 DEF t
<1> HIDE DEF S
<1>3. Seq(Seq(A)) \subseteq S
  BY <1>1, <1>2, SequenceInduction
<1>4. QED  BY <1>3 DEF S

Joined(a, b) == a \o b

Adds(f, s, n) == \A i \in 1..n : f[i] = IF i = 1 THEN s[i] ELSE Joined(f[i - 1], s[i])

LEMMA FlatteningAdds ==
    ASSUME NEW s, NEW f, Flattening(f, s)
    PROVE  Adds(f, s, Len(s))
BY DEF Flattening, Adds, Joined

LEMMA AddsUnique ==
    ASSUME NEW n \in Nat, NEW s, NEW f, NEW g, Adds(f, s, n), Adds(g, s, n)
    PROVE  \A i \in 1..n : f[i] = g[i]
<1> DEFINE N == {m \in Nat : m + 1 \in 1..n => g[m + 1] = f[m + 1]}
<1>1. 0 \in N
  BY DEF Adds
<1>2. ASSUME NEW m \in Nat, m \in N PROVE m + 1 \in N
  BY <1>2 DEF Adds
<1> HIDE DEF N
<1>3. Nat \subseteq N
  BY <1>1, <1>2, NumberInduction
<1>4. ASSUME NEW i \in 1..n PROVE g[i] = f[i]
  <2>1. i - 1 \in Nat /\ i - 1 + 1 = i
    OBVIOUS
  <2>2. i - 1 \in N
    BY <2>1, <1>3
  <2>3. QED  BY <2>1, <2>2 DEF N
<1>5. QED  BY <1>4

OneMore(f, g, t, n, m) == g[m] = Joined(f[n], t[m])

Agree(s, t, n) == \A i \in 1..n : t[i] = s[i]

\* One more member is added at the end.
LEMMA AddsStep ==
    ASSUME NEW n, NEW m, NEW s, NEW t, NEW f, NEW g, n \in Nat /\ n # 0 /\ m = n + 1,
           Adds(f, s, n), Adds(g, t, m), Agree(s, t, n)
    PROVE  OneMore(f, g, t, n, m)
<1>1. ASSUME NEW i \in 1..n
      PROVE  g[i] = IF i = 1 THEN s[i] ELSE Joined(g[i - 1], s[i])
  <2>1. i \in 1..m /\ t[i] = s[i]
    BY DEF Agree
  <2>2. QED  BY <2>1 DEF Adds
<1>2. Adds(g, s, n)
  BY <1>1 DEF Adds
<1>3. \A i \in 1..n : f[i] = g[i]
  BY <1>2, AddsUnique
<1>4. f[n] = g[n]
  BY <1>3
<1>5. m \in 1..m /\ m # 1 /\ m - 1 = n
  OBVIOUS
<1>6. g[m] = Joined(g[m - 1], t[m])
  BY <1>5 DEF Adds
<1>7. QED  BY <1>4, <1>5, <1>6 DEF OneMore

\* What FlattenSeq adds up is a sequence of its own.
LEMMA FlattenSteps ==
    ASSUME NEW A, NEW s \in Seq(Seq(A)), NEW n \in Nat, n = Len(s), n # 0
    PROVE  \E f : Adds(f, s, n) /\ FlattenSeq(s) = f[n] /\ f[n] \in Seq(A)
<1>1. PICK f \in [1..n -> Seq(A)] : Flattening(f, s)
  BY FlatteningExists
<1>2. PICK g : Flattening(g, s) /\ FlattenSeq(s) = g[n]
  BY <1>1, FlattenDef
<1>3. Adds(f, s, n) /\ Adds(g, s, n)
  BY <1>1, <1>2, FlatteningAdds
<1>4. \A i \in 1..n : f[i] = g[i]
  BY <1>3, AddsUnique
<1>5. n \in 1..n
  OBVIOUS
<1>6. f[n] = g[n] /\ f[n] \in Seq(A)
  BY <1>4, <1>5
<1>7. QED  BY <1>2, <1>3, <1>6

LEMMA FlattenProperties ==
    ASSUME NEW A, NEW s \in Seq(Seq(A)), NEW x \in Seq(A)
    PROVE  /\ FlattenSeq(<<>>) = <<>>
           /\ FlattenSeq(s) \in Seq(A)
           /\ FlattenSeq(Append(s, x)) = FlattenSeq(s) \o x
<1>1. FlattenSeq(<<>>) = <<>>
  BY DEF FlattenSeq
<1>2. PICK t : t = Append(s, x)
  OBVIOUS
<1>3. PICK n \in Nat : n = Len(s)
  BY LenProperties
<1>4. PICK m \in Nat : m = n + 1
  OBVIOUS
<1>5. t \in Seq(Seq(A)) /\ m = Len(t) /\ t[m] = x /\ Agree(s, t, n)
  BY <1>2, <1>3, <1>4, AppendProperties DEF Agree
<1>6. PICK g : Adds(g, t, m) /\ FlattenSeq(t) = g[m] /\ g[m] \in Seq(A)
  BY <1>4, <1>5, FlattenSteps
<1>7. CASE n = 0
  <2>1. s = <<>>
    BY <1>3, <1>7, EmptySeq
  <2>2. g[1] = x
    BY <1>4, <1>5, <1>6, <1>7 DEF Adds
  <2>3. <<>> \o x = x /\ <<>> \in Seq(A)
    BY ConcatEmptySeq
  <2>4. FlattenSeq(t) = x
    BY <1>4, <1>6, <1>7, <2>2
  <2>5. QED  BY <1>1, <1>2, <2>1, <2>3, <2>4
<1>8. CASE n # 0
  <2>1. PICK f : Adds(f, s, n) /\ FlattenSeq(s) = f[n] /\ f[n] \in Seq(A)
    BY <1>3, <1>8, FlattenSteps
  <2>4. n \in Nat /\ n # 0 /\ m = n + 1
    BY <1>3, <1>4, <1>8
  <2>5. Adds(f, s, n)
    BY <2>1
  <2>6. Adds(g, t, m)
    BY <1>6
  <2>7. Agree(s, t, n)
    BY <1>5
  <2>2. OneMore(f, g, t, n, m)
    BY <2>4, <2>5, <2>6, <2>7, AddsStep
  <2>3. QED  BY <1>1, <1>2, <1>5, <1>6, <2>1, <2>2 DEF OneMore, Joined
<1>9. QED  BY <1>7, <1>8

-----------------------------------------------------------------------------
(* AfterReading.                                                           *)

Reading(f, text) ==
    f = [n \in 0..Len(text) |-> IF n = 0 THEN Unread ELSE Read(f[n - 1], text[n])]

LEMMA AfterReadingDef ==
    ASSUME NEW text
    PROVE  AfterReading(text) = (CHOOSE f : Reading(f, text))[Len(text)]
BY DEF AfterReading, Reading

\* The parsers after the first n bytes of a text.
Reads(f, text, n) ==
    /\ f[0] = Unread
    /\ \A i \in 1..n : f[i] = Read(f[i - 1], text[i])

LEMMA ReadingReads ==
    ASSUME NEW text, NEW f, NEW n \in Nat, n = Len(text)
    PROVE  /\ Reading(f, text) => Reads(f, text, n)
           /\ Reads(f, text, n) /\ f = [i \in 0..n |-> f[i]] => Reading(f, text)
<1>1. ASSUME Reading(f, text) PROVE Reads(f, text, n)
  <2>1. 0 \in 0..n /\ \A i \in 1..n : i \in 0..n /\ i # 0
    OBVIOUS
  <2>2. QED  BY <1>1, <2>1 DEF Reading, Reads
<1>2. ASSUME Reads(f, text, n), f = [i \in 0..n |-> f[i]] PROVE Reading(f, text)
  <2>1. ASSUME NEW i \in 0..n
        PROVE  f[i] = IF i = 0 THEN Unread ELSE Read(f[i - 1], text[i])
    <3>1. i = 0 \/ i \in 1..n
      OBVIOUS
    <3>2. QED  BY <1>2, <3>1 DEF Reads
  <2>2. QED  BY <1>2, <2>1 DEF Reading
<1>3. QED  BY <1>1, <1>2

LEMMA ReadsUnique ==
    ASSUME NEW n \in Nat, NEW text, NEW f, NEW g, Reads(f, text, n), Reads(g, text, n)
    PROVE  f[n] = g[n]
<1> DEFINE N == {m \in Nat : m <= n => g[m] = f[m]}
<1>1. 0 \in N
  BY DEF Reads
<1>2. ASSUME NEW m \in Nat, m \in N PROVE m + 1 \in N
  BY <1>2 DEF Reads
<1> HIDE DEF N
<1>3. Nat \subseteq N
  BY <1>1, <1>2, NumberInduction
<1>4. QED  BY <1>3 DEF N

\* A text that is read has parsers: one more byte makes one more parser.
LEMMA ReadingExists ==
    ASSUME NEW A
    PROVE  \A text \in Seq(A) : \E f : Reading(f, text)
<1> DEFINE S == {text \in Seq(A) : \E f : Reading(f, text)}
<1>1. <<>> \in S
  <2> DEFINE f == [i \in 0..0 |-> Unread]
  <2>1. Reads(f, <<>>, 0) /\ f = [i \in 0..0 |-> f[i]]
    BY DEF Reads
  <2>2. Reading(f, <<>>)
    BY <2>1, ReadingReads
  <2>3. QED  BY <2>2
<1>2. ASSUME NEW text \in Seq(A), NEW c \in A, text \in S PROVE Append(text, c) \in S
  <2>1. PICK n \in Nat : n = Len(text)
    BY LenProperties
  <2>2. PICK f : Reads(f, text, n)
    BY <1>2, <2>1, ReadingReads
  <2>3. PICK t : t = Append(text, c)
    OBVIOUS
  <2>4. t \in Seq(A) /\ Len(t) = n + 1 /\ t[n + 1] = c /\ \A i \in 1..n : t[i] = text[i]
    BY <2>1, <2>3, AppendProperties
  <2> DEFINE g == [i \in 0..n + 1 |-> IF i <= n THEN f[i] ELSE Read(f[n], c)]
  <2>5. g = [i \in 0..n + 1 |-> g[i]]
    OBVIOUS
  <2>6. Reads(g, t, n + 1)
    BY <2>2, <2>4 DEF Reads
  <2> HIDE DEF g
  <2>7. Reading(g, t)
    BY <2>4, <2>5, <2>6, ReadingReads
  <2>8. QED  BY <2>3, <2>4, <2>7
<1> HIDE DEF S
<1>3. Seq(A) \subseteq S
  BY <1>1, <1>2, SequenceInduction
<1>4. QED  BY <1>3 DEF S

LEMMA AfterReadingSteps ==
    ASSUME NEW A, NEW text \in Seq(A), NEW n \in Nat, n = Len(text)
    PROVE  \E f : Reads(f, text, n) /\ AfterReading(text) = f[n]
BY ReadingExists, ReadingReads, AfterReadingDef

\* Nothing has been read of the empty text, and of a text what is read of the
\* text before its last byte, and that byte.
LEMMA AfterReadingProperties ==
    ASSUME NEW A, NEW text \in Seq(A), NEW c \in A
    PROVE  /\ AfterReading(<<>>) = Unread
           /\ AfterReading(Append(text, c)) = Read(AfterReading(text), c)
<1>1. AfterReading(<<>>) = Unread
  <2>1. <<>> \in Seq({}) /\ 0 = Len(<<>>)
    OBVIOUS
  <2>2. PICK f : Reads(f, <<>>, 0) /\ AfterReading(<<>>) = f[0]
    BY <2>1, AfterReadingSteps
  <2>3. QED  BY <2>2 DEF Reads
<1>2. PICK t : t = Append(text, c)
  OBVIOUS
<1>3. PICK n \in Nat : n = Len(text)
  BY LenProperties
<1>4. PICK m \in Nat : m = n + 1
  OBVIOUS
<1>5. t \in Seq(A) /\ m = Len(t) /\ t[m] = c /\ \A i \in 1..n : t[i] = text[i]
  BY <1>2, <1>3, <1>4, AppendProperties
<1>6. PICK f : Reads(f, text, n) /\ AfterReading(text) = f[n]
  BY <1>3, AfterReadingSteps
<1>7. PICK g : Reads(g, t, m) /\ AfterReading(t) = g[m]
  BY <1>5, AfterReadingSteps
<1>8. Reads(g, text, n)
  BY <1>4, <1>5, <1>7 DEF Reads
<1>9. f[n] = g[n]
  BY <1>6, <1>8, ReadsUnique
<1>10. m \in 1..m /\ m - 1 = n
  BY <1>4
<1>11. g[m] = Read(g[m - 1], t[m])
  BY <1>7, <1>10 DEF Reads
<1>12. QED  BY <1>1, <1>2, <1>5, <1>6, <1>7, <1>9, <1>10, <1>11

-----------------------------------------------------------------------------
(* What urlEncode makes of a text.                                         *)

LEMMA JoinTexts ==
    ASSUME NEW a \in Text, NEW b \in Text, NEW c \in Text
    PROVE  a \o b \in Text /\ a \o (b \o c) = (a \o b) \o c
BY ConcatAssociative DEF Text

Associates(a, b, c) == a \o (b \o c) = (a \o b) \o c

LEMMA TextsAssociate ==
    \A a \in Text, b \in Text, c \in Text : Associates(a, b, c)
BY JoinTexts DEF Associates

Encoded(c) == IF Unreserved(c) THEN <<c>> ELSE PercentEncode(c)

\* A byte's two digits are bytes, and their values make the byte.
LEMMA TwoDigits ==
    ASSUME NEW c \in Byte
    PROVE  /\ HexDigit(c \div 16) \in Byte /\ HexDigit(c % 16) \in Byte
           /\ 16 * HexValue(HexDigit(c \div 16)) + HexValue(HexDigit(c % 16)) = c
<1>1. PICK q, r : q = c \div 16 /\ r = c % 16
  OBVIOUS
<1>2. q \in 0..15 /\ r \in 0..15 /\ 16 * q + r = c
  BY <1>1 DEF Byte
<1>3. ASSUME NEW d \in 0..15 PROVE HexDigit(d) \in Byte /\ HexValue(HexDigit(d)) = d
  BY DEF HexDigit, HexValue, Byte
<1>4. QED  BY <1>1, <1>2, <1>3

LEMMA EncodedType ==
    ASSUME NEW c \in Byte
    PROVE  Encoded(c) \in Text /\ Encoded(c) # <<>>
<1>1. Percent \in Byte
  BY DEF Percent, Byte
<1>2. QED  BY <1>1, TwoDigits DEF Encoded, PercentEncode, Text

\* A text is encoded byte by byte.
LEMMA UrlEncodeProperties ==
    ASSUME NEW text \in Text, NEW c \in Byte
    PROVE  /\ urlEncode(<<>>) = <<>>
           /\ urlEncode(text) \in Text
           /\ urlEncode(Append(text, c)) = urlEncode(text) \o Encoded(c)
<1> DEFINE pieces(t) == [k \in 1..Len(t) |-> Encoded(t[k])]
<1>1. \A t : urlEncode(t) = FlattenSeq(pieces(t))
  BY DEF urlEncode, Encoded
<1>2. pieces(<<>>) = <<>>
  OBVIOUS
<1>3. ASSUME NEW t \in Text PROVE pieces(t) \in Seq(Text) /\ Len(pieces(t)) = Len(t)
  <2>1. PICK n \in Nat : n = Len(t)
    BY LenProperties DEF Text
  <2>2. \A k \in 1..n : t[k] \in Byte
    BY <2>1 DEF Text
  <2>3. \A k \in 1..n : Encoded(t[k]) \in Text
    BY <2>2, EncodedType
  <2>4. QED  BY <2>1, <2>3
<1>4. pieces(Append(text, c)) = Append(pieces(text), Encoded(c))
  <2>1. PICK n \in Nat : n = Len(text)
    BY LenProperties DEF Text
  <2>2. PICK t : t = Append(text, c)
    OBVIOUS
  <2>3. Len(t) = n + 1 /\ t[n + 1] = c /\ \A k \in 1..n : t[k] = text[k]
    BY <2>1, <2>2, AppendProperties DEF Text
  <2>4. PICK p : p = pieces(text)
    OBVIOUS
  <2>5. p \in Seq(Text) /\ Len(p) = n /\ \A k \in 1..n : p[k] = Encoded(text[k])
    BY <1>3, <2>1, <2>4
  <2>6. PICK q : q = Append(p, Encoded(c))
    OBVIOUS
  <2>7. q \in Seq(Text) /\ Len(q) = n + 1 /\ q[n + 1] = Encoded(c) /\ \A k \in 1..n : q[k] = p[k]
    BY <2>5, <2>6, EncodedType, AppendProperties
  <2>8. q = [k \in 1..n + 1 |-> Encoded(t[k])]
    BY <2>3, <2>5, <2>7
  <2>9. QED  BY <2>2, <2>3, <2>4, <2>6, <2>8
<1> HIDE DEF pieces
<1>5. QED  BY <1>1, <1>2, <1>3, <1>4, EncodedType, FlattenProperties DEF Text

-----------------------------------------------------------------------------
(* What a server reads of it.                                              *)

Parsing(pairs, key, data, inData, escape) ==
    [pairs |-> pairs, key |-> key, data |-> data, inData |-> inData, escape |-> escape]

\* Between two escapes.
AtRest(p) ==
    \E pairs : \E key \in Text, data \in Text, inData \in BOOLEAN :
        p = Parsing(pairs, key, data, inData, <<>>)

\* The half of the pair that is being read goes on with a text.
TakeAll(p, text) ==
    Parsing(p.pairs, IF p.inData THEN p.key ELSE p.key \o text,
            IF p.inData THEN p.data \o text ELSE p.data, p.inData, <<>>)

LEMMA TakeParsing ==
    ASSUME NEW pairs, NEW key \in Text, NEW data \in Text, NEW inData \in BOOLEAN, NEW escape,
           NEW c
    PROVE  Take(Parsing(pairs, key, data, inData, escape), c)
             = Parsing(pairs, IF inData THEN key ELSE Append(key, c),
                       IF inData THEN Append(data, c) ELSE data, inData, <<>>)
<1> DEFINE p == Parsing(pairs, key, data, inData, escape)
<1>1. p.inData = inData
  BY DEF Parsing
<1>2. CASE inData
  <2>1. [p EXCEPT !.data = Append(@, c)] = Parsing(pairs, key, Append(data, c), inData, escape)
    BY DEF Parsing
  <2>2. [Parsing(pairs, key, Append(data, c), inData, escape) EXCEPT !.escape = <<>>]
          = Parsing(pairs, key, Append(data, c), inData, <<>>)
    BY DEF Parsing
  <2>3. Take(p, c) = [p EXCEPT !.data = Append(@, c), !.escape = <<>>]
    BY <1>1, <1>2, Zenon DEF Take
  <2>4. QED  BY <1>2, <2>1, <2>2, <2>3, Zenon
<1>3. CASE ~inData
  <2>1. [p EXCEPT !.key = Append(@, c)] = Parsing(pairs, Append(key, c), data, inData, escape)
    BY DEF Parsing
  <2>2. [Parsing(pairs, Append(key, c), data, inData, escape) EXCEPT !.escape = <<>>]
          = Parsing(pairs, Append(key, c), data, inData, <<>>)
    BY DEF Parsing
  <2>3. Take(p, c) = [p EXCEPT !.key = Append(@, c), !.escape = <<>>]
    BY <1>1, <1>3, Zenon DEF Take
  <2>4. QED  BY <1>3, <2>1, <2>2, <2>3, Zenon
<1>4. QED  BY <1>2, <1>3

LEMMA ReadByte ==
    ASSUME NEW p, AtRest(p), NEW c \in Byte, c \notin {Percent, Equals, Ampersand, Plus}
    PROVE  Read(p, c) = Take(p, c)
<1>1. Len(p.escape) # 2 /\ Len(p.escape) # 1
  BY DEF AtRest, Parsing
<1>2. c # Percent /\ c # Equals /\ c # Ampersand /\ c # Plus
  OBVIOUS
<1>3. QED  BY <1>1, <1>2, Zenon DEF Read

LEMMA ReadEscape ==
    ASSUME NEW p, AtRest(p), NEW c \in Byte
    PROVE  Read(Read(Read(p, Percent), HexDigit(c \div 16)), HexDigit(c % 16)) = Take(p, c)
<1>1. PICK a, b : a = HexDigit(c \div 16) /\ b = HexDigit(c % 16)
  OBVIOUS
<1>2. 16 * HexValue(a) + HexValue(b) = c
  BY <1>1, TwoDigits
<1>3. PICK pairs : \E key \in Text, data \in Text, inData \in BOOLEAN :
          p = Parsing(pairs, key, data, inData, <<>>)
  BY DEF AtRest
<1>4. PICK key \in Text, data \in Text, inData \in BOOLEAN :
          p = Parsing(pairs, key, data, inData, <<>>)
  BY <1>3
<1>5. PICK p1, p2 : /\ p1 = Parsing(pairs, key, data, inData, <<Percent>>)
                    /\ p2 = Parsing(pairs, key, data, inData, <<Percent, a>>)
  OBVIOUS
<1>6. Read(p, Percent) = p1
  <2>1. p.escape = <<>> /\ Len(p.escape) # 2 /\ Len(p.escape) # 1
    BY <1>4 DEF Parsing
  <2>2. [p EXCEPT !.escape = <<Percent>>] = p1
    BY <1>4, <1>5 DEF Parsing
  <2>3. Percent # Equals /\ Percent # Ampersand /\ Percent # Plus
    BY DEF Percent, Equals, Ampersand, Plus
  <2>4. QED  BY <2>1, <2>2, <2>3, Zenon DEF Read
<1>7. Read(p1, a) = p2
  <2>1. Len(p1.escape) # 2 /\ Len(p1.escape) = 1 /\ p1.escape # <<>>
    BY <1>5 DEF Parsing
  <2>2. [p1 EXCEPT !.escape = <<Percent, a>>] = p2
    BY <1>5 DEF Parsing
  <2>3. QED  BY <2>1, <2>2, Zenon DEF Read
<1>8. Read(p2, b) = Take(p2, c)
  <2>1. Len(p2.escape) = 2 /\ Len(p2.escape) # 1 /\ p2.escape # <<>> /\ p2.escape[2] = a
    BY <1>5 DEF Parsing
  <2>2. QED  BY <1>2, <2>1, Zenon DEF Read
<1>9. Take(p2, c) = Take(p, c)
  BY <1>4, <1>5, TakeParsing
<1>10. QED  BY <1>1, <1>6, <1>7, <1>8, <1>9

\* A server reads the encoded byte as the byte.
LEMMA ReadEncoded ==
    ASSUME NEW text \in Text, NEW c \in Byte, AtRest(AfterReading(text))
    PROVE  AfterReading(text \o Encoded(c)) = Take(AfterReading(text), c)
<1>1. CASE Unreserved(c)
  <2>1. text \o Encoded(c) = Append(text, c)
    BY <1>1 DEF Encoded, Text
  <2>2. AfterReading(Append(text, c)) = Read(AfterReading(text), c)
    BY AfterReadingProperties DEF Text
  <2>3. c \notin {Percent, Equals, Ampersand, Plus}
    BY <1>1 DEF Unreserved, Percent, Equals, Ampersand, Plus
  <2>4. QED  BY <2>1, <2>2, <2>3, ReadByte
<1>2. CASE ~Unreserved(c)
  <2>1. PICK a, b : a = HexDigit(c \div 16) /\ b = HexDigit(c % 16)
    OBVIOUS
  <2>2. a \in Byte /\ b \in Byte
    BY <2>1, TwoDigits
  <2>11. Percent \in Byte
    BY DEF Percent, Byte
  <2>3. PICK t1, t2 : t1 = Append(text, Percent) /\ t2 = Append(t1, a)
    OBVIOUS
  <2>4. t1 \in Text /\ t2 \in Text
    BY <2>2, <2>3, <2>11 DEF Text
  <2>5. Encoded(c) = <<Percent, a, b>>
    BY <1>2, <2>1 DEF Encoded, PercentEncode
  <2>6. text \o <<Percent, a, b>> = Append(t2, b)
    BY <2>2, <2>3, <2>11 DEF Text
  <2>7. AfterReading(t1) = Read(AfterReading(text), Percent)
    BY <2>11, <2>3, AfterReadingProperties DEF Text
  <2>8. AfterReading(t2) = Read(AfterReading(t1), a)
    BY <2>2, <2>3, <2>4, AfterReadingProperties DEF Text
  <2>9. AfterReading(Append(t2, b)) = Read(AfterReading(t2), b)
    BY <2>2, <2>4, AfterReadingProperties DEF Text
  <2>10. QED  BY <2>1, <2>5, <2>6, <2>7, <2>8, <2>9, ReadEscape
<1>3. QED  BY <1>1, <1>2

LEMMA TakeAllProperties ==
    ASSUME NEW p, AtRest(p), NEW text \in Text, NEW c \in Byte
    PROVE  /\ TakeAll(p, <<>>) = p
           /\ AtRest(TakeAll(p, text))
           /\ Take(TakeAll(p, text), c) = TakeAll(p, Append(text, c))
<1>1. ASSUME NEW t \in Text
      PROVE  t \o <<>> = t /\ t \o text \in Text /\ Append(t \o text, c) = t \o Append(text, c)
  BY DEF Text
<1>2. PICK pairs : \E key \in Text, data \in Text, inData \in BOOLEAN :
          p = Parsing(pairs, key, data, inData, <<>>)
  BY DEF AtRest
<1>11. PICK key \in Text, data \in Text, inData \in BOOLEAN :
          p = Parsing(pairs, key, data, inData, <<>>)
  BY <1>2
<1>3. p.pairs = pairs /\ p.key = key /\ p.data = data /\ p.inData = inData
  BY <1>11 DEF Parsing
<1>4. TakeAll(p, <<>>) = p
  BY <1>1, <1>11, <1>3 DEF TakeAll
<1>5. PICK k, d : /\ k = IF inData THEN key ELSE key \o text
                  /\ d = IF inData THEN data \o text ELSE data
  OBVIOUS
<1>6. k \in Text /\ d \in Text
  BY <1>1, <1>5
<1>7. TakeAll(p, text) = Parsing(pairs, k, d, inData, <<>>)
  BY <1>3, <1>5 DEF TakeAll
<1>8. AtRest(TakeAll(p, text))
  BY <1>6, <1>7 DEF AtRest
<1>9. Take(TakeAll(p, text), c) = TakeAll(p, Append(text, c))
  <2>1. Take(Parsing(pairs, k, d, inData, <<>>), c)
          = Parsing(pairs, IF inData THEN k ELSE Append(k, c),
                    IF inData THEN Append(d, c) ELSE d, inData, <<>>)
    BY <1>6, TakeParsing
  <2>2. TakeAll(p, Append(text, c))
          = Parsing(pairs, IF inData THEN key ELSE key \o Append(text, c),
                    IF inData THEN data \o Append(text, c) ELSE data, inData, <<>>)
    BY <1>3 DEF TakeAll
  <2>3. /\ (IF inData THEN k ELSE Append(k, c)) = (IF inData THEN key ELSE key \o Append(text, c))
        /\ (IF inData THEN Append(d, c) ELSE d) = (IF inData THEN data \o Append(text, c) ELSE data)
    BY <1>1, <1>5
  <2>4. QED  BY <1>7, <2>1, <2>2, <2>3
<1>10. QED  BY <1>4, <1>8, <1>9

\* A server reads the encoded text as the text.
LEMMA ReadUrlEncode ==
    ASSUME NEW before \in Text, AtRest(AfterReading(before))
    PROVE  \A text \in Text :
               AfterReading(before \o urlEncode(text)) = TakeAll(AfterReading(before), text)
<1> DEFINE p == AfterReading(before)
           S == {text \in Text : AfterReading(before \o urlEncode(text)) = TakeAll(p, text)}
<1>1. <<>> \in S
  <2>1. <<>> \in Text /\ 0 \in Byte
    BY DEF Text, Byte
  <2>2. urlEncode(<<>>) = <<>>
    BY <2>1, UrlEncodeProperties
  <2>3. before \o <<>> = before
    BY DEF Text
  <2>4. TakeAll(p, <<>>) = p
    BY <2>1, TakeAllProperties
  <2>5. QED  BY <2>1, <2>2, <2>3, <2>4
<1>2. ASSUME NEW text \in Text, NEW c \in Byte, text \in S PROVE Append(text, c) \in S
  <2>1. PICK e : e = urlEncode(text)
    OBVIOUS
  <2>2. e \in Text /\ urlEncode(Append(text, c)) = e \o Encoded(c)
    BY <2>1, UrlEncodeProperties
  <2>3. before \o (e \o Encoded(c)) = (before \o e) \o Encoded(c) /\ before \o e \in Text
    <3>1. PICK d : d = Encoded(c)
      OBVIOUS
    <3>2. d \in Text
      BY <3>1, EncodedType
    <3>5. e \in Text
      BY <2>2
    <3>3. before \o (e \o d) = (before \o e) \o d /\ before \o e \in Text
      BY <3>2, <3>5 DEF Text
    <3>4. QED  BY <3>1, <3>3
  <2>4. AfterReading(before \o e) = TakeAll(p, text)
    BY <1>2, <2>1
  <2>5. AtRest(TakeAll(p, text)) /\ Take(TakeAll(p, text), c) = TakeAll(p, Append(text, c))
    BY TakeAllProperties
  <2>6. AfterReading((before \o e) \o Encoded(c)) = Take(TakeAll(p, text), c)
    BY <2>3, <2>4, <2>5, ReadEncoded
  <2>7. Append(text, c) \in Text
    BY DEF Text
  <2>8. QED  BY <2>2, <2>3, <2>5, <2>6, <2>7
<1> HIDE DEF S
<1>3. Text \subseteq S
  BY <1>1, <1>2, SequenceInduction DEF Text
<1>4. QED  BY <1>3 DEF S

-----------------------------------------------------------------------------
(* Forms.                                                                  *)

\* What a pair adds to the text of a form that has n pairs.
EncodedPair(n, pair) ==
    (IF n = 0 THEN <<>> ELSE <<Ampersand>>)
    \o urlEncode(pair.key) \o <<Equals>> \o urlEncode(pair.data)

LEMMA EncodedPairType ==
    ASSUME NEW n, NEW pair, pair.key \in Text, pair.data \in Text
    PROVE  EncodedPair(n, pair) \in Text
<1>1. 0 \in Byte /\ <<>> \in Text /\ <<Ampersand>> \in Text /\ <<Equals>> \in Text
  BY DEF Byte, Text, Ampersand, Equals
<1>2. urlEncode(pair.key) \in Text /\ urlEncode(pair.data) \in Text
  BY <1>1, UrlEncodeProperties
<1>3. QED  BY <1>1, <1>2, JoinTexts DEF EncodedPair

\* A form is encoded pair by pair.
LEMMA UrlEncodedFormProperties ==
    ASSUME NEW Pairs, \A pair \in Pairs : pair.key \in Text /\ pair.data \in Text,
           NEW form \in Seq(Pairs), NEW pair \in Pairs
    PROVE  /\ urlEncodedForm(<<>>) = <<>>
           /\ urlEncodedForm(form) \in Text
           /\ urlEncodedForm(Append(form, pair))
                = urlEncodedForm(form) \o EncodedPair(Len(form), pair)
<1> DEFINE pieces(f) == [k \in 1..Len(f) |-> EncodedPair(k - 1, f[k])]
<1>1. ASSUME NEW f, NEW n \in Nat, n = Len(f) PROVE urlEncodedForm(f) = FlattenSeq(pieces(f))
  <2>1. ASSUME NEW k \in 1..n
        PROVE  (IF k = 1 THEN <<>> ELSE <<Ampersand>>) = (IF k - 1 = 0 THEN <<>> ELSE <<Ampersand>>)
    OBVIOUS
  <2>2. QED  BY <1>1, <2>1 DEF urlEncodedForm, EncodedPair
<1>2. pieces(<<>>) = <<>>
  OBVIOUS
<1>3. ASSUME NEW f \in Seq(Pairs) PROVE pieces(f) \in Seq(Text) /\ Len(pieces(f)) = Len(f)
  <2>1. PICK n \in Nat : n = Len(f)
    BY LenProperties
  <2>2. \A k \in 1..n : f[k] \in Pairs
    BY <2>1
  <2>3. \A k \in 1..n : EncodedPair(k - 1, f[k]) \in Text
    BY <2>2, EncodedPairType
  <2>4. QED  BY <2>1, <2>3
<1>4. pieces(Append(form, pair)) = Append(pieces(form), EncodedPair(Len(form), pair))
  <2>1. PICK n \in Nat : n = Len(form)
    BY LenProperties
  <2>2. PICK f : f = Append(form, pair)
    OBVIOUS
  <2>3. Len(f) = n + 1 /\ f[n + 1] = pair /\ \A k \in 1..n : f[k] = form[k]
    BY <2>1, <2>2, AppendProperties
  <2>4. PICK p : p = pieces(form)
    OBVIOUS
  <2>5. p \in Seq(Text) /\ Len(p) = n /\ \A k \in 1..n : p[k] = EncodedPair(k - 1, form[k])
    BY <1>3, <2>1, <2>4
  <2>6. PICK e, q : e = EncodedPair(n, pair) /\ q = Append(p, e)
    OBVIOUS
  <2>7. q \in Seq(Text) /\ Len(q) = n + 1 /\ q[n + 1] = e /\ \A k \in 1..n : q[k] = p[k]
    BY <2>5, <2>6, EncodedPairType, AppendProperties
  <2>8. ASSUME NEW k \in 1..n + 1 PROVE q[k] = EncodedPair(k - 1, f[k])
    <3>1. CASE k = n + 1
      <4>1. k - 1 = n
        BY <3>1
      <4>2. QED  BY <2>3, <2>6, <2>7, <3>1, <4>1
    <3>2. CASE k \in 1..n
      BY <2>3, <2>5, <2>7, <3>2
    <3>3. QED  BY <3>1, <3>2
  <2>9. q = [k \in 1..n + 1 |-> EncodedPair(k - 1, f[k])]
    BY <2>7, <2>8
  <2>10. QED  BY <2>1, <2>2, <2>3, <2>4, <2>6, <2>9
<1> HIDE DEF pieces
<1>5. EncodedPair(Len(form), pair) \in Text
  BY EncodedPairType
<1>6. Append(form, pair) \in Seq(Pairs) /\ <<>> \in Seq(Pairs)
  OBVIOUS
<1>7. \A f \in Seq(Pairs) : urlEncodedForm(f) = FlattenSeq(pieces(f))
  BY <1>1, LenProperties
<1>8. QED  BY <1>2, <1>3, <1>4, <1>5, <1>6, <1>7, FlattenProperties DEF Text

\* The separators, read between two escapes.
LEMMA ReadEquals ==
    ASSUME NEW pairs, NEW key \in Text, NEW data \in Text, NEW inData \in BOOLEAN
    PROVE  Read(Parsing(pairs, key, data, inData, <<>>), Equals)
             = Parsing(pairs, key, data, TRUE, <<>>)
<1>1. PICK p, yes : p = Parsing(pairs, key, data, inData, <<>>) /\ yes = TRUE
  OBVIOUS
<1>2. p.escape = <<>> /\ Len(p.escape) # 2 /\ Len(p.escape) # 1
  BY <1>1 DEF Parsing
<1>3. Equals # Percent /\ Equals # Ampersand /\ Equals # Plus
  BY DEF Percent, Equals, Ampersand, Plus
<1>4. ASSUME NEW value
      PROVE  [Parsing(pairs, key, data, inData, <<>>) EXCEPT !.inData = value]
                = Parsing(pairs, key, data, value, <<>>)
  BY DEF Parsing
<1>5. [p EXCEPT !.inData = TRUE] = Parsing(pairs, key, data, TRUE, <<>>)
  BY <1>1, <1>4
<1>6. Read(p, Equals) = [p EXCEPT !.inData = TRUE]
  BY <1>2, <1>3, Zenon DEF Read
<1>7. QED  BY <1>1, <1>5, <1>6

LEMMA ReadAmpersand ==
    ASSUME NEW p, AtRest(p)
    PROVE  Read(p, Ampersand) = Parsing(PairsRead(p), <<>>, <<>>, FALSE, <<>>)
<1>1. p.escape = <<>> /\ Len(p.escape) # 2 /\ Len(p.escape) # 1
  BY DEF AtRest, Parsing
<1>2. Ampersand # Percent /\ Ampersand # Equals /\ Ampersand # Plus
  BY DEF Percent, Equals, Ampersand, Plus
<1>3. [Unread EXCEPT !.pairs = PairsRead(p)] = Parsing(PairsRead(p), <<>>, <<>>, FALSE, <<>>)
  <2>1. PICK no, read : no = FALSE /\ read = PairsRead(p)
    OBVIOUS
  <2>2. Unread = Parsing(<<>>, <<>>, <<>>, no, <<>>)
    BY <2>1 DEF Unread, Parsing
  <2>3. [Parsing(<<>>, <<>>, <<>>, no, <<>>) EXCEPT !.pairs = read]
           = Parsing(read, <<>>, <<>>, no, <<>>)
    BY DEF Parsing
  <2>4. QED  BY <2>1, <2>2, <2>3
<1>4. Read(p, Ampersand) = [Unread EXCEPT !.pairs = PairsRead(p)]
  BY <1>1, <1>2, Zenon DEF Read
<1>5. QED  BY <1>3, <1>4

\* Before a pair is read, and after.
Awaits(p, pairs) == p = Parsing(pairs, <<>>, <<>>, FALSE, <<>>)
Holds(p, pairs, pair) == p = Parsing(pairs, pair.key, pair.data, TRUE, <<>>)

\* What is left to read of the last pair of a form, and where.
PairText(pair) == urlEncode(pair.key) \o (<<Equals>> \o urlEncode(pair.data))

Follows(text, before, pair) == text = before \o PairText(pair)

Splits(before, k, d) ==
    before \o (k \o (<<Equals>> \o d)) = Append(before \o k, Equals) \o d

LEMMA SplitPair ==
    ASSUME NEW before \in Text, NEW k \in Text, NEW d \in Text
    PROVE  /\ before \o k \in Text /\ Append(before \o k, Equals) \in Text
           /\ Splits(before, k, d)
<1>1. Equals \in Byte
  BY DEF Equals, Byte
<1>2. PICK q : q = <<Equals>>
  OBVIOUS
<1>3. q \in Text
  BY <1>1, <1>2 DEF Text
<1>4. before \o (k \o (q \o d)) = ((before \o k) \o q) \o d
  BY <1>3 DEF Text
<1>5. before \o k \in Text
  BY DEF Text
<1>6. (before \o k) \o q = Append(before \o k, Equals) /\ Append(before \o k, Equals) \in Text
  BY <1>1, <1>2, <1>5, AppendIsConcat DEF Text
<1>7. QED  BY <1>2, <1>4, <1>5, <1>6 DEF Splits

\* A pair is read after the separator before it.
LEMMA ReadPair ==
    ASSUME NEW before \in Text, NEW pairs, Awaits(AfterReading(before), pairs),
           NEW pair, pair.key \in Text, pair.data \in Text,
           NEW text, Follows(text, before, pair)
    PROVE  Holds(AfterReading(text), pairs, pair)
<1>11. PICK key \in Text, data \in Text : key = pair.key /\ data = pair.data
  OBVIOUS
<1>12. AfterReading(before) = Parsing(pairs, <<>>, <<>>, FALSE, <<>>)
  BY DEF Awaits
<1>1. urlEncode(key) \in Text /\ urlEncode(data) \in Text /\ Equals \in Byte /\ <<>> \in Text
  <2>1. 0 \in Byte /\ Equals \in Byte /\ <<>> \in Text
    BY DEF Byte, Equals, Text
  <2>2. QED  BY <2>1, UrlEncodeProperties
<1>2. PICK k \in Text, d \in Text : k = urlEncode(key) /\ d = urlEncode(data)
  BY <1>1
<1>3. PICK b1, b2 : b1 = before \o k /\ b2 = Append(before \o k, Equals)
  OBVIOUS
<1>4. b1 \in Text /\ b2 \in Text
  BY <1>3, SplitPair
<1>5. before \o (k \o (<<Equals>> \o d)) = b2 \o d
  <2>1. Splits(before, k, d)
    BY SplitPair
  <2>2. QED  BY <1>3, <2>1 DEF Splits
<1>6. AfterReading(b1) = Parsing(pairs, key, <<>>, FALSE, <<>>)
  <2>1. AtRest(AfterReading(before))
    BY <1>1, <1>12 DEF AtRest
  <2>2. AfterReading(b1) = TakeAll(AfterReading(before), key)
    BY <1>2, <1>3, <2>1, ReadUrlEncode
  <2>3. <<>> \o key = key
    BY DEF Text
  <2>4. QED  BY <1>12, <2>2, <2>3 DEF TakeAll, Parsing
<1>7. AfterReading(b2) = Parsing(pairs, key, <<>>, TRUE, <<>>)
  <2>1. AfterReading(b2) = Read(AfterReading(b1), Equals)
    BY <1>1, <1>3, <1>4, AfterReadingProperties DEF Text
  <2>2. PICK no \in BOOLEAN : no = FALSE
    OBVIOUS
  <2>3. Read(Parsing(pairs, key, <<>>, no, <<>>), Equals) = Parsing(pairs, key, <<>>, TRUE, <<>>)
    BY <1>1, ReadEquals
  <2>4. QED  BY <1>6, <2>1, <2>2, <2>3
<1>8. AfterReading(b2 \o d) = Parsing(pairs, key, data, TRUE, <<>>)
  <2>5. PICK yes \in BOOLEAN : yes = TRUE
    OBVIOUS
  <2>6. AtRest(Parsing(pairs, key, <<>>, yes, <<>>))
    BY <1>1 DEF AtRest
  <2>1. AtRest(AfterReading(b2))
    BY <1>7, <2>5, <2>6
  <2>2. AfterReading(b2 \o d) = TakeAll(AfterReading(b2), data)
    BY <1>2, <1>4, <2>1, ReadUrlEncode
  <2>3. <<>> \o data = data
    BY DEF Text
  <2>4. QED  BY <1>7, <2>2, <2>3 DEF TakeAll, Parsing
<1>9. text = b2 \o d
  BY <1>2, <1>5, <1>11 DEF Follows, PairText
<1>10. QED  BY <1>8, <1>9, <1>11 DEF Holds

LEMMA PlainPairsProperties ==
    ASSUME NEW Pairs, NEW form \in Seq(Pairs), NEW pair \in Pairs
    PROVE  /\ PlainPairs(<<>>) = <<>>
           /\ PlainPairs(Append(form, pair)) = Append(PlainPairs(form), Plain(pair))
<1>1. PICK n \in Nat : n = Len(form)
  BY LenProperties
<1>2. PICK f, x : f = Append(form, pair) /\ x = Plain(pair)
  OBVIOUS
<1>3. Len(f) = n + 1 /\ f[n + 1] = pair /\ \A k \in 1..n : f[k] = form[k]
  BY <1>1, <1>2, AppendProperties
<1>4. PICK p : p = PlainPairs(form)
  OBVIOUS
<1>5. DOMAIN p = 1..n /\ p = [k \in 1..n |-> Plain(form[k])]
  BY <1>1, <1>4 DEF PlainPairs
<1>6. p \in Seq({Plain(form[k]) : k \in 1..n} \cup {x}) /\ Len(p) = n
  BY <1>5
<1>7. PICK q : q = Append(p, x)
  OBVIOUS
<1>8. q \in Seq({Plain(form[k]) : k \in 1..n} \cup {x}) /\ Len(q) = n + 1
      /\ q[n + 1] = x /\ \A k \in 1..n : q[k] = p[k]
  BY <1>6, <1>7, AppendProperties
<1>9. ASSUME NEW k \in 1..n + 1 PROVE q[k] = Plain(f[k])
  <2>1. CASE k = n + 1
    BY <1>2, <1>3, <1>8, <2>1
  <2>2. CASE k \in 1..n
    BY <1>3, <1>5, <1>8, <2>2
  <2>3. QED  BY <2>1, <2>2
<1>10. q = [k \in 1..n + 1 |-> Plain(f[k])]
  BY <1>8, <1>9
<1>11. PlainPairs(<<>>) = <<>>
  BY DEF PlainPairs
<1>12. QED  BY <1>2, <1>3, <1>4, <1>7, <1>10, <1>11 DEF PlainPairs

LEMMA EncodedPairFollows ==
    ASSUME NEW before \in Text, NEW n, NEW pair, pair.key \in Text, pair.data \in Text
    PROVE  /\ n = 0 => Follows(before \o EncodedPair(n, pair), before, pair)
           /\ n # 0 => Follows(before \o EncodedPair(n, pair), Append(before, Ampersand), pair)
<1>1. PICK k, q, d : k = urlEncode(pair.key) /\ q = <<Equals>> /\ d = urlEncode(pair.data)
  OBVIOUS
<1>2. k \in Text /\ q \in Text /\ d \in Text
  <2>1. 0 \in Byte /\ <<Equals>> \in Text
    BY DEF Byte, Equals, Text
  <2>2. QED  BY <1>1, <2>1, UrlEncodeProperties
<1>3. CASE n = 0
  <2>1. PICK e : e = <<>>
    OBVIOUS
  <2>2. EncodedPair(n, pair) = e \o k \o q \o d
    BY <1>1, <1>3, <2>1 DEF EncodedPair
  <2>3. before \o (e \o k \o q \o d) = before \o (k \o (q \o d))
    <3>1. e \o k = k
      BY <1>2, <2>1, ConcatEmptySeq DEF Text
    <3>2. Associates(k, q, d)
      BY <1>2, TextsAssociate
    <3>3. (k \o q) \o d = k \o (q \o d)
      BY <3>2 DEF Associates
    <3>4. QED  BY <3>1, <3>3
  <2>4. QED  BY <1>1, <1>3, <2>2, <2>3 DEF Follows, PairText
<1>4. CASE n # 0
  <2>1. PICK e : e = <<Ampersand>>
    OBVIOUS
  <2>2. EncodedPair(n, pair) = e \o k \o q \o d
    BY <1>1, <1>4, <2>1 DEF EncodedPair
  <2>3. Ampersand \in Byte /\ e \in Text
    BY <2>1 DEF Ampersand, Byte, Text
  <2>7. before \o (e \o k \o q \o d) = before \o (e \o (k \o (q \o d)))
    <3>1. e \o k \o q \o d = e \o (k \o (q \o d))
      <4>1. PICK r : r = q \o d
        OBVIOUS
      <4>2. r \in Text /\ e \o k \in Text
        BY <1>2, <2>3, <4>1 DEF Text
      <4>3. (e \o k) \o r = e \o (k \o r)
        BY <1>2, <2>3, <4>2 DEF Text
      <4>4. PICK s : s = e \o k
        OBVIOUS
      <4>7. Associates(s, q, d)
        BY <1>2, <4>2, <4>4, TextsAssociate
      <4>5. (s \o q) \o d = s \o (q \o d)
        BY <4>7 DEF Associates
      <4>6. QED  BY <4>1, <4>3, <4>4, <4>5
    <3>2. QED  BY <3>1
  <2>8. PICK r : r = k \o (q \o d)
    OBVIOUS
  <2>9. r \in Text
    BY <1>2, <2>8 DEF Text
  <2>10. before \o (e \o r) = (before \o e) \o r
    BY <2>3, <2>9 DEF Text
  <2>4. before \o (e \o k \o q \o d) = (before \o e) \o (k \o (q \o d))
    BY <2>7, <2>8, <2>10
  <2>5. before \o e = Append(before, Ampersand)
    BY <2>1, <2>3, AppendIsConcat DEF Text
  <2>6. QED  BY <1>1, <1>4, <2>2, <2>4, <2>5 DEF Follows, PairText
<1>5. QED  BY <1>3, <1>4

\* A server has read the form.
FormRead(form) ==
    /\ urlEncodedForm(form) # <<>>
    /\ AtRest(AfterReading(urlEncodedForm(form)))
    /\ PairsRead(AfterReading(urlEncodedForm(form))) = PlainPairs(form)

LEMMA ReadLastPair ==
    ASSUME NEW Pairs, NEW form \in Seq(Pairs), NEW pair \in Pairs,
           pair.key \in Text, pair.data \in Text, NEW before \in Text,
           Awaits(AfterReading(before), PlainPairs(form)),
           Follows(urlEncodedForm(Append(form, pair)), before, pair)
    PROVE  FormRead(Append(form, pair))
<1>1. PICK body, p : body = urlEncodedForm(Append(form, pair)) /\ p = AfterReading(body)
  OBVIOUS
<1>2. p = Parsing(PlainPairs(form), pair.key, pair.data, TRUE, <<>>)
  BY <1>1, ReadPair DEF Holds
<1>3. body # <<>>
  <2>1. AfterReading(<<>>).inData = FALSE
    BY AfterReadingProperties DEF Unread
  <2>2. p.inData = TRUE
    BY <1>2 DEF Parsing
  <2>3. QED  BY <1>1, <2>1, <2>2
<1>4. AtRest(p)
  <2>1. PICK yes \in BOOLEAN : yes = TRUE
    OBVIOUS
  <2>2. AtRest(Parsing(PlainPairs(form), pair.key, pair.data, yes, <<>>))
    BY DEF AtRest
  <2>3. QED  BY <1>2, <2>1, <2>2
<1>5. PairsRead(p) = PlainPairs(Append(form, pair))
  <2>1. p.pairs = PlainPairs(form) /\ p.key = pair.key /\ p.data = pair.data
    BY <1>2 DEF Parsing
  <2>2. PairsRead(p) = Append(PlainPairs(form), Plain(pair))
    BY <2>1, Zenon DEF PairsRead, Plain
  <2>3. QED  BY <2>2, PlainPairsProperties
<1>6. QED  BY <1>1, <1>3, <1>4, <1>5 DEF FormRead

LEMMA ReadForm ==
    ASSUME NEW Pairs, \A pair \in Pairs : pair.key \in Text /\ pair.data \in Text
    PROVE  \A form \in Seq(Pairs) : form = <<>> \/ FormRead(form)
<1> DEFINE S == {form \in Seq(Pairs) : form = <<>> \/ FormRead(form)}
<1>1. <<>> \in S
  OBVIOUS
<1>2. ASSUME NEW form \in Seq(Pairs), NEW pair \in Pairs, form \in S PROVE Append(form, pair) \in S
  <2>1. PICK n \in Nat : n = Len(form)
    BY LenProperties
  <2>2. PICK body : body = urlEncodedForm(form)
    OBVIOUS
  <2>3. body \in Text /\ urlEncodedForm(Append(form, pair)) = body \o EncodedPair(n, pair)
    BY <2>1, <2>2, UrlEncodedFormProperties
  <2>4. CASE form = <<>>
    <3>1. n = 0 /\ body = <<>> /\ PlainPairs(form) = <<>>
      BY <2>1, <2>2, <2>4, UrlEncodedFormProperties, PlainPairsProperties
    <3>2. AfterReading(body) = Unread
      BY <3>1, AfterReadingProperties
    <3>3. Awaits(Unread, <<>>)
      BY DEF Awaits, Unread, Parsing
    <3>4. Follows(urlEncodedForm(Append(form, pair)), body, pair)
      BY <2>3, <3>1, EncodedPairFollows
    <3>5. FormRead(Append(form, pair))
      BY <2>3, <3>1, <3>2, <3>3, <3>4, ReadLastPair
    <3>6. QED  BY <3>5
  <2>5. CASE form # <<>>
    <3>1. n # 0
      BY <2>1, <2>5, EmptySeq
    <3>2. FormRead(form)
      BY <1>2, <2>5
    <3>3. PICK before : before = Append(body, Ampersand)
      OBVIOUS
    <3>4. Ampersand \in Byte /\ before \in Text
      BY <2>3, <3>3 DEF Ampersand, Byte, Text
    <3>5. AfterReading(before) = Read(AfterReading(body), Ampersand)
      BY <2>3, <3>3, <3>4, AfterReadingProperties DEF Text
    <3>6. Awaits(AfterReading(before), PlainPairs(form))
      BY <2>2, <3>2, <3>5, ReadAmpersand DEF FormRead, Awaits
    <3>7. Follows(urlEncodedForm(Append(form, pair)), before, pair)
      BY <2>3, <3>1, <3>3, EncodedPairFollows
    <3>8. FormRead(Append(form, pair))
      BY <3>4, <3>6, <3>7, ReadLastPair
    <3>9. QED  BY <3>8
  <2>6. QED  BY <2>4, <2>5
<1> HIDE DEF S
<1>3. Seq(Pairs) \subseteq S
  BY <1>1, <1>2, SequenceInduction
<1>4. QED  BY <1>3 DEF S

\* A server that decodes what urlEncodedForm has made of a form finds the form,
\* however many pairs it has and whatever bytes they are made of (Globals.cpp).
THEOREM UrlFormReadable ==
    ASSUME NEW Pairs, \A pair \in Pairs : pair.key \in Text /\ pair.data \in Text,
           NEW form \in Seq(Pairs)
    PROVE  UrlDecodedForm(urlEncodedForm(form)) = PlainPairs(form)
<1>1. CASE form = <<>>
  <2>1. urlEncodedForm(<<>>) = <<>>
    BY DEF urlEncodedForm, FlattenSeq
  <2>2. PlainPairs(<<>>) = <<>>
    BY DEF PlainPairs
  <2>3. QED  BY <1>1, <2>1, <2>2 DEF UrlDecodedForm
<1>2. CASE FormRead(form)
  BY <1>2 DEF FormRead, UrlDecodedForm
<1>3. QED  BY <1>1, <1>2, ReadForm

-----------------------------------------------------------------------------
(* AfterCutting.                                                           *)

Cutting(f, separator, text) ==
    f = [n \in 0..Len(text) |-> IF n = 0 THEN Uncut ELSE Cut(separator, f[n - 1], text[n])]

LEMMA AfterCuttingDef ==
    ASSUME NEW separator, NEW text
    PROVE  AfterCutting(separator, text) = (CHOOSE f : Cutting(f, separator, text))[Len(text)]
BY DEF AfterCutting, Cutting

\* What has been cut off after the first n bytes of a text.
Cuts(f, separator, text, n) ==
    /\ f[0] = Uncut
    /\ \A i \in 1..n : f[i] = Cut(separator, f[i - 1], text[i])

LEMMA CuttingCuts ==
    ASSUME NEW separator, NEW text, NEW f, NEW n \in Nat, n = Len(text)
    PROVE  /\ Cutting(f, separator, text) => Cuts(f, separator, text, n)
           /\ Cuts(f, separator, text, n) /\ f = [i \in 0..n |-> f[i]]
                => Cutting(f, separator, text)
<1>1. ASSUME Cutting(f, separator, text) PROVE Cuts(f, separator, text, n)
  <2>1. 0 \in 0..n /\ \A i \in 1..n : i \in 0..n /\ i # 0
    OBVIOUS
  <2>2. QED  BY <1>1, <2>1 DEF Cutting, Cuts
<1>2. ASSUME Cuts(f, separator, text, n), f = [i \in 0..n |-> f[i]]
      PROVE  Cutting(f, separator, text)
  <2>1. ASSUME NEW i \in 0..n
        PROVE  f[i] = IF i = 0 THEN Uncut ELSE Cut(separator, f[i - 1], text[i])
    <3>1. i = 0 \/ i \in 1..n
      OBVIOUS
    <3>2. QED  BY <1>2, <3>1 DEF Cuts
  <2>2. QED  BY <1>2, <2>1 DEF Cutting
<1>3. QED  BY <1>1, <1>2

LEMMA CutsUnique ==
    ASSUME NEW n \in Nat, NEW separator, NEW text, NEW f, NEW g,
           Cuts(f, separator, text, n), Cuts(g, separator, text, n)
    PROVE  f[n] = g[n]
<1> DEFINE N == {m \in Nat : m <= n => g[m] = f[m]}
<1>1. 0 \in N
  BY DEF Cuts
<1>2. ASSUME NEW m \in Nat, m \in N PROVE m + 1 \in N
  BY <1>2 DEF Cuts
<1> HIDE DEF N
<1>3. Nat \subseteq N
  BY <1>1, <1>2, NumberInduction
<1>4. QED  BY <1>3 DEF N

LEMMA CuttingExists ==
    ASSUME NEW A, NEW separator
    PROVE  \A text \in Seq(A) : \E f : Cutting(f, separator, text)
<1> DEFINE S == {text \in Seq(A) : \E f : Cutting(f, separator, text)}
<1>1. <<>> \in S
  <2> DEFINE f == [i \in 0..0 |-> Uncut]
  <2>1. Cuts(f, separator, <<>>, 0) /\ f = [i \in 0..0 |-> f[i]]
    BY DEF Cuts
  <2>2. Cutting(f, separator, <<>>)
    BY <2>1, CuttingCuts
  <2>3. QED  BY <2>2
<1>2. ASSUME NEW text \in Seq(A), NEW c \in A, text \in S PROVE Append(text, c) \in S
  <2>1. PICK n \in Nat : n = Len(text)
    BY LenProperties
  <2>2. PICK f : Cuts(f, separator, text, n)
    BY <1>2, <2>1, CuttingCuts
  <2>3. PICK t : t = Append(text, c)
    OBVIOUS
  <2>4. t \in Seq(A) /\ Len(t) = n + 1 /\ t[n + 1] = c /\ \A i \in 1..n : t[i] = text[i]
    BY <2>1, <2>3, AppendProperties
  <2> DEFINE g == [i \in 0..n + 1 |-> IF i <= n THEN f[i] ELSE Cut(separator, f[n], c)]
  <2>5. g = [i \in 0..n + 1 |-> g[i]]
    OBVIOUS
  <2>6. Cuts(g, separator, t, n + 1)
    BY <2>2, <2>4 DEF Cuts
  <2> HIDE DEF g
  <2>7. Cutting(g, separator, t)
    BY <2>4, <2>5, <2>6, CuttingCuts
  <2>8. QED  BY <2>3, <2>4, <2>7
<1> HIDE DEF S
<1>3. Seq(A) \subseteq S
  BY <1>1, <1>2, SequenceInduction
<1>4. QED  BY <1>3 DEF S

LEMMA AfterCuttingSteps ==
    ASSUME NEW A, NEW separator, NEW text \in Seq(A), NEW n \in Nat, n = Len(text)
    PROVE  \E f : Cuts(f, separator, text, n) /\ AfterCutting(separator, text) = f[n]
BY CuttingExists, CuttingCuts, AfterCuttingDef

\* Nothing has been cut off the empty text, and of a text what is cut off the
\* text before its last byte, and what that byte ends.
LEMMA AfterCuttingProperties ==
    ASSUME NEW A, NEW separator, NEW text \in Seq(A), NEW c \in A
    PROVE  /\ AfterCutting(separator, <<>>) = Uncut
           /\ AfterCutting(separator, Append(text, c))
                = Cut(separator, AfterCutting(separator, text), c)
<1>1. AfterCutting(separator, <<>>) = Uncut
  <2>1. <<>> \in Seq({}) /\ 0 = Len(<<>>)
    OBVIOUS
  <2>2. PICK f : Cuts(f, separator, <<>>, 0) /\ AfterCutting(separator, <<>>) = f[0]
    BY <2>1, AfterCuttingSteps
  <2>3. QED  BY <2>2 DEF Cuts
<1>2. PICK t : t = Append(text, c)
  OBVIOUS
<1>3. PICK n \in Nat : n = Len(text)
  BY LenProperties
<1>4. PICK m \in Nat : m = n + 1
  OBVIOUS
<1>5. t \in Seq(A) /\ m = Len(t) /\ t[m] = c /\ \A i \in 1..n : t[i] = text[i]
  BY <1>2, <1>3, <1>4, AppendProperties
<1>6. PICK f : Cuts(f, separator, text, n) /\ AfterCutting(separator, text) = f[n]
  BY <1>3, AfterCuttingSteps
<1>7. PICK g : Cuts(g, separator, t, m) /\ AfterCutting(separator, t) = g[m]
  BY <1>5, AfterCuttingSteps
<1>8. Cuts(g, separator, text, n)
  BY <1>4, <1>5, <1>7 DEF Cuts
<1>9. f[n] = g[n]
  BY <1>6, <1>8, CutsUnique
<1>10. m \in 1..m /\ m - 1 = n
  BY <1>4
<1>11. g[m] = Cut(separator, g[m - 1], t[m])
  BY <1>7, <1>10 DEF Cuts
<1>12. QED  BY <1>1, <1>2, <1>5, <1>6, <1>7, <1>9, <1>10, <1>11

-----------------------------------------------------------------------------
(* What is cut off a text.                                                 *)

String == Seq(Nat)

\* What a delimiter begins with does not come again in it.
Delimiter(d) ==
    /\ d \in String /\ Len(d) >= 1
    /\ \A j \in 1..Len(d) : d[j] = d[1] => j = 1

LEMMA PlacesOfFront ==
    ASSUME NEW d \in String, NEW x \in String, NEW c \in Nat, PlacesOf(d, Append(x, c)) = {}
    PROVE  PlacesOf(d, x) = {}
<1>1. PICK t : t = Append(x, c)
  OBVIOUS
<1>2. PICK n \in Nat, m \in Nat : n = Len(x) /\ m = Len(d)
  BY LenProperties DEF String
<1>3. Len(t) = n + 1 /\ \A k \in 1..n : t[k] = x[k]
  BY <1>1, <1>2, AppendProperties DEF String
<1>4. ASSUME NEW i \in PlacesOf(d, x) PROVE FALSE
  <2>1. i \in 1..n + 1 - m /\ \A j \in 1..m : x[i + j - 1] = d[j]
    BY <1>2, <1>4 DEF PlacesOf
  <2>2. ASSUME NEW j \in 1..m PROVE t[i + j - 1] = d[j]
    <3>1. i + j - 1 \in 1..n
      BY <2>1
    <3>2. QED  BY <1>3, <2>1, <3>1
  <2>3. i \in 1..(n + 1) + 1 - m
    BY <2>1
  <2>4. i \in PlacesOf(d, t)
    BY <1>2, <1>3, <2>2, <2>3 DEF PlacesOf
  <2>5. QED  BY <1>1, <2>4
<1>5. QED  BY <1>4

\* A text without the delimiter does not have it either when all of the
\* delimiter but its last byte follows.
LEMMA PlacesBeforeEnd ==
    ASSUME NEW d, Delimiter(d), NEW x \in String, PlacesOf(d, x) = {},
           NEW t, t = x \o SubSeq(d, 1, Len(d) - 1)
    PROVE  t \in String /\ PlacesOf(d, t) = {}
<1>1. d \in String
  BY DEF Delimiter
<1>2. PICK n \in Nat, m \in Nat : n = Len(x) /\ m = Len(d) /\ m >= 1
  BY <1>1, LenProperties DEF String, Delimiter
<1>3. PICK front : front = SubSeq(d, 1, m - 1)
  OBVIOUS
<1>4. front \in String /\ Len(front) = m - 1 /\ \A k \in 1..m - 1 : front[k] = d[k]
  BY <1>1, <1>2, <1>3, SubSeqProperties DEF String
<1>5. /\ t \in String /\ Len(t) = n + (m - 1)
      /\ \A k \in 1..n + (m - 1) : t[k] = IF k <= n THEN x[k] ELSE front[k - n]
  BY <1>2, <1>3, <1>4, ConcatProperties DEF String
<1>6. ASSUME NEW i \in PlacesOf(d, t) PROVE FALSE
  <2>1. i \in 1..n + (m - 1) + 1 - m /\ \A j \in 1..m : t[i + j - 1] = d[j]
    BY <1>2, <1>5, <1>6 DEF PlacesOf
  <2>2. i \in 1..n
    BY <2>1
  <2>3. CASE i + m - 1 <= n
    <3>1. ASSUME NEW j \in 1..m PROVE x[i + j - 1] = d[j]
      <4>1. PICK k \in 1..n + (m - 1) : k = i + j - 1 /\ k <= n
        BY <2>2, <2>3
      <4>2. t[k] = x[k]
        BY <1>5, <4>1
      <4>3. t[k] = d[j]
        BY <2>1, <4>1
      <4>4. QED  BY <4>1, <4>2, <4>3
    <3>2. i \in 1..n + 1 - m
      BY <2>2, <2>3
    <3>3. i \in PlacesOf(d, x)
      BY <1>2, <3>1, <3>2 DEF PlacesOf
    <3>4. QED  BY <3>3
  <2>4. CASE i + m - 1 > n
    <3>1. PICK j \in 1..m : j = n + 2 - i /\ j # 1
      BY <2>2, <2>4
    <3>2. i + j - 1 = n + 1 /\ n + 1 \in 1..n + (m - 1)
      BY <2>2, <2>4, <3>1
    <3>3. PICK k \in 1..n + (m - 1) : k = n + 1 /\ ~(k <= n) /\ k - n = 1 /\ 1 \in 1..m - 1
      BY <3>1, <3>2
    <3>6. t[k] = front[1]
      BY <1>5, <3>3
    <3>4. d[j] = d[1]
      BY <1>4, <2>1, <3>1, <3>2, <3>3, <3>6
    <3>5. QED  BY <1>2, <3>1, <3>4 DEF Delimiter
  <2>5. QED  BY <2>2, <2>3, <2>4
<1>7. QED  BY <1>5, <1>6

\* What has been cut off, and what follows it.
IsCut(cut, pieces, rest) == cut = [pieces |-> pieces, rest |-> rest]

\* The delimiter is nowhere in a text that begins where the last piece ends.
LEMMA CutNothing ==
    ASSUME NEW d \in String, NEW before \in String, NEW pieces,
           IsCut(AfterCutting(d, before), pieces, <<>>)
    PROVE  \A x \in String :
               PlacesOf(d, x) = {} => IsCut(AfterCutting(d, before \o x), pieces, x)
<1> DEFINE S == {x \in String :
                   PlacesOf(d, x) = {} => IsCut(AfterCutting(d, before \o x), pieces, x)}
<1>1. <<>> \in S
  <2>1. before \o <<>> = before /\ <<>> \in String
    BY DEF String
  <2>2. QED  BY <2>1
<1>2. ASSUME NEW x \in String, NEW c \in Nat, x \in S PROVE Append(x, c) \in S
  <2>1. SUFFICES ASSUME PlacesOf(d, Append(x, c)) = {}
                 PROVE  IsCut(AfterCutting(d, before \o Append(x, c)), pieces, Append(x, c))
    BY DEF String
  <2>2. IsCut(AfterCutting(d, before \o x), pieces, x)
    BY <1>2, <2>1, PlacesOfFront
  <2>3. before \o Append(x, c) = Append(before \o x, c) /\ before \o x \in String
    BY DEF String
  <2>9. PICK t \in String : t = before \o x
    BY <2>3
  <2>10. AfterCutting(d, Append(t, c)) = Cut(d, AfterCutting(d, t), c)
    BY AfterCuttingProperties DEF String
  <2>4. AfterCutting(d, before \o Append(x, c)) = Cut(d, AfterCutting(d, before \o x), c)
    BY <2>3, <2>9, <2>10
  <2>5. PICK cut : cut = AfterCutting(d, before \o x)
    OBVIOUS
  <2>6. cut.pieces = pieces /\ cut.rest = x
    BY <2>2, <2>5 DEF IsCut
  <2>7. Cut(d, cut, c) = [pieces |-> pieces, rest |-> Append(x, c)]
    BY <2>1, <2>6, Zenon DEF Cut
  <2>8. QED  BY <2>4, <2>5, <2>7 DEF IsCut
<1> HIDE DEF S
<1>3. String \subseteq S
  BY <1>1, <1>2, SequenceInduction DEF String
<1>4. QED  BY <1>3 DEF S

\* A piece that the delimiter follows is cut off.
LEMMA CutPiece ==
    ASSUME NEW d, Delimiter(d), NEW before \in String, NEW pieces,
           IsCut(AfterCutting(d, before), pieces, <<>>),
           NEW x \in String, PlacesOf(d, x) = {}
    PROVE  IsCut(AfterCutting(d, (before \o x) \o d), Append(pieces, x), <<>>)
<1>1. d \in String
  BY DEF Delimiter
<1>2. PICK n \in Nat, m \in Nat : n = Len(x) /\ m = Len(d) /\ m >= 1
  BY <1>1, LenProperties DEF String, Delimiter
<1>3. PICK front \in String, c \in Nat : front = SubSeq(d, 1, m - 1) /\ c = d[m]
  <2>1. SubSeq(d, 1, m - 1) \in String /\ d[m] \in Nat
    BY <1>1, <1>2 DEF String
  <2>2. QED  BY <2>1
<1>4. d = Append(front, c) /\ Len(front) = m - 1
  BY <1>1, <1>2, <1>3 DEF String
<1>5. PICK t : t = x \o front
  OBVIOUS
<1>6. t \in String /\ PlacesOf(d, t) = {}
  BY <1>2, <1>3, <1>5, PlacesBeforeEnd
<1>7. IsCut(AfterCutting(d, before \o t), pieces, t)
  BY <1>1, <1>6, CutNothing
<1>8. (before \o x) \o d = Append(before \o t, c) /\ before \o t \in String
  <2>1. (before \o x) \o Append(front, c) = Append((before \o x) \o front, c)
    BY DEF String
  <2>2. (before \o x) \o front = before \o (x \o front)
    BY DEF String
  <2>3. before \o t \in String
    BY <1>6 DEF String
  <2>4. QED  BY <1>4, <1>5, <2>1, <2>2, <2>3
<1>9. AfterCutting(d, (before \o x) \o d) = Cut(d, AfterCutting(d, before \o t), c)
  <2>1. PICK y \in String : y = before \o t
    BY <1>8
  <2>2. AfterCutting(d, Append(y, c)) = Cut(d, AfterCutting(d, y), c)
    BY AfterCuttingProperties DEF String
  <2>3. QED  BY <1>8, <2>1, <2>2
<1>10. PICK whole : whole = Append(t, c)
  OBVIOUS
<1>11. whole = x \o d /\ whole \in String
  <2>1. x \o Append(front, c) = Append(x \o front, c)
    BY DEF String
  <2>2. QED  BY <1>4, <1>5, <1>6, <1>10, <2>1 DEF String
<1>12. Len(whole) = n + m /\ \A k \in 1..m : whole[n + k] = d[k]
  <2>1. \A i \in 1..n + m : (x \o d)[i] = IF i <= n THEN x[i] ELSE d[i - n]
    BY <1>1, <1>2, ConcatProperties DEF String
  <2>2. Len(whole) = n + m
    BY <1>1, <1>2, <1>11, ConcatProperties DEF String
  <2>3. ASSUME NEW k \in 1..m PROVE whole[n + k] = d[k]
    <3>1. n + k \in 1..n + m /\ ~(n + k <= n) /\ (n + k) - n = k
      OBVIOUS
    <3>2. QED  BY <1>11, <2>1, <3>1
  <2>4. QED  BY <2>2, <2>3
<1>13. Len(whole) - Len(d) = n /\ n + 1 \in PlacesOf(d, whole)
  <2>1. n + 1 \in 1..(n + m) + 1 - m
    BY <1>2
  <2>2. \A j \in 1..m : whole[(n + 1) + j - 1] = d[j]
    BY <1>12
  <2>3. QED  BY <1>2, <1>12, <2>1, <2>2 DEF PlacesOf
<1>14. SubSeq(whole, 1, n) = x
  BY <1>1, <1>2, <1>11, SubSeqOfConcat1 DEF String
<1>15. PICK cut : cut = AfterCutting(d, before \o t)
  OBVIOUS
<1>16. cut.pieces = pieces /\ cut.rest = t
  BY <1>7, <1>15 DEF IsCut
<1>17. Cut(d, cut, c) = [pieces |-> Append(pieces, x), rest |-> <<>>]
  BY <1>10, <1>13, <1>14, <1>16, Zenon DEF Cut
<1>18. QED  BY <1>9, <1>15, <1>17 DEF IsCut

-----------------------------------------------------------------------------
(* The message of a multi-part form.                                       *)

\* What a pair may be when nothing is escaped.
PlainPair(pair, boundary) ==
    /\ pair \in [key : Text, data : Text, filename : Text]
    /\ ToSet(pair.key \o pair.filename) \cap {Quote, 13, 10} = {}
    /\ PlacesOf(LineEnd \o Dashes \o boundary, LineEnd \o pair.data) = {}

Part(pair, boundary) ==
    Dashes \o boundary \o LineEnd \o Header(pair) \o LineEnd \o LineEnd \o pair.data \o LineEnd

\* What lies between two delimiters.
Piece(pair) == LineEnd \o Header(pair) \o LineEnd \o LineEnd \o pair.data

Parts(form, boundary) == FlattenSeq([k \in 1..Len(form) |-> Part(form[k], boundary)])

\* The message up to its last delimiter.
Beginning(form, boundary) == LineEnd \o Parts(form, boundary) \o (Dashes \o boundary)

Joins(a, b, c) == a \o b \in String /\ a \o (b \o c) = (a \o b) \o c

LEMMA JoinStrings ==
    \A a \in String, b \in String, c \in String : Joins(a, b, c)
BY DEF Joins, String

LEMMA Strings ==
    /\ LineEnd \in String /\ Dashes \in String /\ Dashes \o LineEnd \in String
    /\ <<Quote>> \in String /\ Disposition \in String /\ FilenameIs \in String
    /\ <<>> \in String
    /\ \A text \in Text : text \in String
<1>1. LineEnd \in String /\ Dashes \in String /\ Dashes \o LineEnd \in String
  BY DEF LineEnd, Dashes, String
<1>2. <<Quote>> \in String /\ Disposition \in String /\ FilenameIs \in String /\ <<>> \in String
  BY DEF Quote, Disposition, FilenameIs, String
<1>3. Byte \subseteq Nat
  BY DEF Byte
<1>4. ASSUME NEW text \in Text PROVE text \in String
  <2>1. PICK n \in Nat : n = Len(text)
    BY LenProperties DEF Text
  <2>2. \A k \in 1..n : text[k] \in Byte
    BY <2>1 DEF Text
  <2>3. text = [k \in 1..n |-> text[k]]
    BY <2>1 DEF Text
  <2>4. QED  BY <1>3, <2>2, <2>3 DEF String
<1>5. QED  BY <1>1, <1>2, <1>4

LEMMA HeaderType ==
    ASSUME NEW pair \in [key : Text, data : Text, filename : Text]
    PROVE  Header(pair) \in String
<1>1. pair.key \in String /\ pair.filename \in String
  BY Strings
<1>2. PICK k \in String, n \in String, q \in String, d \in String, f \in String :
          k = pair.key /\ n = pair.filename /\ q = <<Quote>> /\ d = Disposition /\ f = FilenameIs
  BY <1>1, Strings
<1>3. ASSUME NEW a \in String, NEW b \in String PROVE a \o b \in String
  BY JoinStrings DEF Joins
<1>4. d \o q \o k \o q \in String /\ f \o q \o n \o q \in String
  BY <1>3, Zenon
<1>5. (IF n = <<>> THEN <<>> ELSE f \o q \o n \o q) \in String
  BY <1>4, Strings
<1>6. d \o q \o k \o q \o (IF n = <<>> THEN <<>> ELSE f \o q \o n \o q) \in String
  BY <1>3, <1>4, <1>5, Zenon
<1>7. QED  BY <1>2, <1>6 DEF Header

\* The same text in other brackets.
Rebrackets(e, f, d, h, x) ==
    /\ d \o e \o h \o e \o e \o x \o e \in String
    /\ e \o h \o e \o e \o x \in String
    /\ (e \o f) \o d \in String
    /\ (e \o (f \o (d \o e \o h \o e \o e \o x \o e))) \o d
         = (((e \o f) \o d) \o (e \o h \o e \o e \o x)) \o (e \o d)

LEMMA Rebracketed ==
    ASSUME NEW e \in String, NEW f \in String, NEW d \in String, NEW h \in String, NEW x \in String
    PROVE  Rebrackets(e, f, d, h, x)
<1>1. e \o h \in String /\ d \o e \in String /\ e \o f \in String
  BY JoinStrings DEF Joins
<1>2. PICK eh \in String, ef \in String : eh = e \o h /\ ef = e \o f
  BY <1>1
<1>3. eh \o e \in String
  BY JoinStrings DEF Joins
<1>4. PICK ehe \in String : ehe = eh \o e
  BY <1>3
<1>5. ehe \o e \in String
  BY JoinStrings DEF Joins
<1>6. PICK ehee \in String : ehee = ehe \o e
  BY <1>5
<1>7. ehee \o x \in String
  BY JoinStrings DEF Joins
<1>8. PICK p \in String : p = ehee \o x
  BY <1>7
<1>9. d \o p \in String
  BY JoinStrings DEF Joins
<1>10. PICK dp \in String : dp = d \o p
  BY <1>9
<1>11. dp \o e \in String /\ ef \o d \in String
  BY JoinStrings DEF Joins
<1>12. PICK part \in String, efd \in String : part = dp \o e /\ efd = ef \o d
  BY <1>11
<1>13. efd \o p \in String
  BY JoinStrings DEF Joins
<1>14. PICK front \in String : front = efd \o p
  BY <1>13
<1>15. /\ Joins(d, e, h) /\ Joins(d, eh, e) /\ Joins(d, ehe, e) /\ Joins(d, ehee, x)
       /\ Joins(e, f, part) /\ Joins(ef, dp, e) /\ Joins(ef, d, p) /\ Joins(front, e, d)
  BY JoinStrings
<1>16. d \o e \o h \o e \o e \o x = dp
  BY <1>2, <1>4, <1>6, <1>8, <1>10, <1>15, Zenon DEF Joins
<1>17. e \o h \o e \o e \o x = p
  BY <1>2, <1>4, <1>6, <1>8, Zenon
<1>18. (e \o (f \o part)) \o d = (efd \o p) \o (e \o d)
  <2>1. e \o (f \o part) = ef \o part
    BY <1>2, <1>15, Zenon DEF Joins
  <2>2. ef \o part = (ef \o dp) \o e
    BY <1>12, <1>15, Zenon DEF Joins
  <2>3. ef \o dp = efd \o p
    BY <1>10, <1>12, <1>15, Zenon DEF Joins
  <2>4. front \o (e \o d) = (front \o e) \o d
    BY <1>15, Zenon DEF Joins
  <2>5. QED  BY <1>14, <2>1, <2>2, <2>3, <2>4, Zenon
<1>19. QED  BY <1>2, <1>12, <1>16, <1>17, <1>18, Zenon DEF Rebrackets

\* Pair by pair: before the first comes a delimiter, after each another one.
LEMMA FrontProperties ==
    ASSUME NEW boundary \in String, NEW Pairs \in SUBSET [key : Text, data : Text, filename : Text],
           NEW form \in Seq(Pairs), NEW pair \in Pairs
    PROVE  /\ Parts(form, boundary) \in String
           /\ Beginning(form, boundary) \in String
           /\ Beginning(Append(form, pair), boundary)
                = (Beginning(form, boundary) \o Piece(pair)) \o (LineEnd \o Dashes \o boundary)
<1> DEFINE parts(f) == [k \in 1..Len(f) |-> Part(f[k], boundary)]
<1>1. PICK d \in String : d = Dashes \o boundary
  <2>1. Joins(Dashes, boundary, boundary)
    BY Strings, JoinStrings
  <2>2. QED  BY <2>1 DEF Joins
<1>2. LineEnd \o Dashes \o boundary = LineEnd \o d
  <2>1. Joins(LineEnd, Dashes, boundary)
    BY Strings, JoinStrings
  <2>2. QED  BY <1>1, <2>1, Zenon DEF Joins
<1>3. ASSUME NEW one \in Pairs PROVE Part(one, boundary) \in String
  <2>1. one.data \in String /\ Header(one) \in String /\ LineEnd \in String
    BY HeaderType, Strings
  <2>2. PICK h \in String, x \in String, e \in String :
            h = Header(one) /\ x = one.data /\ e = LineEnd
    BY <2>1
  <2>3. Rebrackets(e, e, d, h, x)
    BY Rebracketed
  <2>4. QED  BY <1>1, <2>2, <2>3, Zenon DEF Part, Rebrackets
<1>4. ASSUME NEW f \in Seq(Pairs) PROVE parts(f) \in Seq(String) /\ Len(parts(f)) = Len(f)
  <2>1. PICK n \in Nat : n = Len(f)
    BY LenProperties
  <2>2. \A k \in 1..n : f[k] \in Pairs
    BY <2>1
  <2>3. \A k \in 1..n : Part(f[k], boundary) \in String
    BY <1>3, <2>2
  <2>4. QED  BY <2>1, <2>3
<1>5. parts(Append(form, pair)) = Append(parts(form), Part(pair, boundary))
  <2>1. PICK n \in Nat : n = Len(form)
    BY LenProperties
  <2>2. PICK f, e : f = Append(form, pair) /\ e = Part(pair, boundary)
    OBVIOUS
  <2>3. Len(f) = n + 1 /\ f[n + 1] = pair /\ \A k \in 1..n : f[k] = form[k]
    BY <2>1, <2>2, AppendProperties
  <2>4. PICK p : p = parts(form)
    OBVIOUS
  <2>5. p \in Seq(String) /\ Len(p) = n /\ \A k \in 1..n : p[k] = Part(form[k], boundary)
    BY <1>4, <2>1, <2>4
  <2>6. PICK q : q = Append(p, e)
    OBVIOUS
  <2>7. q \in Seq(String) /\ Len(q) = n + 1 /\ q[n + 1] = e /\ \A k \in 1..n : q[k] = p[k]
    BY <1>3, <2>2, <2>5, <2>6, AppendProperties
  <2>8. q = [k \in 1..n + 1 |-> Part(f[k], boundary)]
    BY <2>2, <2>3, <2>5, <2>7
  <2>9. QED  BY <2>2, <2>3, <2>4, <2>6, <2>8
<1>6. parts(<<>>) = <<>>
  OBVIOUS
<1>7. \A f : Parts(f, boundary) = FlattenSeq(parts(f))
  BY DEF Parts
<1> HIDE DEF parts
<1>8. /\ Parts(<<>>, boundary) = <<>>
      /\ Parts(form, boundary) \in String
      /\ Parts(Append(form, pair), boundary) = Parts(form, boundary) \o Part(pair, boundary)
    <2>1. PICK p \in Seq(String), x \in String : p = parts(form) /\ x = Part(pair, boundary)
    BY <1>3, <1>4
  <2>2. /\ FlattenSeq(<<>>) = <<>>
        /\ FlattenSeq(p) \in String
        /\ FlattenSeq(Append(p, x)) = FlattenSeq(p) \o x
    BY FlattenProperties DEF String
  <2>3. QED  BY <1>5, <1>6, <1>7, <2>1, <2>2, Zenon
<1>9. PICK e \in String, h \in String, x \in String, f \in String :
          e = LineEnd /\ h = Header(pair) /\ x = pair.data /\ f = Parts(form, boundary)
  <2>1. LineEnd \in String /\ Header(pair) \in String /\ pair.data \in String
    BY HeaderType, Strings
  <2>2. QED  BY <1>8, <2>1
<1>10. Rebrackets(e, f, d, h, x)
  BY Rebracketed
<1>11. Beginning(form, boundary) = (e \o f) \o d
  BY <1>1, <1>9 DEF Beginning
<1>12. Piece(pair) = e \o h \o e \o e \o x
  BY <1>9 DEF Piece
<1>13. Part(pair, boundary) = d \o e \o h \o e \o e \o x \o e
  BY <1>1, <1>9 DEF Part
<1>14. Beginning(Append(form, pair), boundary)
         = (e \o (f \o (d \o e \o h \o e \o e \o x \o e))) \o d
  BY <1>1, <1>8, <1>9, <1>13 DEF Beginning
<1>16. QED  BY <1>2, <1>8, <1>9, <1>10, <1>11, <1>12, <1>14, Zenon DEF Rebrackets

\* Two texts of one length and the same elements.
LEMMA SameText ==
    ASSUME NEW s \in String, NEW t \in String, NEW n \in Nat, Len(s) = n, Len(t) = n,
           \A k \in 1..n : s[k] = t[k]
    PROVE  s = t
BY DEF String

IsConcat(u, s, t, n, m) ==
    /\ u \in String /\ Len(u) = n + m
    /\ \A k \in 1..n : u[k] = s[k]
    /\ \A k \in 1..m : u[n + k] = t[k]

LEMMA ConcatElements ==
    ASSUME NEW s \in String, NEW t \in String, NEW n \in Nat, NEW m \in Nat,
           Len(s) = n, Len(t) = m
    PROVE  IsConcat(s \o t, s, t, n, m)
<1>1. PICK u : u = s \o t
  OBVIOUS
<1>2. u \in String /\ Len(u) = n + m
  BY <1>1, ConcatProperties DEF String
<1>3. \A i \in 1..n + m : u[i] = IF i <= n THEN s[i] ELSE t[i - n]
  BY <1>1, ConcatProperties DEF String
<1>4. ASSUME NEW k \in 1..n PROVE u[k] = s[k]
  BY <1>3
<1>5. ASSUME NEW k \in 1..m PROVE u[n + k] = t[k]
  <2>1. n + k \in 1..n + m /\ ~(n + k <= n) /\ (n + k) - n = k
    OBVIOUS
  <2>2. QED  BY <1>3, <2>1
<1>6. QED  BY <1>1, <1>2, <1>4, <1>5 DEF IsConcat

\* A text has another one from its place i on.
LiesAt(i, t, s, n) ==
    /\ i >= 1 /\ Len(t) = n /\ i + n - 1 <= Len(s)
    /\ \A k \in 1..n : s[i + k - 1] = t[k]

LEMMA SubSeqElements ==
    ASSUME NEW s \in String, NEW t \in String, NEW n \in Nat, NEW i \in Nat, LiesAt(i, t, s, n),
           NEW last, last = i + n - 1
    PROVE  SubSeq(s, i, last) = t
<1>1. PICK j \in Nat : j = i + n - 1
  BY DEF LiesAt
<1>2. PICK u : u = SubSeq(s, i, j)
  OBVIOUS
<1>3. PICK m \in Nat : m = Len(s)
  BY LenProperties DEF String
<1>4. \A k \in i..j : s[k] \in Nat
  BY <1>1, <1>3 DEF String, LiesAt
<1>5. u \in String /\ Len(u) = n /\ \A k \in 1..n : u[k] = s[i + k - 1]
  BY <1>1, <1>2, <1>4, SubSeqProperties DEF String, LiesAt
<1>6. Len(t) = n /\ \A k \in 1..n : u[k] = t[k]
  BY <1>5 DEF LiesAt
<1>7. u = t
  BY <1>5, <1>6, SameText
<1>8. QED  BY <1>1, <1>2, <1>7

-----------------------------------------------------------------------------
(* Quoted.                                                                 *)

LEMMA LeastOf ==
    ASSUME NEW S \in SUBSET Nat, NEW n \in S, \A m \in S : n <= m
    PROVE  Min(S) = n
<1>1. n \in {x \in S : \A y \in S : x <= y}
  OBVIOUS
<1>2. ASSUME NEW x \in S, \A y \in S : x <= y PROVE x = n
  <2>1. x <= n /\ n <= x /\ x \in Nat /\ n \in Nat
    BY <1>2
  <2>2. QED  BY <2>1
<1>3. QED  BY <1>1, <1>2 DEF Min

\* A text in quotes that follows the only c of a text, at i.
QuotedAt(i, c, t, text, n) ==
    /\ i >= 1 /\ Len(t) = n /\ i + n + 2 <= Len(text)
    /\ \A k \in 1..Len(text) : text[k] = c <=> k = i
    /\ text[i + 1] = Quote /\ text[i + n + 2] = Quote
    /\ \A k \in 1..n : text[i + 1 + k] = t[k] /\ t[k] # Quote

LEMMA QuotedFound ==
    ASSUME NEW c \in Nat, NEW text \in String, NEW t \in String, NEW n \in Nat, NEW i \in Nat,
           QuotedAt(i, c, t, text, n)
    PROVE  Quoted(<<c>>, text) = t
<1>20. PICK m \in Nat : m = Len(text)
  BY LenProperties DEF String
<1>21. /\ i >= 1 /\ n = Len(t) /\ i + n + 2 <= m
       /\ text[i + 1] = Quote /\ text[i + n + 2] = Quote
  BY <1>20 DEF QuotedAt
<1>22. \A k \in 1..m : text[k] = c <=> k = i
  BY <1>20 DEF QuotedAt
<1>23. \A k \in 1..n : text[i + 1 + k] = t[k] /\ t[k] # Quote
  BY DEF QuotedAt
<1>1. Len(<<c>>) = 1
  OBVIOUS
<1>2. PICK both : both = <<c>> \o <<Quote>>
  OBVIOUS
<1>3. Len(both) = 2 /\ both[1] = c /\ both[2] = Quote
  BY <1>2
<1>4. PlacesOf(both, text) \subseteq Nat
  BY DEF PlacesOf
<1>5. i \in PlacesOf(both, text)
  <2>1. i \in 1..(m + 1 - 2)
    BY <1>21
  <2>2. text[i + 1 - 1] = both[1] /\ text[i + 2 - 1] = both[2]
    BY <1>3, <1>21, <1>22
  <2>3. \A j \in 1..2 : text[i + j - 1] = both[j]
    BY <2>2
  <2>4. QED  BY <1>3, <2>1, <2>3, <1>20 DEF PlacesOf
<1>6. ASSUME NEW k \in PlacesOf(both, text) PROVE k = i
  <2>1. k \in 1..(m + 1 - 2) /\ \A j \in 1..2 : text[k + j - 1] = both[j]
    BY <1>3, <1>6, <1>20 DEF PlacesOf
  <2>2. text[k] = c /\ k \in 1..m
    BY <1>3, <2>1
  <2>3. QED  BY <1>22, <2>2
<1>7. Min(PlacesOf(both, text)) = i
  <2>1. \A k \in PlacesOf(both, text) : i <= k
    BY <1>6
  <2>2. QED  BY <1>4, <1>5, <2>1, LeastOf
<1>8. PICK one : one = <<Quote>>
  OBVIOUS
<1>9. Len(one) = 1 /\ one[1] = Quote
  BY <1>8
<1>10. PICK S : S = PlacesFrom(i + 2, one, text)
  OBVIOUS
<1>11. ASSUME NEW k PROVE k \in S <=> k \in 1..m /\ i + 2 <= k /\ text[k] = Quote
  <2>1. PlacesOf(one, text) = {x \in 1..m : \A j \in 1..1 : text[x + j - 1] = one[j]}
    BY <1>9, <1>20 DEF PlacesOf
  <2>2. k \in S <=> k \in PlacesOf(one, text) /\ i + 2 <= k
    BY <1>10 DEF PlacesFrom
  <2>3. ASSUME NEW x \in 1..m
        PROVE  (\A j \in 1..1 : text[x + j - 1] = one[j]) <=> text[x] = Quote
    BY <1>9
  <2>4. QED  BY <2>1, <2>2, <2>3
<1>12. S \in SUBSET Nat /\ i + n + 2 \in S
  BY <1>11, <1>21
<1>13. ASSUME NEW k \in S PROVE i + n + 2 <= k
  <2>1. k \in 1..m /\ i + 2 <= k /\ text[k] = Quote
    BY <1>11
  <2>2. CASE k < i + n + 2
    <3>1. PICK j \in 1..n : k = i + 1 + j
      <4>1. k - i - 1 \in 1..n /\ k = i + 1 + (k - i - 1)
        BY <2>1, <2>2
      <4>2. QED  BY <4>1
    <3>2. QED  BY <1>23, <2>1, <3>1
  <2>3. QED  BY <2>1, <2>2
<1>14. Min(S) = i + n + 2
  BY <1>12, <1>13, LeastOf
<1>15. Quoted(<<c>>, text) = SubSeq(text, i + 1 + 1, (i + n + 2) - 1)
  <2>1. PlacesOf(<<c>> \o <<Quote>>, text) # {} /\ Min(PlacesOf(<<c>> \o <<Quote>>, text)) = i
    BY <1>1, <1>2, <1>5, <1>7
  <2>2. i + 1 + 1 = i + 2
    OBVIOUS
  <2>3. QED  BY <1>1, <1>8, <1>10, <1>14, <2>1, <2>2 DEF Quoted
<1>16. \A k \in 1..n : text[(i + 2) + k - 1] = t[k]
  <2>1. ASSUME NEW k \in 1..n PROVE text[(i + 2) + k - 1] = t[k]
    <3>1. (i + 2) + k - 1 = i + 1 + k
      OBVIOUS
    <3>2. QED  BY <1>23, <3>1
  <2>2. QED  BY <2>1
<1>17. SubSeq(text, i + 2, (i + 2) + n - 1) = t
  <2>1. PICK j \in Nat : j = i + 2 /\ j >= 1 /\ j + n - 1 <= m
    BY <1>21
  <2>2. LiesAt(j, t, text, n)
    BY <1>16, <1>20, <1>21, <2>1 DEF LiesAt
  <2>3. SubSeq(text, j, j + n - 1) = t
    BY <2>2, SubSeqElements
  <2>4. QED  BY <2>1, <2>3
<1>18. i + 1 + 1 = i + 2 /\ (i + n + 2) - 1 = (i + 2) + n - 1
  OBVIOUS
<1>19. QED  BY <1>15, <1>17, <1>18

LEMMA QuotedAbsent ==
    ASSUME NEW c \in Nat, NEW text \in String, NEW m \in Nat, m = Len(text),
           \A k \in 1..m : text[k] # c
    PROVE  Quoted(<<c>>, text) = <<>>
<1>1. PICK both : both = <<c>> \o <<Quote>>
  OBVIOUS
<1>2. Len(both) = 2 /\ both[1] = c
  BY <1>1
<1>3. ASSUME NEW k \in PlacesOf(both, text) PROVE FALSE
  <2>1. k \in 1..(m + 1 - 2) /\ \A j \in 1..2 : text[k + j - 1] = both[j]
    BY <1>2, <1>3 DEF PlacesOf
  <2>2. text[k] = c /\ k \in 1..m
    BY <1>2, <2>1
  <2>3. QED  BY <2>2
<1>4. QED  BY <1>1, <1>3 DEF Quoted

-----------------------------------------------------------------------------
(* The header of a part.                                                   *)

IsQuoted(q, c, t, n) ==
    /\ q \in String /\ Len(q) = n + 3
    /\ q[1] = c /\ q[2] = Quote /\ q[n + 3] = Quote
    /\ \A k \in 1..n : q[2 + k] = t[k]

LEMMA QuotedText ==
    ASSUME NEW c \in Nat, NEW t \in String, NEW n \in Nat, n = Len(t)
    PROVE  IsQuoted(<<c>> \o <<Quote>> \o t \o <<Quote>>, c, t, n)
<1>1. PICK a \in String, b \in String : a = <<c>> /\ b = <<Quote>>
  <2>1. <<c>> \in String
    BY DEF String
  <2>2. QED  BY <2>1, Strings
<1>2. Len(a) = 1 /\ Len(b) = 1 /\ a[1] = c /\ b[1] = Quote
  BY <1>1
<1>3. IsConcat(a \o b, a, b, 1, 1)
  BY <1>2, ConcatElements
<1>4. PICK u : u = a \o b /\ IsConcat(u, a, b, 1, 1)
  BY <1>3
<1>5. u \in String /\ Len(u) = 2 /\ u[1] = c /\ u[2] = Quote
  <2>1. 1 + 1 = 2 /\ 1 \in 1..1
    OBVIOUS
  <2>2. QED  BY <1>2, <1>4, <2>1 DEF IsConcat
<1>6. IsConcat(u \o t, u, t, 2, n)
  BY <1>5, ConcatElements
<1>7. PICK v \in String : /\ v = u \o t /\ Len(v) = 2 + n
                         /\ (\A k \in 1..2 : v[k] = u[k])
                         /\ \A k \in 1..n : v[2 + k] = t[k]
  BY <1>6 DEF IsConcat
<1>8. IsConcat(v \o b, v, b, 2 + n, 1)
  <2>1. 2 + n \in Nat /\ 1 \in Nat
    OBVIOUS
  <2>2. QED  BY <1>2, <1>7, <2>1, ConcatElements
<1>9. PICK w \in String : /\ w = v \o b /\ Len(w) = (2 + n) + 1
                         /\ (\A k \in 1..2 + n : w[k] = v[k])
                         /\ \A k \in 1..1 : w[(2 + n) + k] = b[k]
  BY <1>8 DEF IsConcat
<1>10. w[n + 3] = Quote
  <2>1. (2 + n) + 1 = n + 3 /\ 1 \in 1..1
    OBVIOUS
  <2>2. QED  BY <1>2, <1>9, <2>1
<1>11. w[1] = c /\ w[2] = Quote
  <2>1. 1 \in 1..2 /\ 2 \in 1..2 /\ 1 \in 1..2 + n /\ 2 \in 1..2 + n
    OBVIOUS
  <2>2. QED  BY <1>5, <1>7, <1>9, <2>1
<1>12. ASSUME NEW k \in 1..n PROVE w[2 + k] = t[k]
  <2>1. 2 + k \in 1..2 + n
    OBVIOUS
  <2>2. QED  BY <1>7, <1>9, <2>1
<1>13. Len(w) = n + 3
  BY <1>9
<1>14. QED  BY <1>1, <1>4, <1>7, <1>9, <1>10, <1>11, <1>12, <1>13 DEF IsQuoted

\* A byte that ends neither a quote nor a line.
Inner == (0..255) \ {34, 13, 10}

\* A header after a line end: a, its name; f, its file name, when it has one.
IsHead(w, a, name, f, filename) ==
    /\ w \in String
    /\ Len(w) = IF f = 0 THEN a + 5 ELSE a + f + 8
    /\ w[1] = 13 /\ w[2] = 10
    /\ \A k \in 3..Len(w) : w[k] \notin {13, 10}
    /\ \A k \in 1..Len(w) : w[k] = 1001 <=> k = 3
    /\ w[4] = 34 /\ w[a + 5] = 34
    /\ \A k \in 1..a : w[4 + k] = name[k]
    /\ \A k \in 1..Len(w) : w[k] = 1002 <=> f # 0 /\ k = a + 6
    /\ f # 0 => /\ w[a + 7] = 34 /\ w[a + f + 8] = 34
                /\ \A k \in 1..f : w[a + 7 + k] = filename[k]

\* The same before the file name.
IsName(v, a, name) ==
    /\ v \in String /\ Len(v) = a + 5
    /\ v[1] = 13 /\ v[2] = 10 /\ v[3] = 1001 /\ v[4] = 34 /\ v[a + 5] = 34
    /\ \A k \in 1..a : v[4 + k] = name[k]
    /\ \A k \in 4..a + 5 : v[k] \in 0..255 /\ v[k] # 13 /\ v[k] # 10

LEMMA NameElements ==
    ASSUME NEW name \in String, NEW a \in Nat, Len(name) = a, \A k \in 1..a : name[k] \in Inner,
           NEW q, IsQuoted(q, 1001, name, a)
    PROVE  IsName(LineEnd \o q, a, name)
<1>1. PICK e \in String : e = LineEnd
  BY Strings
<1>2. Len(e) = 2 /\ e[1] = 13 /\ e[2] = 10
  BY <1>1 DEF LineEnd
<1>3. IsConcat(e \o q, e, q, 2, a + 3)
  <2>1. q \in String /\ Len(q) = a + 3 /\ a + 3 \in Nat
    BY DEF IsQuoted
  <2>2. QED  BY <1>2, <2>1, ConcatElements
<1>4. PICK v \in String :
          /\ v = e \o q /\ Len(v) = 2 + (a + 3)
          /\ \A k \in 1..2 : v[k] = e[k]
          /\ \A k \in 1..a + 3 : v[2 + k] = q[k]
  BY <1>3 DEF IsConcat
<1>5. Len(v) = a + 5 /\ v[1] = 13 /\ v[2] = 10
  BY <1>2, <1>4
<1>6. v[3] = 1001 /\ v[4] = 34
  <2>1. 1 \in 1..a + 3 /\ 2 \in 1..a + 3 /\ 2 + 1 = 3 /\ 2 + 2 = 4
    OBVIOUS
  <2>2. v[3] = q[1] /\ v[4] = q[2]
    BY <1>4, <2>1
  <2>3. QED  BY <2>2 DEF IsQuoted, Quote
<1>7. v[a + 5] = 34
  <2>1. a + 3 \in 1..a + 3 /\ 2 + (a + 3) = a + 5
    OBVIOUS
  <2>2. v[a + 5] = q[a + 3]
    BY <1>4, <2>1
  <2>3. QED  BY <2>2 DEF IsQuoted, Quote
<1>8. ASSUME NEW k \in 1..a PROVE v[4 + k] = name[k]
  <2>1. 2 + k \in 1..a + 3 /\ 2 + (2 + k) = 4 + k
    OBVIOUS
  <2>2. v[4 + k] = q[2 + k]
    BY <1>4, <2>1
  <2>3. QED  BY <2>2 DEF IsQuoted
<1>9. ASSUME NEW k \in 4..a + 5 PROVE v[k] \in 0..255 /\ v[k] # 13 /\ v[k] # 10
  <2>1. CASE k = 4 \/ k = a + 5
    <3>1. v[k] = 34
      BY <1>6, <1>7, <2>1
    <3>2. QED  BY <3>1
  <2>2. CASE k # 4 /\ k # a + 5
    <3>1. k - 4 \in 1..a /\ 4 + (k - 4) = k
      BY <2>2
    <3>2. v[k] = name[k - 4]
      BY <1>8, <3>1
    <3>3. QED  BY <3>1, <3>2 DEF Inner
  <2>3. QED  BY <2>1, <2>2
<1>10. IsName(v, a, name)
  BY <1>5, <1>6, <1>7, <1>8, <1>9 DEF IsName
<1>11. QED  BY <1>1, <1>4, <1>10

LEMMA HeadWithName ==
    ASSUME NEW a \in Nat, NEW name, NEW filename, NEW w, IsName(w, a, name)
    PROVE  IsHead(w, a, name, 0, filename)
<1>1. ASSUME NEW k \in 1..a + 5
      PROVE  /\ k >= 3 => w[k] # 13 /\ w[k] # 10
             /\ w[k] = 1001 <=> k = 3
             /\ w[k] # 1002
  <2>1. CASE k = 1 \/ k = 2
    <3>1. w[k] = 13 \/ w[k] = 10
      BY <2>1 DEF IsName
    <3>2. QED  BY <2>1, <3>1
  <2>2. CASE k = 3
    <3>1. w[k] = 1001
      BY <2>2 DEF IsName
    <3>2. QED  BY <2>2, <3>1
  <2>3. CASE k \in 4..a + 5
    <3>1. w[k] \in 0..255 /\ w[k] # 13 /\ w[k] # 10
      BY <2>3 DEF IsName
    <3>2. QED  BY <2>3, <3>1
  <2>4. QED  BY <2>1, <2>2, <2>3
<1>2. \A k \in 3..a + 5 : w[k] # 13 /\ w[k] # 10
  BY <1>1
<1>3. QED  BY <1>1, <1>2 DEF IsName, IsHead

LEMMA HeadWithFilename ==
    ASSUME NEW a \in Nat, NEW name, NEW v, IsName(v, a, name),
           NEW filename \in String, NEW f \in Nat \ {0}, Len(filename) = f,
           \A k \in 1..f : filename[k] \in Inner,
           NEW p, IsQuoted(p, 1002, filename, f)
    PROVE  IsHead(v \o p, a, name, f, filename)
<1>1. IsConcat(v \o p, v, p, a + 5, f + 3)
  <2>1. p \in String /\ Len(p) = f + 3 /\ f + 3 \in Nat
    BY DEF IsQuoted
  <2>2. v \in String /\ Len(v) = a + 5 /\ a + 5 \in Nat
    BY DEF IsName
  <2>3. QED  BY <2>1, <2>2, ConcatElements
<1>2. PICK w \in String :
         /\ w = v \o p /\ Len(w) = (a + 5) + (f + 3)
         /\ \A k \in 1..a + 5 : w[k] = v[k]
         /\ \A k \in 1..f + 3 : w[(a + 5) + k] = p[k]
  BY <1>1 DEF IsConcat
<1>3. Len(w) = a + f + 8
  BY <1>2
<1>4. w[a + 6] = 1002 /\ w[a + 7] = 34 /\ w[a + f + 8] = 34
  <2>1. /\ 1 \in 1..f + 3 /\ 2 \in 1..f + 3 /\ f + 3 \in 1..f + 3
        /\ (a + 5) + 1 = a + 6 /\ (a + 5) + 2 = a + 7 /\ (a + 5) + (f + 3) = a + f + 8
    OBVIOUS
  <2>2. w[a + 6] = p[1] /\ w[a + 7] = p[2] /\ w[a + f + 8] = p[f + 3]
    BY <1>2, <2>1
  <2>3. QED  BY <2>2 DEF IsQuoted, Quote
<1>5. ASSUME NEW k \in 1..f PROVE w[a + 7 + k] = filename[k]
  <2>1. 2 + k \in 1..f + 3 /\ (a + 5) + (2 + k) = a + 7 + k
    OBVIOUS
  <2>2. w[a + 7 + k] = p[2 + k]
    BY <1>2, <2>1
  <2>3. QED  BY <2>2 DEF IsQuoted
<1>6. ASSUME NEW k \in a + 7..a + f + 8 PROVE w[k] \in 0..255 /\ w[k] # 13 /\ w[k] # 10
  <2>1. CASE k = a + 7 \/ k = a + f + 8
    <3>1. w[k] = 34
      BY <1>4, <2>1
    <3>2. QED  BY <3>1
  <2>2. CASE k # a + 7 /\ k # a + f + 8
    <3>1. k - (a + 7) \in 1..f /\ a + 7 + (k - (a + 7)) = k
      BY <2>2
    <3>2. w[k] = filename[k - (a + 7)]
      BY <1>5, <3>1
    <3>3. QED  BY <3>1, <3>2 DEF Inner
  <2>3. QED  BY <2>1, <2>2
<1>7. /\ w[1] = 13 /\ w[2] = 10 /\ w[3] = 1001 /\ w[4] = 34 /\ w[a + 5] = 34
      /\ \A k \in 1..a : w[4 + k] = name[k]
      /\ \A k \in 4..a + 5 : w[k] \in 0..255 /\ w[k] # 13 /\ w[k] # 10
  <2>1. 1 \in 1..a + 5 /\ 2 \in 1..a + 5 /\ 3 \in 1..a + 5 /\ 4 \in 1..a + 5 /\ a + 5 \in 1..a + 5
    OBVIOUS
  <2>2. \A k \in 1..a : 4 + k \in 1..a + 5
    OBVIOUS
  <2>3. \A k \in 4..a + 5 : k \in 1..a + 5
    OBVIOUS
  <2>4. QED  BY <1>2, <2>1, <2>2, <2>3 DEF IsName
<1>8. ASSUME NEW k \in 1..a + f + 8
      PROVE  /\ k >= 3 => w[k] # 13 /\ w[k] # 10
             /\ w[k] = 1001 <=> k = 3
             /\ w[k] = 1002 <=> k = a + 6
  <2>1. CASE k = 1 \/ k = 2
    <3>1. w[k] = 13 \/ w[k] = 10
      BY <1>7, <2>1
    <3>2. QED  BY <2>1, <3>1
  <2>2. CASE k = 3
    <3>1. w[k] = 1001
      BY <1>7, <2>2
    <3>2. QED  BY <2>2, <3>1
  <2>3. CASE k = a + 6
    <3>1. w[k] = 1002
      BY <1>4, <2>3
    <3>2. QED  BY <2>3, <3>1
  <2>4. CASE k \in 4..a + 5 \/ k \in a + 7..a + f + 8
    <3>1. w[k] \in 0..255 /\ w[k] # 13 /\ w[k] # 10
      BY <1>6, <1>7, <2>4
    <3>2. k # 3 /\ k # a + 6
      BY <2>4
    <3>3. w[k] # 1001 /\ w[k] # 1002
      <4>1. PICK y \in 0..255 : w[k] = y
        BY <3>1
      <4>2. QED  BY <4>1
    <3>4. QED  BY <3>1, <3>2, <3>3
  <2>5. QED  BY <2>1, <2>2, <2>3, <2>4
<1>9. \A k \in 3..a + f + 8 : w[k] # 13 /\ w[k] # 10
  BY <1>8
<1>12. IsHead(w, a, name, f, filename)
  BY <1>3, <1>4, <1>5, <1>7, <1>8, <1>9 DEF IsHead
<1>13. QED  BY <1>2, <1>12

\* What Header makes of a name and a file name.
LEMMA HeadElements ==
    ASSUME NEW name \in String, NEW filename \in String, NEW a \in Nat, NEW f \in Nat,
           Len(name) = a, Len(filename) = f,
           \A k \in 1..a : name[k] \in Inner, \A k \in 1..f : filename[k] \in Inner,
           NEW h, h = Disposition \o <<Quote>> \o name \o <<Quote>>
                      \o (IF filename = <<>> THEN <<>>
                          ELSE FilenameIs \o <<Quote>> \o filename \o <<Quote>>)
    PROVE  IsHead(LineEnd \o h, a, name, f, filename)
<1>1. PICK q : q = Disposition \o <<Quote>> \o name \o <<Quote>>
  OBVIOUS
<1>2. IsQuoted(q, 1001, name, a)
  BY <1>1, QuotedText DEF Disposition
<1>3. IsName(LineEnd \o q, a, name)
  BY <1>2, NameElements
<1>4. CASE f = 0
  <2>1. filename = <<>>
    BY <1>4, EmptySeq DEF String
  <2>2. h = q \o <<>>
    BY <1>1, <2>1, Zenon
  <2>3. q \o <<>> = q
    BY <1>2, ConcatEmptySeq DEF IsQuoted, String
  <2>4. IsHead(LineEnd \o q, a, name, 0, filename)
    BY <1>3, HeadWithName
  <2>5. QED  BY <1>4, <2>2, <2>3, <2>4
<1>5. CASE f # 0
  <2>1. filename # <<>>
    BY <1>5
  <2>2. PICK p : p = FilenameIs \o <<Quote>> \o filename \o <<Quote>>
    OBVIOUS
  <2>3. IsQuoted(p, 1002, filename, f)
    BY <2>2, QuotedText DEF FilenameIs
  <2>4. h = q \o p
    BY <1>1, <2>1, <2>2, Zenon
  <2>5. Joins(LineEnd, q, p)
    BY <1>2, <2>3, Strings, JoinStrings DEF IsQuoted
  <2>6. LineEnd \o h = (LineEnd \o q) \o p
    BY <2>4, <2>5, Zenon DEF Joins
  <2>7. IsHead((LineEnd \o q) \o p, a, name, f, filename)
    BY <1>3, <1>5, <2>3, HeadWithFilename
  <2>8. QED  BY <2>6, <2>7
<1>6. QED  BY <1>4, <1>5

\* And what is found of them.
LEMMA HeadDecoded ==
    ASSUME NEW name \in String, NEW filename \in String, NEW a \in Nat, NEW f \in Nat,
           Len(name) = a, Len(filename) = f,
           \A k \in 1..a : name[k] \in Inner, \A k \in 1..f : filename[k] \in Inner,
           NEW w, IsHead(w, a, name, f, filename)
    PROVE  Quoted(Disposition, w) = name /\ Quoted(FilenameIs, w) = filename
<1>1. PICK n \in Nat : n = Len(w) /\ n = IF f = 0 THEN a + 5 ELSE a + f + 8
  BY DEF IsHead
<1>2. w \in String
  BY DEF IsHead
<1>3. Quoted(<<1001>>, w) = name
  <2>1. \A k \in 1..n : w[k] = 1001 <=> k = 3
    BY <1>1 DEF IsHead
  <2>2. w[3 + 1] = Quote /\ w[3 + a + 2] = Quote
    <3>1. 3 + 1 = 4 /\ 3 + a + 2 = a + 5
      OBVIOUS
    <3>2. QED  BY <3>1 DEF IsHead, Quote
  <2>3. ASSUME NEW k \in 1..a PROVE w[3 + 1 + k] = name[k] /\ name[k] # Quote
    <3>1. 3 + 1 + k = 4 + k
      OBVIOUS
    <3>2. w[4 + k] = name[k]
      BY DEF IsHead
    <3>3. name[k] # Quote
      BY DEF Inner, Quote
    <3>4. QED  BY <3>1, <3>2, <3>3
  <2>4. 3 + a + 2 <= n
    BY <1>1
  <2>5. QuotedAt(3, 1001, name, w, a)
    BY <1>1, <2>1, <2>2, <2>3, <2>4 DEF QuotedAt
  <2>6. QED  BY <1>2, <2>5, QuotedFound
<1>4. Quoted(<<1002>>, w) = filename
  <2>1. CASE f = 0
    <3>1. \A k \in 1..n : w[k] # 1002
      BY <1>1, <2>1 DEF IsHead
    <3>2. filename = <<>>
      BY <2>1, EmptySeq DEF String
    <3>4. n = Len(w)
      BY <1>1
    <3>5. Quoted(<<1002>>, w) = <<>>
      BY <1>2, <3>1, <3>4, QuotedAbsent
    <3>6. QED  BY <3>2, <3>5
  <2>2. CASE f # 0
    <3>1. PICK i \in Nat : i = a + 6
      OBVIOUS
    <3>2. \A k \in 1..n : w[k] = 1002 <=> k = i
      BY <1>1, <2>2, <3>1 DEF IsHead
    <3>3. w[i + 1] = Quote /\ w[i + f + 2] = Quote
      <4>1. i + 1 = a + 7 /\ i + f + 2 = a + f + 8
        BY <3>1
      <4>2. w[a + 7] = 34 /\ w[a + f + 8] = 34
        BY <2>2 DEF IsHead
      <4>3. QED  BY <4>1, <4>2 DEF Quote
    <3>4. ASSUME NEW k \in 1..f PROVE w[i + 1 + k] = filename[k] /\ filename[k] # Quote
      <4>1. i + 1 + k = a + 7 + k
        BY <3>1
      <4>2. w[a + 7 + k] = filename[k]
        BY <2>2 DEF IsHead
      <4>3. filename[k] # Quote
        BY DEF Inner, Quote
      <4>4. QED  BY <4>1, <4>2, <4>3
    <3>5. i + f + 2 <= n /\ i >= 1
      BY <1>1, <2>2, <3>1
    <3>6. QuotedAt(i, 1002, filename, w, f)
      BY <1>1, <3>2, <3>3, <3>4, <3>5 DEF QuotedAt
    <3>7. QED  BY <1>2, <3>6, QuotedFound
  <2>3. QED  BY <2>1, <2>2
<1>5. QED  BY <1>3, <1>4 DEF Disposition, FilenameIs

-----------------------------------------------------------------------------
(* A part without its delimiter: a head, an empty line and the data.       *)

IsPiece(p, w, n, x, m) ==
    /\ p \in String /\ Len(p) = n + 4 + m /\ Len(x) = m
    /\ \A k \in 1..n : p[k] = w[k]
    /\ p[n + 1] = 13 /\ p[n + 2] = 10 /\ p[n + 3] = 13 /\ p[n + 4] = 10
    /\ \A k \in 1..m : p[n + 4 + k] = x[k]

LEMMA PieceElements ==
    ASSUME NEW w \in String, NEW x \in String, NEW n \in Nat, NEW m \in Nat,
           Len(w) = n, Len(x) = m
    PROVE  IsPiece(w \o LineEnd \o LineEnd \o x, w, n, x, m)
<1>1. PICK e \in String : e = LineEnd
  BY Strings
<1>2. Len(e) = 2 /\ e[1] = 13 /\ e[2] = 10
  BY <1>1 DEF LineEnd
<1>3. IsConcat(w \o e, w, e, n, 2)
  BY <1>2, ConcatElements
<1>4. PICK u \in String : u = w \o e /\ Len(u) = n + 2
                        /\ (\A k \in 1..n : u[k] = w[k]) /\ \A k \in 1..2 : u[n + k] = e[k]
  BY <1>3 DEF IsConcat
<1>5. IsConcat(u \o e, u, e, n + 2, 2)
  <2>1. n + 2 \in Nat
    OBVIOUS
  <2>2. QED  BY <1>2, <1>4, <2>1, ConcatElements
<1>6. PICK v \in String : v = u \o e /\ Len(v) = (n + 2) + 2
                        /\ (\A k \in 1..n + 2 : v[k] = u[k])
                        /\ \A k \in 1..2 : v[(n + 2) + k] = e[k]
  BY <1>5 DEF IsConcat
<1>7. IsConcat(v \o x, v, x, n + 4, m)
  <2>1. n + 4 \in Nat /\ (n + 2) + 2 = n + 4
    OBVIOUS
  <2>2. QED  BY <1>6, <2>1, ConcatElements
<1>8. PICK p \in String : p = v \o x /\ Len(p) = (n + 4) + m
                        /\ (\A k \in 1..n + 4 : p[k] = v[k])
                        /\ \A k \in 1..m : p[(n + 4) + k] = x[k]
  BY <1>7 DEF IsConcat
<1>9. 1 \in 1..2 /\ 2 \in 1..2
  OBVIOUS
<1>10. u[n + 1] = 13 /\ u[n + 2] = 10
  BY <1>2, <1>4, <1>9
<1>11. v[n + 3] = 13 /\ v[n + 4] = 10
  <2>1. (n + 2) + 1 = n + 3 /\ (n + 2) + 2 = n + 4
    OBVIOUS
  <2>2. QED  BY <1>2, <1>6, <1>9, <2>1
<1>12. v[n + 1] = 13 /\ v[n + 2] = 10
  <2>1. n + 1 \in 1..n + 2 /\ n + 2 \in 1..n + 2
    OBVIOUS
  <2>2. QED  BY <1>6, <1>10, <2>1
<1>13. p[n + 1] = 13 /\ p[n + 2] = 10 /\ p[n + 3] = 13 /\ p[n + 4] = 10
  BY <1>8, <1>11, <1>12
<1>14. ASSUME NEW k \in 1..n PROVE p[k] = w[k]
  <2>1. k \in 1..n + 2 /\ k \in 1..n + 4
    OBVIOUS
  <2>2. QED  BY <1>4, <1>6, <1>8, <2>1
<1>15. IsPiece(p, w, n, x, m)
  BY <1>8, <1>13, <1>14 DEF IsPiece
<1>16. QED  BY <1>1, <1>4, <1>6, <1>8, <1>15

\* What a piece needs of its head.
IsHeadText(w, n) ==
    /\ w \in String /\ Len(w) = n /\ n >= 5
    /\ w[2] = 10 /\ w[3] = 1001
    /\ \A k \in 3..n : w[k] # 13

LEMMA HeadIsText ==
    ASSUME NEW w, NEW a \in Nat, NEW f \in Nat, NEW name, NEW filename,
           IsHead(w, a, name, f, filename)
    PROVE  IsHeadText(w, Len(w)) /\ Len(w) \in Nat
<1>1. PICK n \in Nat : n = Len(w) /\ n >= 5
  BY DEF IsHead
<1>2. \A k \in 3..n : w[k] # 13
  BY <1>1 DEF IsHead
<1>3. w[3] = 1001
  BY <1>1 DEF IsHead
<1>4. QED  BY <1>1, <1>2, <1>3 DEF IsHead, IsHeadText

LEMMA PieceDecoded ==
    ASSUME NEW n \in Nat, NEW m \in Nat, NEW w, IsHeadText(w, n), NEW x \in String,
           NEW p, IsPiece(p, w, n, x, m)
    PROVE  DecodedPart(p) = [key |-> Quoted(Disposition, w), data |-> x,
                             filename |-> Quoted(FilenameIs, w)]
<1>1. PICK ee : ee = LineEnd \o LineEnd
  OBVIOUS
<1>2. Len(ee) = 4 /\ ee[1] = 13 /\ ee[2] = 10 /\ ee[3] = 13 /\ ee[4] = 10
  BY <1>1 DEF LineEnd
<1>3. Len(p) = n + 4 + m /\ p \in String
  BY DEF IsPiece
<1>4. n + 1 \in PlacesOf(ee, p)
  <2>1. n + 1 \in 1..((n + 4 + m) + 1 - 4)
    OBVIOUS
  <2>2. ASSUME NEW j \in 1..4 PROVE p[(n + 1) + j - 1] = ee[j]
    <3>1. j = 1 \/ j = 2 \/ j = 3 \/ j = 4
      OBVIOUS
    <3>2. (n + 1) + j - 1 = n + j
      OBVIOUS
    <3>3. p[n + j] = ee[j]
      BY <1>2, <3>1 DEF IsPiece
    <3>4. QED  BY <3>2, <3>3
  <2>3. QED  BY <1>2, <1>3, <2>1, <2>2 DEF PlacesOf
<1>5. ASSUME NEW i \in PlacesOf(ee, p) PROVE n + 1 <= i
  <2>1. i \in 1..((n + 4 + m) + 1 - 4) /\ \A j \in 1..4 : p[i + j - 1] = ee[j]
    BY <1>2, <1>3, <1>5 DEF PlacesOf
  <2>2. 1 \in 1..4 /\ 3 \in 1..4 /\ i + 1 - 1 = i /\ i + 3 - 1 = i + 2
    BY <2>1
  <2>3. p[i] = 13 /\ p[i + 2] = 13
    BY <1>2, <2>1, <2>2
  <2>4. CASE i = 1
    <3>1. p[3] = 1001
      BY DEF IsPiece, IsHeadText
    <3>2. QED  BY <2>3, <2>4, <3>1
  <2>5. CASE i = 2
    <3>1. p[2] = 10
      BY DEF IsPiece, IsHeadText
    <3>2. QED  BY <2>3, <2>5, <3>1
  <2>6. CASE i \in 3..n
    <3>1. p[i] = w[i] /\ w[i] # 13
      BY <2>6 DEF IsPiece, IsHeadText
    <3>2. QED  BY <2>3, <3>1
  <2>7. QED  BY <2>1, <2>4, <2>5, <2>6
<1>6. Min(PlacesOf(ee, p)) = n + 1
  <2>1. PlacesOf(ee, p) \in SUBSET Nat
    BY DEF PlacesOf
  <2>2. QED  BY <1>4, <1>5, <2>1, LeastOf
<1>7. SubSeq(p, 1, (n + 1) - 1) = w
  <2>1. \A k \in 1..n : p[1 + k - 1] = w[k]
    BY DEF IsPiece
  <2>2. PICK i \in Nat, z \in Nat : i = 1 /\ z = (n + 1) - 1 /\ z = i + n - 1
    OBVIOUS
  <2>3. LiesAt(i, w, p, n)
    BY <1>3, <2>1, <2>2 DEF LiesAt, IsHeadText
  <2>4. w \in String /\ p \in String
    BY <1>3 DEF IsHeadText
  <2>5. SubSeq(p, i, z) = w
    BY <2>2, <2>3, <2>4, SubSeqElements
  <2>6. QED  BY <2>2, <2>5
<1>8. SubSeq(p, (n + 1) + 4, Len(p)) = x
  <2>1. PICK i \in Nat : i = n + 5
    OBVIOUS
  <2>2. ASSUME NEW k \in 1..m PROVE p[i + k - 1] = x[k]
    <3>1. i + k - 1 = n + 4 + k
      BY <2>1
    <3>2. QED  BY <3>1 DEF IsPiece
  <2>3. LiesAt(i, x, p, m)
    BY <1>3, <2>1, <2>2 DEF LiesAt, IsPiece
  <2>7. p \in String
    BY <1>3
  <2>8. PICK z \in Nat : z = Len(p) /\ z = i + m - 1
    BY <1>3, <2>1
  <2>9. z = i + m - 1
    BY <2>8
  <2>4. SubSeq(p, i, z) = x
    BY <2>3, <2>7, <2>9, SubSeqElements
  <2>5. (n + 1) + 4 = i
    BY <2>1
  <2>6. QED  BY <2>4, <2>5, <2>8
<1>9. QED  BY <1>1, <1>6, <1>7, <1>8, Zenon DEF DecodedPart

LEMMA PieceUncut ==
    ASSUME NEW n \in Nat, NEW m \in Nat, NEW w, IsHeadText(w, n), NEW x \in String, Len(x) = m,
           NEW p, IsPiece(p, w, n, x, m),
           NEW d \in String, NEW l \in Nat, l = Len(d), l >= 3, d[1] = 13, d[2] = 10, d[3] = 45,
           PlacesOf(d, LineEnd \o x) = {}
    PROVE  PlacesOf(d, p) = {}
<1>1. PICK e \in String : e = LineEnd
  BY Strings
<1>2. Len(e) = 2 /\ e[1] = 13 /\ e[2] = 10
  BY <1>1 DEF LineEnd
<1>3. IsConcat(e \o x, e, x, 2, m)
  BY <1>2, ConcatElements
<1>4. PICK y \in String : y = e \o x /\ Len(y) = 2 + m
                        /\ (\A k \in 1..2 : y[k] = e[k]) /\ \A k \in 1..m : y[2 + k] = x[k]
  BY <1>3 DEF IsConcat
<1>5. Len(p) = n + 4 + m /\ p \in String
  BY DEF IsPiece
<1>6. ASSUME NEW i \in PlacesOf(d, p) PROVE FALSE
  <2>1. i \in 1..((n + 4 + m) + 1 - l) /\ \A j \in 1..l : p[i + j - 1] = d[j]
    BY <1>5, <1>6 DEF PlacesOf
  <2>2. 1 \in 1..l /\ 3 \in 1..l /\ i + 1 - 1 = i /\ i + 3 - 1 = i + 2
    BY <2>1
  <2>3. p[i] = 13 /\ p[i + 2] = 45
    BY <2>1, <2>2
  <2>4. CASE i = 1
    <3>1. p[3] = 1001
      BY DEF IsPiece, IsHeadText
    <3>2. QED  BY <2>3, <2>4, <3>1
  <2>5. CASE i = 2
    <3>1. p[2] = 10
      BY DEF IsPiece, IsHeadText
    <3>2. QED  BY <2>3, <2>5, <3>1
  <2>6. CASE i \in 3..n
    <3>1. p[i] = w[i] /\ w[i] # 13
      BY <2>6 DEF IsPiece, IsHeadText
    <3>2. QED  BY <2>3, <3>1
  <2>7. CASE i = n + 1
    <3>1. p[n + 3] = 13 /\ i + 2 = n + 3
      BY <2>7 DEF IsPiece
    <3>2. QED  BY <2>3, <3>1
  <2>8. CASE i = n + 2
    <3>1. p[n + 2] = 10
      BY DEF IsPiece
    <3>2. QED  BY <2>3, <2>8, <3>1
  <2>9. CASE i >= n + 3
    <3>1. ASSUME NEW j \in 1..m + 2 PROVE y[j] = p[n + 2 + j]
      <4>1. CASE j \in 1..2
        <5>1. j = 1 \/ j = 2
          BY <4>1
        <5>2. y[j] = e[j]
          BY <1>4, <4>1
        <5>3. p[n + 2 + 1] = 13 /\ p[n + 2 + 2] = 10
          <6>1. n + 2 + 1 = n + 3 /\ n + 2 + 2 = n + 4
            OBVIOUS
          <6>2. QED  BY <6>1 DEF IsPiece
        <5>4. QED  BY <1>2, <5>1, <5>2, <5>3
      <4>2. CASE j \notin 1..2
        <5>1. j - 2 \in 1..m /\ 2 + (j - 2) = j /\ n + 4 + (j - 2) = n + 2 + j
          BY <4>2
        <5>2. y[j] = x[j - 2]
          BY <1>4, <5>1
        <5>3. p[n + 2 + j] = x[j - 2]
          BY <5>1 DEF IsPiece
        <5>4. QED  BY <5>2, <5>3
      <4>3. QED  BY <4>1, <4>2
    <3>2. PICK k \in Nat : k = i - (n + 2) /\ k >= 1
      BY <2>1, <2>9
    <3>3. k \in 1..((2 + m) + 1 - l)
      BY <2>1, <3>2
    <3>4. ASSUME NEW j \in 1..l PROVE y[k + j - 1] = d[j]
      <4>1. k + j - 1 \in 1..m + 2 /\ n + 2 + (k + j - 1) = i + j - 1
        BY <2>1, <3>2, <3>3
      <4>2. y[k + j - 1] = p[i + j - 1]
        BY <3>1, <4>1
      <4>3. QED  BY <2>1, <4>2
    <3>5. k \in PlacesOf(d, y)
      BY <1>4, <3>3, <3>4 DEF PlacesOf
    <3>6. QED  BY <1>1, <1>4, <3>5
  <2>10. QED  BY <2>1, <2>4, <2>5, <2>6, <2>7, <2>8, <2>9
<1>7. QED  BY <1>6

LEMMA DelimiterElements ==
    ASSUME NEW boundary \in Seq(Byte \ ToSet(LineEnd)), NEW d, d = LineEnd \o Dashes \o boundary
    PROVE  /\ boundary \in String /\ d \in String /\ Delimiter(d) /\ Len(d) \in Nat /\ Len(d) >= 4
           /\ d[1] = 13 /\ d[2] = 10 /\ d[3] = 45
<1>1. PICK n \in Nat : n = Len(boundary)
  BY LenProperties
<1>2. \A k \in 1..n : boundary[k] \in Byte \ ToSet(LineEnd)
  BY <1>1
<1>3. 13 \in ToSet(LineEnd)
  <2>1. PICK e : e = LineEnd
    OBVIOUS
  <2>2. e[1] = 13 /\ 1 \in DOMAIN e
    BY <2>1 DEF LineEnd
  <2>3. QED  BY <2>1, <2>2 DEF ToSet
<1>4. \A k \in 1..n : boundary[k] \in Nat /\ boundary[k] # 13
  <2>1. \A k \in 1..n : boundary[k] \in Byte /\ boundary[k] # 13
    BY <1>2, <1>3
  <2>2. Byte \subseteq Nat
    BY DEF Byte
  <2>3. QED  BY <2>1, <2>2
<1>5. PICK b \in String : b = boundary
  <2>1. boundary = [k \in 1..n |-> boundary[k]]
    BY <1>1
  <2>2. QED  BY <1>4, <2>1 DEF String
<1>6. PICK ee \in String : ee = LineEnd \o Dashes
  BY Strings, JoinStrings DEF Joins
<1>7. Len(ee) = 4 /\ ee[1] = 13 /\ ee[2] = 10 /\ ee[3] = 45 /\ ee[4] = 45
  BY <1>6 DEF LineEnd, Dashes
<1>8. IsConcat(ee \o b, ee, b, 4, n)
  BY <1>1, <1>5, <1>7, ConcatElements
<1>9. IsConcat(d, ee, b, 4, n)
  BY <1>5, <1>6, <1>8
<1>10. /\ d \in String /\ Len(d) = 4 + n
       /\ \A k \in 1..4 : d[k] = ee[k]
       /\ \A k \in 1..n : d[4 + k] = b[k]
  BY <1>9 DEF IsConcat
<1>11. d[1] = 13 /\ d[2] = 10 /\ d[3] = 45 /\ d[4] = 45
  BY <1>7, <1>10
<1>12. ASSUME NEW j \in 1..4 + n, j # 1 PROVE d[j] # d[1]
  <2>1. CASE j \in 2..4
    <3>1. j = 2 \/ j = 3 \/ j = 4
      BY <2>1
    <3>2. d[j] = 10 \/ d[j] = 45
      BY <1>11, <3>1
    <3>3. 10 # 13 /\ 45 # 13
      OBVIOUS
    <3>4. QED  BY <1>11, <3>2, <3>3, Zenon
  <2>2. CASE j \notin 2..4
    <3>1. j - 4 \in 1..n /\ 4 + (j - 4) = j
      BY <1>12, <2>2
    <3>2. d[j] = boundary[j - 4]
      BY <1>5, <1>10, <3>1
    <3>3. QED  BY <1>4, <1>11, <3>1, <3>2
  <2>3. QED  BY <2>1, <2>2
<1>13. Delimiter(d)
  BY <1>10, <1>12 DEF Delimiter
<1>14. QED  BY <1>5, <1>10, <1>11, <1>13

LEMMA TooShort ==
    ASSUME NEW d, NEW x, Len(d) \in Nat, Len(x) \in Nat, Len(x) < Len(d)
    PROVE  PlacesOf(d, x) = {}
BY DEF PlacesOf

\* A pair that needs no escapes makes a piece that is not cut, and is found in it.
LEMMA PairPiece ==
    ASSUME NEW boundary \in Seq(Byte \ ToSet(LineEnd)), NEW pair, PlainPair(pair, boundary)
    PROVE  /\ Piece(pair) \in String
           /\ PlacesOf(LineEnd \o Dashes \o boundary, Piece(pair)) = {}
           /\ DecodedPart(Piece(pair)) = pair
<1>1. pair \in [key : Text, data : Text, filename : Text]
  BY DEF PlainPair
<1>2. PICK name \in String, filename \in String, x \in String :
          name = pair.key /\ filename = pair.filename /\ x = pair.data
  BY <1>1, Strings
<1>3. PICK a \in Nat, f \in Nat, m \in Nat : a = Len(name) /\ f = Len(filename) /\ m = Len(x)
  BY LenProperties DEF String
<1>4. /\ \A k \in 1..a : name[k] \in Byte
      /\ \A k \in 1..f : filename[k] \in Byte
  BY <1>1, <1>2, <1>3 DEF Text
<1>5. IsConcat(name \o filename, name, filename, a, f)
  BY <1>3, ConcatElements
<1>6. PICK both \in String : both = name \o filename /\ Len(both) = a + f
                           /\ (\A k \in 1..a : both[k] = name[k])
                           /\ \A k \in 1..f : both[a + k] = filename[k]
  BY <1>5 DEF IsConcat
<1>7. ToSet(both) \cap {Quote, 13, 10} = {}
  BY <1>2, <1>6 DEF PlainPair
<1>8. \A k \in 1..a + f : both[k] \in ToSet(both)
  <2>1. DOMAIN both = 1..a + f
    BY <1>6 DEF String
  <2>2. QED  BY <2>1 DEF ToSet
<1>9. \A k \in 1..a : name[k] \in Inner
  <2>1. \A k \in 1..a : k \in 1..a + f
    OBVIOUS
  <2>2. \A k \in 1..a : name[k] \notin {Quote, 13, 10}
    BY <1>6, <1>7, <1>8, <2>1
  <2>3. QED  BY <1>4, <2>2 DEF Inner, Quote, Byte
<1>10. \A k \in 1..f : filename[k] \in Inner
  <2>1. \A k \in 1..f : a + k \in 1..a + f
    OBVIOUS
  <2>2. \A k \in 1..f : filename[k] \notin {Quote, 13, 10}
    BY <1>6, <1>7, <1>8, <2>1
  <2>3. QED  BY <1>4, <2>2 DEF Inner, Quote, Byte
<1>11. PICK h : h = Header(pair)
  OBVIOUS
<1>12. h = Disposition \o <<Quote>> \o name \o <<Quote>>
           \o (IF filename = <<>> THEN <<>>
               ELSE FilenameIs \o <<Quote>> \o filename \o <<Quote>>)
  BY <1>2, <1>11 DEF Header
<1>13. IsHead(LineEnd \o h, a, name, f, filename)
  BY <1>3, <1>9, <1>10, <1>12, HeadElements
<1>14. PICK w : w = LineEnd \o h
  OBVIOUS
<1>15. PICK n \in Nat : n = Len(w) /\ IsHeadText(w, n)
  BY <1>13, <1>14, HeadIsText
<1>16. w \in String /\ Len(w) = n
  BY <1>15 DEF IsHeadText
<1>17. IsPiece(w \o LineEnd \o LineEnd \o x, w, n, x, m)
  BY <1>3, <1>16, PieceElements
<1>18. PICK p : p = Piece(pair)
  OBVIOUS
<1>19. p = w \o LineEnd \o LineEnd \o x
  BY <1>2, <1>11, <1>14, <1>18 DEF Piece
<1>20. IsPiece(p, w, n, x, m)
  BY <1>17, <1>19
<1>21. DecodedPart(p) = [key |-> name, data |-> x, filename |-> filename]
  <2>1. DecodedPart(p) = [key |-> Quoted(Disposition, w), data |-> x,
                          filename |-> Quoted(FilenameIs, w)]
    BY <1>15, <1>20, PieceDecoded
  <2>2. Quoted(Disposition, w) = name /\ Quoted(FilenameIs, w) = filename
    <3>1. IsHead(w, a, name, f, filename) /\ Len(name) = a /\ Len(filename) = f
      BY <1>3, <1>13, <1>14
    <3>2. QED  BY <1>9, <1>10, <3>1, HeadDecoded
  <2>3. QED  BY <2>1, <2>2
<1>22. PICK d : d = LineEnd \o Dashes \o boundary
  OBVIOUS
<1>23. PlacesOf(d, p) = {}
  <2>1. PlacesOf(d, LineEnd \o x) = {}
    BY <1>2, <1>22 DEF PlainPair
  <2>2. d \in String /\ d[1] = 13 /\ d[2] = 10 /\ d[3] = 45
    BY <1>22, DelimiterElements
  <2>4. Len(d) \in Nat /\ Len(d) >= 4
    BY <1>22, DelimiterElements
  <2>5. PICK l \in Nat : l = Len(d) /\ l >= 3
    BY <2>4
  <2>6. Len(x) = m
    BY <1>3
  <2>7. IsHeadText(w, n)
    BY <1>15
  <2>3. QED  BY <1>20, <2>1, <2>2, <2>5, <2>6, <2>7, PieceUncut
<1>24. QED  BY <1>1, <1>2, <1>18, <1>20, <1>21, <1>22, <1>23 DEF IsPiece

-----------------------------------------------------------------------------
(* The whole message.                                                      *)

Pieces(form) == [k \in 1..Len(form) + 1 |-> IF k = 1 THEN <<>> ELSE Piece(form[k - 1])]

LEMMA PiecesEmpty == Pieces(<<>>) = Append(<<>>, <<>>)
<1>1. Len(<<>>) + 1 = 1 /\ Append(<<>>, <<>>) = <<<<>>>>
  OBVIOUS
<1>2. Pieces(<<>>) = [k \in 1..1 |-> <<>>]
  BY <1>1 DEF Pieces
<1>3. [k \in 1..1 |-> <<>>] = <<<<>>>>
  OBVIOUS
<1>4. QED  BY <1>1, <1>2, <1>3

LEMMA PiecesProperties ==
    ASSUME NEW Pairs, \A one \in Pairs : Piece(one) \in String,
           NEW form \in Seq(Pairs), NEW pair \in Pairs
    PROVE  /\ Pieces(form) \in Seq(String) /\ Len(Pieces(form)) = Len(form) + 1
           /\ Pieces(Append(form, pair)) = Append(Pieces(form), Piece(pair))
<1>1. PICK n \in Nat : n = Len(form)
  BY LenProperties
<1>2. PICK f, x : f = Append(form, pair) /\ x = Piece(pair)
  OBVIOUS
<1>3. Len(f) = n + 1 /\ f[n + 1] = pair /\ \A k \in 1..n : f[k] = form[k]
  BY <1>1, <1>2, AppendProperties
<1>4. PICK p : p = Pieces(form)
  OBVIOUS
<1>5. p = [k \in 1..n + 1 |-> IF k = 1 THEN <<>> ELSE Piece(form[k - 1])]
  BY <1>1, <1>4 DEF Pieces
<1>6. ASSUME NEW k \in 1..n + 1 PROVE p[k] \in String
  <2>1. CASE k = 1
    BY <1>5, <2>1, Strings
  <2>2. CASE k # 1
    <3>1. k - 1 \in 1..n
      BY <2>2
    <3>2. form[k - 1] \in Pairs
      BY <1>1, <3>1
    <3>3. QED  BY <1>5, <2>2, <3>2
  <2>3. QED  BY <2>1, <2>2
<1>7. p \in Seq(String) /\ Len(p) = n + 1
  BY <1>5, <1>6
<1>8. PICK q : q = Append(p, x)
  OBVIOUS
<1>9. q \in Seq(String) /\ Len(q) = n + 2 /\ q[n + 2] = x /\ \A k \in 1..n + 1 : q[k] = p[k]
  <2>1. x \in String
    BY <1>2
  <2>2. QED  BY <1>7, <1>8, <2>1, AppendProperties
<1>10. ASSUME NEW k \in 1..n + 2 PROVE q[k] = IF k = 1 THEN <<>> ELSE Piece(f[k - 1])
  <2>1. CASE k = n + 2
    <3>1. k - 1 = n + 1 /\ k # 1
      BY <2>1
    <3>2. QED  BY <1>2, <1>3, <1>9, <2>1, <3>1
  <2>2. CASE k = 1
    BY <1>5, <1>9, <2>2
  <2>3. CASE k \in 2..n + 1
    <3>1. k - 1 \in 1..n /\ k # 1 /\ k \in 1..n + 1
      BY <2>3
    <3>2. f[k - 1] = form[k - 1]
      BY <1>3, <3>1
    <3>3. QED  BY <1>5, <1>9, <3>1, <3>2
  <2>4. QED  BY <2>1, <2>2, <2>3
<1>11. q = [k \in 1..n + 2 |-> IF k = 1 THEN <<>> ELSE Piece(f[k - 1])]
  BY <1>9, <1>10
<1>12. Pieces(f) = q
  <2>1. Len(f) + 1 = n + 2
    BY <1>3
  <2>2. QED  BY <1>11, <2>1 DEF Pieces
<1>13. QED  BY <1>1, <1>2, <1>4, <1>7, <1>8, <1>12

\* A form's message is cut into its pieces.
FormCut(form, boundary) ==
    IsCut(AfterCutting(LineEnd \o Dashes \o boundary, Beginning(form, boundary)),
          Pieces(form), <<>>)

LEMMA FrontEmpty ==
    ASSUME NEW boundary \in String
    PROVE  Beginning(<<>>, boundary) = LineEnd \o Dashes \o boundary
<1>1. Parts(<<>>, boundary) = <<>>
  BY DEF Parts, FlattenSeq
<1>2. LineEnd \o <<>> = LineEnd
  BY Strings, ConcatEmptySeq DEF String
<1>3. Joins(LineEnd, Dashes, boundary)
  BY Strings, JoinStrings
<1>4. QED  BY <1>1, <1>2, <1>3, Zenon DEF Beginning, Joins

LEMMA FrontCut ==
    ASSUME NEW boundary \in Seq(Byte \ ToSet(LineEnd)),
           NEW Pairs \in SUBSET [key : Text, data : Text, filename : Text],
           \A pair \in Pairs : PlainPair(pair, boundary)
    PROVE  \A form \in Seq(Pairs) : FormCut(form, boundary)
<1> DEFINE S == {form \in Seq(Pairs) : FormCut(form, boundary)}
<1>1. PICK d : d = LineEnd \o Dashes \o boundary
  OBVIOUS
<1>2. boundary \in String /\ d \in String /\ Delimiter(d) /\ Len(d) \in Nat /\ Len(d) >= 4
  BY <1>1, DelimiterElements
<1>3. <<>> \in S
  <2>1. AfterCutting(d, <<>>) = Uncut
    <3>1. <<>> \in String /\ 0 \in Nat
      BY Strings
    <3>2. QED  BY <3>1, AfterCuttingProperties DEF String
  <2>2. IsCut(AfterCutting(d, <<>>), <<>>, <<>>)
    BY <2>1 DEF IsCut, Uncut
  <2>3. PlacesOf(d, <<>>) = {}
    BY <1>2, TooShort
  <2>4. PICK empty \in String : empty = <<>>
    BY Strings
  <2>5. IsCut(AfterCutting(d, (empty \o empty) \o d), Append(<<>>, empty), <<>>)
    BY <1>2, <2>2, <2>3, <2>4, CutPiece
  <2>6. (empty \o empty) \o d = d
    BY <1>2, <2>4, ConcatEmptySeq DEF String
  <2>7. Beginning(<<>>, boundary) = d
    BY <1>1, <1>2, FrontEmpty
  <2>8. Append(<<>>, <<>>) = Pieces(<<>>)
    BY PiecesEmpty
  <2>9. FormCut(<<>>, boundary)
    BY <1>1, <2>4, <2>5, <2>6, <2>7, <2>8 DEF FormCut
  <2>10. QED  BY <2>9
<1>4. ASSUME NEW form \in Seq(Pairs), NEW pair \in Pairs, form \in S PROVE Append(form, pair) \in S
  <2>1. PICK before \in String, x \in String : before = Beginning(form, boundary) /\ x = Piece(pair)
    BY <1>2, FrontProperties, PairPiece
  <2>2. IsCut(AfterCutting(d, before), Pieces(form), <<>>)
    BY <1>1, <1>4, <2>1 DEF FormCut
  <2>3. PlacesOf(d, x) = {}
    BY <1>1, <2>1, PairPiece
  <2>4. IsCut(AfterCutting(d, (before \o x) \o d), Append(Pieces(form), x), <<>>)
    BY <1>2, <2>2, <2>3, CutPiece
  <2>5. Beginning(Append(form, pair), boundary) = (before \o x) \o d
    BY <1>1, <1>2, <2>1, FrontProperties
  <2>6. \A one \in Pairs : Piece(one) \in String
    BY PairPiece
  <2>7. Append(Pieces(form), x) = Pieces(Append(form, pair))
    BY <2>1, <2>6, PiecesProperties
  <2>8. FormCut(Append(form, pair), boundary)
    BY <1>1, <2>4, <2>5, <2>7 DEF FormCut
  <2>9. QED  BY <2>8
<1> HIDE DEF S
<1>5. Seq(Pairs) \subseteq S
  BY <1>3, <1>4, SequenceInduction
<1>6. QED  BY <1>5 DEF S

LEMMA SplitWhereCut ==
    ASSUME NEW separator, NEW text, NEW pieces, NEW rest,
           IsCut(AfterCutting(separator, text), pieces, rest)
    PROVE  SplitOn(separator, text) = Append(pieces, rest)
<1>1. PICK cut : cut = AfterCutting(separator, text)
  OBVIOUS
<1>2. cut.pieces = pieces /\ cut.rest = rest
  BY <1>1 DEF IsCut
<1>3. QED  BY <1>1, <1>2, Zenon DEF SplitOn

\* A server that cuts a multi-part message where its delimiter stands finds the
\* form, file names and any bytes of data included, as long as no name holds what
\* ends a header or a quote and no data the delimiter (Globals.cpp, which escapes
\* nothing).
THEOREM MultipartFormReadable ==
    ASSUME NEW boundary \in Seq(Byte \ ToSet(LineEnd)),
           NEW Pairs \in SUBSET [key : Text, data : Text, filename : Text],
           NEW form \in Seq(Pairs), PlainForm(form, boundary)
    PROVE  MultipartDecodedForm(multipartEncodedForm(form, boundary), boundary) = form
<1>1. PICK d : d = LineEnd \o Dashes \o boundary
  OBVIOUS
<1>2. boundary \in String /\ d \in String /\ Len(d) \in Nat /\ Len(d) >= 4 /\ d[1] = 13
  BY <1>1, DelimiterElements
<1>3. PICK e \in String, z \in String, end \in String :
          e = LineEnd /\ z = Dashes /\ end = Dashes \o LineEnd
  BY Strings
<1>4. Len(e) = 2 /\ Len(end) = 4 /\ end[1] = 45
  BY <1>3 DEF LineEnd, Dashes
<1>5. CASE form = <<>>
  <2>1. multipartEncodedForm(form, boundary) = <<>>
    BY <1>5 DEF multipartEncodedForm
  <2>2. LineEnd \o <<>> = e
    BY <1>3, ConcatEmptySeq DEF String
  <2>3. PlacesOf(d, e) = {}
    <3>1. PICK n \in Nat, l \in Nat : n = Len(e) /\ l = Len(d) /\ n = 2 /\ l >= 4
      BY <1>2, <1>4
    <3>2. n < l
      BY <3>1
    <3>3. QED  BY <3>1, <3>2, TooShort
  <2>4. PICK empty \in String : empty = <<>>
    BY Strings
  <2>5. IsCut(AfterCutting(d, empty), <<>>, <<>>)
    <3>1. AfterCutting(d, <<>>) = Uncut
      <4>1. <<>> \in String /\ 0 \in Nat
        BY Strings
      <4>2. QED  BY <4>1, AfterCuttingProperties DEF String
    <3>2. QED  BY <2>4, <3>1 DEF IsCut, Uncut
  <2>6. IsCut(AfterCutting(d, empty \o e), <<>>, e)
    BY <1>2, <2>3, <2>5, CutNothing
  <2>7. empty \o e = e
    BY <2>4, ConcatEmptySeq DEF String
  <2>8. SplitOn(d, e) = Append(<<>>, e)
    <3>1. PICK none : none = <<>>
      OBVIOUS
    <3>2. IsCut(AfterCutting(d, e), none, e)
      BY <2>6, <2>7, <3>1, Zenon
    <3>3. SplitOn(d, e) = Append(none, e)
      BY <3>2, SplitWhereCut
    <3>4. QED  BY <3>1, <3>3, Zenon
  <2>9. Last(SplitOn(d, e)) = e
    BY <2>8 DEF Last
  <2>10. e # end
    <3>1. Len(e) = 2 /\ Len(end) = 4
      BY <1>4
    <3>2. 2 # 4
      OBVIOUS
    <3>3. QED  BY <3>1, <3>2, Zenon
  <2>11. QED  BY <1>1, <1>3, <1>5, <2>1, <2>2, <2>9, <2>10, Zenon DEF MultipartDecodedForm
<1>6. CASE form # <<>>
  <2>1. PICK n \in Nat : n = Len(form)
    BY LenProperties
  <2>2. \A k \in 1..n : form[k] \in Pairs
    BY <2>1
  <2>3. \A k \in 1..n : PlainPair(form[k], boundary)
    BY <2>1, <2>2 DEF PlainForm, PlainPair
  <2>4. PICK Plains : Plains = {pair \in Pairs : PlainPair(pair, boundary)}
    OBVIOUS
  <2>5. Plains \in SUBSET [key : Text, data : Text, filename : Text]
    BY <2>4
  <2>6. form \in Seq(Plains)
    <3>1. \A k \in 1..n : form[k] \in Plains
      BY <2>2, <2>3, <2>4
    <3>2. form = [k \in 1..n |-> form[k]]
      BY <2>1
    <3>3. QED  BY <3>1, <3>2
  <2>7. FormCut(form, boundary)
    BY <2>4, <2>5, <2>6, FrontCut
  <2>8. PICK f \in String, front \in String :
            f = Parts(form, boundary) /\ front = Beginning(form, boundary)
    <3>1. 1 \in 1..n
      <4>1. n # 0
        BY <1>6, <2>1, EmptySeq
      <4>2. QED  BY <4>1
    <3>2. PICK pair \in Plains : pair = form[1]
      BY <2>2, <2>3, <2>4, <3>1
    <3>3. QED  BY <1>2, <2>5, <2>6, <3>2, FrontProperties
  <2>9. LineEnd \o multipartEncodedForm(form, boundary) = front \o end
    <3>1. PICK g \in String : g = Dashes \o boundary
      BY <1>2, <1>3, JoinStrings DEF Joins
    <3>2. multipartEncodedForm(form, boundary) = f \o g \o z \o e
      BY <1>3, <1>6, <2>8, <3>1, Zenon DEF multipartEncodedForm, Parts, Part
    <3>3. front = (e \o f) \o g
      BY <1>3, <2>8, <3>1 DEF Beginning
    <3>4. f \o g \in String /\ e \o f \in String
      BY JoinStrings DEF Joins
    <3>5. PICK fg \in String, ef \in String : fg = f \o g /\ ef = e \o f
      BY <3>4
    <3>6. fg \o z \in String
      BY JoinStrings DEF Joins
    <3>7. PICK fgz \in String : fgz = fg \o z
      BY <3>6
    <3>8. Joins(e, fgz, e) /\ Joins(e, fg, z) /\ Joins(e, f, g) /\ Joins(front, z, e)
      BY JoinStrings
    <3>9. e \o (fgz \o e) = (e \o fgz) \o e
      BY <3>8, Zenon DEF Joins
    <3>10. e \o fgz = (e \o fg) \o z
      BY <3>7, <3>8, Zenon DEF Joins
    <3>11. e \o fg = front
      BY <3>3, <3>5, <3>8, Zenon DEF Joins
    <3>12. front \o (z \o e) = (front \o z) \o e
      BY <3>8, Zenon DEF Joins
    <3>13. QED  BY <1>3, <3>2, <3>5, <3>7, <3>9, <3>10, <3>11, <3>12, Zenon
  <2>10. PlacesOf(d, end) = {}
    BY <1>2, <1>4 DEF PlacesOf
  <2>11. IsCut(AfterCutting(d, front), Pieces(form), <<>>)
    BY <1>1, <2>7, <2>8 DEF FormCut
  <2>12. IsCut(AfterCutting(d, front \o end), Pieces(form), end)
    BY <1>2, <2>10, <2>11, CutNothing
  <2>13. SplitOn(d, front \o end) = Append(Pieces(form), end)
    BY <2>12, SplitWhereCut
  <2>14. PICK p : p = Pieces(form)
    OBVIOUS
  <2>15. p \in Seq(String) /\ Len(p) = n + 1
    <3>1. \A one \in Plains : Piece(one) \in String
      BY <2>4, PairPiece
    <3>2. PICK pair \in Plains : TRUE
      <4>1. n # 0
        BY <1>6, <2>1, EmptySeq
      <4>2. 1 \in 1..n
        BY <4>1
      <4>3. QED  BY <2>2, <2>3, <2>4, <4>2
    <3>3. QED  BY <2>1, <2>6, <2>14, <3>1, <3>2, PiecesProperties
  <2>16. PICK q : q = Append(p, end)
    OBVIOUS
  <2>17. q \in Seq(String) /\ Len(q) = n + 2 /\ q[n + 2] = end /\ \A k \in 1..n + 1 : q[k] = p[k]
    BY <2>15, <2>16, AppendProperties
  <2>18. Last(q) = end
    BY <2>17 DEF Last
  <2>19. ASSUME NEW k \in 1..n PROVE DecodedPart(q[k + 1]) = form[k]
    <3>1. k + 1 \in 1..n + 1 /\ k + 1 # 1 /\ (k + 1) - 1 = k
      OBVIOUS
    <3>2. p[k + 1] = Piece(form[k])
      BY <2>1, <2>14, <3>1 DEF Pieces
    <3>3. DecodedPart(Piece(form[k])) = form[k]
      BY <2>3, PairPiece
    <3>4. QED  BY <2>17, <3>1, <3>2, <3>3
  <2>20. [k \in 1..Len(q) - 2 |-> DecodedPart(q[k + 1])] = form
    <3>1. Len(q) - 2 = n
      BY <2>17
    <3>2. form = [k \in 1..n |-> form[k]]
      BY <2>1
    <3>3. QED  BY <2>19, <3>1, <3>2
  <2>21. SplitOn(d, LineEnd \o multipartEncodedForm(form, boundary)) = q
    BY <2>9, <2>13, <2>14, <2>16
  <2>22. QED  BY <1>1, <1>3, <2>18, <2>20, <2>21, Zenon DEF MultipartDecodedForm
<1>7. QED  BY <1>5, <1>6
==============================================================================
