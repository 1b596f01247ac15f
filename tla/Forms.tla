--------------------------------- MODULE Forms --------------------------------
(***************************************************************************)
(* The encodings of a form (Globals.cpp) as functions from a sequence of   *)
(* pairs to a sequence of bytes, and the decoders a server would use.      *)
(* A byte is a number below 256; two numbers above stand for fixed texts.  *)
(***************************************************************************)
EXTENDS Naturals, SequencesExt

Byte == 0..255
Text == Seq(Byte)

Space == 32
Quote == 34
Percent == 37
Ampersand == 38
Plus == 43
Equals == 61
LineEnd == <<13, 10>>
Dashes == <<45, 45>>

Disposition == <<1001>>     \* Content-Disposition: form-data; name=
FilenameIs == <<1002>>      \* ; filename=

-----------------------------------------------------------------------------
(* URL encoding.                                                           *)

\* Letters, digits, and - _ . ~
Unreserved(c) == c \in (48..57) \cup (65..90) \cup (97..122) \cup {45, 95, 46, 126}

HexDigit(d) == IF d < 10 THEN 48 + d ELSE 55 + d

\* Slip: no setw(2), so a byte below 16 has one digit.
PercentEncodeUnpadded(c) ==
    IF c < 16 THEN <<Percent, HexDigit(c)>>
    ELSE <<Percent, HexDigit(c \div 16), HexDigit(c % 16)>>

\* Two upper case hexadecimal digits of the byte as an unsigned number.
PercentEncode(c) == <<Percent, HexDigit(c \div 16), HexDigit(c % 16)>>

urlEncode(text) ==
    FlattenSeq([k \in 1..Len(text) |->
                   IF Unreserved(text[k]) THEN <<text[k]>> ELSE PercentEncode(text[k])])

\* `&' comes before every pair but the first: the result is not empty after it,
\* since every pair has its `='.
urlEncodedForm(form) ==
    FlattenSeq([k \in 1..Len(form) |->
                   (IF k = 1 THEN <<>> ELSE <<Ampersand>>)
                   \o urlEncode(form[k].key) \o <<Equals>> \o urlEncode(form[k].data)])

-----------------------------------------------------------------------------
(* Multi part.                                                             *)

\* What comes before the data of a part, between two line ends.
Header(pair) ==
    Disposition \o <<Quote>> \o pair.key \o <<Quote>>
    \o (IF pair.filename = <<>> THEN <<>>
        ELSE FilenameIs \o <<Quote>> \o pair.filename \o <<Quote>>)

multipartEncodedForm(form, boundary) ==
    LET delimiter == Dashes \o boundary
        Part(pair) ==
            delimiter \o LineEnd \o Header(pair) \o LineEnd \o LineEnd \o pair.data \o LineEnd
    IN  IF form = <<>> THEN <<>>
        ELSE FlattenSeq([k \in 1..Len(form) |-> Part(form[k])])
             \o delimiter \o Dashes \o LineEnd

-----------------------------------------------------------------------------
(* JSON. nlohmann::json writes and reads texts; what it is given here is an *)
(* object that a later pair of the same name overwrites, or null when the  *)
(* form is empty.                                                          *)

jsonEncodedForm(form) ==
    [null |-> form = <<>>,
     object |-> {[key |-> form[k].key, data |-> form[k].data] :
                   k \in {i \in 1..Len(form) :
                             \A j \in i + 1..Len(form) : form[j].key # form[i].key}}]

\* dump() throws when a text is not UTF-8. Bytes above 127 stand for those.
jsonThrows(form) ==
    \E k \in 1..Len(form) : \E c \in ToSet(form[k].key \o form[k].data) : c > 127

-----------------------------------------------------------------------------
(* The other side.                                                         *)

HexValue(digit) == IF digit <= 57 THEN digit - 48 ELSE digit - 55

\* A server reads a form byte by byte: the pairs it has read, the two halves of
\* the next one, which half it is in, and an escape that has begun.
Unread == [pairs |-> <<>>, key |-> <<>>, data |-> <<>>, inData |-> FALSE, escape |-> <<>>]

Take(parser, c) ==
    IF parser.inData THEN [parser EXCEPT !.data = Append(@, c), !.escape = <<>>]
    ELSE [parser EXCEPT !.key = Append(@, c), !.escape = <<>>]

PairsRead(parser) == Append(parser.pairs, [key |-> parser.key, data |-> parser.data])

Read(parser, c) ==
    CASE Len(parser.escape) = 2 -> Take(parser, 16 * HexValue(parser.escape[2]) + HexValue(c))
      [] Len(parser.escape) = 1 -> [parser EXCEPT !.escape = <<Percent, c>>]
      [] parser.escape = <<>> /\ c = Percent -> [parser EXCEPT !.escape = <<Percent>>]
      [] parser.escape = <<>> /\ c = Equals -> [parser EXCEPT !.inData = TRUE]
      [] parser.escape = <<>> /\ c = Ampersand -> [Unread EXCEPT !.pairs = PairsRead(parser)]
      [] parser.escape = <<>> /\ c = Plus -> Take(parser, Space)
      [] OTHER -> Take(parser, c)

AfterReading(text) ==
    LET parser[n \in 0..Len(text)] ==
            IF n = 0 THEN Unread ELSE Read(parser[n - 1], text[n])
    IN  parser[Len(text)]

\* The key and the data of a pair are what a server finds of it in URL mode.
Plain(pair) == [key |-> pair.key, data |-> pair.data]

PlainPairs(form) == [k \in 1..Len(form) |-> Plain(form[k])]

UrlDecodedForm(body) == IF body = <<>> THEN <<>> ELSE PairsRead(AfterReading(body))

\* Where a text has a part, and where from a place on.
PlacesOf(part, text) ==
    {i \in 1..(Len(text) + 1 - Len(part)) : \A j \in 1..Len(part) : text[i + j - 1] = part[j]}

PlacesFrom(i, part, text) == {j \in PlacesOf(part, text) : i <= j}

\* A text is cut, byte by byte, where a separator ends.
Uncut == [pieces |-> <<>>, rest |-> <<>>]

Cut(separator, cut, c) ==
    LET rest == Append(cut.rest, c)
        n == Len(rest) - Len(separator)
    IN  IF n + 1 \in PlacesOf(separator, rest)
        THEN [pieces |-> Append(cut.pieces, SubSeq(rest, 1, n)), rest |-> <<>>]
        ELSE [pieces |-> cut.pieces, rest |-> rest]

AfterCutting(separator, text) ==
    LET cut[n \in 0..Len(text)] ==
            IF n = 0 THEN Uncut ELSE Cut(separator, cut[n - 1], text[n])
    IN  cut[Len(text)]

SplitOn(separator, text) ==
    Append(AfterCutting(separator, text).pieces, AfterCutting(separator, text).rest)

\* The text between `before' and a quote, and the next quote.
Quoted(before, text) ==
    IF PlacesOf(before \o <<Quote>>, text) = {} THEN <<>>
    ELSE LET i == Min(PlacesOf(before \o <<Quote>>, text)) + Len(before) + 1
         IN  SubSeq(text, i, Min(PlacesFrom(i, <<Quote>>, text)) - 1)

\* RFC 2046: parts lie between lines that start with the delimiter, the last of
\* which ends with two dashes.
DecodedPart(piece) ==
    LET i == Min(PlacesOf(LineEnd \o LineEnd, piece))
        head == SubSeq(piece, 1, i - 1)
    IN  [key |-> Quoted(Disposition, head),
         data |-> SubSeq(piece, i + 4, Len(piece)),
         filename |-> Quoted(FilenameIs, head)]

MultipartDecodedForm(body, boundary) ==
    LET pieces == SplitOn(LineEnd \o Dashes \o boundary, LineEnd \o body)
    IN  IF Last(pieces) # Dashes \o LineEnd THEN <<>>
        ELSE [k \in 1..Len(pieces) - 2 |-> DecodedPart(pieces[k + 1])]

\* What multipartEncodedForm takes for granted: it escapes nothing, and its
\* boundary is fixed.
PlainForm(form, boundary) ==
    \A k \in 1..Len(form) :
        /\ ToSet(form[k].key \o form[k].filename) \cap {Quote, 13, 10} = {}
        /\ PlacesOf(LineEnd \o Dashes \o boundary, LineEnd \o form[k].data) = {}
==============================================================================
