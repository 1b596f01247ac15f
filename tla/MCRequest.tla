------------------------------- MODULE MCRequest ------------------------------
(***************************************************************************)
(* Requests on small forms whose bytes are the awkward ones.               *)
(***************************************************************************)
EXTENDS Request

\* An equals sign, a byte above 127, a file name; an ampersand, a percent sign
\* before two digits; no name, a line end and the beginning of the delimiter.
AwkwardPairs == {
    [key |-> <<97>>, data |-> <<61, 200>>, filename |-> <<98>>],
    [key |-> <<38, 61>>, data |-> <<37, 50, 54>>, filename |-> <<>>],
    [key |-> <<>>, data |-> <<13, 10, 45, 45>>, filename |-> <<>>]}

TextPairs == {[key |-> <<97>>, data |-> d, filename |-> <<>>] : d \in {<<97>>, <<98>>}}

AwkwardQuery == {[key |-> <<38>>, data |-> <<10>>], [key |-> <<98>>, data |-> <<43, 32>>]}

OneRawBody == {[data |-> <<97, 61>>, type |-> "text/plain"]}

ShortBoundary == <<45, 45, 98>>
==============================================================================
