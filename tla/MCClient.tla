------------------------------- MODULE MCClient -------------------------------
(***************************************************************************)
(* The client on small instances.                                          *)
(***************************************************************************)
EXTENDS Client, TLC

RequestSymmetry == Permutations(Requests)
ThreadSymmetry == Permutations(IoThreads)

\* All requests go to one host, but for those whose callbacks call pending().
CuriousApart == [r \in Requests |-> IF r \in Curious THEN "elsewhere" ELSE "host"]

OneHost == [r \in Requests |-> "host"]
==============================================================================
