------------------------------ MODULE Selection ------------------------------
(***************************************************************************)
(* A loop that appends what it keeps, said of the places it keeps instead  *)
(* of recursively, so that it can be proved about.                         *)
(***************************************************************************)
EXTENDS Integers, FiniteSets

\* The elements of s at the places of keep, in the order of the places.
Selected(s, keep) ==
    LET upTo(k) == Cardinality({j \in keep : j <= k})
    IN  [n \in 1..Cardinality(keep) |-> s[CHOOSE k \in keep : upTo(k) = n]]
=============================================================================
