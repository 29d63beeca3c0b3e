-------------------------------- MODULE Lists --------------------------------
(***************************************************************************)
(* What Array.prototype.sort and filter return.  Both are defined by the   *)
(* places of the elements, without recursion and without an operator as a  *)
(* parameter, so that ListLemmas can say what they are for every list.     *)
(***************************************************************************)
EXTENDS Naturals, Sequences, FiniteSets

\* The elements of S in the order R, a set of pairs: as many of them are
\* before the i-th as are to its left.
Arranged(S, R) ==
  [i \in 1 .. Cardinality(S) |-> CHOOSE e \in S : Cardinality({d \in S : <<d, e>> \in R}) = i - 1]

\* The elements of s at the places P, in their order.
Picked(s, P) ==
  LET places == Arranged(P, {p \in P \X P : p[1] < p[2]})
  IN  [i \in 1 .. Cardinality(P) |-> s[places[i]]]
=============================================================================
