---------------------------------- MODULE Sifting ----------------------------------
(***************************************************************************)
(* The part of a sequence at some of its places, as filter() makes it.     *)
(* Unlike SelectSeq it takes the places, so that a proof can speak of them.*)
(***************************************************************************)
EXTENDS Naturals, FiniteSets, Sequences

\* The elements of q at the places of S, in their order.
Sift(q, S) ==
  LET place(k) == CHOOSE j \in S : Cardinality({i \in S : i <= j}) = k
  IN  [k \in 1..Cardinality(S) |-> q[place(k)]]
=============================================================================
