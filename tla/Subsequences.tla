---------------------------- MODULE Subsequences ----------------------------
(***************************************************************************)
(* What is kept of a sequence when some of its elements are dropped.       *)
(***************************************************************************)
EXTENDS Naturals, FiniteSets

(* The elements at some of the positions of a sequence, in their order.    *)
Subsequence(s, at) ==
  LET nth(k) == CHOOSE i \in at : Cardinality({j \in at : j < i}) = k - 1
  IN [k \in 1..Cardinality(at) |-> s[nth(k)]]
=============================================================================
