------------------------------- MODULE Lists -------------------------------
(***************************************************************************)
(* The entries of a list at chosen positions: what a loop that copies the  *)
(* entries it wants, in their order, leaves.                               *)
(***************************************************************************)
EXTENDS Integers, Sequences, FiniteSets

\* The k-th smallest of the numbers in K.
Nth(K, k) == CHOOSE i \in K : Cardinality({j \in K : j <= i}) = k

\* The entries of s at the positions in K, in their order.
Pick(s, K) == [k \in 1 .. Cardinality(K) |-> s[Nth(K, k)]]
=============================================================================
