---------------------------- MODULE Subsequences ----------------------------
(***************************************************************************)
(* The elements of a sequence at some of its positions, in order: what a   *)
(* filter or a retain of the code keeps.  The positions are named by a set *)
(* instead of by a test, so that SubsequenceProofs can say what filtering  *)
(* does without induction over the sequence.                               *)
(***************************************************************************)
EXTENDS Integers, FiniteSets

(* How many positions of K there are up to k, and the n-th of them. *)
Rank(K, k) == Cardinality({j \in K : j <= k})
Nth(K, n)  == CHOOSE k \in K : Rank(K, k) = n

Picked(s, K) == [n \in 1..Cardinality(K) |-> s[Nth(K, n)]]
=============================================================================
