----------------------------- MODULE Selection -----------------------------
(***************************************************************************)
(* The elements of a sequence at some of its positions, in their order:    *)
(* what a loop leaves that drops the others.  It says what SelectSeq says, *)
(* by the positions instead of a test and without recursion.               *)
(***************************************************************************)
EXTENDS Integers, Sequences, FiniteSets

\* How many members of K are at or below i, and the k-th smallest of them.
Rank(K, i) == Cardinality({j \in K : j =< i})
Nth(K, k) == CHOOSE i \in K : Rank(K, i) = k

\* The elements of s at the positions K.
Selected(s, K) == [k \in 1..Cardinality(K) |-> s[Nth(K, k)]]
=============================================================================
