------------------------------ MODULE Selection ------------------------------
(***************************************************************************)
(* The values of a function, or of a sequence, at some of its indices, in  *)
(* the order of the indices.  Unlike SelectSeq it is defined without       *)
(* recursion, so that what it does can be proved.                          *)
(***************************************************************************)
EXTENDS Integers, FiniteSets

\* How many members of K are not above k.
Rank(K, k) == Cardinality({j \in K : j <= k})

\* The i-th member of K from below.
Nth(K, i) == CHOOSE k \in K : Rank(K, k) = i

InOrder(f, K) == [i \in 1 .. Cardinality(K) |-> f[Nth(K, i)]]

=============================================================================
