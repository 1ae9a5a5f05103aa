-------------------------------- MODULE Orders --------------------------------
(* Sets whose elements are ordered by a set of pairs, <<x, y>> when x comes  *)
(* before y.                                                                 *)
EXTENDS Integers, FiniteSets

\* The elements of S, as a sequence.
InOrder(S, Before) ==
    [k \in 1..Cardinality(S) |->
       CHOOSE x \in S : Cardinality({y \in S : <<y, x>> \in Before}) = k - 1]

\* What may be kept of S by one who keeps the n best: all of it, or n elements
\* that none of the others comes before.
Bests(S, n, Before) ==
    {L \in SUBSET S : /\ Cardinality(L) <= n
                      /\ L = S \/ Cardinality(L) = n
                      /\ \A x \in L, y \in S \ L : <<y, x>> \notin Before}

===============================================================================
