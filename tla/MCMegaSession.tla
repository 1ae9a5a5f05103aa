---------------------------- MODULE MCMegaSession ----------------------------
(* MegaSession for TLC: searches and ordinary requests are model values.   *)
EXTENDS SessionRefinement, TLC

CONSTANTS s1, s2, p1

TwoSearches == {s1, s2}
OneSearch == {s1}
OnePlain == {p1}
NoPlain == {}

SearchSymmetry == Permutations(Search)

NoFaults == {}
ErrorsOnly == {"error"}
=============================================================================
