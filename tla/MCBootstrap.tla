---------------------------- MODULE MCBootstrap ----------------------------
(* Two engine-core processes, as with two data-parallel engines.           *)
EXTENDS Bootstrap, TLC

CONSTANTS c1, c2

MCSymmetry == Permutations(Children)

=============================================================================
