----------------------------- MODULE MCCoreClient -----------------------------
(* CoreClient for TLC.                                                     *)
EXTENDS CoreClient, TLC

CONSTANTS s1, s2

TwoSearches == {s1, s2}
TwoAndOneBeams == (s1 :> 2) @@ (s2 :> 1)
ThreeAndOneSteps == (s1 :> 3) @@ (s2 :> 1)
=============================================================================
