----------------------------- MODULE MCGpuLock -----------------------------
(* Two scripts, one of which wants all three idle GPUs; a fourth GPU whose *)
(* memory a desktop uses and a fifth that nvidia-smi reports an error for  *)
(* are in the way of the scan.                                             *)
EXTENDS GpuLock, TLC

CONSTANTS s1, s2

OneAndTwo == s1 :> 1 @@ s2 :> 2

OneAndThree == s1 :> 1 @@ s2 :> 3

FourEach == s1 :> 4 @@ s2 :> 4

Desktop == 0 :> 0 @@ 1 :> 0 @@ 2 :> 0 @@ 3 :> 10 @@ 4 :> 0

TwoGpus == 0 :> 0 @@ 1 :> 0

=============================================================================
