---------------------------- MODULE MCPowerLoss ----------------------------
(* Instances of PowerLoss for TLC.                                         *)
EXTENDS PowerLoss, TLC
CONSTANTS v1, v2

MCSize == (v1 :> 2) @@ (v2 :> 1)

Perms == Permutations(Procs)
=============================================================================
