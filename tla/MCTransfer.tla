----------------------------- MODULE MCTransfer -----------------------------
(* Instances of Transfer for TLC.                                          *)
EXTENDS Transfer, TLC
CONSTANTS v1, v2

MCSize == (v1 :> 2) @@ (v2 :> 1)
MCEvenSize == (v1 :> 2) @@ (v2 :> 2)

Perms == Permutations(Procs)
=============================================================================
