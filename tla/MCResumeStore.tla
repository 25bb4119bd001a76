--------------------------- MODULE MCResumeStore ---------------------------
(* Instances of ResumeStore for TLC: file sizes and symmetric processes.   *)
EXTENDS ResumeStoreInv, TLC
CONSTANTS v1, v2

MCSize == (v1 :> 2) @@ (v2 :> 1)
MCLongSize == (v1 :> 3) @@ (v2 :> 2)
MCTinySize == (v1 :> 1) @@ (v2 :> 1)
MCEvenSize == (v1 :> 2) @@ (v2 :> 2)

Perms == Permutations(Procs)

(* Two receivers that may resume, each for a file of its own.              *)
TornInit == /\ Init
            /\ \A p \in Procs : ~nores[p]
            /\ \A p, q \in Procs : p # q => want[p] # want[q]
TornSpec == TornInit /\ [][Next]_vars
=============================================================================
