--------------------------- MODULE ResumeStoreInv ---------------------------
(***************************************************************************)
(* Inductive invariants of ResumeStore: Inv for the types, IInv for any    *)
(* number of concurrent receivers, SInv for receivers that run one after   *)
(* the other (Concurrent = FALSE).                                         *)
(*                                                                         *)
(* A file may change while it is sent.  The lengths are then still those   *)
(* of the version that was announced, the content need not be: LInv and    *)
(* CInv are IInv and SInv for lengths and, if exact, for content too.      *)
(***************************************************************************)
EXTENDS ResumeStore

(* A process that is about to lock, or has locked, has a temp file open.   *)
HasHandle == Holding \cup {"lockres", "locktrunc", "locknew"}
Handles == \A p \in Procs :
    /\ pc[p] \in HasHandle => fd[p] \in TempInodes
    /\ pc[p] = "copy" => sfd[p] \in StageInodes

Inv == TypeOK /\ Handles
------------------------------------------------------------------------------
(* The lock is held from try_exclusive_lock to the drop of the handle.     *)
Locked == \A p \in Procs : pc[p] \in Holding => lock[fd[p]] = p

Filling == {"control", "receive", "update", "stage", "copy", "rename", "unlock"}
Prepared == Filling \cup {"remove", "ack"}

Prefix(f, v, n) == n <= f.len /\ \A u \in 0..(n - 1) : f.data[u] = <<v, u>>

(* bytes_received counts units of the wanted version that are in the file, *)
(* and the header on disk never runs ahead of it.                          *)
Progress == \A p \in Procs :
    /\ pc[p] \notin Prepared => got[p] = 0
    /\ pc[p] \in Filling =>
        got[p] <= Size[want[p]] /\ Prefix(ino[fd[p]], want[p], got[p])
    /\ pc[p] \in {"control", "receive", "update"} =>
        ino[fd[p]].hdr.sum = want[p] /\ ino[fd[p]].hdr.n <= got[p]

IInv == Inv /\ Locked /\ Progress /\ PartialIsPrefix

(* n units are there, and if exact they are those of v.                    *)
Has(f, v, n, exact) == n <= f.len /\ (exact => Prefix(f, v, n))

Counts(exact) == \A p \in Procs :
    /\ pc[p] \notin Prepared => got[p] = 0
    /\ pc[p] \in Filling =>
        got[p] <= Size[want[p]] /\ Has(ino[fd[p]], want[p], got[p], exact)
    /\ pc[p] \in {"control", "receive", "update"} =>
        ino[fd[p]].hdr.sum = want[p] /\ ino[fd[p]].hdr.n <= got[p]

Claims(exact) == \A i \in TempInodes :
    LET h == ino[i].hdr
    IN  /\ h.n <= ino[i].len
        /\ h.sum # Nil => h.n <= Size[h.sum] /\ Has(ino[i], h.sum, h.n, exact)

LInv(exact) == Inv /\ Locked /\ Counts(exact) /\ Claims(exact)
------------------------------------------------------------------------------
(* What only holds when receivers take turns.                              *)
OneLive == \A p, q \in Procs : Live(p) /\ Live(q) => p = q

(* An inode no process has created yet is empty, and neither at a path nor  *)
(* open.                                                                   *)
BeforeTemp == {"start", "prompt", "open", "lockres", "read", "discard", "create",
               "locktrunc", "createnew"}
BeforeStage == BeforeTemp \cup {"locknew", "writehdr", "control", "receive",
                                "update", "stage"}
Unborn == \A p \in Procs :
    /\ pc[p] \in BeforeTemp => /\ ino[TempOf(p)] = EmptyFile
                               /\ \A n \in Names : temp[n] # TempOf(p)
                               /\ \A q \in Procs : fd[q] # TempOf(p)
    /\ pc[p] \in BeforeStage => \A n \in Names : /\ stage[n] # StageOf(p)
                                                 /\ final[n] # StageOf(p)

(* A temp file with a header is no longer than the version it is for, and  *)
(* a fresh one is empty.                                                   *)
TempFits ==
    /\ \A i \in TempInodes : ino[i].hdr.sum # Nil => ino[i].len <= Size[ino[i].hdr.sum]
    /\ \A p \in Procs : pc[p] \in {"locknew", "writehdr"} => ino[fd[p]] = EmptyFile
    /\ \A p \in Procs : pc[p] \in {"stage", "copy", "rename"} =>
        got[p] = Size[want[p]] /\ ino[fd[p]].hdr.sum = want[p]

(* No inode is at two of the staging and final paths.                      *)
Unshared == \A m, n \in Names :
    /\ m # n /\ stage[m] # Nil => stage[m] # stage[n]
    /\ m # n /\ final[m] # Nil => final[m] # final[n]
    /\ stage[m] # Nil => stage[m] # final[n] /\ stage[m] # Old

(* The staging file is the copied prefix, then the whole version.          *)
Staged == \A p \in Procs :
    /\ pc[p] \notin {"copy", "rename", "unlock", "remove", "ack"} => cp[p] = 0
    /\ pc[p] = "copy" => /\ stage[name[p]] = sfd[p]
                         /\ ino[sfd[p]].len = cp[p]
                         /\ Prefix(ino[sfd[p]], want[p], cp[p])
                         /\ cp[p] <= Size[want[p]]
    /\ pc[p] = "rename" => /\ stage[name[p]] # Nil
                           /\ Holds(ino[stage[name[p]]], want[p])

(* All of a version, in length and if exact in content.                    *)
Whole(f, v, exact) == f.len = Size[v] /\ (exact => Prefix(f, v, Size[v]))

StagedAs(exact) == \A p \in Procs :
    /\ pc[p] \notin {"copy", "rename", "unlock", "remove", "ack"} => cp[p] = 0
    /\ pc[p] = "copy" => /\ stage[name[p]] = sfd[p]
                         /\ ino[sfd[p]].len = cp[p]
                         /\ Has(ino[sfd[p]], want[p], cp[p], exact)
                         /\ cp[p] <= Size[want[p]]
    /\ pc[p] = "rename" => /\ stage[name[p]] # Nil
                           /\ Whole(ino[stage[name[p]]], want[p], exact)

FinalAs(exact) == \A n \in Names :
    final[n] # Nil => \E v \in Versions : Whole(ino[final[n]], v, exact)

DeliveredAs(exact) == \A p \in Procs :
    pc[p] \in {"unlock", "remove", "ack"} =>
        final[name[p]] # Nil /\ Whole(ino[final[name[p]]], want[p], exact)

CInv(exact) == /\ LInv(exact) /\ OneLive /\ Unborn /\ TempFits /\ Unshared
               /\ StagedAs(exact) /\ FinalAs(exact) /\ DeliveredAs(exact)

SInv == /\ IInv /\ OneLive /\ Unborn /\ TempFits /\ Unshared /\ Staged
        /\ FinalIntact /\ DeliveredAtAck
=============================================================================
