--------------------------- MODULE PowerLossProofs ---------------------------
(***************************************************************************)
(* Proofs about PowerLoss.  An outage can leave a header that claims more  *)
(* than its file holds, so the invariants of ResumeStore hold only of what *)
(* a receiver will make of the files: View, with every header corrected.   *)
(* In View every step is a step of ResumeStore, and the lemmas about       *)
(* ResumeStore apply; what is left to prove is how the disk lags behind.   *)
(***************************************************************************)
EXTENDS PowerLoss, ResumeStoreSerialProofs

USE VersionAssumption, ChunkAssumption, NameAssumption, ModeAssumption,
    HoleAssumption, NilAssumption, PowerAssumption
------------------------------------------------------------------------------
(* The inductive invariant                                                 *)

View == [i \in Inodes |-> Corrected(ino[i])]
S == INSTANCE ResumeStoreSerialProofs WITH ino <- View

(* A temp file with a header has nothing but its version in it.            *)
Pure(f) == f.hdr.sum # Nil =>
    f.len <= Size[f.hdr.sum] /\ \A u \in 0..(f.len - 1) : f.data[u] = <<f.hdr.sum, u>>

Files ==
    /\ \A i \in TempInodes : Pure(ino[i])
    /\ \A i \in StageInodes : ino[i].hdr = NoHeader
    /\ \A p \in Procs : pc[p] \in {"control", "receive", "update"} =>
          ino[fd[p]].hdr.n <= ino[fd[p]].len

(* On the disk a temp file is some earlier state of what it is, unless it  *)
(* was truncated since.                                                    *)
Lags(f, g) ==
    /\ f.hdr.sum # Nil => f.hdr.sum = g.hdr.sum
    /\ f.len <= g.len
    /\ \A u \in 0..(f.len - 1) : f.data[u] = g.data[u]
DiskFiles ==
    /\ \A i \in TempInodes : Pure(dino[i]) /\ (i \notin cut => Lags(dino[i], ino[i]))
    /\ \A i \in StageInodes : dino[i].hdr = NoHeader

(* The directory on the disk is an earlier one.                            *)
DiskDir ==
    /\ \A p \in Procs, n \in Names :
        /\ pc[p] \in BeforeTemp => dtemp[n] # TempOf(p)
        /\ pc[p] \in BeforeStage => dstage[n] # StageOf(p) /\ dfinal[n] # StageOf(p)
    /\ \A m, n \in Names :
        /\ m # n /\ dstage[m] # Nil => dstage[m] # dstage[n]
        /\ m # n /\ dfinal[m] # Nil => dfinal[m] # dfinal[n]
        /\ dstage[m] # Nil => dstage[m] # dfinal[n] /\ dstage[m] # Old
        /\ stage[m] # Nil => stage[m] # dfinal[n]

(* What is published is on the disk as it is.                              *)
OnDiskAsIs(i) == i \notin cut /\ dino[i] = ino[i]
Published == \A n \in Names :
    /\ final[n] # Nil => OnDiskAsIs(final[n])
    /\ dfinal[n] # Nil => OnDiskAsIs(dfinal[n]) /\ \E v \in Versions : Holds(ino[dfinal[n]], v)

(* What has been synced at each step of finalize.                          *)
Waits == \A p \in Procs :
    /\ pc[p] = "rename" => \/ due[p] = <<stage[name[p]], Dir>>
                           \/ due[p] \in {<<Dir>>, <<>>} /\ OnDiskAsIs(stage[name[p]])
    /\ pc[p] \in {"unlock", "remove", "ack"} =>
          due[p] = <<Dir>> \/ p \in missed \/ dfinal[name[p]] = final[name[p]]
    /\ pc[p] = "done" /\ p \notin missed /\ (\A q \in Procs \ {p} : pc[q] \in {"start", "prompt"}) =>
          /\ final[name[p]] # Nil /\ dfinal[name[p]] = final[name[p]]
          /\ Holds(ino[final[name[p]]], want[p])

DInv == TypeOK /\ PowerTypeOK /\ S!SInv /\ Files /\ DiskFiles /\ DiskDir /\ Published /\ Waits
------------------------------------------------------------------------------
(* ResumeStore in View                                                     *)

(* The same things have the same names in View.                            *)
LEMMA SameConstants ==
    /\ S!Names = Names /\ S!Units = Units /\ S!Blocks = Blocks
    /\ S!TempInodes = TempInodes /\ S!StageInodes = StageInodes /\ S!Inodes = Inodes
    /\ S!Old = Old /\ \A p : S!TempOf(p) = TempOf(p) /\ S!StageOf(p) = StageOf(p)
    /\ S!Header = Header /\ S!NoHeader = NoHeader /\ S!File = File /\ S!EmptyFile = EmptyFile
    /\ S!Terminal = Terminal /\ S!Stages = Stages
    /\ S!BeforeTemp = BeforeTemp /\ S!BeforeStage = BeforeStage
    /\ S!Holding = Holding /\ S!HasHandle = HasHandle /\ S!Filling = Filling
    /\ S!Prepared = Prepared
    /\ S!dirVars = dirVars /\ S!procVars = procVars
<1>1. \A p : S!TempOf(p) = TempOf(p) /\ S!StageOf(p) = StageOf(p)
  BY DEF S!TempOf, TempOf, S!StageOf, StageOf
<1>2. S!Old = Old
  BY <1>1 DEF S!Old, Old
<1>3. S!TempInodes = TempInodes /\ S!StageInodes = StageInodes
  BY <1>1, <1>2 DEF S!TempInodes, TempInodes, S!StageInodes, StageInodes
<1>4. S!Inodes = Inodes
  BY <1>3 DEF S!Inodes, Inodes
<1>5. S!Names = Names /\ S!Units = Units
  BY DEF S!Names, Names, S!Units, Units
<1>6. S!Blocks = Blocks
  BY <1>5 DEF S!Blocks, Blocks
<1>7. S!Header = Header /\ S!NoHeader = NoHeader
  BY DEF S!Header, Header, S!NoHeader, NoHeader
<1>8. S!File = File /\ S!EmptyFile = EmptyFile
  BY <1>5, <1>6, <1>7 DEF S!File, File, S!EmptyFile, EmptyFile
<1>9. S!Terminal = Terminal
  BY DEF S!Terminal, Terminal
<1>10. S!Stages = Stages
  BY <1>9 DEF S!Stages, Stages
<1>11. S!BeforeTemp = BeforeTemp
  BY DEF S!BeforeTemp, BeforeTemp
<1>12. S!BeforeStage = BeforeStage
  BY <1>11 DEF S!BeforeStage, BeforeStage
<1>13. S!Holding = Holding
  BY DEF S!Holding, Holding
<1>14. S!HasHandle = HasHandle
  BY <1>13 DEF S!HasHandle, HasHandle
<1>15. S!Filling = Filling
  BY DEF S!Filling, Filling
<1>16. S!Prepared = Prepared
  BY <1>15 DEF S!Prepared, Prepared
<1>17. S!dirVars = dirVars /\ S!procVars = procVars
  BY DEF S!dirVars, dirVars, S!procVars, procVars
<1> QED BY <1>1, <1>2, <1>3, <1>4, <1>5, <1>6, <1>7, <1>8, <1>9, <1>10, <1>11, <1>12,
           <1>13, <1>14, <1>15, <1>16, <1>17

(* So do the assumptions.                                                  *)
LEMMA SameAssumptions == Hole \notin S!Blocks /\ Nil \notin S!Inodes
BY SameConstants

(* A corrected file differs in what its header counts, and only if that is *)
(* more than it has.                                                       *)
LEMMA CorrectedFile ==
    ASSUME NEW f \in File
    PROVE  /\ Corrected(f) \in File
           /\ Corrected(f).len = f.len /\ Corrected(f).data = f.data
           /\ Corrected(f).hdr.sum = f.hdr.sum
           /\ Corrected(f).hdr.n = Smaller(f.hdr.n, f.len)
           /\ f.hdr.n <= f.len => Corrected(f) = f
           /\ Corrected(Corrected(f)) = Corrected(f)
<1>1. ASSUME NEW g \in File
      PROVE  /\ g = [hdr |-> g.hdr, len |-> g.len, data |-> g.data]
             /\ g.hdr = [sum |-> g.hdr.sum, n |-> g.hdr.n]
             /\ g.hdr.n \in 0..MaxSize /\ g.len \in 0..MaxSize /\ g.hdr.sum \in Versions \cup {Nil}
             /\ g.data \in [Units -> Blocks \cup {Hole}]
  BY DEF File, Header
<1>2. ASSUME NEW g \in File
      PROVE  /\ Smaller(g.hdr.n, g.len) \in 0..MaxSize /\ Smaller(g.hdr.n, g.len) <= g.len
             /\ g.hdr.n <= g.len => Smaller(g.hdr.n, g.len) = g.hdr.n
  <2>1. g.hdr.n \in 0..MaxSize /\ g.len \in 0..MaxSize
    BY <1>1
  <2> QED BY <2>1 DEF Smaller
<1>3. ASSUME NEW g \in File
      PROVE  Corrected(g) = [hdr |-> [sum |-> g.hdr.sum, n |-> Smaller(g.hdr.n, g.len)],
                             len |-> g.len, data |-> g.data]
  <2>1. g = [hdr |-> g.hdr, len |-> g.len, data |-> g.data] /\ g.hdr = [sum |-> g.hdr.sum, n |-> g.hdr.n]
    BY <1>1
  <2> QED BY <2>1 DEF Corrected
<1>4. Corrected(f) \in File
  BY <1>1, <1>2, <1>3 DEF File, Header
<1>5. ASSUME NEW g \in File, g.hdr.n <= g.len PROVE Corrected(g) = g
  <2>1. g.hdr = [sum |-> g.hdr.sum, n |-> Smaller(g.hdr.n, g.len)]
    BY <1>1, <1>2, <1>5
  <2>2. Corrected(g) = [hdr |-> g.hdr, len |-> g.len, data |-> g.data]
    BY <1>3, <2>1
  <2> QED BY <1>1, <2>2
<1>6. Corrected(f).hdr.n <= Corrected(f).len
  BY <1>2, <1>3
<1> QED BY <1>3, <1>4, <1>5, <1>6

(* What View shows of a file.                                              *)
LEMMA ViewFile ==
    ASSUME TypeOK, NEW i \in Inodes
    PROVE  /\ View[i] = Corrected(ino[i]) /\ View[i] \in File /\ ino[i] \in File
           /\ View[i].len = ino[i].len /\ View[i].data = ino[i].data
           /\ View[i].hdr.sum = ino[i].hdr.sum
           /\ \A v : S!Holds(View[i], v) <=> Holds(ino[i], v)
<1>1. ino[i] \in File /\ View[i] = Corrected(ino[i])
  BY DEF TypeOK, View
<1>2. View[i].len = ino[i].len /\ View[i].data = ino[i].data
  BY <1>1, CorrectedFile
<1> QED BY <1>1, <1>2, CorrectedFile DEF S!Holds, Holds

(* What the serial invariant, which is about View, says of the files.      *)
LEMMA SerialFacts ==
    ASSUME TypeOK, S!SInv
    PROVE  /\ \A p, q \in Procs : Live(p) /\ Live(q) => p = q
           /\ \A p \in Procs :
               /\ pc[p] \in HasHandle => fd[p] \in TempInodes
               /\ pc[p] \in Filling => got[p] <= Size[want[p]] /\ got[p] <= ino[fd[p]].len
               /\ pc[p] \in {"control", "receive", "update"} => ino[fd[p]].hdr.sum = want[p]
               /\ pc[p] \in {"locknew", "writehdr"} =>
                     ino[fd[p]].hdr.sum = Nil /\ ino[fd[p]].len = 0
               /\ pc[p] = "copy" => stage[name[p]] = sfd[p] /\ sfd[p] \in StageInodes
               /\ pc[p] = "rename" => stage[name[p]] # Nil /\ Holds(ino[stage[name[p]]], want[p])
           /\ Handles
           /\ \A p \in Procs, n \in Names :
               /\ pc[p] \in BeforeTemp => temp[n] # TempOf(p)
               /\ pc[p] \in BeforeStage => stage[n] # StageOf(p) /\ final[n] # StageOf(p)
           /\ \A i \in TempInodes : ino[i].hdr.sum # Nil => ino[i].len <= Size[ino[i].hdr.sum]
           /\ \A m, n \in Names :
               /\ m # n /\ stage[m] # Nil => stage[m] # stage[n]
               /\ m # n /\ final[m] # Nil => final[m] # final[n]
               /\ stage[m] # Nil => stage[m] # final[n] /\ stage[m] # Old
           /\ FinalIntact /\ DeliveredAtAck
<1> USE SameConstants
<1>0. /\ S!IInv /\ S!Inv /\ S!OneLive /\ S!Unborn /\ S!TempFits /\ S!Unshared /\ S!Staged
      /\ S!FinalIntact /\ S!DeliveredAtAck /\ S!Handles /\ S!Progress
  BY DEF S!SInv, S!IInv, S!Inv
<1>1. \A p, q \in Procs : Live(p) /\ Live(q) => p = q
  BY <1>0 DEF S!OneLive, S!Live, Live
<1>2. \A p \in Procs : pc[p] \in HasHandle => fd[p] \in TempInodes
  BY <1>0 DEF S!Handles
<1>3. \A p \in Procs : pc[p] = "copy" => sfd[p] \in StageInodes /\ stage[name[p]] = sfd[p]
  BY <1>0 DEF S!Handles, S!Staged
<1>4. ASSUME NEW p \in Procs, pc[p] \in Filling
      PROVE  got[p] <= Size[want[p]] /\ got[p] <= ino[fd[p]].len
  <2>1. fd[p] \in Inodes
    BY <1>2, <1>4, InodeFacts DEF HasHandle, Holding, Filling
  <2>2. got[p] <= Size[want[p]] /\ got[p] <= View[fd[p]].len
    BY <1>0, <1>4 DEF S!Progress, S!Prefix
  <2> QED BY <2>1, <2>2, ViewFile
<1>5. ASSUME NEW p \in Procs, pc[p] \in {"control", "receive", "update"}
      PROVE  ino[fd[p]].hdr.sum = want[p]
  <2>1. fd[p] \in Inodes
    BY <1>2, <1>5, InodeFacts DEF HasHandle, Holding
  <2>2. View[fd[p]].hdr.sum = want[p]
    BY <1>0, <1>5 DEF S!Progress
  <2> QED BY <2>1, <2>2, ViewFile
<1>6. ASSUME NEW p \in Procs, pc[p] \in {"locknew", "writehdr"}
      PROVE  ino[fd[p]].hdr.sum = Nil /\ ino[fd[p]].len = 0
  <2>1. fd[p] \in Inodes
    BY <1>2, <1>6, InodeFacts DEF HasHandle, Holding
  <2>2. View[fd[p]] = EmptyFile
    BY <1>0, <1>6 DEF S!TempFits
  <2>3. View[fd[p]].hdr.sum = Nil /\ View[fd[p]].len = 0
    BY <2>2 DEF EmptyFile, NoHeader
  <2> QED BY <2>1, <2>3, ViewFile
<1>7. ASSUME NEW p \in Procs, pc[p] = "rename"
      PROVE  stage[name[p]] # Nil /\ Holds(ino[stage[name[p]]], want[p])
  <2>1. stage[name[p]] # Nil /\ S!Holds(View[stage[name[p]]], want[p])
    BY <1>0, <1>7 DEF S!Staged
  <2>2. stage[name[p]] \in Inodes
    BY <2>1, InodeFacts DEF TypeOK
  <2> QED BY <2>1, <2>2, ViewFile
<1>8. \A p \in Procs, n \in Names :
        /\ pc[p] \in BeforeTemp => temp[n] # TempOf(p)
        /\ pc[p] \in BeforeStage => stage[n] # StageOf(p) /\ final[n] # StageOf(p)
  BY <1>0 DEF S!Unborn
<1>9. \A i \in TempInodes : ino[i].hdr.sum # Nil => ino[i].len <= Size[ino[i].hdr.sum]
  <2>1. \A i \in TempInodes : View[i].hdr.sum # Nil => View[i].len <= Size[View[i].hdr.sum]
    BY <1>0 DEF S!TempFits
  <2> QED BY <2>1, ViewFile, InodeFacts
<1>10. \A m, n \in Names :
        /\ m # n /\ stage[m] # Nil => stage[m] # stage[n]
        /\ m # n /\ final[m] # Nil => final[m] # final[n]
        /\ stage[m] # Nil => stage[m] # final[n] /\ stage[m] # Old
  BY <1>0 DEF S!Unshared
<1>11. \A n \in Names : final[n] # Nil => final[n] \in Inodes
  BY InodeFacts DEF TypeOK
<1>12. FinalIntact
  <2>1. \A n \in Names : final[n] # Nil => \E v \in Versions : S!Holds(View[final[n]], v)
    BY <1>0 DEF S!FinalIntact
  <2> QED BY <2>1, <1>11, ViewFile DEF FinalIntact
<1>13. DeliveredAtAck
  <2>1. \A p \in Procs : pc[p] \in {"unlock", "remove", "ack"} =>
            final[name[p]] # Nil /\ S!Holds(View[final[name[p]]], want[p])
    BY <1>0 DEF S!DeliveredAtAck
  <2>2. \A p \in Procs : name[p] \in Names
    BY DEF TypeOK
  <2> QED BY <2>1, <2>2, <1>11, ViewFile DEF DeliveredAtAck
<1>14. Handles
  BY <1>2, <1>3 DEF Handles
<1> QED BY <1>1, <1>2, <1>3, <1>4, <1>5, <1>6, <1>7, <1>8, <1>9, <1>10, <1>12, <1>13, <1>14

(* The operations are the same ones.                                       *)
LEMMA SameOperators ==
    /\ \A a, b : S!Smaller(a, b) = Smaller(a, b) /\ S!Larger(a, b) = Larger(a, b)
    /\ \A f : S!Corrected(f) = Corrected(f)
    /\ \A f, a, c : S!Written(f, a, c) = Written(f, a, c)
    /\ \A f, g, a, t : S!Copied(f, g, a, t) = Copied(f, g, a, t)
    /\ \A p : /\ S!Live(p) = Live(p) /\ S!Prepare(p) = Prepare(p) /\ S!NextChunk(p) = NextChunk(p)
              /\ S!HeaderDue(p) = HeaderDue(p) /\ S!Released(p) = Released(p)
              /\ \A l : /\ S!Goto(p, l) <=> Goto(p, l)
                        /\ S!Exit(p, l) <=> Exit(p, l)
              /\ S!LockFd(p) <=> LockFd(p)
    /\ \A n : S!Available(n) <=> Available(n)
<1> USE SameConstants
<1>1. \A a, b : S!Smaller(a, b) = Smaller(a, b) /\ S!Larger(a, b) = Larger(a, b)
  BY DEF S!Smaller, Smaller, S!Larger, Larger
<1>2. \A f : S!Corrected(f) = Corrected(f)
  BY <1>1 DEF S!Corrected, Corrected
<1>3. \A f, a, c : S!Written(f, a, c) = Written(f, a, c)
  BY <1>1 DEF S!Written, Written
<1>4. \A f, g, a, t : S!Copied(f, g, a, t) = Copied(f, g, a, t)
  BY <1>1 DEF S!Copied, Copied
<1>5. \A p : S!Live(p) = Live(p) /\ S!Prepare(p) = Prepare(p)
  BY DEF S!Live, Live, S!Prepare, Prepare
<1>6. \A p : S!NextChunk(p) = NextChunk(p) /\ S!HeaderDue(p) = HeaderDue(p)
  BY <1>1 DEF S!NextChunk, NextChunk, S!ChunkAt, ChunkAt, S!HeaderDue, HeaderDue
<1>7. \A p : S!Released(p) = Released(p)
  BY DEF S!Released, Released
<1>8. \A p, l : S!Goto(p, l) <=> Goto(p, l)
  BY DEF S!Goto, Goto
<1>9. \A p, l : S!Exit(p, l) <=> Exit(p, l)
  BY <1>7, <1>8 DEF S!Exit, Exit
<1>10. \A p : S!LockFd(p) <=> LockFd(p)
  BY DEF S!LockFd, LockFd
<1>11. \A n : S!Available(n) <=> Available(n)
  BY DEF S!Available, Available
<1> QED BY <1>1, <1>2, <1>3, <1>4, <1>5, <1>6, <1>7, <1>8, <1>9, <1>10, <1>11

(* A step that changes one file changes one file of View.                  *)
LEMMA ViewExcept ==
    ASSUME TypeOK, NEW i \in Inodes, NEW f, ino' = [ino EXCEPT ![i] = f]
    PROVE  View' = [View EXCEPT ![i] = Corrected(f)]
<1>1. ino'[i] = f /\ \A j \in Inodes : j # i => ino'[j] = ino[j]
  BY DEF TypeOK
<1>2. View' = [j \in Inodes |-> Corrected(ino'[j])]
  BY DEF View
<1>3. View = [j \in Inodes |-> Corrected(ino[j])]
  BY DEF View
<1>4. \A j \in Inodes : View'[j] = IF j = i THEN Corrected(f) ELSE View[j]
  BY <1>1, <1>2, <1>3
<1> QED BY <1>2, <1>3, <1>4

(* A header that counts no more than there is may be written before or     *)
(* after the correction.                                                   *)
LEMMA HeaderWritten ==
    ASSUME NEW f \in File, NEW h \in Header, h.n <= f.len
    PROVE  Corrected([f EXCEPT !.hdr = h]) = [Corrected(f) EXCEPT !.hdr = h]
<1>1. [f EXCEPT !.hdr = h] \in File
  BY FileFacts
<1>2. f = [hdr |-> f.hdr, len |-> f.len, data |-> f.data]
  BY DEF File
<1>3. Corrected([f EXCEPT !.hdr = h]) = [f EXCEPT !.hdr = h]
  BY <1>1, <1>2, CorrectedFile
<1>4. [f EXCEPT !.hdr = h] = [hdr |-> h, len |-> f.len, data |-> f.data]
  BY <1>2
<1>5. Corrected(f) = [hdr |-> Corrected(f).hdr, len |-> f.len, data |-> f.data]
  BY CorrectedFile DEF File
<1> QED BY <1>3, <1>4, <1>5

(* So may units be written to a file that has all that its header counts.  *)
LEMMA UnitsWritten ==
    ASSUME NEW f \in File, f.hdr.n <= f.len, NEW v \in Versions, NEW a \in 0..MaxSize,
           NEW k \in Nat, a + k <= MaxSize
    PROVE  LET g == Written(f, a, [v |-> v, from |-> a, n |-> k])
           IN  g \in File /\ Corrected(g) = g /\ Corrected(f) = f /\ g.hdr = f.hdr
               /\ g.len \in Nat /\ f.len <= g.len /\ g.hdr.n <= g.len
<1> DEFINE g == Written(f, a, [v |-> v, from |-> a, n |-> k])
<1>1. g \in File
  BY WrittenFile
<1>2. g.hdr = f.hdr /\ g.len = Larger(f.len, a + k)
  BY DEF Written, File
<1>3. f.len \in 0..MaxSize /\ f.hdr.n \in 0..MaxSize
  BY DEF File, Header
<1>4. f.len <= g.len /\ g.len \in Nat
  BY <1>2, <1>3 DEF Larger
<1> QED BY <1>1, <1>2, <1>3, <1>4, CorrectedFile

(* A header that counts no more than there is, in View.                    *)
LEMMA HeaderInView ==
    ASSUME TypeOK, NEW i \in Inodes, NEW h \in Header, h.n <= ino[i].len,
           ino' = [ino EXCEPT ![i].hdr = h]
    PROVE  View' = [View EXCEPT ![i].hdr = h]
<1> DEFINE g == [ino[i] EXCEPT !.hdr = h]
<1>1. ino' = [ino EXCEPT ![i] = g] /\ ino[i] \in File
  BY DEF TypeOK
<1>2. Corrected(g) = [Corrected(ino[i]) EXCEPT !.hdr = h]
  BY <1>1, HeaderWritten
<1>3. View' = [View EXCEPT ![i] = Corrected(g)]
  <2> HIDE DEF g
  <2> QED BY <1>1, ViewExcept
<1>4. View[i] = Corrected(ino[i])
  BY ViewFile
<1> QED BY <1>2, <1>3, <1>4

(* A file whose header counts no more than there is, in View.              *)
LEMMA FileInView ==
    ASSUME TypeOK, NEW i \in Inodes, ino[i].hdr.n <= ino[i].len,
           NEW g \in File, g.hdr.n <= g.len, ino' = [ino EXCEPT ![i] = g]
    PROVE  View' = [View EXCEPT ![i] = g] /\ View[i] = ino[i]
<1>1. Corrected(g) = g /\ Corrected(ino[i]) = ino[i]
  BY CorrectedFile DEF TypeOK
<1>2. View' = [View EXCEPT ![i] = Corrected(g)]
  BY ViewExcept
<1> QED BY <1>1, <1>2, ViewFile

(* The steps that change no file are the same in View.                     *)
LEMMA QuietInView ==
    ASSUME TypeOK, S!SInv, NEW p \in Procs, Step(p), ino' = ino
    PROVE  S!Step(p) \/ ReadHeader(p) \/ LockAndTruncate(p) \/ WriteHeader(p)
           \/ ReceiveChunk(p, NextChunk(p)) \/ WriteFails(p, NextChunk(p))
           \/ UpdateMetadata(p) \/ FinishReceive(p) \/ StageCreate(p) \/ CopyChunk(p)
<1> USE SameConstants DEF S!Goto, Goto, S!Exit, Exit, S!Released, Released, S!Live, Live,
       S!LockFd, LockFd, S!Prepare, Prepare, S!Available, Available, dirVars, S!dirVars
<1>1. View' = View
  BY DEF View
<1>2. Decide(p) => S!Decide(p)
  BY <1>1 DEF Decide, S!Decide, Start, S!Start, ChooseOverwrite, S!ChooseOverwrite,
       ChooseRename, S!ChooseRename, ChooseCancel, S!ChooseCancel
<1>3. OpenForResume(p) \/ LockForResume(p) \/ DiscardStale(p) => S!CheckResume(p)
  BY <1>1 DEF S!CheckResume, OpenForResume, S!OpenForResume, LockForResume, S!LockForResume,
       DiscardStale, S!DiscardStale
<1>4. OpenForCreate(p) \/ CreateNew(p) \/ LockNew(p) => S!CreateTemp(p)
  BY <1>1 DEF S!CreateTemp, OpenForCreate, S!OpenForCreate, CreateNew, S!CreateNew,
       LockNew, S!LockNew
<1>5. CopyDone(p) => S!CopyDone(p)
  <2> SUFFICES ASSUME CopyDone(p) PROVE S!CopyDone(p)
    OBVIOUS
  <2>1. View[fd[p]].len = ino[fd[p]].len
    BY SerialFacts, ViewFile, InodeFacts DEF CopyDone, HasHandle, Holding
  <2> QED BY <1>1, <2>1 DEF CopyDone, S!CopyDone
<1>6. RenameStage(p) \/ DropTemp(p) \/ RemoveTemp(p) => S!Finalize(p)
  BY <1>1 DEF S!Finalize, RenameStage, S!RenameStage, DropTemp, S!DropTemp, RemoveTemp, S!RemoveTemp
<1>7. SendControl(p) => S!SendControl(p)
  BY <1>1 DEF SendControl, S!SendControl
<1>8. SendAck(p) => S!SendAck(p)
  BY <1>1 DEF SendAck, S!SendAck
<1>9. LockHeld(p) => S!LockHeld(p)
  BY <1>1 DEF LockHeld, S!LockHeld
<1>10. StageFails(p) => S!StageFails(p)
  BY <1>1 DEF StageFails, S!StageFails
<1>11. Fails(p) \/ CtrlC(p) \/ Interrupted(p) \/ Crash(p) => S!Stop(p)
  BY <1>1 DEF S!Stop, Fails, S!Fails, CtrlC, S!CtrlC, Interrupted, S!Interrupted, Crash, S!Crash
<1> QED BY <1>2, <1>3, <1>4, <1>5, <1>6, <1>7, <1>8, <1>9, <1>10, <1>11
        DEF Step, S!Step, CheckResume, CreateTemp, Finalize, Stop, S!Finalize, S!Stop

(* The steps that change a file: what it becomes, in the files and in View.*)
LEMMA BusyInView ==
    ASSUME TypeOK, S!SInv, Files, NEW p \in Procs,
           \/ ReadHeader(p) \/ LockAndTruncate(p) \/ WriteHeader(p)
           \/ ReceiveChunk(p, NextChunk(p)) \/ WriteFails(p, NextChunk(p))
           \/ UpdateMetadata(p) \/ FinishReceive(p) \/ StageCreate(p) \/ CopyChunk(p)
    PROVE  S!Step(p)
<1> USE SameConstants DEF S!Goto, Goto, S!Exit, Exit, S!Released, Released, dirVars, S!dirVars
<1> DEFINE i == fd[p]  f == ino[i]
<1>0. /\ pc[p] \in HasHandle => i \in TempInodes /\ i \in Inodes
      /\ want[p] \in Versions /\ Size[want[p]] \in 0..MaxSize /\ got[p] \in 0..MaxSize
      /\ name[p] \in Names
  BY SerialFacts, InodeFacts DEF TypeOK
<1>1. CASE ReadHeader(p)
  <2>1. i \in Inodes /\ f \in File
    BY <1>0, <1>1 DEF ReadHeader, HasHandle, Holding, TypeOK
  <2>2. View' = [View EXCEPT ![i] = Corrected(Corrected(f))]
    BY <1>1, <2>1, ViewExcept DEF ReadHeader
  <2>3. Corrected(View[i]) = Corrected(Corrected(f)) /\ View[i].hdr.sum = f.hdr.sum
    BY <2>1, ViewFile
  <2>4. View'[i] = Corrected(f) /\ ino'[i] = Corrected(f)
    BY <1>1, <2>1, <2>2, CorrectedFile DEF ReadHeader, View, TypeOK
  <2>5. S!Corrected(View[i]) = Corrected(Corrected(f))
    BY <2>3, SameOperators
  <2>6. S!ReadHeader(p)
    BY <1>1, <2>2, <2>3, <2>4, <2>5 DEF ReadHeader, S!ReadHeader, SameFile, S!SameFile
  <2> QED BY <2>6 DEF S!Step, S!CheckResume
<1>2. CASE LockAndTruncate(p)
  <2>1. i \in Inodes
    BY <1>0, <1>2 DEF LockAndTruncate, HasHandle
  <2>2. Corrected(EmptyFile) = EmptyFile
    BY FileFacts, CorrectedFile DEF EmptyFile, NoHeader
  <2>3. View' = [View EXCEPT ![i] = EmptyFile]
    BY <1>2, <2>1, <2>2, ViewExcept DEF LockAndTruncate
  <2>4. S!LockAndTruncate(p)
    BY <1>2, <2>3 DEF LockAndTruncate, S!LockAndTruncate, LockFd, S!LockFd
  <2> QED BY <2>4 DEF S!Step, S!CreateTemp
<1>3. CASE WriteHeader(p)
  <2>1. i \in Inodes /\ f \in File
    BY <1>0, <1>3 DEF WriteHeader, HasHandle, Holding, TypeOK
  <2> DEFINE h == [sum |-> want[p], n |-> 0]
  <2>2. h \in Header /\ h.n <= f.len
    BY <1>0, <2>1, FileFacts
  <2>3. ino' = [ino EXCEPT ![i].hdr = h]
    BY <1>3 DEF WriteHeader
  <2>4. View' = [View EXCEPT ![i].hdr = h]
    BY <2>1, <2>2, <2>3, HeaderInView
  <2>5. S!WriteHeader(p)
    BY <1>3, <2>4 DEF WriteHeader, S!WriteHeader
  <2> QED BY <2>5 DEF S!Step, S!CreateTemp
<1>4. ASSUME UpdateMetadata(p) \/ FinishReceive(p) PROVE S!Step(p)
  <2>1. i \in Inodes /\ f \in File /\ got[p] <= f.len
    BY <1>0, <1>4, SerialFacts DEF UpdateMetadata, FinishReceive, HasHandle, Holding, Filling, TypeOK
  <2> DEFINE h == [sum |-> want[p], n |-> got[p]]
  <2>2. h \in Header /\ h.n <= f.len
    BY <1>0, <2>1, FileFacts
  <2>3. ino' = [ino EXCEPT ![i].hdr = h]
    BY <1>4 DEF UpdateMetadata, FinishReceive, SaveProgress
  <2>4. View' = [View EXCEPT ![i].hdr = h]
    BY <2>1, <2>2, <2>3, HeaderInView
  <2>5. S!UpdateMetadata(p) \/ S!FinishReceive(p)
    BY <1>4, <2>4 DEF UpdateMetadata, S!UpdateMetadata, FinishReceive, S!FinishReceive, S!SaveProgress
  <2> QED BY <2>5 DEF S!Step
<1>5. ASSUME NEW k \in Nat, pc[p] = "receive", got[p] < Size[want[p]], k <= ChunkAt(p),
             ino' = [ino EXCEPT ![i] = Written(f, got[p], [v |-> want[p], from |-> got[p], n |-> k])]
      PROVE  View' = [View EXCEPT ![i] =
                        Written(View[i], got[p], [v |-> want[p], from |-> got[p], n |-> k])]
  <2>1. i \in Inodes /\ f \in File /\ f.hdr.n <= f.len
    BY <1>0, <1>5 DEF HasHandle, Holding, TypeOK, Files
  <2>2. got[p] + k <= MaxSize
    BY <1>0, <1>5, ChunkFacts
  <2> DEFINE g == Written(f, got[p], [v |-> want[p], from |-> got[p], n |-> k])
  <2>3. g \in File /\ g.hdr.n <= g.len
    <3>1. /\ f \in File /\ f.hdr.n <= f.len /\ want[p] \in Versions /\ got[p] \in 0..MaxSize
          /\ k \in Nat /\ got[p] + k <= MaxSize
      BY <1>0, <2>1, <2>2
    <3> HIDE DEF f
    <3> QED BY <3>1, UnitsWritten
  <2>4. ino' = [ino EXCEPT ![i] = g]
    BY <1>5
  <2>5. View' = [View EXCEPT ![i] = g] /\ View[i] = f
    <3> HIDE DEF g
    <3> QED BY <2>1, <2>3, <2>4, FileInView
  <2> QED BY <2>5
<1>6. CASE ReceiveChunk(p, NextChunk(p))
  <2>1. /\ pc[p] = "receive" /\ got[p] < Size[want[p]]
        /\ ino' = [ino EXCEPT ![i] = Written(f, got[p], NextChunk(p))]
    BY <1>6 DEF ReceiveChunk
  <2>2. ChunkAt(p) \in Nat /\ NextChunk(p) = [v |-> want[p], from |-> got[p], n |-> ChunkAt(p)]
    BY <2>1, ChunkFacts
  <2>3. View' = [View EXCEPT ![i] = Written(View[i], got[p], NextChunk(p))]
    <3>1. ino' = [ino EXCEPT ![i] = Written(f, got[p], [v |-> want[p], from |-> got[p], n |-> ChunkAt(p)])]
      BY <2>1, <2>2
    <3>2. ChunkAt(p) <= ChunkAt(p)
      BY <2>2
    <3>3. View' = [View EXCEPT ![i] = Written(View[i], got[p],
                                        [v |-> want[p], from |-> got[p], n |-> ChunkAt(p)])]
      BY <1>5, <2>1, <2>2, <3>1, <3>2
    <3> QED BY <2>2, <3>3
  <2>4. View' = [View EXCEPT ![i] = S!Written(View[i], got[p], S!NextChunk(p))]
        /\ S!NextChunk(p) = NextChunk(p) /\ S!HeaderDue(p) = HeaderDue(p)
    BY <2>3, SameOperators
  <2>5. S!ReceiveChunk(p, S!NextChunk(p))
    BY <1>6, <2>4 DEF ReceiveChunk, S!ReceiveChunk
  <2> QED BY <2>5 DEF S!Step
<1>7. CASE WriteFails(p, NextChunk(p))
  <2>0. pc[p] = "receive" /\ got[p] < Size[want[p]]
    BY <1>7 DEF WriteFails
  <2>1. ChunkAt(p) \in Nat /\ NextChunk(p) = [v |-> want[p], from |-> got[p], n |-> ChunkAt(p)]
    BY <2>0, ChunkFacts
  <2>2. PICK k \in 0..(NextChunk(p).n - 1) :
          ino' = [ino EXCEPT ![i] = Written(f, got[p], [NextChunk(p) EXCEPT !.n = k])]
    BY <1>7 DEF WriteFails
  <2>3. /\ [NextChunk(p) EXCEPT !.n = k] = [v |-> want[p], from |-> got[p], n |-> k]
        /\ k \in Nat /\ k <= ChunkAt(p)
    BY <2>1, <2>2
  <2>4. View' = [View EXCEPT ![i] = Written(View[i], got[p], [NextChunk(p) EXCEPT !.n = k])]
    BY <1>5, <2>0, <2>2, <2>3
  <2>5. /\ View' = [View EXCEPT ![i] = S!Written(View[i], got[p], [S!NextChunk(p) EXCEPT !.n = k])]
        /\ S!NextChunk(p) = NextChunk(p) /\ k \in 0..(S!NextChunk(p).n - 1)
    BY <2>2, <2>4, SameOperators
  <2>6. S!WriteFails(p, S!NextChunk(p))
    BY <1>7, <2>5 DEF WriteFails, S!WriteFails
  <2> QED BY <2>6 DEF S!Step
<1>8. CASE StageCreate(p)
  <2> DEFINE j == IF stage[name[p]] = Nil THEN StageOf(p) ELSE stage[name[p]]
  <2>1. j \in Inodes /\ ino' = [ino EXCEPT ![j] = EmptyFile]
    BY <1>0, <1>8, InodeFacts DEF StageCreate, TypeOK
  <2>2. Corrected(EmptyFile) = EmptyFile
    BY FileFacts, CorrectedFile DEF EmptyFile, NoHeader
  <2>3. View' = [View EXCEPT ![j] = EmptyFile]
    BY <2>1, <2>2, ViewExcept
  <2>4. S!StageCreate(p)
    BY <1>8, <2>3 DEF StageCreate, S!StageCreate
  <2> QED BY <2>4 DEF S!Step, S!Finalize
<1>9. CASE CopyChunk(p)
  <2> DEFINE j == sfd[p]  to == Smaller(cp[p] + ChunkLen, f.len)
  <2>1. /\ i \in Inodes /\ j \in StageInodes /\ j \in Inodes
        /\ f \in File /\ ino[j] \in File /\ ino[j].hdr = NoHeader
    BY <1>0, <1>9, SerialFacts, InodeFacts DEF CopyChunk, HasHandle, Holding, TypeOK, Files
  <2>2. /\ cp[p] < f.len /\ ino' = [ino EXCEPT ![j] = Copied(ino[j], f, cp[p], to)]
        /\ cp' = [cp EXCEPT ![p] = to]
    BY <1>9 DEF CopyChunk
  <2>3. to \in 0..MaxSize /\ cp[p] \in 0..MaxSize
    BY <2>1, FileFacts DEF TypeOK, Smaller
  <2> DEFINE g == Copied(ino[j], f, cp[p], to)
  <2>4. g \in File /\ g.hdr = ino[j].hdr
    BY <2>1, <2>3, CopiedFile DEF Copied, File
  <2>5. g.hdr.n <= g.len /\ ino[j].hdr.n <= ino[j].len
    BY <2>1, <2>4, FileFacts DEF NoHeader
  <2>6. Corrected(g) = g /\ View[j] = ino[j]
    BY <2>1, <2>4, <2>5, CorrectedFile, ViewFile
  <2>7. /\ View[i].len = f.len /\ View[i].data = f.data
    BY <2>1, ViewFile
  <2>8. Copied(View[j], View[i], cp[p], to) = g
    BY <2>6, <2>7 DEF Copied
  <2>9. View' = [View EXCEPT ![j] = Copied(View[j], View[i], cp[p], to)]
    BY <2>1, <2>2, <2>6, <2>8, ViewExcept
  <2>10. /\ S!Smaller(cp[p] + ChunkLen, View[i].len) = to
         /\ View' = [View EXCEPT ![j] = S!Copied(View[j], View[i], cp[p], to)]
    BY <2>7, <2>9, SameOperators
  <2>11. S!CopyChunk(p)
    <3> HIDE DEF to
    <3> QED BY <1>9, <2>2, <2>7, <2>10 DEF CopyChunk, S!CopyChunk
  <2> QED BY <2>11 DEF S!Step, S!Finalize
<1> QED BY <1>1, <1>2, <1>3, <1>4, <1>6, <1>7, <1>8, <1>9
------------------------------------------------------------------------------
(* What the processes see                                                  *)

(* The steps that change a file.                                           *)
Busy(p) ==
    \/ ReadHeader(p) \/ LockAndTruncate(p) \/ WriteHeader(p)
    \/ ReceiveChunk(p, NextChunk(p)) \/ WriteFails(p, NextChunk(p))
    \/ UpdateMetadata(p) \/ FinishReceive(p) \/ StageCreate(p) \/ CopyChunk(p)

(* The other steps do not, and none of them enters the part in which units *)
(* are received.                                                           *)
LEMMA QuietSteps ==
    ASSUME TypeOK, NEW p \in Procs, Step(p), ~Busy(p)
    PROVE  /\ ino' = ino
           /\ \A q \in Procs : pc'[q] \in {"control", "receive", "update"} =>
                 pc[q] \in {"control", "receive", "update"} /\ fd'[q] = fd[q]
<1> USE DEF TypeOK, Goto, Exit, Terminal, dirVars
<1>1. CASE Decide(p)
  BY <1>1 DEF Decide, Start, ChooseOverwrite, ChooseRename, ChooseCancel, Prepare
<1>2. CASE CheckResume(p)
  BY <1>2 DEF CheckResume, Busy, OpenForResume, LockForResume, DiscardStale
<1>3. CASE CreateTemp(p)
  BY <1>3 DEF CreateTemp, Busy, OpenForCreate, CreateNew, LockNew
<1>4. CASE SendControl(p)
  BY <1>4 DEF SendControl
<1>5. CASE Finalize(p)
  BY <1>5 DEF Finalize, Busy, CopyDone, RenameStage, DropTemp, RemoveTemp
<1>6. CASE SendAck(p)
  BY <1>6 DEF SendAck
<1>7. CASE Stop(p)
  BY <1>7 DEF Stop, LockHeld, StageFails, Fails, CtrlC, Interrupted, Crash
<1> QED BY <1>1, <1>2, <1>3, <1>4, <1>5, <1>6, <1>7 DEF Step, Busy

(* Each step of a process keeps the types and, in View, all that was       *)
(* proved of receivers that take turns.                                    *)
LEMMA SerialInView ==
    ASSUME ~Concurrent, TypeOK, S!SInv, Files, NEW p \in Procs, Step(p)
    PROVE  TypeOK' /\ S!SInv'
<1>1. TypeOK'
  <2>1. Handles
    BY SerialFacts DEF Handles
  <2>2. [Next]_vars
    BY DEF Next
  <2> QED BY <2>1, <2>2, TypeStep DEF Inv
<1>2. S!Step(p)
  BY QuietSteps, QuietInView, BusyInView DEF Busy
<1>3. [S!Next]_(S!vars)
  BY <1>2 DEF S!Next
<1>4. S!Inv /\ S!IInv
  BY DEF S!SInv, S!IInv
<1>5. S!Inv'
  BY <1>3, <1>4, S!TypeStep, SameAssumptions, VersionAssumption, ChunkAssumption,
     NameAssumption, ModeAssumption
<1>6. S!IInv'
  BY <1>3, <1>4, <1>5, S!SharedStep, SameAssumptions, VersionAssumption, ChunkAssumption,
     NameAssumption, ModeAssumption
<1>7. S!SInv'
  BY <1>3, <1>6, S!SerialStep, SameAssumptions, VersionAssumption, ChunkAssumption,
     NameAssumption, ModeAssumption
<1> QED BY <1>1, <1>7

(* Units that continue what a temp file has leave nothing else in it.      *)
LEMMA PureWritten ==
    ASSUME NEW f \in File, Pure(f), NEW v \in Versions, f.hdr.sum = v, NEW a \in 0..f.len,
           NEW k \in Nat, a + k <= Size[v]
    PROVE  LET g == Written(f, a, [v |-> v, from |-> a, n |-> k])
           IN  Pure(g) /\ Lags(f, g)
<1> DEFINE g == Written(f, a, [v |-> v, from |-> a, n |-> k])
<1>1. /\ f.len \in 0..MaxSize /\ Size[v] \in 0..MaxSize /\ v # Nil
  BY DEF File
<1>2. /\ g.hdr = f.hdr /\ g.len = Larger(f.len, a + k)
      /\ g.data = [u \in Units |-> IF a <= u /\ u < a + k THEN <<v, a + (u - a)>> ELSE f.data[u]]
  BY DEF Written, File
<1>3. f.len <= Size[v] /\ \A u \in 0..(f.len - 1) : f.data[u] = <<v, u>>
  BY <1>1 DEF Pure
<1>4. f.len <= g.len /\ g.len <= Size[v] /\ g.len \in Nat /\ (g.len = f.len \/ g.len = a + k)
  BY <1>1, <1>2, <1>3 DEF Larger
<1>5. \A u \in 0..(g.len - 1) : g.data[u] = <<v, u>>
  <2> SUFFICES ASSUME NEW u \in 0..(g.len - 1) PROVE g.data[u] = <<v, u>>
    OBVIOUS
  <2>1. u \in Units /\ a + (u - a) = u
    BY <1>1, <1>4 DEF Units
  <2>2. CASE a <= u /\ u < a + k
    BY <1>2, <2>1, <2>2
  <2>3. CASE ~(a <= u /\ u < a + k)
    <3>1. u \in 0..(f.len - 1)
      BY <1>1, <1>4, <2>3
    <3> QED BY <1>2, <1>3, <2>1, <2>3, <3>1
  <2> QED BY <2>2, <2>3
<1> HIDE DEF g
<1>6. Pure(g)
  BY <1>2, <1>4, <1>5 DEF Pure
<1>7. \A u \in 0..(f.len - 1) : f.data[u] = g.data[u]
  BY <1>1, <1>3, <1>4, <1>5
<1>8. Lags(f, g)
  BY <1>2, <1>4, <1>7 DEF Lags
<1> QED BY <1>6, <1>8 DEF g

(* A step of p that makes f of the temp file it has open.                  *)
LEMMA OneTempFile ==
    ASSUME TypeOK, S!SInv, Files, NEW p \in Procs, NEW f, pc[p] \in HasHandle,
           ino' = [ino EXCEPT ![fd[p]] = f],
           Pure(f), Lags(ino[fd[p]], f),
           \A q \in Procs : q # p => pc'[q] = pc[q],
           pc'[p] \in {"control", "receive", "update"} => fd'[p] = fd[p] /\ f.hdr.n <= f.len
    PROVE  /\ Files' /\ \A j \in TempInodes : Lags(ino[j], ino'[j])
           /\ \A j \in StageInodes : ino'[j] = ino[j]
<1>1. fd[p] \in TempInodes /\ fd[p] \in Inodes
  BY SerialFacts, InodeFacts
<1>2. ino'[fd[p]] = f /\ \A j \in Inodes : j # fd[p] => ino'[j] = ino[j]
  BY <1>1 DEF TypeOK
<1>3. \A j \in StageInodes : ino'[j] = ino[j]
  BY <1>1, <1>2, InodeFacts
<1>4. \A j \in TempInodes : Lags(ino[j], ino'[j]) /\ Pure(ino'[j])
  <2> SUFFICES ASSUME NEW j \in TempInodes PROVE Lags(ino[j], ino'[j]) /\ Pure(ino'[j])
    OBVIOUS
  <2>1. CASE j = fd[p]
    BY <1>2, <2>1
  <2>2. CASE j # fd[p]
    <3>1. ino'[j] = ino[j] /\ ino[j] \in File
      BY <1>2, <2>2, InodeFacts DEF TypeOK
    <3>2. Lags(ino[j], ino[j])
      BY <3>1, FileFacts DEF Lags
    <3> QED BY <3>1, <3>2 DEF Files
  <2> QED BY <2>1, <2>2
<1>5. \A q \in Procs : q # p => pc[q] \notin {"control", "receive", "update"}
  <2>1. Live(p) /\ \A q \in Procs : Live(q) => q = p
    BY SerialFacts DEF Live, Terminal, HasHandle, Holding
  <2> QED BY <2>1 DEF Live, Terminal
<1>6. \A q \in Procs : pc'[q] \in {"control", "receive", "update"} =>
        ino'[fd'[q]].hdr.n <= ino'[fd'[q]].len
  BY <1>2, <1>5
<1>7. \A j \in TempInodes : Pure(ino'[j])
  BY <1>4
<1>8. \A j \in StageInodes : ino'[j].hdr = NoHeader
  BY <1>3 DEF Files
<1> QED BY <1>3, <1>4, <1>6, <1>7, <1>8 DEF Files

(* A step of p that makes f of a staging file.                             *)
LEMMA OneStageFile ==
    ASSUME TypeOK, S!SInv, Files, NEW p \in Procs, NEW f, NEW i \in StageInodes,
           Live(p), pc[p] \notin {"control", "receive", "update"},
           pc'[p] \notin {"control", "receive", "update"},
           ino' = [ino EXCEPT ![i] = f], f.hdr = NoHeader,
           \A q \in Procs : q # p => pc'[q] = pc[q]
    PROVE  /\ Files' /\ \A j \in TempInodes : ino'[j] = ino[j]
<1>1. i \in Inodes /\ ino'[i] = f /\ \A j \in Inodes : j # i => ino'[j] = ino[j]
  BY InodeFacts DEF TypeOK
<1>2. \A j \in TempInodes : ino'[j] = ino[j]
  BY <1>1, InodeFacts
<1>3. \A q \in Procs : pc'[q] \notin {"control", "receive", "update"}
  <2>1. \A q \in Procs : Live(q) => q = p
    BY SerialFacts
  <2> QED BY <2>1 DEF Live, Terminal
<1>4. \A j \in StageInodes : ino'[j].hdr = NoHeader
  BY <1>1, InodeFacts DEF Files
<1>5. \A j \in TempInodes : Pure(ino'[j])
  BY <1>2 DEF Files
<1> QED BY <1>2, <1>3, <1>4, <1>5 DEF Files

(* Files keep their invariant; a temp file grows or is truncated, and only *)
(* what is at a staging path, or will be, is staged.                       *)
LEMMA FilesStep ==
    ASSUME TypeOK, S!SInv, Files, NEW p \in Procs, Step(p)
    PROVE  /\ Files'
           /\ \A j \in TempInodes : Lags(ino[j], ino'[j]) \/ (LockAndTruncate(p) /\ j = fd[p])
           /\ \A j \in StageInodes : \/ ino'[j] = ino[j]
                                     \/ pc[p] = "stage" /\ j = StageOf(p)
                                     \/ pc[p] \in {"stage", "copy"} /\ \E n \in Names : stage[n] = j
<1> DEFINE i == fd[p]  f == ino[i]
<1>0. /\ pc[p] \in HasHandle => i \in TempInodes /\ i \in Inodes /\ f \in File /\ Pure(f)
      /\ want[p] \in Versions /\ Size[want[p]] \in 0..MaxSize /\ got[p] \in 0..MaxSize
      /\ name[p] \in Names
  BY SerialFacts, InodeFacts DEF TypeOK, Files
<1>00. ASSUME NEW g \in File PROVE Lags(g, g)
  BY FileFacts DEF Lags
<1>1. CASE ~Busy(p)
  <2>1. /\ ino' = ino
        /\ \A q \in Procs : pc'[q] \in {"control", "receive", "update"} =>
              pc[q] \in {"control", "receive", "update"} /\ fd'[q] = fd[q]
    BY <1>1, QuietSteps
  <2>2. Files'
    BY <2>1 DEF Files
  <2>3. \A j \in TempInodes : ino'[j] = ino[j] /\ ino[j] \in File
    BY <2>1, InodeFacts DEF TypeOK
  <2> QED BY <1>00, <2>1, <2>2, <2>3
<1>2. CASE ReadHeader(p)
  <2>1. pc[p] \in HasHandle /\ ino' = [ino EXCEPT ![i] = Corrected(f)]
    BY <1>2 DEF ReadHeader, HasHandle, Holding
  <2>2. /\ Corrected(f).len = f.len /\ Corrected(f).data = f.data /\ Corrected(f).hdr.sum = f.hdr.sum
        /\ Corrected(f).hdr.n <= f.len
    BY <1>0, <2>1, CorrectedFile, FileFacts DEF Smaller
  <2>3. Pure(Corrected(f)) /\ Lags(f, Corrected(f))
    BY <1>0, <2>1, <2>2, FileFacts DEF Pure, Lags
  <2>4. \A q \in Procs : q # p => pc'[q] = pc[q]
    BY <1>2 DEF ReadHeader, Goto, TypeOK
  <2>5. pc'[p] = "control" => fd'[p] = i
    BY <1>2 DEF ReadHeader, Goto, TypeOK
  <2>6. pc'[p] \in {"control", "discard"}
    BY <1>2 DEF ReadHeader, Goto, TypeOK
  <2> HIDE DEF f
  <2>7. Pure(Corrected(f)) /\ Lags(ino[fd[p]], Corrected(f))
    BY <2>3 DEF f
  <2> QED BY <2>1, <2>2, <2>4, <2>5, <2>6, <2>7, OneTempFile
<1>3. CASE LockAndTruncate(p)
  <2>1. /\ i \in TempInodes /\ i \in Inodes /\ ino' = [ino EXCEPT ![i] = EmptyFile] /\ Live(p)
        /\ pc' = [pc EXCEPT ![p] = "writehdr"]
    BY <1>0, <1>3 DEF LockAndTruncate, HasHandle, Goto, Live, Terminal
  <2>2. ino'[i] = EmptyFile /\ \A j \in Inodes : j # i => ino'[j] = ino[j]
    BY <2>1 DEF TypeOK
  <2>3. \A j \in TempInodes : Pure(ino'[j]) /\ (Lags(ino[j], ino'[j]) \/ j = i)
    BY <1>00, <2>2, InodeFacts DEF Files, Pure, EmptyFile, NoHeader, TypeOK
  <2>4. \A j \in StageInodes : ino'[j] = ino[j]
    BY <2>1, <2>2, InodeFacts
  <2>5. \A q \in Procs : pc'[q] \notin {"control", "receive", "update"}
    <3>1. \A q \in Procs : Live(q) => q = p
      BY <2>1, SerialFacts
    <3> QED BY <2>1, <3>1 DEF Live, Terminal, TypeOK
  <2> QED BY <1>3, <2>3, <2>4, <2>5 DEF Files
<1>4. CASE WriteHeader(p)
  <2> DEFINE g == [f EXCEPT !.hdr = [sum |-> want[p], n |-> 0]]
  <2>1. /\ pc[p] \in HasHandle /\ ino' = [ino EXCEPT ![i] = g] /\ f.hdr.sum = Nil /\ f.len = 0
    BY <1>4, SerialFacts DEF WriteHeader, HasHandle, Holding
  <2>2. g.hdr = [sum |-> want[p], n |-> 0] /\ g.len = 0 /\ g.data = f.data
    BY <1>0, <2>1 DEF File
  <2>3. Pure(g) /\ Lags(f, g) /\ g.hdr.n <= g.len
    BY <1>0, <2>1, <2>2 DEF Pure, Lags
  <2>4. /\ \A q \in Procs : q # p => pc'[q] = pc[q]
        /\ fd'[p] = fd[p]
    BY <1>4 DEF WriteHeader, Goto, TypeOK
  <2> HIDE DEF g
  <2> QED BY <2>1, <2>3, <2>4, OneTempFile
<1>5. CASE UpdateMetadata(p) \/ FinishReceive(p)
  <2> DEFINE g == [f EXCEPT !.hdr = [sum |-> want[p], n |-> got[p]]]
  <2>1. /\ pc[p] \in HasHandle /\ ino' = [ino EXCEPT ![i] = g]
        /\ f.hdr.sum = want[p] /\ got[p] <= f.len
    BY <1>5, SerialFacts DEF UpdateMetadata, FinishReceive, SaveProgress, HasHandle, Holding, Filling
  <2>2. g.hdr = [sum |-> want[p], n |-> got[p]] /\ g.len = f.len /\ g.data = f.data
    BY <1>0, <2>1 DEF File
  <2>3. Pure(g) /\ Lags(f, g) /\ g.hdr.n <= g.len
    BY <1>0, <2>1, <2>2, FileFacts DEF Pure, Lags
  <2>4. /\ \A q \in Procs : q # p => pc'[q] = pc[q]
        /\ fd'[p] = fd[p]
    BY <1>5 DEF UpdateMetadata, FinishReceive, Goto, TypeOK
  <2> HIDE DEF g
  <2> QED BY <2>1, <2>3, <2>4, OneTempFile
<1>6. ASSUME NEW k \in Nat, pc[p] = "receive", got[p] < Size[want[p]], k <= ChunkAt(p)
      PROVE  LET g == Written(f, got[p], [v |-> want[p], from |-> got[p], n |-> k])
             IN  Pure(g) /\ Lags(f, g) /\ g.hdr.n <= g.len
  <2>1. /\ f \in File /\ Pure(f) /\ f.hdr.sum = want[p] /\ got[p] <= f.len /\ f.hdr.n <= f.len
    BY <1>0, <1>6, SerialFacts DEF HasHandle, Holding, Filling, Files
  <2>2. /\ got[p] + k <= Size[want[p]] /\ got[p] + k <= MaxSize
    BY <1>0, <1>6, ChunkFacts
  <2>3. got[p] \in 0..f.len /\ want[p] \in Versions /\ got[p] \in 0..MaxSize
    BY <1>0, <2>1, FileFacts
  <2> HIDE DEF f
  <2> QED BY <2>1, <2>2, <2>3, PureWritten, UnitsWritten
<1>7. CASE ReceiveChunk(p, NextChunk(p))
  <2> DEFINE g == Written(f, got[p], NextChunk(p))
  <2>1. /\ pc[p] = "receive" /\ got[p] < Size[want[p]] /\ ino' = [ino EXCEPT ![i] = g]
        /\ pc[p] \in HasHandle
    BY <1>7 DEF ReceiveChunk, HasHandle, Holding
  <2>2. /\ ChunkAt(p) \in Nat /\ ChunkAt(p) <= ChunkAt(p)
        /\ NextChunk(p) = [v |-> want[p], from |-> got[p], n |-> ChunkAt(p)]
    BY <2>1, ChunkFacts
  <2>3. Pure(g) /\ Lags(f, g) /\ g.hdr.n <= g.len
    BY <1>6, <2>1, <2>2
  <2>4. /\ \A q \in Procs : q # p => pc'[q] = pc[q]
        /\ fd'[p] = fd[p]
    BY <1>7 DEF ReceiveChunk, Goto, TypeOK
  <2> HIDE DEF g
  <2> QED BY <2>1, <2>3, <2>4, OneTempFile
<1>8. CASE WriteFails(p, NextChunk(p))
  <2>0. pc[p] = "receive" /\ got[p] < Size[want[p]] /\ pc[p] \in HasHandle
    BY <1>8 DEF WriteFails, HasHandle, Holding
  <2>1. /\ ChunkAt(p) \in Nat
        /\ NextChunk(p) = [v |-> want[p], from |-> got[p], n |-> ChunkAt(p)]
    BY <2>0, ChunkFacts
  <2>2. PICK k \in 0..(NextChunk(p).n - 1) :
          ino' = [ino EXCEPT ![i] = Written(f, got[p], [NextChunk(p) EXCEPT !.n = k])]
    BY <1>8 DEF WriteFails
  <2>3. /\ [NextChunk(p) EXCEPT !.n = k] = [v |-> want[p], from |-> got[p], n |-> k]
        /\ k \in Nat /\ k <= ChunkAt(p)
    BY <2>1, <2>2
  <2> DEFINE g == Written(f, got[p], [NextChunk(p) EXCEPT !.n = k])
  <2>4. Pure(g) /\ Lags(f, g) /\ g.hdr.n <= g.len
    BY <1>6, <2>0, <2>3
  <2>5. /\ \A q \in Procs : q # p => pc'[q] = pc[q]
        /\ pc'[p] = "failed"
    BY <1>8 DEF WriteFails, Exit, Goto, TypeOK
  <2>6. ino' = [ino EXCEPT ![i] = g]
    BY <2>2
  <2> HIDE DEF g
  <2> QED BY <2>0, <2>4, <2>5, <2>6, OneTempFile
<1>9. CASE StageCreate(p)
  <2> DEFINE j == IF stage[name[p]] = Nil THEN StageOf(p) ELSE stage[name[p]]
  <2>1. /\ j \in StageInodes /\ ino' = [ino EXCEPT ![j] = EmptyFile] /\ pc[p] = "stage" /\ Live(p)
        /\ pc'[p] = "copy" /\ \A q \in Procs : q # p => pc'[q] = pc[q]
    BY <1>0, <1>9, InodeFacts DEF StageCreate, TypeOK, Live, Terminal, Goto
  <2>2. Files' /\ \A k \in TempInodes : ino'[k] = ino[k]
    <3>1. EmptyFile.hdr = NoHeader
      BY DEF EmptyFile
    <3>2. /\ pc[p] \notin {"control", "receive", "update"}
          /\ pc'[p] \notin {"control", "receive", "update"}
      BY <2>1
    <3> HIDE DEF j
    <3> QED BY <2>1, <3>1, <3>2, OneStageFile
  <2>3. \A k \in StageInodes : ino'[k] = ino[k] \/ k = j
    BY <2>1, InodeFacts DEF TypeOK
  <2>4. j = StageOf(p) \/ \E n \in Names : stage[n] = j
    BY <1>0
  <2>5. \A k \in TempInodes : Lags(ino[k], ino'[k])
    BY <1>00, <2>2, InodeFacts DEF TypeOK
  <2> HIDE DEF j
  <2> QED BY <2>1, <2>2, <2>3, <2>4, <2>5
<1>10. CASE CopyChunk(p)
  <2> DEFINE to == Smaller(cp[p] + ChunkLen, f.len)  g == Copied(ino[sfd[p]], f, cp[p], to)
  <2>1. /\ ino' = [ino EXCEPT ![sfd[p]] = g] /\ pc[p] = "copy" /\ Live(p) /\ pc' = pc
        /\ sfd[p] \in StageInodes /\ sfd[p] = stage[name[p]]
    BY <1>10, SerialFacts DEF CopyChunk, Live, Terminal
  <2>2. ino[sfd[p]] \in File /\ ino[sfd[p]].hdr = NoHeader
    BY <2>1, InodeFacts DEF TypeOK, Files
  <2>3. g.hdr = NoHeader
    BY <2>2 DEF Copied, File
  <2>4. \A k \in StageInodes : ino'[k] = ino[k] \/ k = stage[name[p]]
    BY <2>1, InodeFacts DEF TypeOK
  <2> HIDE DEF g
  <2>5. Files' /\ \A k \in TempInodes : ino'[k] = ino[k]
    BY <2>1, <2>3, OneStageFile
  <2>6. \A k \in TempInodes : Lags(ino[k], ino'[k])
    BY <1>00, <2>5, InodeFacts DEF TypeOK
  <2> QED BY <1>0, <2>1, <2>4, <2>5, <2>6
<1> QED BY <1>1, <1>2, <1>3, <1>4, <1>5, <1>7, <1>8, <1>9, <1>10 DEF Busy
------------------------------------------------------------------------------
(* What a step of a process does to the disk                               *)

(* What a step of ResumeStore changes besides files, by where it is.       *)
LEMMA StepFacts ==
    ASSUME ~Concurrent, TypeOK, S!SInv, NEW p \in Procs, Step(p)
    PROVE  /\ \A q \in Procs : q # p => ~Live(q) /\ pc'[q] = pc[q] /\ name'[q] = name[q]
           /\ want' = want /\ (pc[p] # "prompt" => name' = name)
           /\ pc'[p] \in BeforeTemp => pc[p] \in BeforeTemp
           /\ pc'[p] \in BeforeStage => pc[p] \in BeforeStage
           /\ pc'[p] \in {"start", "prompt"} => pc[p] \in {"start", "prompt"} /\ final' = final
           /\ pc'[p] = "rename" => \/ CopyDone(p)
                                   \/ pc[p] = "rename" /\ CtrlC(p)
           /\ pc'[p] \in {"unlock", "remove", "ack"} =>
                 \/ RenameStage(p)
                 \/ /\ pc[p] \in {"unlock", "remove", "ack"}
                    /\ DropTemp(p) \/ RemoveTemp(p) \/ CtrlC(p)
                    /\ final' = final
           /\ pc'[p] = "done" => SendAck(p)
           /\ \/ stage' = stage
              \/ stage' = [stage EXCEPT ![name[p]] = Nil]
              \/ pc[p] = "stage" /\ stage' = [stage EXCEPT ![name[p]] = StageOf(p)]
           /\ \/ final' = final
              \/ pc[p] = "prompt" /\ final' = [final EXCEPT ![1] = Nil]
              \/ /\ RenameStage(p) /\ pc[p] = "rename" /\ stage[name[p]] # Nil
                 /\ final' = [final EXCEPT ![name[p]] = stage[name[p]]] /\ ino' = ino
                 /\ stage' = [stage EXCEPT ![name[p]] = Nil] /\ pc'[p] = "unlock"
<1> USE DEF TypeOK, Goto, Exit, Terminal, dirVars, BeforeTemp, BeforeStage
<1>1. \A q \in Procs : q # p => ~Live(q)
  <2>1. CASE Live(p)
    BY <2>1, SerialFacts
  <2>2. CASE ~Live(p)
    <3>1. Start(p)
      <4>1. ASSUME Step(p), ~Start(p) PROVE Live(p)
        <5>1. pc[p] \in Stages
          OBVIOUS
        <5> QED BY <4>1, <5>1
            DEF Live, Step, Decide, ChooseOverwrite, ChooseRename, ChooseCancel,
                CheckResume, OpenForResume, LockForResume, ReadHeader, DiscardStale,
                CreateTemp, OpenForCreate, LockAndTruncate, CreateNew, LockNew, WriteHeader,
                SendControl, ReceiveChunk, WriteFails, UpdateMetadata, FinishReceive,
                Finalize, StageCreate, CopyChunk, CopyDone, RenameStage, DropTemp, RemoveTemp,
                SendAck, Stop, LockHeld, StageFails, Fails, CtrlC, Interrupted, Crash
      <4> QED BY <2>2, <4>1
    <3> QED BY <3>1 DEF Start
  <2> QED BY <2>1, <2>2
<1>2. CASE Decide(p)
  BY <1>1, <1>2 DEF Decide, Start, ChooseOverwrite, ChooseRename, ChooseCancel, Prepare
<1>3. CASE CheckResume(p)
  BY <1>1, <1>3 DEF CheckResume, OpenForResume, LockForResume, ReadHeader, DiscardStale
<1>4. CASE CreateTemp(p)
  BY <1>1, <1>4 DEF CreateTemp, OpenForCreate, LockAndTruncate, CreateNew, LockNew, WriteHeader
<1>5. CASE SendControl(p)
  BY <1>1, <1>5 DEF SendControl
<1>6. CASE ReceiveChunk(p, NextChunk(p)) \/ WriteFails(p, NextChunk(p))
  BY <1>1, <1>6 DEF ReceiveChunk, WriteFails
<1>7. CASE UpdateMetadata(p) \/ FinishReceive(p)
  BY <1>1, <1>7 DEF UpdateMetadata, FinishReceive
<1>8. CASE StageCreate(p)
  <2>1. /\ pc[p] = "stage" /\ pc' = [pc EXCEPT ![p] = "copy"] /\ name' = name /\ final' = final
        /\ want' = want
        /\ stage' = [stage EXCEPT ![name[p]] =
                       IF stage[name[p]] = Nil THEN StageOf(p) ELSE stage[name[p]]]
    BY <1>8 DEF StageCreate
  <2>2. stage' = stage \/ stage' = [stage EXCEPT ![name[p]] = StageOf(p)]
    BY <2>1
  <2> QED BY <1>1, <2>1, <2>2
<1>9. CASE CopyChunk(p) \/ CopyDone(p)
  BY <1>1, <1>9 DEF CopyChunk, CopyDone
<1>10. CASE RenameStage(p)
  BY <1>1, <1>10 DEF RenameStage
<1>11. CASE DropTemp(p) \/ RemoveTemp(p)
  BY <1>1, <1>11 DEF DropTemp, RemoveTemp
<1>12. CASE SendAck(p)
  BY <1>1, <1>12 DEF SendAck
<1>13. CASE CtrlC(p)
  BY <1>1, <1>13 DEF CtrlC, Live
<1>14. CASE LockHeld(p) \/ StageFails(p) \/ Fails(p) \/ Interrupted(p) \/ Crash(p)
  BY <1>1, <1>14 DEF LockHeld, StageFails, Fails, Interrupted, Crash
<1> QED BY <1>2, <1>3, <1>4, <1>5, <1>6, <1>7, <1>8, <1>9, <1>10, <1>11, <1>12, <1>13, <1>14
        DEF Step, Finalize, Stop

(* What a process does besides: what it marks as truncated, and what it    *)
(* waits for.                                                              *)
LEMMA ActFacts ==
    ASSUME TypeOK, PowerTypeOK, Handles, NEW p \in Procs, Act(p)
    PROVE  /\ Step(p) /\ UNCHANGED <<diskVars, missed, outages>>
           /\ cut \subseteq cut' /\ (LockAndTruncate(p) => fd[p] \in cut')
           /\ \A i \in cut' : \/ i \in cut \cup TempInodes
                              \/ pc[p] = "stage" /\ i \in Inodes /\ i = stage[name[p]]
           /\ \A q \in Procs : q # p => due'[q] = due[q]
           /\ due' \in [Procs -> {<<>>, <<Dir>>} \cup {<<i>> : i \in Inodes}
                                  \cup {<<i, Dir>> : i \in StageInodes}]
           /\ CopyDone(p) => due'[p] = <<sfd[p], Dir>>
           /\ RenameStage(p) /\ pc'[p] = "unlock" => due[p] = <<>> /\ due'[p] = <<Dir>>
           /\ DropTemp(p) \/ RemoveTemp(p) \/ CtrlC(p) => due' = due
           /\ SendAck(p) => due[p] = <<>>
<1> USE DEF SyncThen, Goto, TypeOK
<1> DEFINE D == {<<>>, <<Dir>>} \cup {<<i>> : i \in Inodes} \cup {<<i, Dir>> : i \in StageInodes}
<1>0. due \in [Procs -> D] /\ <<>> \in D /\ <<Dir>> \in D
      /\ (\A i \in Inodes : <<i>> \in D) /\ \A i \in StageInodes : <<i, Dir>> \in D
  BY DEF PowerTypeOK
<1> HIDE DEF D
<1>00. \A q \in Procs : pc[q] \in HasHandle => fd[q] \in TempInodes /\ fd[q] \in Inodes
  BY InodeFacts DEF Handles
<1>1. CASE Signal(p)
  <2>1. cut' = cut /\ (due' = due \/ due' = [due EXCEPT ![p] = <<>>])
        /\ (CtrlC(p) => due' = due)
    BY <1>1 DEF Signal, CtrlC, Crash, Exit, Live, Terminal
  <2>2. Step(p)
    BY <1>1 DEF Signal, Step, Stop
  <2>3. pc' = pc \/ pc'[p] = "crashed"
    BY <1>1 DEF Signal, CtrlC, Crash, Exit
  <2>4. ~LockAndTruncate(p) /\ ~CopyDone(p) /\ ~(RenameStage(p) /\ pc'[p] = "unlock")
        /\ ~DropTemp(p) /\ ~SendAck(p) /\ ~RemoveTemp(p)
    BY <2>3 DEF LockAndTruncate, CopyDone, RenameStage, DropTemp, RemoveTemp, SendAck, Exit
  <2>5. due' \in [Procs -> D]
    BY <1>0, <2>1
  <2> QED BY <2>1, <2>2, <2>4, <2>5 DEF Act, D
<1>2. CASE due[p] = <<>> /\ Unsynced(p)
  <2>1. cut' = cut /\ due' = due
    BY <1>2 DEF Unsynced
  <2>2. Step(p)
    BY <1>2 DEF Unsynced, Step, Decide, CheckResume, CreateTemp, Finalize, Stop
  <2>3. ~LockAndTruncate(p) /\ ~CopyDone(p) /\ ~(RenameStage(p) /\ pc'[p] = "unlock")
    BY <1>2 DEF LockAndTruncate, CopyDone, RenameStage, Unsynced, Exit, Decide, Start,
         ChooseOverwrite, ChooseRename, ChooseCancel, OpenForResume, LockForResume,
         DiscardStale, OpenForCreate, CreateNew, LockNew, WriteHeader, SendControl,
         ReceiveChunk, WriteFails, CopyChunk, DropTemp, RemoveTemp, SendAck, LockHeld,
         StageFails, Fails, Interrupted
  <2> QED BY <1>0, <1>2, <2>1, <2>2, <2>3 DEF Act, D
<1>3. CASE due[p] = <<>> /\ Truncate(p)
  <2>1. due' = due
    BY <1>3 DEF Truncate
  <2>2. Step(p)
    BY <1>3 DEF Truncate, Step, CreateTemp, Finalize
  <2>3. pc[p] \in {"locktrunc", "stage"} /\ pc'[p] \in {"writehdr", "copy"}
    BY <1>3 DEF Truncate, LockAndTruncate, StageCreate
  <2>4. ~CopyDone(p) /\ ~RenameStage(p)
    BY <2>3 DEF CopyDone, RenameStage
  <2>5. CASE LockAndTruncate(p) /\ cut' = cut \cup {fd[p]}
    BY <1>0, <1>00, <1>3, <2>1, <2>2, <2>4, <2>5 DEF Act, D, LockAndTruncate, HasHandle
  <2>6. CASE StageCreate(p) /\ cut' = cut \cup ({stage[name[p]]} \ {Nil})
    <3>1. pc[p] = "stage" /\ name[p] \in Names /\ ~LockAndTruncate(p)
      BY <2>6 DEF StageCreate, LockAndTruncate
    <3>2. \A i \in cut' : i \in cut \/ (i \in Inodes /\ i = stage[name[p]])
      BY <2>6, <3>1, InodeFacts
    <3> QED BY <1>0, <1>3, <2>1, <2>2, <2>4, <2>6, <3>1, <3>2 DEF Act, D
  <2> QED BY <1>3, <2>5, <2>6 DEF Truncate
<1>4. CASE due[p] = <<>> /\ (SaveAndSync(p) \/ ReadAndSync(p))
  <2>1. /\ cut' = cut /\ pc[p] \in {"update", "receive", "read"}
        /\ pc'[p] \in {"receive", "stage", "control", "discard"}
        /\ due' = [due EXCEPT ![p] = <<>>] \/ due' = [due EXCEPT ![p] = <<fd[p]>>]
    BY <1>4 DEF SaveAndSync, ReadAndSync, UpdateMetadata, FinishReceive, ReadHeader
  <2>2. Step(p)
    BY <1>4 DEF SaveAndSync, ReadAndSync, Step, CheckResume
  <2>3. ~LockAndTruncate(p) /\ ~CopyDone(p) /\ ~RenameStage(p)
        /\ ~DropTemp(p) /\ ~SendAck(p) /\ ~RemoveTemp(p)
    BY <2>1 DEF LockAndTruncate, CopyDone, RenameStage, DropTemp, RemoveTemp, SendAck, Exit
  <2>4. ~CtrlC(p)
    BY <1>4 DEF CtrlC, SaveAndSync, ReadAndSync, UpdateMetadata, FinishReceive, ReadHeader
  <2>5. fd[p] \in Inodes
    BY <1>00, <2>1 DEF HasHandle, Holding
  <2>6. due' \in [Procs -> D] /\ \A q \in Procs : q # p => due'[q] = due[q]
    <3>1. PICK d \in D : due' = [due EXCEPT ![p] = d]
      BY <1>0, <2>1, <2>5
    <3> QED BY <1>0, <3>1
  <2> QED BY <1>4, <2>1, <2>2, <2>3, <2>4, <2>6 DEF Act, D
<1>5. CASE due[p] = <<>> /\ StageAndSync(p)
  <2>1. /\ cut' = cut /\ pc[p] = "copy" /\ pc'[p] = "rename" /\ CopyDone(p)
        /\ due' = [due EXCEPT ![p] = <<sfd[p], Dir>>]
    BY <1>5 DEF StageAndSync, CopyDone
  <2>2. Step(p)
    BY <1>5 DEF StageAndSync, Step, Finalize
  <2>3. ~LockAndTruncate(p) /\ ~RenameStage(p) /\ ~DropTemp(p) /\ ~SendAck(p)
        /\ ~RemoveTemp(p) /\ ~CtrlC(p)
    BY <2>1 DEF LockAndTruncate, RenameStage, DropTemp, RemoveTemp, SendAck, CtrlC
  <2>4. sfd[p] \in StageInodes
    BY <2>1 DEF Handles
  <2>5. due' \in [Procs -> D] /\ due'[p] = <<sfd[p], Dir>>
        /\ \A q \in Procs : q # p => due'[q] = due[q]
    BY <1>0, <2>1, <2>4
  <2> QED BY <1>5, <2>1, <2>2, <2>3, <2>5 DEF Act, D
<1>6. CASE due[p] = <<>> /\ RenameAndSync(p)
  <2>1. /\ cut' = cut /\ pc[p] = "rename" /\ pc'[p] \in {"unlock", "failed"}
        /\ due' = [due EXCEPT ![p] = IF pc'[p] = "unlock" THEN <<Dir>> ELSE <<>>]
    BY <1>6 DEF RenameAndSync, RenameStage, Exit
  <2>2. Step(p)
    BY <1>6 DEF RenameAndSync, Step, Finalize
  <2>3. ~LockAndTruncate(p) /\ ~CopyDone(p) /\ ~DropTemp(p) /\ ~SendAck(p)
        /\ ~RemoveTemp(p) /\ ~CtrlC(p)
    BY <2>1 DEF LockAndTruncate, CopyDone, DropTemp, RemoveTemp, SendAck, CtrlC
  <2>5. due' \in [Procs -> D] /\ (pc'[p] = "unlock" => due'[p] = <<Dir>>)
        /\ \A q \in Procs : q # p => due'[q] = due[q]
    BY <1>0, <2>1
  <2> QED BY <1>6, <2>1, <2>2, <2>3, <2>5 DEF Act, D
<1> QED BY <1>1, <1>2, <1>3, <1>4, <1>5, <1>6 DEF Act

(* An earlier state of an earlier state of a file.                         *)
LEMMA LagsTransitive ==
    ASSUME NEW f \in File, NEW g \in File, NEW h \in File, Lags(f, g), Lags(g, h)
    PROVE  Lags(f, h)
<1>1. f.len \in Nat /\ g.len \in Nat /\ h.len \in Nat
  BY FileFacts
<1>2. \A u \in 0..(f.len - 1) : f.data[u] = h.data[u]
  BY <1>1 DEF Lags
<1>3. f.len <= h.len
  BY <1>1 DEF Lags
<1>4. f.hdr.sum # Nil => f.hdr.sum = h.hdr.sum
  BY DEF Lags
<1> QED BY <1>2, <1>3, <1>4 DEF Lags

(* A staged file at no staging path, that no process is about to create,   *)
(* is not touched.                                                         *)
LEMMA Unmoved ==
    ASSUME TypeOK, PowerTypeOK, S!SInv, Files, NEW p \in Procs, Act(p), NEW i \in StageInodes,
           pc[p] = "stage" => i # StageOf(p),
           \A n \in Names : stage[n] # i
    PROVE  ino'[i] = ino[i] /\ (OnDiskAsIs(i) => OnDiskAsIs(i)')
<1>0. Handles
  BY SerialFacts
<1>1. Step(p) /\ dino' = dino
  BY <1>0, ActFacts DEF diskVars
<1>2. ino'[i] = ino[i]
  BY <1>1, FilesStep
<1>3. i \notin TempInodes
  BY InodeFacts
<1>4. i \in cut' => i \in cut
  BY <1>0, <1>3, ActFacts DEF TypeOK
<1> QED BY <1>1, <1>2, <1>4 DEF OnDiskAsIs

(* Each step of a process keeps the invariant.                             *)
LEMMA ActStep ==
    ASSUME ~Concurrent, DInv, NEW p \in Procs, Act(p)
    PROVE  DInv'
<1>0. /\ TypeOK /\ PowerTypeOK /\ S!SInv /\ Files /\ DiskFiles /\ DiskDir /\ Published /\ Waits
      /\ Handles
  BY SerialFacts DEF DInv
<1> HIDE DEF DInv
<1>1. /\ Step(p) /\ dino' = dino /\ dtemp' = dtemp /\ dstage' = dstage /\ dfinal' = dfinal
      /\ missed' = missed /\ outages' = outages
  BY <1>0, ActFacts DEF diskVars
<1>2. TypeOK' /\ S!SInv' /\ Files'
  BY <1>0, <1>1, SerialInView, FilesStep
<1>3. PowerTypeOK'
  <2>1. cut' \subseteq Inodes
    BY <1>0, ActFacts, InodeFacts DEF PowerTypeOK
  <2> QED BY <1>0, <1>1, <2>1, ActFacts DEF PowerTypeOK
<1>4. DiskFiles'
  <2> SUFFICES ASSUME NEW i \in TempInodes, i \notin cut'
               PROVE  Lags(dino[i], ino'[i])
    BY <1>0, <1>1 DEF DiskFiles
  <2>1. i \notin cut /\ ~(LockAndTruncate(p) /\ i = fd[p])
    BY <1>0, ActFacts
  <2>2. Lags(ino[i], ino'[i])
    BY <1>0, <1>1, <2>1, FilesStep
  <2>3. Lags(dino[i], ino[i])
    BY <1>0, <2>1 DEF DiskFiles
  <2>4. dino[i] \in File /\ ino[i] \in File /\ ino'[i] \in File
    BY <1>0, <1>2, InodeFacts DEF TypeOK, PowerTypeOK
  <2> QED BY <2>2, <2>3, <2>4, LagsTransitive
<1>5. DiskDir'
  <2>1. ASSUME NEW q \in Procs
        PROVE  /\ pc'[q] \in BeforeTemp => pc[q] \in BeforeTemp
               /\ pc'[q] \in BeforeStage => pc[q] \in BeforeStage
    BY <1>0, <1>1, StepFacts
  <2>2. ASSUME NEW m \in Names, NEW n \in Names, stage'[m] # Nil PROVE stage'[m] # dfinal[n]
    <3>1. stage'[m] = stage[m] \/ (pc[p] = "stage" /\ stage'[m] = StageOf(p))
      BY <1>0, <1>1, <2>2, StepFacts DEF TypeOK
    <3>2. pc[p] = "stage" => dfinal[n] # StageOf(p)
      BY <1>0 DEF DiskDir, BeforeStage
    <3> QED BY <1>0, <2>2, <3>1, <3>2 DEF DiskDir
  <2>3. ASSUME NEW q \in Procs, NEW n \in Names
        PROVE  /\ pc'[q] \in BeforeTemp => dtemp[n] # TempOf(q)
               /\ pc'[q] \in BeforeStage => dstage[n] # StageOf(q) /\ dfinal[n] # StageOf(q)
    BY <1>0, <2>1 DEF DiskDir
  <2>4. \A m, n \in Names :
          /\ m # n /\ dstage[m] # Nil => dstage[m] # dstage[n]
          /\ m # n /\ dfinal[m] # Nil => dfinal[m] # dfinal[n]
          /\ dstage[m] # Nil => dstage[m] # dfinal[n] /\ dstage[m] # Old
    BY <1>0 DEF DiskDir
  <2> QED BY <1>1, <2>2, <2>3, <2>4 DEF DiskDir
<1>6. ASSUME NEW n \in Names, NEW i \in StageInodes, i = final[n] \/ i = dfinal[n]
      PROVE  ino'[i] = ino[i] /\ OnDiskAsIs(i)'
  <2>1. i # Nil
    BY InodeFacts
  <2>2. pc[p] = "stage" => i # StageOf(p)
    BY <1>0, <1>6, SerialFacts DEF BeforeStage, DiskDir
  <2>3. \A m \in Names : stage[m] # i
    BY <1>0, <1>6, <2>1, SerialFacts DEF DiskDir
  <2>4. OnDiskAsIs(i)
    BY <1>0, <1>6, <2>1 DEF Published
  <2> QED BY <1>0, <2>2, <2>3, <2>4, Unmoved
<1>7. \A n \in Names : /\ final[n] # Nil => final[n] \in StageInodes
                       /\ dfinal[n] # Nil => dfinal[n] \in StageInodes
                       /\ stage[n] # Nil => stage[n] \in StageInodes
  BY <1>0 DEF TypeOK, PowerTypeOK
<1>8. Published'
  <2>1. ASSUME NEW n \in Names, final'[n] # Nil PROVE OnDiskAsIs(final[n])'
    <3>1. PICK i \in StageInodes : i = final'[n]
      BY <1>2, <2>1 DEF TypeOK
    <3>2. CASE final'[n] = final[n]
      <4>1. OnDiskAsIs(i)'
        BY <1>6, <3>1, <3>2
      <4> QED BY <3>1, <4>1 DEF OnDiskAsIs
    <3>3. CASE final'[n] # final[n]
      <4>1. /\ RenameStage(p) /\ pc[p] = "rename" /\ pc'[p] = "unlock" /\ ino' = ino
            /\ i = stage[name[p]]
        BY <1>0, <1>1, <2>1, <3>1, <3>3, StepFacts DEF TypeOK
      <4>2. due[p] = <<>>
        BY <1>0, <4>1, ActFacts
      <4>3. OnDiskAsIs(i)
        <5>1. due[p] # <<stage[name[p]], Dir>>
          BY <4>2
        <5> QED BY <1>0, <4>1, <5>1 DEF Waits, OnDiskAsIs
      <4>4. i \notin cut'
        BY <1>0, <4>1, <4>3, ActFacts, InodeFacts DEF OnDiskAsIs
      <4> QED BY <1>1, <3>1, <4>1, <4>3, <4>4 DEF OnDiskAsIs
    <3> QED BY <3>2, <3>3
  <2>2. ASSUME NEW n \in Names, dfinal[n] # Nil
        PROVE  OnDiskAsIs(dfinal[n])' /\ \E v \in Versions : Holds(ino'[dfinal[n]], v)
    <3>1. PICK i \in StageInodes : i = dfinal[n]
      BY <1>7, <2>2
    <3>2. ino'[i] = ino[i] /\ OnDiskAsIs(i)'
      BY <1>6, <3>1
    <3>3. \E v \in Versions : Holds(ino[i], v)
      BY <1>0, <2>2, <3>1 DEF Published
    <3> QED BY <1>1, <3>1, <3>2, <3>3 DEF OnDiskAsIs
  <2> QED BY <1>1, <2>1, <2>2 DEF Published
<1>9. Waits'
  <2>1. ASSUME NEW q \in Procs, pc'[q] = "rename"
        PROVE  (\/ due[q] = <<stage[name[q]], Dir>>
                \/ due[q] \in {<<Dir>>, <<>>} /\ OnDiskAsIs(stage[name[q]]))'
    <3>1. q = p
      BY <1>0, <1>1, <2>1, StepFacts DEF Live, Terminal
    <3>2. CASE CopyDone(p)
      <4>1. due'[p] = <<sfd[p], Dir>> /\ sfd[p] = stage[name[p]] /\ stage' = stage /\ name' = name
        BY <1>0, <3>2, ActFacts, SerialFacts DEF CopyDone, dirVars
      <4> QED BY <3>1, <4>1
    <3>3. CASE pc[p] = "rename" /\ CtrlC(p)
      <4>1. due' = due /\ ino' = ino /\ stage' = stage /\ name' = name
        BY <1>0, <3>3, ActFacts DEF CtrlC
      <4>2. \A i \in cut' : i \in cut \cup TempInodes
        BY <1>0, <3>3, ActFacts
      <4>3. stage[name[p]] \in StageInodes
        BY <1>0, <1>7, <3>3, SerialFacts DEF TypeOK
      <4>4. stage[name[p]] \notin TempInodes
        BY <4>3, InodeFacts
      <4>5. due[p] = <<stage[name[p]], Dir>> \/ (due[p] \in {<<Dir>>, <<>>} /\ OnDiskAsIs(stage[name[p]]))
        BY <1>0, <3>3 DEF Waits
      <4> QED BY <1>1, <3>1, <4>1, <4>2, <4>4, <4>5 DEF OnDiskAsIs
    <3> QED BY <1>0, <1>1, <2>1, <3>1, <3>2, <3>3, StepFacts
  <2>2. ASSUME NEW q \in Procs, pc'[q] \in {"unlock", "remove", "ack"}
        PROVE  due'[q] = <<Dir>> \/ q \in missed \/ dfinal'[name'[q]] = final'[name'[q]]
    <3>1. q = p
      BY <1>0, <1>1, <2>2, StepFacts DEF Live, Terminal
    <3>2. CASE RenameStage(p)
      <4>1. pc'[p] = "unlock"
        BY <1>0, <2>2, <3>1, <3>2 DEF RenameStage, Exit, Goto, TypeOK
      <4> QED BY <1>0, <3>1, <3>2, <4>1, ActFacts
    <3>3. CASE pc[p] \in {"unlock", "remove", "ack"} /\ (DropTemp(p) \/ RemoveTemp(p) \/ CtrlC(p))
               /\ final' = final
      <4>1. due' = due /\ name' = name
        BY <1>0, <1>1, <3>3, ActFacts, StepFacts
      <4>2. due[p] = <<Dir>> \/ p \in missed \/ dfinal[name[p]] = final[name[p]]
        BY <1>0, <3>3 DEF Waits
      <4> QED BY <1>1, <3>1, <3>3, <4>1, <4>2
    <3> QED BY <1>0, <1>1, <2>2, <3>1, <3>2, <3>3, StepFacts
  <2>3. ASSUME NEW q \in Procs, pc'[q] = "done", q \notin missed,
               \A r \in Procs \ {q} : pc'[r] \in {"start", "prompt"}
        PROVE  /\ final'[name'[q]] # Nil /\ dfinal'[name'[q]] = final'[name'[q]]
               /\ Holds(ino'[final'[name'[q]]], want'[q])
    <3>1. CASE q = p
      <4>1. SendAck(p) /\ due[p] = <<>> /\ pc[p] = "ack"
        BY <1>0, <1>1, <2>3, <3>1, ActFacts, StepFacts DEF SendAck
      <4>2. final' = final /\ ino' = ino /\ name' = name /\ want' = want
        BY <4>1 DEF SendAck, Exit, dirVars
      <4>3. dfinal[name[p]] = final[name[p]]
        <5>1. due[p] # <<Dir>>
          BY <4>1
        <5>2. p \notin missed /\ pc[p] \in {"unlock", "remove", "ack"}
          BY <2>3, <3>1, <4>1
        <5> QED BY <1>0, <5>1, <5>2 DEF Waits
      <4>4. final[name[p]] # Nil /\ Holds(ino[final[name[p]]], want[p])
        BY <1>0, <4>1, SerialFacts DEF DeliveredAtAck
      <4> QED BY <1>1, <3>1, <4>2, <4>3, <4>4
    <3>2. CASE q # p
      <4>1. pc[p] \in {"start", "prompt"} /\ final' = final
        BY <1>0, <1>1, <2>3, <3>2, StepFacts
      <4>2. pc[q] = "done" /\ (\A r \in Procs \ {q} : pc[r] \in {"start", "prompt"})
            /\ name'[q] = name[q] /\ want' = want
        BY <1>0, <1>1, <2>3, <3>2, <4>1, StepFacts
      <4>3. /\ final[name[q]] # Nil /\ dfinal[name[q]] = final[name[q]]
            /\ Holds(ino[final[name[q]]], want[q])
        BY <1>0, <2>3, <4>2 DEF Waits
      <4>4. name[q] \in Names
        BY <1>0 DEF TypeOK
      <4>5. PICK i \in StageInodes : i = final[name[q]]
        BY <1>7, <4>3, <4>4
      <4>6. ino'[i] = ino[i]
        BY <1>6, <4>4, <4>5
      <4> QED BY <1>1, <4>1, <4>2, <4>3, <4>5, <4>6
    <3> QED BY <3>1, <3>2
  <2> QED BY <1>1, <2>1, <2>2, <2>3 DEF Waits
<1> QED BY <1>2, <1>3, <1>4, <1>5, <1>8, <1>9 DEF DInv
------------------------------------------------------------------------------
(* The disk catches up                                                     *)

(* While the disk catches up the processes see no change.                  *)
LEMMA UnseenStep ==
    ASSUME ~Concurrent, TypeOK, S!SInv, Files, UNCHANGED vars
    PROVE  TypeOK' /\ S!SInv' /\ Files'
<1> USE DEF vars, procVars, dirVars
<1>1. TypeOK'
  BY DEF TypeOK
<1>2. View' = View
  BY DEF View
<1>3. [S!Next]_(S!vars)
  BY <1>2 DEF S!vars, S!procVars, S!dirVars
<1>4. S!Inv /\ S!IInv
  BY DEF S!SInv, S!IInv
<1>5. S!Inv' /\ S!IInv'
  BY <1>3, <1>4, S!TypeStep, S!SharedStep, SameAssumptions, VersionAssumption, ChunkAssumption,
     NameAssumption, ModeAssumption
<1>6. S!SInv'
  BY <1>3, <1>5, S!SerialStep, SameAssumptions, VersionAssumption, ChunkAssumption,
     NameAssumption, ModeAssumption
<1>7. Files'
  BY DEF Files
<1> QED BY <1>1, <1>6, <1>7

(* The entries of the directory reach the disk.                            *)
LEMMA DirectoryStep ==
    ASSUME ~Concurrent, DInv, UNCHANGED <<vars, dino, cut, missed, outages>>, DirectoryReaches,
           due' \in [Procs -> {<<>>, <<Dir>>} \cup {<<i>> : i \in Inodes}
                              \cup {<<i, Dir>> : i \in StageInodes}],
           \A q \in Procs : due'[q] = due[q] \/ (due[q] = <<Dir>> /\ due'[q] = <<>>)
    PROVE  DInv'
<1>0. TypeOK /\ PowerTypeOK /\ S!SInv /\ Files /\ DiskFiles /\ DiskDir /\ Published /\ Waits
  BY DEF DInv
<1> HIDE DEF DInv
<1> USE DEF DirectoryReaches, dirVars
<1>1. TypeOK' /\ S!SInv' /\ Files'
  BY <1>0, UnseenStep
<1>2. UNCHANGED <<pc, want, name, temp, stage, final, ino, dino, cut, missed, outages>>
  BY DEF vars, procVars
<1>3. PowerTypeOK'
  BY <1>0, <1>2 DEF PowerTypeOK, TypeOK
<1>4. DiskFiles'
  BY <1>0, <1>2 DEF DiskFiles
<1>5. DiskDir'
  BY <1>0, <1>2, SerialFacts DEF DiskDir
<1>6. Published'
  <2>1. ASSUME NEW n \in Names, final[n] # Nil
        PROVE  OnDiskAsIs(final[n]) /\ \E v \in Versions : Holds(ino[final[n]], v)
    BY <1>0, <2>1, SerialFacts DEF Published, FinalIntact
  <2> QED BY <1>2, <2>1 DEF Published, OnDiskAsIs
<1>7. Waits'
  <2>1. ASSUME NEW q \in Procs, pc[q] = "rename"
        PROVE  \/ due'[q] = <<stage[name[q]], Dir>>
               \/ due'[q] \in {<<Dir>>, <<>>} /\ OnDiskAsIs(stage[name[q]])
    <3>1. CASE due'[q] = due[q]
      BY <1>0, <2>1, <3>1 DEF Waits
    <3>2. CASE due[q] = <<Dir>> /\ due'[q] = <<>>
      <4>1. due[q] # <<stage[name[q]], Dir>>
        BY <3>2
      <4> QED BY <1>0, <2>1, <3>2, <4>1 DEF Waits
    <3> QED BY <3>1, <3>2
  <2>2. ASSUME NEW q \in Procs, pc[q] = "done", q \notin missed,
               \A r \in Procs \ {q} : pc[r] \in {"start", "prompt"}
        PROVE  final[name[q]] # Nil /\ Holds(ino[final[name[q]]], want[q])
    BY <1>0, <2>2 DEF Waits
  <2> QED BY <1>2, <2>1, <2>2 DEF Waits, OnDiskAsIs
<1> QED BY <1>1, <1>3, <1>4, <1>5, <1>6, <1>7 DEF DInv

(* A file on the disk becomes f.                                           *)
LEMMA FileOnDiskStep ==
    ASSUME ~Concurrent, DInv, UNCHANGED <<vars, dtemp, dstage, dfinal, missed, outages>>,
           NEW i \in Inodes, NEW f \in File, dino' = [dino EXCEPT ![i] = f],
           cut' = cut \/ cut' = cut \ {i},
           i \in TempInodes => Pure(f) /\ (i \notin cut' => Lags(f, ino[i])),
           i \in StageInodes => f.hdr = NoHeader,
           OnDiskAsIs(i) => f = ino[i],
           due' \in [Procs -> {<<>>, <<Dir>>} \cup {<<j>> : j \in Inodes}
                              \cup {<<j, Dir>> : j \in StageInodes}],
           \A q \in Procs : \/ due'[q] = due[q]
                            \/ /\ i \notin cut' /\ f = ino[i]
                               /\ \/ due[q] = <<i>> /\ due'[q] = <<>>
                                  \/ due[q] = <<i, Dir>> /\ due'[q] = <<Dir>>
    PROVE  DInv'
<1>0. TypeOK /\ PowerTypeOK /\ S!SInv /\ Files /\ DiskFiles /\ DiskDir /\ Published /\ Waits
  BY DEF DInv
<1> HIDE DEF DInv
<1> USE DEF dirVars
<1>1. TypeOK' /\ S!SInv' /\ Files'
  BY <1>0, UnseenStep
<1>2. UNCHANGED <<pc, want, name, temp, stage, final, ino, dtemp, dstage, dfinal, missed, outages>>
  BY DEF vars, procVars
<1>3. dino'[i] = f /\ \A j \in Inodes : j # i => dino'[j] = dino[j]
  BY <1>0 DEF PowerTypeOK
<1>4. PowerTypeOK'
  <2>1. dino' \in [Inodes -> File]
    BY <1>0 DEF PowerTypeOK
  <2> QED BY <1>0, <1>2, <2>1 DEF PowerTypeOK
<1>5. DiskFiles'
  <2>1. ASSUME NEW j \in TempInodes
        PROVE  Pure(dino'[j]) /\ (j \notin cut' => Lags(dino'[j], ino[j]))
    <3>1. CASE j = i
      BY <1>3, <3>1
    <3>2. CASE j # i
      BY <1>0, <1>3, <3>2, InodeFacts DEF DiskFiles
    <3> QED BY <3>1, <3>2
  <2>2. \A j \in StageInodes : dino'[j].hdr = NoHeader
    BY <1>0, <1>3, InodeFacts DEF DiskFiles
  <2> QED BY <1>2, <2>1, <2>2 DEF DiskFiles
<1>6. DiskDir'
  BY <1>0, <1>2 DEF DiskDir
<1>7. ASSUME NEW j \in Inodes, OnDiskAsIs(j) PROVE OnDiskAsIs(j)'
  <2>1. CASE j = i
    BY <1>2, <1>3, <1>7, <2>1 DEF OnDiskAsIs
  <2>2. CASE j # i
    BY <1>2, <1>3, <1>7, <2>2 DEF OnDiskAsIs
  <2> QED BY <2>1, <2>2
<1>8. \A n \in Names : /\ final[n] # Nil => final[n] \in Inodes
                       /\ dfinal[n] # Nil => dfinal[n] \in Inodes
                       /\ stage[n] # Nil => stage[n] \in Inodes
  BY <1>0, InodeFacts DEF TypeOK, PowerTypeOK
<1>9. Published'
  <2>1. ASSUME NEW n \in Names, final[n] # Nil PROVE OnDiskAsIs(final[n])'
    <3>1. PICK j \in Inodes : j = final[n]
      BY <1>8, <2>1
    <3>2. OnDiskAsIs(j)
      BY <1>0, <2>1, <3>1 DEF Published
    <3>3. OnDiskAsIs(j)'
      BY <1>7, <3>2
    <3> QED BY <1>2, <3>1, <3>3 DEF OnDiskAsIs
  <2>2. ASSUME NEW n \in Names, dfinal[n] # Nil PROVE OnDiskAsIs(dfinal[n])'
    <3>1. PICK j \in Inodes : j = dfinal[n]
      BY <1>8, <2>2
    <3>2. OnDiskAsIs(j)
      BY <1>0, <2>2, <3>1 DEF Published
    <3>3. OnDiskAsIs(j)'
      BY <1>7, <3>2
    <3> QED BY <1>2, <3>1, <3>3 DEF OnDiskAsIs
  <2>3. \A n \in Names : dfinal[n] # Nil => \E v \in Versions : Holds(ino[dfinal[n]], v)
    BY <1>0 DEF Published
  <2> QED BY <1>2, <2>1, <2>2, <2>3 DEF Published
<1>10. Waits'
  <2>1. ASSUME NEW q \in Procs, pc[q] = "rename"
        PROVE  (\/ due[q] = <<stage[name[q]], Dir>>
                \/ due[q] \in {<<Dir>>, <<>>} /\ OnDiskAsIs(stage[name[q]]))'
    <3>0. stage[name[q]] # Nil /\ name[q] \in Names
      BY <1>0, <2>1, SerialFacts DEF TypeOK
    <3>1. PICK j \in Inodes : j = stage[name[q]]
      BY <1>8, <3>0
    <3>2. due[q] = <<j, Dir>> \/ (due[q] \in {<<Dir>>, <<>>} /\ OnDiskAsIs(j))
      BY <1>0, <2>1, <3>1 DEF Waits, OnDiskAsIs
    <3>3. due'[q] = <<j, Dir>> \/ (due'[q] \in {<<Dir>>, <<>>} /\ OnDiskAsIs(j)')
      <4>1. CASE due'[q] = due[q]
        BY <1>7, <3>2, <4>1
      <4>2. CASE due[q] = <<i>> /\ due'[q] = <<>>
        <5>1. <<i>> # <<j, Dir>> /\ <<i>> # <<Dir>> /\ <<i>> # <<>>
          BY PowerAssumption
        <5> QED BY <3>2, <4>2, <5>1
      <4>3. CASE i \notin cut' /\ f = ino[i] /\ due[q] = <<i, Dir>> /\ due'[q] = <<Dir>>
        <5>1. <<i, Dir>> # <<Dir>> /\ <<i, Dir>> # <<>> /\ (<<i, Dir>> = <<j, Dir>> => i = j)
          OBVIOUS
        <5>2. i = j
          BY <3>2, <4>3, <5>1
        <5> QED BY <1>2, <1>3, <4>3, <5>2 DEF OnDiskAsIs
      <4> QED BY <4>1, <4>2, <4>3
    <3> QED BY <1>2, <3>1, <3>3 DEF OnDiskAsIs
  <2>2. ASSUME NEW q \in Procs, pc[q] \in {"unlock", "remove", "ack"}
        PROVE  due'[q] = <<Dir>> \/ q \in missed \/ dfinal[name[q]] = final[name[q]]
    <3>1. <<i>> # <<Dir>> /\ <<i, Dir>> # <<Dir>>
      BY PowerAssumption
    <3> QED BY <1>0, <2>2, <3>1 DEF Waits
  <2>3. ASSUME NEW q \in Procs, pc[q] = "done", q \notin missed,
               \A r \in Procs \ {q} : pc[r] \in {"start", "prompt"}
        PROVE  /\ final[name[q]] # Nil /\ dfinal[name[q]] = final[name[q]]
               /\ Holds(ino[final[name[q]]], want[q])
    BY <1>0, <2>3 DEF Waits
  <2> QED BY <1>2, <2>1, <2>2, <2>3 DEF Waits
<1> QED BY <1>1, <1>4, <1>5, <1>6, <1>9, <1>10 DEF DInv

(* A sync of a file or of the directory keeps the invariant.               *)
LEMMA SyncStep ==
    ASSUME ~Concurrent, DInv, NEW p \in Procs, Sync(p)
    PROVE  DInv'
<1> DEFINE D == {<<>>, <<Dir>>} \cup {<<j>> : j \in Inodes} \cup {<<j, Dir>> : j \in StageInodes}
<1>0. TypeOK /\ PowerTypeOK /\ Files /\ due \in [Procs -> D]
  BY DEF DInv, PowerTypeOK
<1>1. /\ due[p] # <<>> /\ due' = [due EXCEPT ![p] = Tail(due[p])] /\ UNCHANGED <<vars, missed, outages>>
      /\ \/ Head(due[p]) = Dir /\ DirectoryReaches /\ UNCHANGED <<dino, cut>>
         \/ /\ Head(due[p]) # Dir
            /\ dino' = [dino EXCEPT ![Head(due[p])] = ino[Head(due[p])]]
            /\ cut' = cut \ {Head(due[p])}
            /\ UNCHANGED <<dtemp, dstage, dfinal>>
  BY DEF Sync
<1>2. due[p] \in D
  BY <1>0
<1>3. CASE due[p] = <<Dir>>
  <2>1. Head(due[p]) = Dir /\ Tail(due[p]) = <<>>
    BY <1>3
  <2>2. due' = [due EXCEPT ![p] = <<>>]
    BY <1>1, <2>1
  <2>3. due' \in [Procs -> D] /\ \A q \in Procs : due'[q] = due[q] \/ (due[q] = <<Dir>> /\ due'[q] = <<>>)
    BY <1>0, <1>3, <2>2
  <2> QED BY <1>1, <2>1, <2>3, DirectoryStep
<1>4. ASSUME NEW i \in Inodes, NEW rest \in {<<>>, <<Dir>>}, Head(due[p]) = i, Tail(due[p]) = rest,
             \/ due[p] = <<i>> /\ rest = <<>>
             \/ due[p] = <<i, Dir>> /\ rest = <<Dir>>
      PROVE  DInv'
  <2>1. i # Dir
    BY PowerAssumption
  <2>2. dino' = [dino EXCEPT ![i] = ino[i]] /\ cut' = cut \ {i} /\ UNCHANGED <<dtemp, dstage, dfinal>>
    BY <1>1, <1>4, <2>1
  <2>3. due' = [due EXCEPT ![p] = rest] /\ rest \in D
    BY <1>1, <1>4
  <2>4. due' \in [Procs -> D]
    BY <1>0, <2>3
  <2>5. \A q \in Procs : \/ due'[q] = due[q]
                         \/ due[q] = <<i>> /\ due'[q] = <<>>
                         \/ due[q] = <<i, Dir>> /\ due'[q] = <<Dir>>
    BY <1>0, <1>4, <2>3
  <2>6. ino[i] \in File /\ (i \in TempInodes => Pure(ino[i])) /\ (i \in StageInodes => ino[i].hdr = NoHeader)
    BY <1>0 DEF TypeOK, Files
  <2>7. Lags(ino[i], ino[i])
    BY <2>6, FileFacts DEF Lags
  <2>8. i \notin cut'
    BY <2>2
  <2> DEFINE f == ino[i]
  <2>9. PICK g \in File : g = ino[i]
    BY <2>6
  <2>10. /\ dino' = [dino EXCEPT ![i] = g] /\ (i \in TempInodes => Pure(g)) /\ Lags(g, ino[i])
         /\ i \in StageInodes => g.hdr = NoHeader
    BY <2>2, <2>6, <2>7, <2>9
  <2> QED BY <1>1, <2>2, <2>4, <2>5, <2>8, <2>9, <2>10, FileOnDiskStep
<1>5. CASE due[p] \in {<<j>> : j \in Inodes}
  <2>1. PICK i \in Inodes : due[p] = <<i>>
    BY <1>5
  <2>2. Head(due[p]) = i /\ Tail(due[p]) = <<>>
    BY <2>1
  <2> QED BY <1>4, <2>1, <2>2
<1>6. CASE due[p] \in {<<j, Dir>> : j \in StageInodes}
  <2>1. PICK i \in Inodes : due[p] = <<i, Dir>>
    BY <1>6, InodeFacts
  <2>2. Head(due[p]) = i /\ Tail(due[p]) = <<Dir>>
    BY <2>1
  <2> QED BY <1>4, <2>1, <2>2
<1> QED BY <1>1, <1>2, <1>3, <1>5, <1>6

(* A receiver that goes on although the directory could not be synced has  *)
(* its content on the disk all the same, if not its name.                  *)
LEMMA IgnoreStep ==
    ASSUME ~Concurrent, DInv, NEW p \in Procs, IgnoreSyncError(p)
    PROVE  DInv'
<1> DEFINE D == {<<>>, <<Dir>>} \cup {<<j>> : j \in Inodes} \cup {<<j, Dir>> : j \in StageInodes}
<1>0. TypeOK /\ PowerTypeOK /\ S!SInv /\ Files /\ DiskFiles /\ DiskDir /\ Published /\ Waits
  BY DEF DInv
<1>1. /\ due[p] # <<>> /\ Head(due[p]) = Dir /\ due' = [due EXCEPT ![p] = Tail(due[p])]
      /\ missed' = IF pc[p] = "rename" THEN missed ELSE missed \cup {p}
      /\ UNCHANGED <<vars, dino, dtemp, dstage, dfinal, cut, outages>>
  BY DEF IgnoreSyncError, diskVars
<1> HIDE DEF DInv
<1>2. due \in [Procs -> D] /\ <<>> \in D
  BY <1>0 DEF PowerTypeOK
<1>3. due[p] = <<Dir>>
  <2>1. due[p] \in D
    BY <1>2
  <2>2. \A i \in Inodes : Head(<<i>>) # Dir /\ Head(<<i, Dir>>) # Dir
    BY PowerAssumption
  <2>3. due[p] \notin {<<i>> : i \in Inodes} /\ due[p] \notin {<<i, Dir>> : i \in StageInodes}
    BY <1>1, <2>2, InodeFacts
  <2> QED BY <1>1, <2>1, <2>3
<1>4. due' = [due EXCEPT ![p] = <<>>]
  BY <1>1, <1>3
<1>5. due' \in [Procs -> D] /\ due'[p] = <<>> /\ \A q \in Procs : q # p => due'[q] = due[q]
  BY <1>2, <1>4
<1>6. TypeOK' /\ S!SInv' /\ Files'
  BY <1>0, <1>1, UnseenStep
<1>7. UNCHANGED <<pc, want, name, temp, stage, final, ino>>
  BY <1>1 DEF vars, procVars, dirVars
<1>8. PowerTypeOK'
  <2>1. missed' \subseteq Procs
    BY <1>0, <1>1 DEF PowerTypeOK
  <2> QED BY <1>0, <1>1, <1>5, <2>1 DEF PowerTypeOK
<1>9. DiskFiles' /\ DiskDir' /\ Published'
  BY <1>0, <1>1, <1>7 DEF DiskFiles, DiskDir, Published, OnDiskAsIs
<1>10. Waits'
  <2>1. ASSUME NEW q \in Procs, pc[q] = "rename"
        PROVE  \/ due'[q] = <<stage[name[q]], Dir>>
               \/ due'[q] \in {<<Dir>>, <<>>} /\ OnDiskAsIs(stage[name[q]])
    <3>1. <<Dir>> # <<stage[name[q]], Dir>>
      OBVIOUS
    <3> QED BY <1>0, <1>3, <1>5, <2>1, <3>1 DEF Waits
  <2>2. ASSUME NEW q \in Procs, pc[q] \in {"unlock", "remove", "ack"}
        PROVE  due'[q] = <<Dir>> \/ q \in missed' \/ dfinal[name[q]] = final[name[q]]
    BY <1>0, <1>1, <1>5, <2>2 DEF Waits
  <2>3. ASSUME NEW q \in Procs, pc[q] = "done", q \notin missed',
               \A r \in Procs \ {q} : pc[r] \in {"start", "prompt"}
        PROVE  /\ final[name[q]] # Nil /\ dfinal[name[q]] = final[name[q]]
               /\ Holds(ino[final[name[q]]], want[q])
    BY <1>0, <1>1, <2>3 DEF Waits
  <2> QED BY <1>1, <1>7, <2>1, <2>2, <2>3 DEF Waits, OnDiskAsIs
<1> QED BY <1>6, <1>8, <1>9, <1>10 DEF DInv

(* So does the disk in its own time.                                       *)
LEMMA WriteBackStep ==
    ASSUME ~Concurrent, DInv, WriteBack
    PROVE  DInv'
<1>0. TypeOK /\ PowerTypeOK /\ S!SInv /\ Files /\ DiskFiles
  BY DEF DInv
<1>1. UNCHANGED <<vars, due, missed, outages>>
  BY DEF WriteBack
<1>2. due' \in [Procs -> {<<>>, <<Dir>>} \cup {<<j>> : j \in Inodes}
                          \cup {<<j, Dir>> : j \in StageInodes}]
      /\ \A q \in Procs : due'[q] = due[q]
  BY <1>0, <1>1 DEF PowerTypeOK
<1>3. CASE WriteBackDir
  BY <1>1, <1>2, <1>3, DirectoryStep DEF WriteBackDir
<1>4. ASSUME NEW i \in Inodes, NEW f \in File, dino' = [dino EXCEPT ![i] = f],
             UNCHANGED <<dtemp, dstage, dfinal>>, cut' = cut \/ cut' = cut \ {i},
             i \in TempInodes => Pure(f) /\ Lags(f, ino[i]),
             i \in StageInodes => f.hdr = NoHeader, ~OnDiskAsIs(i)
      PROVE  DInv'
  BY <1>1, <1>2, <1>4, FileOnDiskStep
<1>5. ASSUME NEW i \in Inodes
      PROVE  /\ ino[i] \in File /\ dino[i] \in File
             /\ i \in TempInodes => Pure(ino[i]) /\ Pure(dino[i]) /\ (i \notin cut => Lags(dino[i], ino[i]))
             /\ i \in StageInodes => ino[i].hdr = NoHeader /\ dino[i].hdr = NoHeader
  BY <1>0 DEF TypeOK, PowerTypeOK, Files, DiskFiles
<1>6. ASSUME NEW i \in Inodes, WriteBackTruncation(i) PROVE DInv'
  <2>1. EmptyFile \in File /\ EmptyFile.hdr = NoHeader /\ EmptyFile.hdr.sum = Nil /\ EmptyFile.len = 0
    BY FileFacts DEF EmptyFile, NoHeader
  <2>2. Pure(EmptyFile) /\ Lags(EmptyFile, ino[i])
    BY <1>5, <2>1, FileFacts DEF Pure, Lags
  <2>3. dino' = [dino EXCEPT ![i] = EmptyFile] /\ cut' = cut \ {i} /\ UNCHANGED <<dtemp, dstage, dfinal>>
        /\ ~OnDiskAsIs(i)
    BY <1>6 DEF WriteBackTruncation, OnDiskAsIs
  <2> QED BY <1>4, <2>1, <2>2, <2>3
<1>7. ASSUME NEW i \in Inodes, WriteBackHeader(i) PROVE DInv'
  <2> DEFINE f == [dino[i] EXCEPT !.hdr = ino[i].hdr]
  <2>1. i \notin cut /\ cut' = cut /\ UNCHANGED <<dtemp, dstage, dfinal>> /\ ~OnDiskAsIs(i)
        /\ dino' = [dino EXCEPT ![i] = f]
    BY <1>7 DEF WriteBackHeader, OnDiskAsIs
  <2>2. f \in File /\ f.hdr = ino[i].hdr /\ f.len = dino[i].len /\ f.data = dino[i].data
    BY <1>5, FileFacts DEF File
  <2>3. ino[i].len \in Nat /\ f.len \in Nat
    BY <1>5, <2>2, FileFacts
  <2> HIDE DEF f
  <2>4. ASSUME i \in TempInodes PROVE Pure(f) /\ Lags(f, ino[i])
    <3>1. Lags(dino[i], ino[i]) /\ Pure(ino[i])
      BY <1>5, <2>1, <2>4
    <3>2. f.len <= ino[i].len /\ \A u \in 0..(f.len - 1) : f.data[u] = ino[i].data[u]
      BY <2>2, <3>1 DEF Lags
    <3>3. Lags(f, ino[i])
      BY <2>2, <3>2 DEF Lags
    <3>4. ASSUME ino[i].hdr.sum # Nil
          PROVE  f.len <= Size[ino[i].hdr.sum] /\ \A u \in 0..(f.len - 1) : f.data[u] = <<ino[i].hdr.sum, u>>
      <4>1. /\ ino[i].len <= Size[ino[i].hdr.sum] /\ Size[ino[i].hdr.sum] \in Nat
            /\ \A u \in 0..(ino[i].len - 1) : ino[i].data[u] = <<ino[i].hdr.sum, u>>
        BY <1>5, <3>1, <3>4, FileFacts DEF Pure
      <4> QED BY <2>3, <3>2, <4>1
    <3>5. Pure(f)
      BY <2>2, <3>4 DEF Pure
    <3> QED BY <3>3, <3>5
  <2>5. i \in StageInodes => f.hdr = NoHeader
    BY <1>5, <2>2
  <2> QED BY <1>4, <2>1, <2>2, <2>4, <2>5
<1>8. ASSUME NEW i \in Inodes, WriteBackUnit(i) PROVE DInv'
  <2> DEFINE n == dino[i].len
             d == [dino[i].data EXCEPT ![n] = ino[i].data[n]]
             f == [dino[i] EXCEPT !.data = d, !.len = n + 1]
  <2>1. i \notin cut /\ cut' = cut /\ UNCHANGED <<dtemp, dstage, dfinal>> /\ ~OnDiskAsIs(i)
        /\ n < ino[i].len
    BY <1>8, <1>5, FileFacts DEF WriteBackUnit, OnDiskAsIs
  <2>2. dino' = [dino EXCEPT ![i] = f]
    BY <1>0, <1>8 DEF WriteBackUnit, PowerTypeOK, File
  <2>3. n \in 0..MaxSize /\ ino[i].len \in 0..MaxSize /\ n \in Units
    BY <1>5, <2>1, FileFacts DEF Units
  <2>4. /\ d \in [Units -> Blocks \cup {Hole}] /\ d[n] = ino[i].data[n]
        /\ \A u \in Units : u # n => d[u] = dino[i].data[u]
    BY <1>5, <2>3, FileFacts
  <2> HIDE DEF d
  <2>5. f \in File /\ f.hdr = dino[i].hdr /\ f.len = n + 1 /\ f.data = d
    <3>1. n + 1 \in 0..MaxSize
      BY <2>1, <2>3
    <3>2. PICK g \in File : g = dino[i]
      BY <1>5
    <3>3. PICK m \in 0..MaxSize : m = n + 1
      BY <3>1
    <3>4. PICK e \in [Units -> Blocks \cup {Hole}] : e = d
      BY <2>4
    <3> HIDE DEF n
    <3>5. f = [g EXCEPT !.data = e, !.len = m]
      BY <3>2, <3>3, <3>4
    <3> HIDE DEF f
    <3>6. f \in File /\ f.hdr = g.hdr /\ f.len = m /\ f.data = e
      BY <3>5 DEF File
    <3> QED BY <3>2, <3>3, <3>4, <3>6
  <2> HIDE DEF f
  <2>6. ASSUME i \in TempInodes PROVE Pure(f) /\ Lags(f, ino[i])
    <3>1. Lags(dino[i], ino[i]) /\ Pure(ino[i])
      BY <1>5, <2>1, <2>6
    <3>2. f.len <= ino[i].len /\ \A u \in 0..(f.len - 1) : f.data[u] = ino[i].data[u]
      <4>1. ASSUME NEW u \in 0..(f.len - 1) PROVE f.data[u] = ino[i].data[u]
        <5>1. u \in Units /\ (u = n \/ u \in 0..(n - 1))
          BY <2>3, <2>5 DEF Units
        <5> QED BY <2>3, <2>4, <2>5, <3>1, <5>1 DEF Lags
      <4> QED BY <2>1, <2>3, <2>5, <4>1
    <3>3. Lags(f, ino[i])
      BY <2>5, <3>1, <3>2 DEF Lags
    <3>4. ASSUME f.hdr.sum # Nil
          PROVE  f.len <= Size[f.hdr.sum] /\ \A u \in 0..(f.len - 1) : f.data[u] = <<f.hdr.sum, u>>
      <4>1. f.hdr.sum = ino[i].hdr.sum
        BY <3>3, <3>4 DEF Lags
      <4>2. /\ ino[i].len <= Size[f.hdr.sum] /\ Size[f.hdr.sum] \in Nat
            /\ \A u \in 0..(ino[i].len - 1) : ino[i].data[u] = <<f.hdr.sum, u>>
        BY <1>5, <3>1, <3>4, <4>1, FileFacts DEF Pure
      <4> QED BY <2>3, <2>5, <3>2, <4>2
    <3>5. Pure(f)
      BY <3>4 DEF Pure
    <3> QED BY <3>3, <3>5
  <2>7. i \in StageInodes => f.hdr = NoHeader
    BY <1>5, <2>5
  <2> QED BY <1>4, <2>1, <2>2, <2>5, <2>6, <2>7
<1> QED BY <1>3, <1>6, <1>7, <1>8 DEF WriteBack
------------------------------------------------------------------------------
(* An outage                                                               *)

(* What the processes find after an outage is again an invariant state.    *)
LEMMA OutageStep ==
    ASSUME DInv, Outage
    PROVE  DInv'
<1>0. TypeOK /\ PowerTypeOK /\ S!SInv /\ Files /\ DiskFiles /\ DiskDir /\ Published /\ Waits
  BY DEF DInv
<1> HIDE DEF DInv
<1> USE SameConstants
<1>1. /\ pc' = [p \in Procs |-> IF Live(p) THEN "crashed" ELSE pc[p]]
      /\ fd' = [p \in Procs |-> Nil] /\ sfd' = [p \in Procs |-> Nil]
      /\ got' = [p \in Procs |-> 0] /\ cp' = [p \in Procs |-> 0]
      /\ sig' = [p \in Procs |-> "off"] /\ lock' = [i \in Inodes |-> Nil]
      /\ ino' = OnDisk /\ dino' = OnDisk
      /\ temp' = dtemp /\ stage' = dstage /\ final' = dfinal
      /\ cut' = {} /\ due' = [p \in Procs |-> <<>>]
      /\ UNCHANGED <<want, nores, name, dtemp, dstage, dfinal, missed>>
      /\ outages < MaxOutages /\ outages' = outages + 1
  BY DEF Outage
<1>2. ASSUME NEW p \in Procs
      PROVE  /\ pc'[p] \in Terminal \cup {"start"} /\ (pc'[p] = "start" => pc[p] = "start")
             /\ pc'[p] = "done" => pc[p] = "done"
             /\ pc'[p] \in Stages
  BY <1>0, <1>1 DEF Live, Terminal, TypeOK, Stages
<1>3. ASSUME NEW i \in Inodes
      PROVE  /\ OnDisk[i] = dino[i] \/ OnDisk[i] = EmptyFile
             /\ OnDisk[i] \in File
             /\ \A n \in Names : i \in {dtemp[n], dstage[n], dfinal[n]} => OnDisk[i] = dino[i]
             /\ (\A n \in Names : i \notin {dtemp[n], dstage[n], dfinal[n]}) => OnDisk[i] = EmptyFile
  BY <1>0, FileFacts DEF OnDisk, PowerTypeOK
<1>4. TypeOK'
  <2>1. OnDisk \in [Inodes -> File]
    BY <1>3 DEF OnDisk
  <2>2. pc' \in [Procs -> Stages]
    BY <1>1, <1>2
  <2> QED BY <1>0, <1>1, <2>1, <2>2 DEF TypeOK, PowerTypeOK
<1>5. PowerTypeOK'
  BY <1>0, <1>1, <1>4, PowerAssumption DEF PowerTypeOK, TypeOK
<1>6. EmptyFile \in File /\ EmptyFile.hdr = NoHeader /\ EmptyFile.hdr.sum = Nil
      /\ EmptyFile.len = 0 /\ EmptyFile.hdr.n = 0
  BY FileFacts DEF EmptyFile, NoHeader
<1>7. \A i \in TempInodes : Pure(OnDisk[i])
  <2>1. Pure(EmptyFile)
    BY <1>6 DEF Pure
  <2> QED BY <1>0, <1>3, <2>1, InodeFacts DEF DiskFiles
<1>8. \A i \in StageInodes : OnDisk[i].hdr = NoHeader
  BY <1>0, <1>3, <1>6, InodeFacts DEF DiskFiles
<1>9. Files'
  BY <1>1, <1>2, <1>7, <1>8 DEF Files, Terminal
<1>10. DiskFiles'
  <2>1. \A i \in Inodes : Lags(OnDisk[i], OnDisk[i])
    BY <1>3, FileFacts DEF Lags
  <2> QED BY <1>1, <1>7, <1>8, <2>1, InodeFacts DEF DiskFiles
<1>11. DiskDir'
  BY <1>0, <1>1, <1>2 DEF DiskDir, BeforeTemp, BeforeStage, Terminal
<1>12. ASSUME NEW n \in Names, dfinal[n] # Nil
       PROVE  /\ dfinal[n] \in StageInodes /\ dfinal[n] \in Inodes
              /\ \E v \in Versions : Holds(OnDisk[dfinal[n]], v)
              /\ OnDisk[dfinal[n]] = ino[dfinal[n]]
  <2>1. dfinal[n] \in StageInodes /\ dfinal[n] \in Inodes
    BY <1>0, <1>12, InodeFacts DEF PowerTypeOK
  <2>2. OnDisk[dfinal[n]] = dino[dfinal[n]]
    BY <1>3, <2>1
  <2>3. dino[dfinal[n]] = ino[dfinal[n]] /\ \E v \in Versions : Holds(ino[dfinal[n]], v)
    BY <1>0, <1>12 DEF Published, OnDiskAsIs
  <2> QED BY <2>1, <2>2, <2>3
<1>13. Published'
  BY <1>1, <1>12 DEF Published, OnDiskAsIs
<1>14. Waits'
  <2>1. \A p \in Procs : pc'[p] \notin {"rename", "unlock", "remove", "ack"}
    BY <1>2 DEF Terminal
  <2>2. ASSUME NEW p \in Procs, pc'[p] = "done", p \notin missed,
               \A q \in Procs \ {p} : pc'[q] \in {"start", "prompt"}
        PROVE  dfinal[name[p]] # Nil /\ Holds(OnDisk[dfinal[name[p]]], want[p])
    <3>1. pc[p] = "done" /\ \A q \in Procs \ {p} : pc[q] = "start"
      BY <1>2, <2>2 DEF Terminal
    <3>2. /\ final[name[p]] # Nil /\ dfinal[name[p]] = final[name[p]]
          /\ Holds(ino[final[name[p]]], want[p])
      BY <1>0, <2>2, <3>1 DEF Waits
    <3>3. name[p] \in Names
      BY <1>0 DEF TypeOK
    <3> QED BY <1>12, <3>2, <3>3
  <2> QED BY <1>1, <2>1, <2>2 DEF Waits
<1>15. ASSUME NEW i \in Inodes
       PROVE  /\ View'[i] \in File /\ View'[i].len = OnDisk[i].len /\ View'[i].data = OnDisk[i].data
              /\ View'[i].hdr.sum = OnDisk[i].hdr.sum /\ View'[i].hdr.n <= View'[i].len
              /\ View'[i].hdr.n \in Nat /\ View'[i].len \in Nat
              /\ OnDisk[i] = EmptyFile => View'[i] = EmptyFile
              /\ \A v : S!Holds(View'[i], v) <=> Holds(OnDisk[i], v)
  <2>1. View'[i] = Corrected(OnDisk[i])
    BY <1>1 DEF View
  <2>2. PICK f \in File : f = OnDisk[i]
    BY <1>3
  <2>3. Corrected(f).hdr.n <= Corrected(f).len /\ Corrected(f).hdr.n \in Nat /\ Corrected(f).len \in Nat
    BY CorrectedFile, FileFacts DEF Smaller
  <2>4. f = EmptyFile => Corrected(f) = EmptyFile
    BY <1>6, CorrectedFile
  <2>5. Corrected(f).len = f.len /\ Corrected(f).data = f.data
    BY CorrectedFile
  <2>6. \A v : S!Holds(Corrected(f), v) <=> Holds(f, v)
    BY <2>5 DEF S!Holds, Holds
  <2> QED BY <2>1, <2>2, <2>3, <2>4, <2>5, <2>6, CorrectedFile
<1>16. S!Inv'
  <2>1. S!TypeOK'
    <3>1. View' \in [Inodes -> File]
      BY <1>15 DEF View
    <3>2. S!TypeOK' <=> /\ pc' \in [Procs -> Stages]
                        /\ want' \in [Procs -> Versions]
                        /\ nores' \in [Procs -> BOOLEAN]
                        /\ name' \in [Procs -> Names]
                        /\ fd' \in [Procs -> TempInodes \cup {Nil}]
                        /\ sfd' \in [Procs -> StageInodes \cup {Nil}]
                        /\ got' \in [Procs -> 0..MaxSize]
                        /\ cp' \in [Procs -> 0..MaxSize]
                        /\ sig' \in [Procs -> {"off", "armed", "fired"}]
                        /\ temp' \in [Names -> TempInodes \cup {Nil}]
                        /\ stage' \in [Names -> StageInodes \cup {Nil}]
                        /\ final' \in [Names -> StageInodes \cup {Nil}]
                        /\ View' \in [Inodes -> File]
                        /\ lock' \in [Inodes -> Procs \cup {Nil}]
      BY DEF S!TypeOK
    <3> QED BY <1>4, <3>1, <3>2 DEF TypeOK
  <2>2. \A p \in Procs : pc'[p] \notin HasHandle /\ pc'[p] # "copy"
    BY <1>2 DEF HasHandle, Holding, Terminal
  <2> QED BY <2>1, <2>2 DEF S!Inv, S!Handles
<1>17. ASSUME NEW i \in TempInodes, OnDisk[i].hdr.sum # Nil
       PROVE  /\ OnDisk[i].len <= Size[OnDisk[i].hdr.sum] /\ Size[OnDisk[i].hdr.sum] \in Nat
              /\ OnDisk[i].len \in Nat
              /\ \A u \in 0..(OnDisk[i].len - 1) : OnDisk[i].data[u] = <<OnDisk[i].hdr.sum, u>>
  BY <1>3, <1>7, <1>17, InodeFacts, FileFacts DEF Pure
<1>18. S!IInv'
  <2>1. S!Locked'
    BY <1>2 DEF S!Locked, Holding, Terminal
  <2>2. S!Progress'
    BY <1>1, <1>2 DEF S!Progress, Filling, Prepared, Terminal
  <2>3. S!PartialIsPrefix'
    <3> SUFFICES ASSUME NEW i \in TempInodes
                 PROVE  /\ View'[i].hdr.n <= View'[i].len
                        /\ View'[i].hdr.sum # Nil =>
                              /\ View'[i].hdr.n <= Size[View'[i].hdr.sum]
                              /\ \A u \in 0..(View'[i].hdr.n - 1) : View'[i].data[u] = <<View'[i].hdr.sum, u>>
      BY DEF S!PartialIsPrefix
    <3>1. i \in Inodes
      BY InodeFacts
    <3> QED BY <1>15, <1>17, <3>1
  <2> QED BY <1>16, <2>1, <2>2, <2>3 DEF S!IInv
<1>19. S!OneLive'
  BY <1>2 DEF S!OneLive, S!Live
<1>20. S!Unborn'
  <2>1. ASSUME NEW p \in Procs, pc'[p] \in BeforeStage PROVE pc[p] = "start"
    BY <1>2, <2>1 DEF BeforeTemp, BeforeStage, Terminal
  <2>2. ASSUME NEW p \in Procs, pc'[p] \in BeforeTemp
        PROVE  /\ View'[TempOf(p)] = EmptyFile
               /\ \A n \in Names : dtemp[n] # TempOf(p)
    <3>1. TempOf(p) \in TempInodes /\ TempOf(p) \in Inodes /\ TempOf(p) \notin StageInodes /\ TempOf(p) # Nil
      BY InodeFacts
    <3>2. \A n \in Names : dtemp[n] # TempOf(p)
      BY <1>0, <2>1, <2>2 DEF DiskDir, BeforeTemp, BeforeStage
    <3>3. \A n \in Names : TempOf(p) \notin {dtemp[n], dstage[n], dfinal[n]}
      BY <1>0, <3>1, <3>2 DEF PowerTypeOK
    <3> QED BY <1>3, <1>15, <3>1, <3>2, <3>3
  <2>3. \A p \in Procs : TempOf(p) # Nil
    BY InodeFacts
  <2>4. \A p \in Procs, n \in Names :
          pc'[p] \in BeforeStage => dstage[n] # StageOf(p) /\ dfinal[n] # StageOf(p)
    BY <1>0, <2>1 DEF DiskDir, BeforeStage, BeforeTemp
  <2> QED BY <1>1, <2>2, <2>3, <2>4 DEF S!Unborn
<1>21. S!TempFits'
  <2>1. \A i \in TempInodes : View'[i].hdr.sum # Nil => View'[i].len <= Size[View'[i].hdr.sum]
    BY <1>15, <1>17, InodeFacts
  <2>2. \A p \in Procs : pc'[p] \notin {"locknew", "writehdr", "stage", "copy", "rename"}
    BY <1>2 DEF Terminal
  <2> QED BY <2>1, <2>2 DEF S!TempFits
<1>22. S!Unshared'
  BY <1>0, <1>1 DEF S!Unshared, DiskDir
<1>23. S!Staged'
  <2>1. \A p \in Procs : pc'[p] \notin {"copy", "rename"} /\ cp'[p] = 0
    BY <1>1, <1>2 DEF Terminal
  <2> QED BY <2>1 DEF S!Staged
<1>24. S!FinalIntact' /\ S!DeliveredAtAck'
  <2>1. \A p \in Procs : pc'[p] \notin {"unlock", "remove", "ack"}
    BY <1>2 DEF Terminal
  <2>2. ASSUME NEW n \in Names, dfinal[n] # Nil
        PROVE  \E v \in Versions : S!Holds(View'[dfinal[n]], v)
    BY <1>12, <1>15, <2>2
  <2>3. S!FinalIntact'
    BY <1>1, <2>2 DEF S!FinalIntact
  <2> QED BY <2>1, <2>3 DEF S!DeliveredAtAck
<1>25. S!SInv'
  BY <1>18, <1>19, <1>20, <1>21, <1>22, <1>23, <1>24 DEF S!SInv
<1> QED BY <1>4, <1>5, <1>9, <1>10, <1>11, <1>13, <1>14, <1>25 DEF DInv
------------------------------------------------------------------------------
(* The theorems                                                            *)

(* At first the disk is what the processes see.                            *)
LEMMA PowerInitial == PowerInit => DInv
<1> SUFFICES ASSUME PowerInit PROVE DInv
  OBVIOUS
<1>0. /\ Init /\ dino = ino /\ dtemp = temp /\ dstage = stage /\ dfinal = final
      /\ cut = {} /\ due = [p \in Procs |-> <<>>] /\ missed = {} /\ outages = 0
  BY DEF PowerInit
<1>1. TypeOK /\ SInv
  BY <1>0, SerialInit, TypeInit DEF Inv
<1>2. PICK v \in Versions, old \in BOOLEAN :
        /\ ino = [i \in Inodes |-> IF i = Old THEN WholeFile(v) ELSE EmptyFile]
        /\ final = [n \in Names |-> IF n = 1 /\ old THEN Old ELSE Nil]
  BY <1>0 DEF Init
<1>3. \A p \in Procs : pc[p] = "start"
  BY <1>0 DEF Init
<1>4. EmptyFile \in File /\ EmptyFile.hdr = NoHeader /\ EmptyFile.hdr.sum = Nil /\ EmptyFile.len = 0
      /\ EmptyFile.hdr.n = 0
  BY FileFacts DEF EmptyFile, NoHeader
<1>5. WholeFile(v) \in File /\ WholeFile(v).hdr = NoHeader /\ WholeFile(v).hdr.n = 0
  BY FileFacts DEF WholeFile, NoHeader
<1>6. \A i \in Inodes : ino[i] \in File /\ ino[i].hdr.n <= ino[i].len /\ ino[i].hdr = NoHeader
  BY <1>2, <1>4, <1>5, FileFacts
<1>7. View = ino
  <2>1. \A i \in Inodes : Corrected(ino[i]) = ino[i]
    BY <1>6, CorrectedFile
  <2> QED BY <1>1, <2>1 DEF View, TypeOK
<1>8. S!SInv
  <2> USE SameConstants
  <2>1. \A w : S!WholeFile(w) = WholeFile(w)
    BY DEF S!WholeFile, WholeFile
  <2>2. \E o \in BOOLEAN, w \in Versions :
          /\ final = [n \in Names |-> IF n = 1 /\ o THEN Old ELSE Nil]
          /\ View = [i \in Inodes |-> IF i = Old THEN S!WholeFile(w) ELSE EmptyFile]
    BY <1>2, <1>7, <2>1
  <2>3. S!Init
    BY <1>0, <2>2 DEF Init, S!Init
  <2> QED BY <2>3, S!SerialInit, SameAssumptions, VersionAssumption, ChunkAssumption,
             NameAssumption, ModeAssumption
<1>9. PowerTypeOK
  BY <1>0, <1>1, PowerAssumption DEF PowerTypeOK, TypeOK
<1>10. Files /\ DiskFiles
  <2>1. \A i \in TempInodes : ino[i] = EmptyFile /\ i \in Inodes
    BY <1>2, InodeFacts
  <2>2. Pure(EmptyFile) /\ Lags(EmptyFile, EmptyFile)
    BY <1>4 DEF Pure, Lags
  <2> QED BY <1>0, <1>3, <1>6, <2>1, <2>2, InodeFacts DEF Files, DiskFiles
<1>11. DiskDir /\ Published
  BY <1>0, <1>1, <1>8, SerialFacts DEF DiskDir, Published, OnDiskAsIs, FinalIntact
<1>12. Waits
  BY <1>3 DEF Waits
<1> QED BY <1>1, <1>8, <1>9, <1>10, <1>11, <1>12 DEF DInv

(* Every step keeps the invariant.                                         *)
LEMMA PowerStep ==
    ASSUME ~Concurrent PROVE DInv /\ [PowerNext]_powerVars => DInv'
<1> SUFFICES ASSUME DInv, [PowerNext]_powerVars PROVE DInv'
  OBVIOUS
<1>1. CASE \E p \in Procs : Act(p)
  BY <1>1, ActStep
<1>2. CASE \E p \in Procs : Sync(p) \/ IgnoreSyncError(p)
  BY <1>2, SyncStep, IgnoreStep
<1>3. CASE WriteBack
  BY <1>3, WriteBackStep
<1>4. CASE Outage
  BY <1>4, OutageStep
<1>5. CASE UNCHANGED powerVars
  <2>1. UNCHANGED <<vars, dino, dtemp, dstage, dfinal, cut, due, missed, outages>>
    BY <1>5 DEF powerVars, diskVars
  <2>2. TypeOK /\ PowerTypeOK /\ S!SInv /\ Files /\ DiskFiles /\ DiskDir /\ Published /\ Waits
    BY DEF DInv
  <2>3. TypeOK' /\ S!SInv' /\ Files'
    BY <2>1, <2>2, UnseenStep
  <2>4. UNCHANGED <<pc, want, name, temp, stage, final, ino>>
    BY <2>1 DEF vars, procVars, dirVars
  <2>5. PowerTypeOK' /\ DiskFiles' /\ DiskDir'
    BY <2>1, <2>2, <2>4 DEF PowerTypeOK, DiskFiles, DiskDir
  <2>6. Published'
    BY <2>1, <2>2, <2>4 DEF Published, OnDiskAsIs
  <2>7. Waits'
    BY <2>1, <2>2, <2>4 DEF Waits, OnDiskAsIs
  <2> QED BY <2>3, <2>5, <2>6, <2>7 DEF DInv
<1> QED BY <1>1, <1>2, <1>3, <1>4, <1>5 DEF PowerNext

(* The invariant of receivers that take turns and lose power.              *)
LEMMA PowerInvariant == ~Concurrent => (PowerSpec => []DInv)
<1> SUFFICES ASSUME ~Concurrent PROVE PowerSpec => []DInv
  OBVIOUS
<1>1. DInv /\ [PowerNext]_powerVars => DInv'
  BY PowerStep
<1> QED BY PowerInitial, <1>1, PTL DEF PowerSpec

(* Whenever the power fails, what the disk has at a final path is one      *)
(* whole version: the file was synced before it was renamed.               *)
THEOREM DiskAlwaysWhole == ~Concurrent => (PowerSpec => []DiskFinalWhole)
<1>1. DInv => DiskFinalWhole
  BY DEF DInv, Published, OnDiskAsIs, DiskFinalWhole
<1> QED BY PowerInvariant, <1>1, PTL

(* What a receiver acknowledges is on the disk: the directory was synced   *)
(* after the rename, and no outage since has taken the file away.          *)
THEOREM AckIsDurable == ~Concurrent => (PowerSpec => []DurableAtAck)
<1>1. DInv => DurableAtAck
  <2> SUFFICES ASSUME DInv, NEW p \in Procs, p \notin missed,
                      \/ pc[p] \in {"unlock", "remove", "ack"} /\ due[p] = <<>>
                      \/ pc[p] = "done" /\ \A q \in Procs \ {p} : pc[q] \in {"start", "prompt"}
               PROVE  dfinal[name[p]] # Nil /\ Holds(dino[dfinal[name[p]]], want[p])
    BY DEF DurableAtAck
  <2>1. TypeOK /\ S!SInv /\ Published /\ Waits
    BY DEF DInv
  <2>2. /\ final[name[p]] # Nil /\ dfinal[name[p]] = final[name[p]]
        /\ Holds(ino[final[name[p]]], want[p])
    <3>1. CASE pc[p] \in {"unlock", "remove", "ack"} /\ due[p] = <<>>
      <4>1. final[name[p]] # Nil /\ Holds(ino[final[name[p]]], want[p])
        BY <2>1, <3>1, SerialFacts DEF DeliveredAtAck
      <4>2. due[p] # <<Dir>>
        BY <3>1
      <4> QED BY <2>1, <3>1, <4>1, <4>2 DEF Waits
    <3>2. CASE pc[p] = "done" /\ \A q \in Procs \ {p} : pc[q] \in {"start", "prompt"}
      BY <2>1, <3>2 DEF Waits
    <3> QED BY <3>1, <3>2
  <2>3. name[p] \in Names
    BY <2>1 DEF TypeOK
  <2>4. dino[dfinal[name[p]]] = ino[final[name[p]]]
    BY <2>1, <2>2, <2>3 DEF Published, OnDiskAsIs
  <2> QED BY <2>2, <2>4
<1> QED BY PowerInvariant, <1>1, PTL

(* A receiver that resumes what an outage left still acknowledges nothing  *)
(* but the version its sender announced: the header is corrected first.    *)
THEOREM AckAfterOutage == ~Concurrent => (PowerSpec => []DeliveredAtAck)
<1>1. DInv => DeliveredAtAck
  BY SerialFacts DEF DInv
<1> QED BY PowerInvariant, <1>1, PTL
------------------------------------------------------------------------------
(* Receivers that run at the same time                                     *)

(* What holds in every mode.  No process needs the disk for it: an outage  *)
(* ends all that hold a lock.                                              *)
AnyInv == Inv /\ Locked /\ PowerTypeOK

(* The steps of the disk keep the types: files are only brought up to date.*)
LEMMA DiskTypes ==
    ASSUME Inv, PowerTypeOK, WriteBack \/ \E p \in Procs : Sync(p) \/ IgnoreSyncError(p)
    PROVE  PowerTypeOK' /\ UNCHANGED vars
<1> DEFINE D == {<<>>, <<Dir>>} \cup {<<j>> : j \in Inodes} \cup {<<j, Dir>> : j \in StageInodes}
<1>0. TypeOK /\ due \in [Procs -> D] /\ Dir \notin Inodes
  BY PowerAssumption DEF Inv, PowerTypeOK
<1>1. /\ UNCHANGED <<vars, outages>>
      /\ missed' \subseteq Procs
  BY DEF Sync, IgnoreSyncError, WriteBack, PowerTypeOK
<1>2. due' \in [Procs -> D]
  <2>1. CASE WriteBack
    BY <1>0, <2>1 DEF WriteBack
  <2>2. ASSUME NEW p \in Procs, Sync(p) \/ IgnoreSyncError(p) PROVE due' \in [Procs -> D]
    <3>1. due' = [due EXCEPT ![p] = Tail(due[p])] /\ due[p] # <<>> /\ due[p] \in D
      BY <1>0, <2>2 DEF Sync, IgnoreSyncError
    <3>2. \A x : Tail(<<x>>) = <<>> /\ Tail(<<x, Dir>>) = <<Dir>>
      OBVIOUS
    <3>3. due[p] = <<Dir>> \/ \E x : due[p] = <<x>> \/ due[p] = <<x, Dir>>
      BY <3>1
    <3>4. Tail(due[p]) \in {<<>>, <<Dir>>}
      BY <3>2, <3>3
    <3> QED BY <1>0, <3>1, <3>4
  <2> QED BY <2>1, <2>2
<1>3. CASE UNCHANGED <<dino, cut>> /\ (UNCHANGED <<dtemp, dstage, dfinal>> \/ DirectoryReaches)
  BY <1>0, <1>1, <1>2, <1>3 DEF PowerTypeOK, TypeOK, DirectoryReaches
<1>4. ASSUME NEW i \in Inodes, NEW f \in File, dino' = [dino EXCEPT ![i] = f],
             cut' = cut \/ cut' = cut \ {i}, UNCHANGED <<dtemp, dstage, dfinal>>
      PROVE  PowerTypeOK'
  <2>1. dino' \in [Inodes -> File] /\ cut' \subseteq Inodes
    BY <1>4 DEF PowerTypeOK
  <2> QED BY <1>1, <1>2, <1>4, <2>1 DEF PowerTypeOK
<1>5. \A i \in Inodes : ino[i] \in File /\ dino[i] \in File
  BY <1>0 DEF TypeOK, PowerTypeOK
<1>6. ASSUME NEW p \in Procs, Sync(p) PROVE PowerTypeOK'
  <2>1. due[p] # <<>> /\ due[p] \in D
    BY <1>0, <1>6 DEF Sync
  <2>2. Head(due[p]) = Dir \/ Head(due[p]) \in Inodes
    BY <2>1, InodeFacts
  <2>3. CASE Head(due[p]) = Dir
    BY <1>3, <1>6, <2>3 DEF Sync
  <2>4. CASE Head(due[p]) \in Inodes
    <3>1. /\ dino' = [dino EXCEPT ![Head(due[p])] = ino[Head(due[p])]]
          /\ cut' = cut \ {Head(due[p])} /\ UNCHANGED <<dtemp, dstage, dfinal>>
      BY <1>0, <1>6, <2>4 DEF Sync
    <3> QED BY <1>4, <1>5, <2>4, <3>1
  <2> QED BY <2>2, <2>3, <2>4
<1>7. ASSUME NEW p \in Procs, IgnoreSyncError(p) PROVE PowerTypeOK'
  BY <1>3, <1>7 DEF IgnoreSyncError, diskVars
<1>8. ASSUME WriteBackDir PROVE PowerTypeOK'
  BY <1>3, <1>8 DEF WriteBackDir
<1>9. ASSUME NEW i \in Inodes, WriteBackTruncation(i) PROVE PowerTypeOK'
  BY <1>4, <1>9, FileFacts DEF WriteBackTruncation
<1>10. ASSUME NEW i \in Inodes, WriteBackHeader(i) PROVE PowerTypeOK'
  <2>1. [dino[i] EXCEPT !.hdr = ino[i].hdr] \in File
    BY <1>5, FileFacts
  <2> QED BY <1>4, <1>10, <2>1 DEF WriteBackHeader
<1>11. ASSUME NEW i \in Inodes, WriteBackUnit(i) PROVE PowerTypeOK'
  <2> DEFINE n == dino[i].len
             d == [dino[i].data EXCEPT ![n] = ino[i].data[n]]
             f == [dino[i] EXCEPT !.data = d, !.len = n + 1]
  <2>1. dino' = [dino EXCEPT ![i] = f] /\ n < ino[i].len
    BY <1>11 DEF WriteBackUnit, PowerTypeOK, File
  <2>2. n \in Units /\ n + 1 \in 0..MaxSize
    BY <1>5, <2>1, FileFacts DEF Units
  <2>3. d \in [Units -> Blocks \cup {Hole}]
    BY <1>5, <2>2, FileFacts
  <2>4. f \in File
    <3>1. PICK g \in File : g = dino[i]
      BY <1>5
    <3>2. PICK m \in 0..MaxSize : m = n + 1
      BY <2>2
    <3>3. PICK e \in [Units -> Blocks \cup {Hole}] : e = d
      BY <2>3
    <3> HIDE DEF n, d
    <3>4. f = [g EXCEPT !.data = e, !.len = m]
      BY <3>1, <3>2, <3>3
    <3> HIDE DEF f
    <3> QED BY <3>4 DEF File
  <2> HIDE DEF n, d, f
  <2> QED BY <1>4, <1>11, <2>1, <2>4 DEF WriteBackUnit
<1> QED BY <1>1, <1>6, <1>7, <1>8, <1>9, <1>10, <1>11 DEF WriteBack

(* An outage leaves well-typed files, and nobody with a lock.              *)
LEMMA OutageTypes ==
    ASSUME Inv, PowerTypeOK, Outage PROVE AnyInv'
<1>1. /\ pc' = [p \in Procs |-> IF Live(p) THEN "crashed" ELSE pc[p]]
      /\ fd' = [p \in Procs |-> Nil] /\ sfd' = [p \in Procs |-> Nil]
      /\ got' = [p \in Procs |-> 0] /\ cp' = [p \in Procs |-> 0]
      /\ sig' = [p \in Procs |-> "off"] /\ lock' = [i \in Inodes |-> Nil]
      /\ ino' = OnDisk /\ dino' = OnDisk
      /\ temp' = dtemp /\ stage' = dstage /\ final' = dfinal
      /\ cut' = {} /\ due' = [p \in Procs |-> <<>>]
      /\ UNCHANGED <<want, nores, name, dtemp, dstage, dfinal, missed>>
      /\ outages < MaxOutages /\ outages' = outages + 1
  BY DEF Outage
<1>2. \A p \in Procs : pc'[p] \in Terminal \cup {"start"} /\ pc'[p] \in Stages
  BY <1>1 DEF Live, Terminal, Inv, TypeOK, Stages
<1>3. OnDisk \in [Inodes -> File]
  BY FileFacts DEF OnDisk, PowerTypeOK
<1>4. TypeOK'
  <2>1. pc' \in [Procs -> Stages]
    BY <1>1, <1>2
  <2> QED BY <1>1, <1>3, <2>1 DEF Inv, TypeOK, PowerTypeOK
<1>5. PowerTypeOK'
  BY <1>1, <1>3, PowerAssumption DEF PowerTypeOK
<1>6. Handles' /\ Locked'
  BY <1>2 DEF Handles, Locked, HasHandle, Holding, Terminal
<1> QED BY <1>4, <1>5, <1>6 DEF AnyInv, Inv

(* Every step keeps the invariant.                                         *)
LEMMA AnyPowerStep == AnyInv /\ [PowerNext]_powerVars => AnyInv'
<1> SUFFICES ASSUME AnyInv, [PowerNext]_powerVars PROVE AnyInv'
  OBVIOUS
<1>0. Inv /\ TypeOK /\ Handles /\ Locked /\ PowerTypeOK
  BY DEF AnyInv, Inv
<1>1. ASSUME [Next]_vars, PowerTypeOK' PROVE AnyInv'
  BY <1>0, <1>1, TypeStep, LockedStep DEF AnyInv
<1>2. ASSUME NEW p \in Procs, Act(p) PROVE AnyInv'
  <2>1. Step(p) /\ UNCHANGED <<dino, dtemp, dstage, dfinal, missed, outages>>
    BY <1>0, <1>2, ActFacts DEF diskVars
  <2>2. cut' \subseteq Inodes
    BY <1>0, <1>2, ActFacts, InodeFacts DEF PowerTypeOK
  <2>3. PowerTypeOK'
    BY <1>0, <1>2, <2>1, <2>2, ActFacts DEF PowerTypeOK
  <2>4. Next
    BY <2>1 DEF Next
  <2> QED BY <1>1, <2>3, <2>4
<1>3. CASE WriteBack \/ \E p \in Procs : Sync(p) \/ IgnoreSyncError(p)
  BY <1>0, <1>1, <1>3, DiskTypes
<1>4. CASE Outage
  BY <1>0, <1>4, OutageTypes
<1>5. CASE UNCHANGED powerVars
  <2>1. UNCHANGED <<vars, dino, dtemp, dstage, dfinal, cut, due, missed, outages>>
    BY <1>5 DEF powerVars, diskVars
  <2>2. PowerTypeOK'
    BY <1>0, <2>1 DEF PowerTypeOK
  <2> QED BY <1>1, <2>1, <2>2
<1> QED BY <1>2, <1>3, <1>4, <1>5 DEF PowerNext

LEMMA AnyPowerInvariant == PowerSpec => []AnyInv
<1>1. PowerInit => AnyInv
  <2> SUFFICES ASSUME PowerInit PROVE AnyInv
    OBVIOUS
  <2>1. Inv /\ IInv
    BY TypeInit, SharedInit DEF PowerInit
  <2>2. PowerTypeOK
    BY <2>1, PowerAssumption DEF PowerInit, PowerTypeOK, Inv, TypeOK
  <2> QED BY <2>1, <2>2 DEF AnyInv, IInv
<1> QED BY <1>1, AnyPowerStep, PTL DEF PowerSpec

(* The files and the directory on the disk keep their types, and no        *)
(* process waits for more than two syncs or for a file it does not have,   *)
(* whether receivers take turns or not.                                    *)
THEOREM PowerTypeCorrect == PowerSpec => []PowerTypeOK
<1>1. AnyInv => PowerTypeOK
  BY DEF AnyInv
<1> QED BY AnyPowerInvariant, <1>1, PTL

(* However many receivers run on one file name, no two of them have the    *)
(* same temp file open for writing, before and after any outage.           *)
THEOREM PowerOneWriter == PowerSpec => []OneWriter
<1>1. AnyInv => OneWriter
  BY DEF AnyInv, Inv, TypeOK, Locked, OneWriter
<1> QED BY AnyPowerInvariant, <1>1, PTL
=============================================================================
