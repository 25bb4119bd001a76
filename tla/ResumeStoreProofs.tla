-------------------------- MODULE ResumeStoreProofs --------------------------
(***************************************************************************)
(* Proofs about ResumeStore, for every set of receivers, every set of file *)
(* versions and sizes, and every chunk length and update interval.         *)
(***************************************************************************)
EXTENDS ResumeStoreInv, TLAPS

USE VersionAssumption, ChunkAssumption, NameAssumption, ModeAssumption,
    HoleAssumption, NilAssumption
------------------------------------------------------------------------------
(* Inodes: temp and staging files are different files.                     *)
LEMMA InodeFacts ==
    /\ TempInodes \subseteq Inodes /\ StageInodes \subseteq Inodes
    /\ TempInodes \cap StageInodes = {}
    /\ Old \in StageInodes
    /\ \A p \in Procs : TempOf(p) \in TempInodes /\ StageOf(p) \in StageInodes
    /\ \A p \in Procs : StageOf(p) # Old
    /\ \A p, q \in Procs : p # q => TempOf(p) # TempOf(q) /\ StageOf(p) # StageOf(q)
    /\ Nil \notin TempInodes /\ Nil \notin StageInodes
BY DEF TempInodes, StageInodes, Inodes, Old, TempOf, StageOf

(* The operations on files and headers yield files.                        *)
LEMMA FileFacts ==
    /\ EmptyFile \in File /\ NoHeader \in Header
    /\ \A f \in File : /\ f.hdr \in Header
                       /\ f.len \in 0..MaxSize
                       /\ f.data \in [Units -> Blocks \cup {Hole}]
                       /\ Corrected(f) \in File
    /\ \A h \in Header : h.n \in 0..MaxSize /\ h.sum \in Versions \cup {Nil}
    /\ \A f \in File, h \in Header : [f EXCEPT !.hdr = h] \in File
    /\ \A v \in Versions, m \in 0..MaxSize : [sum |-> v, n |-> m] \in Header
    /\ \A v \in Versions : WholeFile(v) \in File
<1>1. \A v \in Versions : WholeFile(v) \in File
  BY DEF File, Header, NoHeader, WholeFile, Units, Blocks
<1>2. \A f \in File : /\ f.hdr \in Header
                      /\ f.len \in 0..MaxSize
                      /\ f.data \in [Units -> Blocks \cup {Hole}]
                      /\ Corrected(f) \in File
  BY DEF File, Header, Corrected, Smaller
<1>3. EmptyFile \in File /\ NoHeader \in Header
  BY DEF File, EmptyFile, Header, NoHeader
<1>4. /\ \A h \in Header : h.n \in 0..MaxSize /\ h.sum \in Versions \cup {Nil}
      /\ \A f \in File, h \in Header : [f EXCEPT !.hdr = h] \in File
      /\ \A v \in Versions, m \in 0..MaxSize : [sum |-> v, n |-> m] \in Header
  BY DEF File, Header
<1> QED BY <1>1, <1>2, <1>3, <1>4

(* A file that was written to is a file.                                   *)
LEMMA WrittenFile ==
    ASSUME NEW f \in File, NEW v \in Versions, NEW a \in 0..MaxSize,
           NEW k \in Nat, a + k <= MaxSize
    PROVE  Written(f, a, [v |-> v, from |-> a, n |-> k]) \in File
<1> DEFINE l == Larger(f.len, a + k)
           d == [u \in Units |-> IF a <= u /\ u < a + k THEN <<v, a + (u - a)>>
                                                      ELSE f.data[u]]
<1>1. Written(f, a, [v |-> v, from |-> a, n |-> k]) = [f EXCEPT !.len = l, !.data = d]
  BY DEF Written
<1>2. l \in 0..MaxSize
  BY DEF File, Larger
<1>3. d \in [Units -> Blocks \cup {Hole}]
  <2>1. ASSUME NEW u \in Units, a <= u, u < a + k
        PROVE  <<v, a + (u - a)>> \in Blocks
    BY <2>1 DEF Units, Blocks
  <2>2. ASSUME NEW u \in Units PROVE f.data[u] \in Blocks \cup {Hole}
    BY DEF File
  <2> QED BY <2>1, <2>2
<1> HIDE DEF l, d
<1> QED BY <1>1, <1>2, <1>3 DEF File

(* A file that was copied into is a file.                                  *)
LEMMA CopiedFile ==
    ASSUME NEW f \in File, NEW g \in File, NEW a \in 0..MaxSize, NEW t \in 0..MaxSize
    PROVE  Copied(f, g, a, t) \in File
BY DEF File, Copied, Larger

(* The chunk an honest sender sends next fits in what is left.             *)
LEMMA ChunkFacts ==
    ASSUME TypeOK, NEW p \in Procs, got[p] < Size[want[p]]
    PROVE  /\ want[p] \in Versions /\ got[p] \in 0..MaxSize
           /\ NextChunk(p) = [v |-> want[p], from |-> got[p], n |-> ChunkAt(p)]
           /\ ChunkAt(p) \in Nat \ {0}
           /\ got[p] + ChunkAt(p) <= Size[want[p]]
           /\ Size[want[p]] <= MaxSize
BY DEF TypeOK, NextChunk, ChunkAt, Smaller
------------------------------------------------------------------------------
(* A receiver whose sender's file changes: the next chunk has the right    *)
(* place and length, but, unless exact, may be of any version.             *)
Chunk(p, v) == [v |-> v, from |-> got[p], n |-> ChunkAt(p)]
Allowed(p, exact) == {v \in Versions : exact => v = want[p]}

AnyStep(p, exact) ==
    Step(p) \/ \E v \in Allowed(p, exact) :
        ReceiveChunk(p, Chunk(p, v)) \/ WriteFails(p, Chunk(p, v))

AnyNext(exact) == (\E p \in Procs : AnyStep(p, exact)) \/ Finished

(* Writing is the only difference.                                         *)
Otherwise(p) ==
    \/ Decide(p) \/ CheckResume(p) \/ CreateTemp(p) \/ SendControl(p)
    \/ UpdateMetadata(p) \/ FinishReceive(p) \/ Finalize(p) \/ SendAck(p)
    \/ Stop(p)

LEMMA AnyKinds ==
    ASSUME TypeOK, NEW p \in Procs, NEW exact \in BOOLEAN, AnyStep(p, exact)
    PROVE  \/ Otherwise(p)
           \/ \E v \in Allowed(p, exact) :
                  ReceiveChunk(p, Chunk(p, v)) \/ WriteFails(p, Chunk(p, v))
<1>1. want[p] \in Allowed(p, exact) /\ NextChunk(p) = Chunk(p, want[p])
  BY DEF TypeOK, Allowed, NextChunk, Chunk
<1> QED BY <1>1 DEF AnyStep, Step, Otherwise
------------------------------------------------------------------------------
(* Types *)

(* A process that exits leaves everything well typed if the rest is.       *)
LEMMA ExitTypes ==
    ASSUME Inv, NEW p \in Procs, NEW how \in Terminal, Exit(p, how),
           temp' \in [Names -> TempInodes \cup {Nil}],
           stage' \in [Names -> StageInodes \cup {Nil}],
           final' \in [Names -> StageInodes \cup {Nil}],
           ino' \in [Inodes -> File]
    PROVE  Inv'
BY DEF Inv, TypeOK, Handles, HasHandle, Holding, Exit, Released, Goto, Stages, Terminal

(* Each step keeps types and handles.                                      *)
LEMMA AnyTypeStep ==
    ASSUME NEW exact \in BOOLEAN, Inv, [AnyNext(exact)]_vars
    PROVE  Inv'
<1> USE DEF Inv, TypeOK, Handles, HasHandle, Holding, Stages, Terminal, Goto, dirVars
<1>1. ASSUME NEW p \in Procs, AnyStep(p, exact) PROVE Inv'
  <2>1. CASE Start(p)
    BY <2>1, InodeFacts, FileFacts DEF Start, Prepare
  <2>2. CASE ChooseOverwrite(p)
    BY <2>2, InodeFacts, FileFacts DEF ChooseOverwrite, Prepare
  <2>3. CASE ChooseRename(p)
    <3>1. PICK n \in Names : name' = [name EXCEPT ![p] = n]
      BY <2>3 DEF ChooseRename
    <3> QED BY <2>3, <3>1 DEF ChooseRename, Prepare
  <2>4. CASE ChooseCancel(p)
    <3>1. /\ temp' \in [Names -> TempInodes \cup {Nil}]
          /\ stage' \in [Names -> StageInodes \cup {Nil}]
          /\ final' \in [Names -> StageInodes \cup {Nil}]
          /\ ino' \in [Inodes -> File]
      BY <2>4 DEF ChooseCancel
    <3> QED BY <2>4, <3>1, ExitTypes DEF ChooseCancel
  <2>5. CASE OpenForResume(p)
    BY <2>5, InodeFacts, FileFacts DEF OpenForResume
  <2>6. CASE LockForResume(p)
    BY <2>6, InodeFacts, FileFacts DEF LockForResume, LockFd
  <2>7. CASE ReadHeader(p)
    <3>1. fd[p] \in TempInodes /\ ino' = [ino EXCEPT ![fd[p]] = Corrected(ino[fd[p]])]
      BY <2>7 DEF ReadHeader, SameFile
    <3>2. ino' \in [Inodes -> File] /\ ino'[fd[p]] \in File
      BY <3>1, InodeFacts, FileFacts
    <3>3. ino'[fd[p]].hdr.n \in 0..MaxSize
      BY <3>2, FileFacts
    <3> QED BY <2>7, <3>2, <3>3 DEF ReadHeader, SameFile, Released
  <2>8. CASE DiscardStale(p)
    BY <2>8, InodeFacts, FileFacts DEF DiscardStale
  <2>9. CASE OpenForCreate(p)
    BY <2>9, InodeFacts, FileFacts DEF OpenForCreate
  <2>10. CASE LockAndTruncate(p)
    BY <2>10, InodeFacts, FileFacts DEF LockAndTruncate, LockFd
  <2>11. CASE CreateNew(p)
    <3>1. CASE temp[name[p]] = Nil
      <4> DEFINE i == TempOf(p)
      <4>1. i \in TempInodes
        BY InodeFacts
      <4>2. /\ temp' = [temp EXCEPT ![name[p]] = i]
            /\ fd' = [fd EXCEPT ![p] = i]
            /\ pc' = [pc EXCEPT ![p] = "locknew"]
        BY <2>11, <3>1 DEF CreateNew
      <4> HIDE DEF i
      <4> QED BY <2>11, <3>1, <4>1, <4>2 DEF CreateNew
    <3>2. CASE temp[name[p]] # Nil
      BY <2>11, <3>2, ExitTypes DEF CreateNew
    <3> QED BY <3>1, <3>2
  <2>12. CASE LockNew(p)
    BY <2>12, InodeFacts, FileFacts DEF LockNew, LockFd
  <2>13. CASE WriteHeader(p)
    <3>1. [sum |-> want[p], n |-> 0] \in Header
      BY FileFacts
    <3>2. ino' \in [Inodes -> File]
      BY <2>13, <3>1, FileFacts DEF WriteHeader
    <3> QED BY <2>13, <3>2 DEF WriteHeader
  <2>14. CASE SendControl(p)
    BY <2>14, InodeFacts, FileFacts DEF SendControl
  <2>15. ASSUME NEW v \in Allowed(p, exact), ReceiveChunk(p, Chunk(p, v)) PROVE Inv'
    <3>0. v \in Versions
      BY DEF Allowed
    <3>1. fd[p] \in Inodes /\ ino[fd[p]] \in File
      BY <2>15, InodeFacts DEF ReceiveChunk
    <3>2. Written(ino[fd[p]], got[p], Chunk(p, v)) \in File
      BY <2>15, <3>0, <3>1, ChunkFacts, WrittenFile DEF ReceiveChunk, Chunk
    <3>3. ino' \in [Inodes -> File]
      BY <2>15, <3>1, <3>2 DEF ReceiveChunk
    <3>4. got[p] + Chunk(p, v).n \in 0..MaxSize
      BY <2>15, ChunkFacts DEF ReceiveChunk, Chunk
    <3> QED BY <2>15, <3>3, <3>4 DEF ReceiveChunk
  <2>16. ASSUME NEW v \in Allowed(p, exact), WriteFails(p, Chunk(p, v)) PROVE Inv'
    <3>0. v \in Versions /\ Chunk(p, v).n = ChunkAt(p)
      BY DEF Allowed, Chunk
    <3>1. fd[p] \in Inodes /\ ino[fd[p]] \in File
      BY <2>16, InodeFacts DEF WriteFails
    <3>2. PICK k \in 0..(ChunkAt(p) - 1) :
            ino' = [ino EXCEPT ![fd[p]] = Written(@, got[p], [Chunk(p, v) EXCEPT !.n = k])]
      BY <2>16, <3>0 DEF WriteFails
    <3>3. [Chunk(p, v) EXCEPT !.n = k] = [v |-> v, from |-> got[p], n |-> k]
      BY DEF Chunk
    <3>4. Written(ino[fd[p]], got[p], [Chunk(p, v) EXCEPT !.n = k]) \in File
      <4>1. k \in Nat /\ got[p] + k <= MaxSize
        BY <2>16, ChunkFacts DEF WriteFails
      <4> QED BY <2>16, <3>0, <3>1, <3>3, <4>1, ChunkFacts, WrittenFile DEF WriteFails
    <3>5. ino' \in [Inodes -> File]
      BY <3>1, <3>2, <3>4
    <3> QED BY <2>16, <3>5, ExitTypes DEF WriteFails, Terminal
  <2>17. CASE UpdateMetadata(p)
    BY <2>17, InodeFacts, FileFacts DEF UpdateMetadata, SaveProgress
  <2>18. CASE FinishReceive(p)
    BY <2>18, InodeFacts, FileFacts DEF FinishReceive, SaveProgress
  <2>19. CASE StageCreate(p)
    BY <2>19, InodeFacts, FileFacts DEF StageCreate
  <2>20. CASE CopyChunk(p)
    <3> DEFINE to == Smaller(cp[p] + ChunkLen, ino[fd[p]].len)
    <3>1. fd[p] \in Inodes /\ sfd[p] \in Inodes /\ ino[fd[p]] \in File /\ ino[sfd[p]] \in File
      BY <2>20, InodeFacts DEF CopyChunk
    <3>2. to \in 0..MaxSize
      BY <2>20, <3>1, FileFacts DEF CopyChunk, Smaller
    <3>3. ino' = [ino EXCEPT ![sfd[p]] = Copied(@, ino[fd[p]], cp[p], to)] /\ cp' = [cp EXCEPT ![p] = to]
      BY <2>20 DEF CopyChunk
    <3>4. ino' \in [Inodes -> File]
      BY <3>1, <3>2, <3>3, CopiedFile
    <3> QED BY <2>20, <3>2, <3>3, <3>4 DEF CopyChunk
  <2>21. CASE CopyDone(p)
    BY <2>21, InodeFacts, FileFacts DEF CopyDone
  <2>22. CASE RenameStage(p)
    BY <2>22 DEF RenameStage, Exit, Released
  <2>23. CASE DropTemp(p)
    BY <2>23, InodeFacts, FileFacts DEF DropTemp, Released
  <2>24. CASE RemoveTemp(p)
    BY <2>24 DEF RemoveTemp, Exit, Released
  <2>25. CASE SendAck(p)
    <3>1. /\ temp' \in [Names -> TempInodes \cup {Nil}]
          /\ stage' \in [Names -> StageInodes \cup {Nil}]
          /\ final' \in [Names -> StageInodes \cup {Nil}]
          /\ ino' \in [Inodes -> File]
      BY <2>25 DEF SendAck
    <3> QED BY <2>25, <3>1, ExitTypes DEF SendAck
  <2>26. CASE LockHeld(p)
    <3>1. /\ temp' \in [Names -> TempInodes \cup {Nil}]
          /\ stage' \in [Names -> StageInodes \cup {Nil}]
          /\ final' \in [Names -> StageInodes \cup {Nil}]
          /\ ino' \in [Inodes -> File]
      BY <2>26 DEF LockHeld
    <3> QED BY <2>26, <3>1, ExitTypes DEF LockHeld
  <2>27. CASE StageFails(p)
    <3>1. /\ temp' \in [Names -> TempInodes \cup {Nil}]
          /\ stage' \in [Names -> StageInodes \cup {Nil}]
          /\ final' \in [Names -> StageInodes \cup {Nil}]
          /\ ino' \in [Inodes -> File]
      BY <2>27 DEF StageFails
    <3> QED BY <2>27, <3>1, ExitTypes DEF StageFails
  <2>28. CASE Fails(p)
    <3>1. /\ temp' \in [Names -> TempInodes \cup {Nil}]
          /\ stage' \in [Names -> StageInodes \cup {Nil}]
          /\ final' \in [Names -> StageInodes \cup {Nil}]
          /\ ino' \in [Inodes -> File]
      BY <2>28 DEF Fails
    <3> QED BY <2>28, <3>1, ExitTypes DEF Fails
  <2>29. CASE CtrlC(p)
    BY <2>29, InodeFacts, FileFacts DEF CtrlC, Live
  <2>30. CASE Interrupted(p)
    <3>1. /\ temp' \in [Names -> TempInodes \cup {Nil}]
          /\ stage' \in [Names -> StageInodes \cup {Nil}]
          /\ final' \in [Names -> StageInodes \cup {Nil}]
          /\ ino' \in [Inodes -> File]
      BY <2>30 DEF Interrupted
    <3> QED BY <2>30, <3>1, ExitTypes DEF Interrupted
  <2>31. CASE Crash(p)
    <3>1. /\ temp' \in [Names -> TempInodes \cup {Nil}]
          /\ stage' \in [Names -> StageInodes \cup {Nil}]
          /\ final' \in [Names -> StageInodes \cup {Nil}]
          /\ ino' \in [Inodes -> File]
      BY <2>31 DEF Crash
    <3> QED BY <2>31, <3>1, ExitTypes DEF Crash
  <2> QED
    BY <1>1, AnyKinds, <2>1, <2>2, <2>3, <2>4, <2>5, <2>6, <2>7, <2>8, <2>9, <2>10, <2>11, <2>12, <2>13, <2>14, <2>15, <2>16, <2>17, <2>18, <2>19, <2>20, <2>21, <2>22, <2>23, <2>24, <2>25, <2>26, <2>27, <2>28, <2>29, <2>30, <2>31
    DEF Otherwise, Decide, CheckResume, CreateTemp, Finalize, Stop
<1>2. CASE UNCHANGED vars
  BY <1>2 DEF vars, procVars
<1> QED
  BY <1>1, <1>2 DEF AnyNext, Finished

(* With the chunks that belong there.                                      *)
LEMMA NextIsAny == ASSUME NEW exact \in BOOLEAN, [Next]_vars PROVE [AnyNext(exact)]_vars
BY DEF Next, AnyNext, AnyStep

LEMMA TypeStep == Inv /\ [Next]_vars => Inv'
BY NextIsAny, AnyTypeStep

(* They are right at the start.                                            *)
LEMMA TypeInit == Init => Inv
BY InodeFacts, FileFacts DEF Init, Inv, TypeOK, Handles, HasHandle, Holding, Stages, Terminal, Names

(* Types and handles are right in every run.                               *)
THEOREM TypeCorrect == Spec => []TypeOK
<1>1. Inv => TypeOK
  BY DEF Inv
<1> QED BY TypeInit, TypeStep, <1>1, PTL DEF Spec
------------------------------------------------------------------------------
(* One writer per temp file, and headers that never claim too much         *)

(* Writing the next units makes a file longer, and if they are those of v  *)
(* as what is there, there is more of v.                                   *)
LEMMA WrittenHas ==
    ASSUME NEW exact \in BOOLEAN, NEW f \in File, NEW v \in Versions, NEW w \in Versions, exact => w = v,
           NEW a \in 0..MaxSize, NEW k \in Nat,
           a + k <= MaxSize, Has(f, v, a, exact),
           NEW g, g = Written(f, a, [v |-> w, from |-> a, n |-> k])
    PROVE  g.hdr = f.hdr /\ g.len = Larger(f.len, a + k) /\ Has(g, v, a + k, exact)
<1>1. g.hdr = f.hdr /\ g.len = Larger(f.len, a + k)
  BY DEF Written, File
<1>2. g.data = [u \in Units |-> IF a <= u /\ u < a + k THEN <<w, a + (u - a)>>
                                                     ELSE f.data[u]]
  BY DEF Written, File
<1>3. ASSUME exact, NEW u \in 0..(a + k - 1) PROVE g.data[u] = <<v, u>>
  <2>1. u \in Units
    BY <1>3 DEF Units
  <2>2. CASE u < a
    <3>1. g.data[u] = f.data[u]
      BY <1>2, <2>1, <2>2
    <3>2. u \in 0..(a - 1)
      BY <1>3, <2>2
    <3> QED BY <1>3, <3>1, <3>2 DEF Has, Prefix
  <2>3. CASE a <= u
    <3>1. u < a + k /\ a + (u - a) = u /\ w = v
      BY <1>3
    <3> QED BY <1>2, <2>1, <2>3, <3>1
  <2> QED BY <1>3, <2>2, <2>3
<1>4. a + k <= g.len
  BY <1>1, FileFacts DEF Larger
<1>5. exact => Prefix(g, v, a + k)
  BY <1>3, <1>4 DEF Prefix
<1> QED BY <1>1, <1>4, <1>5 DEF Has

(* A file that has n units of a version has any m <= n of them.            *)
LEMMA ShorterHas ==
    ASSUME NEW exact \in BOOLEAN, NEW f, NEW v, NEW n \in Nat, NEW m \in Nat, m <= n, f.len \in Nat,
           Has(f, v, n, exact)
    PROVE  Has(f, v, m, exact)
BY DEF Has, Prefix

(* Correcting a header that claims no more than there is changes nothing.  *)
LEMMA CorrectedSame ==
    ASSUME NEW f \in File
    PROVE  /\ Corrected(f).hdr.sum = f.hdr.sum
           /\ f.hdr.n <= f.len => Corrected(f) = f
<1>1. f.hdr.n \in 0..MaxSize /\ f.len \in 0..MaxSize
  BY FileFacts
<1>2. Corrected(f).hdr.sum = f.hdr.sum
  BY DEF Corrected, File, Header
<1>3. f = [f EXCEPT !.hdr.n = f.hdr.n]
  BY DEF File, Header
<1>4. f.hdr.n <= f.len => Smaller(f.hdr.n, f.len) = f.hdr.n
  BY <1>1 DEF Smaller
<1> QED BY <1>2, <1>3, <1>4 DEF Corrected

(* The obligations of a step of p that touches one temp file, locked by p. *)
LEMMA OneFile ==
    ASSUME NEW exact \in BOOLEAN, LInv(exact), Inv', NEW p \in Procs, NEW i \in TempInodes,
           pc[p] \in Holding, fd[p] = i, want' = want,
           \A j \in TempInodes : j # i => ino'[j] = ino[j],
           \A q \in Procs : q # p =>
               /\ pc'[q] = pc[q] /\ got'[q] = got[q] /\ fd'[q] = fd[q]
               /\ pc[q] \in Holding => lock'[fd[q]] = lock[fd[q]],
           pc'[p] \in Holding => lock'[fd'[p]] = p,
           pc'[p] \notin Prepared => got'[p] = 0,
           pc'[p] \in Filling =>
               /\ fd'[p] = i /\ got'[p] <= Size[want[p]]
               /\ Has(ino'[i], want[p], got'[p], exact),
           pc'[p] \in {"control", "receive", "update"} =>
               ino'[i].hdr.sum = want[p] /\ ino'[i].hdr.n <= got'[p],
           ino'[i].hdr.n <= ino'[i].len,
           ino'[i].hdr.sum # Nil =>
               /\ ino'[i].hdr.n <= Size[ino'[i].hdr.sum]
               /\ Has(ino'[i], ino'[i].hdr.sum, ino'[i].hdr.n, exact)
    PROVE  Locked' /\ Counts(exact)' /\ Claims(exact)'
<1>1. Locked'
  BY DEF LInv, Locked
<1>2. Claims(exact)'
  <2> SUFFICES ASSUME NEW j \in TempInodes
               PROVE  /\ ino'[j].hdr.n <= ino'[j].len
                      /\ ino'[j].hdr.sum # Nil =>
                           /\ ino'[j].hdr.n <= Size[ino'[j].hdr.sum]
                           /\ Has(ino'[j], ino'[j].hdr.sum, ino'[j].hdr.n, exact)
    BY DEF Claims
  <2> QED BY DEF LInv, Claims
<1>3. ASSUME NEW q \in Procs, q # p, pc[q] \in Filling PROVE ino'[fd[q]] = ino[fd[q]]
  <2>1. lock[fd[q]] = q /\ lock[i] = p /\ fd[q] \in TempInodes
    BY <1>3 DEF LInv, Inv, Locked, Handles, HasHandle, Holding, Filling
  <2> QED BY <1>3, <2>1
<1>4. Counts(exact)'
  BY <1>3 DEF LInv, Counts, Prepared, Filling
<1> QED BY <1>1, <1>2, <1>4

(* A process that exits without touching a temp file.                      *)
LEMMA SharedExit ==
    ASSUME NEW exact \in BOOLEAN, LInv(exact), Inv', NEW p \in Procs, NEW how \in Terminal, Exit(p, how),
           \A i \in TempInodes : ino'[i] = ino[i]
    PROVE  Locked' /\ Counts(exact)' /\ Claims(exact)'
<1> USE DEF LInv, Inv, TypeOK, Handles, HasHandle, Holding, Terminal, Goto, Filling, Prepared
<1>1. Locked'
  BY InodeFacts DEF Exit, Released, Locked
<1>2. Counts(exact)'
  BY DEF Exit, Counts
<1>3. Claims(exact)'
  BY DEF Claims
<1> QED BY <1>1, <1>2, <1>3

(* Reading the header corrects it to what is there.                        *)
LEMMA SharedReadHeader ==
    ASSUME NEW exact \in BOOLEAN, LInv(exact), Inv', NEW p \in Procs, ReadHeader(p)
    PROVE  Locked' /\ Counts(exact)' /\ Claims(exact)'
<1> DEFINE i == fd[p]  f == ino[i]
<1>1. /\ i \in TempInodes /\ i \in Inodes /\ f \in File /\ lock[i] = p
      /\ pc[p] = "read" /\ pc[p] \in Holding /\ want[p] \in Versions
      /\ got[p] = 0
  BY InodeFacts DEF ReadHeader, SameFile, LInv, Inv, TypeOK, Handles, HasHandle, Holding, Locked,
                    Counts, Prepared, Filling
<1>2. ino' = [ino EXCEPT ![i] = Corrected(f)]
  BY DEF ReadHeader, SameFile
<1>3. /\ Corrected(f).hdr.sum = f.hdr.sum
      /\ Corrected(f) = f /\ f.hdr.n <= f.len
      /\ f.hdr.sum # Nil => /\ f.hdr.n <= Size[f.hdr.sum]
                            /\ Has(f, f.hdr.sum, f.hdr.n, exact)
  BY <1>1, CorrectedSame DEF LInv, Claims
<1>4. /\ ino'[i] = Corrected(f)
      /\ \A j \in TempInodes : j # i => ino'[j] = ino[j]
  BY <1>1, <1>2, InodeFacts DEF LInv, Inv, TypeOK
<1>5. want[p] # Nil
  BY <1>1
<1>6. f.hdr.n \in 0..MaxSize
  BY <1>1, FileFacts
<1>7. CASE f.hdr.sum = want[p]
  <2>1. /\ got' = [got EXCEPT ![p] = f.hdr.n]
        /\ pc' = [pc EXCEPT ![p] = "control"]
        /\ UNCHANGED <<fd, lock, want>>
    BY <1>3, <1>4, <1>5, <1>7 DEF ReadHeader, SameFile, Goto
  <2>2. /\ pc'[p] = "control" /\ got'[p] = f.hdr.n
        /\ \A q \in Procs : q # p => pc'[q] = pc[q] /\ got'[q] = got[q]
    BY <2>1 DEF LInv, Inv, TypeOK
  <2> HIDE DEF i, f
  <2> QED
    BY <1>1, <1>3, <1>4, <1>5, <1>6, <1>7, <2>1, <2>2, OneFile DEF Prepared, Filling, i
<1>8. CASE f.hdr.sum # want[p]
  <2>1. /\ got' = got /\ want' = want /\ pc' = [pc EXCEPT ![p] = "discard"]
        /\ fd' = [fd EXCEPT ![p] = Nil] /\ lock' = Released(p)
    BY <1>8 DEF ReadHeader, SameFile, Goto
  <2>2. /\ pc'[p] = "discard"
        /\ \A q \in Procs : q # p =>
             /\ pc'[q] = pc[q] /\ fd'[q] = fd[q]
             /\ pc[q] \in Holding => lock'[fd[q]] = lock[fd[q]]
    BY <2>1, InodeFacts DEF LInv, Inv, TypeOK, Released, Locked, Handles, HasHandle
  <2> HIDE DEF i, f
  <2> QED
    BY <1>1, <1>3, <1>4, <2>1, <2>2, OneFile DEF Prepared, Filling, Holding, i
<1> QED BY <1>7, <1>8

(* Writing a chunk extends the prefix and disturbs no other file.          *)
LEMMA SharedReceiveChunk ==
    ASSUME NEW exact \in BOOLEAN, LInv(exact), Inv', NEW p \in Procs, NEW w \in Allowed(p, exact),
           ReceiveChunk(p, Chunk(p, w))
    PROVE  Locked' /\ Counts(exact)' /\ Claims(exact)'
<1> DEFINE i == fd[p]  f == ino[i]  k == ChunkAt(p)
           g == Written(f, got[p], [v |-> w, from |-> got[p], n |-> k])
<1>1. /\ i \in TempInodes /\ i \in Inodes /\ f \in File /\ lock[i] = p
      /\ pc[p] = "receive" /\ pc[p] \in Holding
      /\ Has(f, want[p], got[p], exact) /\ f.hdr.sum = want[p] /\ f.hdr.n <= got[p]
  BY InodeFacts DEF ReceiveChunk, LInv, Inv, TypeOK, Handles, HasHandle, Holding, Locked,
                    Counts, Prepared, Filling
<1>2. /\ want[p] \in Versions /\ w \in Versions /\ (exact => w = want[p])
      /\ got[p] \in 0..MaxSize /\ k \in Nat
      /\ Chunk(p, w) = [v |-> w, from |-> got[p], n |-> k]
      /\ got[p] + k <= Size[want[p]] /\ Size[want[p]] <= MaxSize
  BY ChunkFacts DEF ReceiveChunk, LInv, Inv, Chunk, Allowed
<1>3. /\ ino' = [ino EXCEPT ![i] = g] /\ got' = [got EXCEPT ![p] = got[p] + k]
      /\ \E l \in {"update", "receive"} : pc' = [pc EXCEPT ![p] = l]
      /\ UNCHANGED <<fd, lock, want>>
  <2>1. pc' = [pc EXCEPT ![p] = IF HeaderDue(p) THEN "update" ELSE "receive"]
    BY DEF ReceiveChunk, Goto
  <2>2. Chunk(p, w).n = k
    BY <1>2
  <2>3. ino' = [ino EXCEPT ![i] = Written(f, got[p], Chunk(p, w))]
        /\ got' = [got EXCEPT ![p] = got[p] + Chunk(p, w).n]
        /\ UNCHANGED <<fd, lock, want>>
    BY DEF ReceiveChunk
  <2> QED BY <1>2, <2>1, <2>2, <2>3
<1>4. /\ ino'[i] = g /\ got'[p] = got[p] + k /\ pc'[p] \in {"update", "receive"}
      /\ \A j \in TempInodes : j # i => ino'[j] = ino[j]
      /\ \A q \in Procs : q # p => pc'[q] = pc[q] /\ got'[q] = got[q]
  BY <1>1, <1>3, InodeFacts DEF LInv, Inv, TypeOK
<1>5. g.hdr = f.hdr /\ Has(g, want[p], got[p] + k, exact)
  <2>1. got[p] + k <= MaxSize /\ g = Written(f, got[p], [v |-> w, from |-> got[p], n |-> k])
    BY <1>2
  <2>2. f \in File /\ Has(f, want[p], got[p], exact)
    BY <1>1
  <2>3. /\ want[p] \in Versions /\ w \in Versions /\ (exact => w = want[p])
        /\ got[p] \in 0..MaxSize /\ k \in Nat
    BY <1>2
  <2> DEFINE v == want[p]  a == got[p]
  <2> HIDE DEF i, f, g, k, v, a
  <2>4. g.hdr = f.hdr /\ Has(g, v, a + k, exact)
    BY <2>1, <2>2, <2>3, WrittenHas DEF v, a
  <2> QED BY <2>4 DEF v, a
<1>6. g.len \in Nat /\ f.hdr.n \in Nat /\ f.hdr.n <= got[p] + k /\ f.hdr.n <= Size[want[p]]
  <2>1. g \in File
    BY <1>1, <1>2, WrittenFile
  <2> HIDE DEF f, g
  <2> QED BY <1>1, <1>2, <2>1, FileFacts
<1>7. Has(g, want[p], f.hdr.n, exact) /\ f.hdr.n <= g.len
  <2> HIDE DEF f, g
  <2>1. Has(g, want[p], f.hdr.n, exact)
    BY <1>2, <1>5, <1>6, ShorterHas
  <2> QED BY <2>1 DEF Has
<1> HIDE DEF i, f, g
<1> QED
  BY <1>1, <1>2, <1>3, <1>4, <1>5, <1>6, <1>7, OneFile DEF Prepared, Filling, Holding, i

(* A write that fails half way leaves the prefix as it was.                *)
LEMMA SharedWriteFails ==
    ASSUME NEW exact \in BOOLEAN, LInv(exact), Inv', NEW p \in Procs, NEW w \in Allowed(p, exact),
           WriteFails(p, Chunk(p, w))
    PROVE  Locked' /\ Counts(exact)' /\ Claims(exact)'
<1>1. PICK k \in 0..(Chunk(p, w).n - 1) :
        ino' = [ino EXCEPT ![fd[p]] = Written(@, got[p], [Chunk(p, w) EXCEPT !.n = k])]
  BY DEF WriteFails
<1> DEFINE i == fd[p]  f == ino[i]
           g == Written(f, got[p], [v |-> w, from |-> got[p], n |-> k])
<1>2. /\ i \in TempInodes /\ i \in Inodes /\ f \in File /\ lock[i] = p
      /\ pc[p] = "receive" /\ pc[p] \in Holding
      /\ Has(f, want[p], got[p], exact) /\ f.hdr.sum = want[p] /\ f.hdr.n <= got[p]
  BY InodeFacts DEF WriteFails, LInv, Inv, TypeOK, Handles, HasHandle, Holding, Locked,
                    Counts, Prepared, Filling
<1>3. /\ want[p] \in Versions /\ w \in Versions /\ (exact => w = want[p])
      /\ got[p] \in 0..MaxSize /\ k \in Nat
      /\ [Chunk(p, w) EXCEPT !.n = k] = [v |-> w, from |-> got[p], n |-> k]
      /\ got[p] + k <= Size[want[p]] /\ Size[want[p]] <= MaxSize
  BY <1>1, ChunkFacts DEF WriteFails, LInv, Inv, Chunk, Allowed
<1>4. /\ ino' = [ino EXCEPT ![i] = g] /\ got' = [got EXCEPT ![p] = 0]
      /\ pc' = [pc EXCEPT ![p] = "failed"] /\ fd' = [fd EXCEPT ![p] = Nil]
      /\ lock' = Released(p) /\ want' = want
  BY <1>1, <1>3 DEF WriteFails, Exit, Goto
<1>5. /\ ino'[i] = g /\ got'[p] = 0 /\ pc'[p] = "failed"
      /\ \A j \in TempInodes : j # i => ino'[j] = ino[j]
      /\ \A q \in Procs : q # p =>
           /\ pc'[q] = pc[q] /\ got'[q] = got[q] /\ fd'[q] = fd[q]
           /\ pc[q] \in Holding => lock'[fd[q]] = lock[fd[q]]
  BY <1>2, <1>4, InodeFacts DEF LInv, Inv, TypeOK, Released, Locked, Handles, HasHandle
<1>6. g.hdr = f.hdr /\ Has(g, want[p], got[p] + k, exact)
  <2>1. got[p] + k <= MaxSize /\ g = Written(f, got[p], [v |-> w, from |-> got[p], n |-> k])
    BY <1>3
  <2> HIDE DEF i, f, g
  <2> QED BY <1>2, <1>3, <2>1, WrittenHas
<1>7. g.len \in Nat /\ f.hdr.n \in Nat /\ f.hdr.n <= got[p] + k /\ f.hdr.n <= Size[want[p]]
  <2>1. g \in File
    <3>1. got[p] + k <= MaxSize
      BY <1>3
    <3> QED BY <1>2, <1>3, <3>1, WrittenFile
  <2> HIDE DEF f, g
  <2> QED BY <1>2, <1>3, <2>1, FileFacts
<1>8. Has(g, want[p], f.hdr.n, exact) /\ f.hdr.n <= g.len
  <2> HIDE DEF f, g
  <2>1. Has(g, want[p], f.hdr.n, exact)
    BY <1>3, <1>6, <1>7, ShorterHas
  <2> QED BY <2>1 DEF Has
<1> HIDE DEF i, f, g
<1> QED
  BY <1>2, <1>3, <1>4, <1>5, <1>6, <1>7, <1>8, OneFile DEF Prepared, Filling, Holding, i

(* Each step keeps LInv.                                                   *)
LEMMA AnySharedStep ==
    ASSUME NEW exact \in BOOLEAN, LInv(exact), Inv', [AnyNext(exact)]_vars
    PROVE  LInv(exact)'
<1> SUFFICES Locked' /\ Counts(exact)' /\ Claims(exact)'
  BY DEF LInv
<1> USE DEF LInv, Inv, TypeOK, Handles, HasHandle, Holding, Stages, Terminal, Goto, dirVars,
            Locked, Counts, Claims, Filling, Prepared
<1>1. ASSUME NEW p \in Procs, AnyStep(p, exact) PROVE Locked' /\ Counts(exact)' /\ Claims(exact)'
  <2>1. CASE Start(p)
    BY <2>1, InodeFacts DEF Start, Prepare
  <2>2. CASE ChooseOverwrite(p)
    BY <2>2, InodeFacts DEF ChooseOverwrite, Prepare
  <2>3. CASE ChooseRename(p)
    BY <2>3, InodeFacts DEF ChooseRename, Prepare
  <2>4. CASE ChooseCancel(p)
    BY <2>4, SharedExit DEF ChooseCancel
  <2>5. CASE OpenForResume(p)
    BY <2>5, InodeFacts DEF OpenForResume
  <2>6. CASE LockForResume(p)
    BY <2>6, InodeFacts DEF LockForResume, LockFd
  <2>7. CASE ReadHeader(p)
    BY <2>7, SharedReadHeader
  <2>8. CASE DiscardStale(p)
    BY <2>8, InodeFacts DEF DiscardStale
  <2>9. CASE OpenForCreate(p)
    BY <2>9, InodeFacts DEF OpenForCreate
  <2>10. CASE LockAndTruncate(p)
    BY <2>10, InodeFacts DEF LockAndTruncate, LockFd, EmptyFile, NoHeader
  <2>11. CASE CreateNew(p)
    <3>1. CASE temp[name[p]] = Nil
      <4>1. /\ UNCHANGED <<want, got, ino, lock>>
            /\ pc' = [pc EXCEPT ![p] = "locknew"]
            /\ fd' = [fd EXCEPT ![p] = TempOf(p)]
        BY <2>11, <3>1 DEF CreateNew
      <4>2. pc[p] = "createnew"
        BY <2>11 DEF CreateNew
      <4> QED BY <4>1, <4>2
    <3>2. CASE temp[name[p]] # Nil
      BY <2>11, <3>2, SharedExit DEF CreateNew
    <3> QED BY <3>1, <3>2
  <2>12. CASE LockNew(p)
    BY <2>12, InodeFacts DEF LockNew, LockFd
  <2>13. CASE WriteHeader(p)
    BY <2>13, InodeFacts DEF WriteHeader, Has, Prefix, File
  <2>14. CASE SendControl(p)
    BY <2>14, InodeFacts DEF SendControl
  <2>15. ASSUME NEW v \in Allowed(p, exact), ReceiveChunk(p, Chunk(p, v))
         PROVE  Locked' /\ Counts(exact)' /\ Claims(exact)'
    BY <2>15, SharedReceiveChunk
  <2>16. ASSUME NEW v \in Allowed(p, exact), WriteFails(p, Chunk(p, v))
         PROVE  Locked' /\ Counts(exact)' /\ Claims(exact)'
    BY <2>16, SharedWriteFails
  <2>17. CASE UpdateMetadata(p)
    BY <2>17, InodeFacts DEF UpdateMetadata, SaveProgress, Has, Prefix, File
  <2>18. CASE FinishReceive(p)
    BY <2>18, InodeFacts DEF FinishReceive, SaveProgress, Has, Prefix, File
  <2>19. CASE StageCreate(p)
    <3>1. \A i \in TempInodes : ino'[i] = ino[i]
      <4>1. PICK j \in StageInodes : ino' = [ino EXCEPT ![j] = EmptyFile]
        BY <2>19, InodeFacts DEF StageCreate
      <4> QED BY <4>1, InodeFacts
    <3> QED BY <2>19, <3>1, InodeFacts DEF StageCreate
  <2>20. CASE CopyChunk(p)
    <3>1. \A i \in TempInodes : ino'[i] = ino[i]
      BY <2>20, InodeFacts DEF CopyChunk
    <3>2. UNCHANGED <<pc, want, fd, got, lock>>
      BY <2>20 DEF CopyChunk
    <3>3. Locked'
      BY <3>2
    <3>4. Counts(exact)'
      BY <3>1, <3>2
    <3>5. Claims(exact)'
      BY <3>1
    <3> QED BY <3>3, <3>4, <3>5
  <2>21. CASE CopyDone(p)
    BY <2>21, InodeFacts DEF CopyDone
  <2>22. CASE RenameStage(p)
    <3>1. CASE stage[name[p]] # Nil
      <4>1. /\ UNCHANGED <<want, got, ino, lock>>
            /\ pc' = [pc EXCEPT ![p] = "unlock"]
            /\ UNCHANGED fd
        BY <2>22, <3>1 DEF RenameStage
      <4>2. pc[p] = "rename"
        BY <2>22 DEF RenameStage
      <4> QED BY <4>1, <4>2
    <3>2. CASE stage[name[p]] = Nil
      BY <2>22, <3>2, SharedExit DEF RenameStage
    <3> QED BY <3>1, <3>2
  <2>23. CASE DropTemp(p)
    BY <2>23, InodeFacts DEF DropTemp, Released
  <2>24. CASE RemoveTemp(p)
    <3>1. CASE temp[name[p]] # Nil
      <4>1. /\ UNCHANGED <<want, got, ino, lock>>
            /\ pc' = [pc EXCEPT ![p] = "ack"]
            /\ UNCHANGED fd
        BY <2>24, <3>1 DEF RemoveTemp
      <4>2. pc[p] = "remove"
        BY <2>24 DEF RemoveTemp
      <4> QED BY <4>1, <4>2
    <3>2. CASE temp[name[p]] = Nil
      BY <2>24, <3>2, SharedExit DEF RemoveTemp
    <3> QED BY <3>1, <3>2
  <2>25. CASE SendAck(p)
    BY <2>25, SharedExit DEF SendAck
  <2>26. CASE LockHeld(p)
    BY <2>26, SharedExit DEF LockHeld
  <2>27. CASE StageFails(p)
    BY <2>27, SharedExit DEF StageFails
  <2>28. CASE Fails(p)
    BY <2>28, SharedExit DEF Fails
  <2>29. CASE CtrlC(p)
    BY <2>29, InodeFacts DEF CtrlC, Live
  <2>30. CASE Interrupted(p)
    BY <2>30, SharedExit DEF Interrupted
  <2>31. CASE Crash(p)
    BY <2>31, SharedExit DEF Crash
  <2> QED
    BY <1>1, AnyKinds, <2>1, <2>2, <2>3, <2>4, <2>5, <2>6, <2>7, <2>8, <2>9, <2>10, <2>11, <2>12, <2>13, <2>14, <2>15, <2>16, <2>17, <2>18, <2>19, <2>20, <2>21, <2>22, <2>23, <2>24, <2>25, <2>26, <2>27, <2>28, <2>29, <2>30, <2>31
    DEF Otherwise, Decide, CheckResume, CreateTemp, Finalize, Stop
<1>2. CASE UNCHANGED vars
  BY <1>2 DEF vars, procVars
<1> QED
  BY <1>1, <1>2 DEF AnyNext, Finished

(* The lock alone needs no more than types and handles, whatever became of *)
(* the contents.                                                           *)
LEMMA LockedStep == ASSUME Inv, Locked, [Next]_vars PROVE Locked'
<1> USE DEF Inv, TypeOK, Handles, HasHandle, Holding, Goto, Locked
<1>1. ASSUME NEW p \in Procs, Step(p) PROVE Locked'
  <2>1. ASSUME NEW how \in Terminal, Exit(p, how) PROVE Locked'
    BY <2>1, InodeFacts DEF Exit, Released, Terminal
  <2>2. ASSUME UNCHANGED <<fd, lock>>, NEW l, pc' = [pc EXCEPT ![p] = l],
               l \notin Holding \/ pc[p] \in Holding
        PROVE  Locked'
    BY <2>2
  <2>3. CASE Decide(p)
    BY <2>1, <2>3 DEF Decide, Start, ChooseOverwrite, ChooseRename, ChooseCancel, Prepare, Terminal
  <2>4. CASE OpenForResume(p) \/ OpenForCreate(p)
    BY <2>4 DEF OpenForResume, OpenForCreate
  <2>5. CASE LockForResume(p) \/ LockAndTruncate(p) \/ LockNew(p)
    BY <2>5, InodeFacts DEF LockForResume, LockAndTruncate, LockNew, LockFd
  <2>6. CASE ReadHeader(p) \/ DropTemp(p)
    BY <2>6, InodeFacts DEF ReadHeader, DropTemp, Released
  <2>7. CASE DiscardStale(p) \/ WriteHeader(p) \/ SendControl(p) \/ UpdateMetadata(p)
             \/ FinishReceive(p) \/ StageCreate(p) \/ CopyDone(p)
             \/ ReceiveChunk(p, NextChunk(p))
    BY <2>2, <2>7 DEF DiscardStale, WriteHeader, SendControl, UpdateMetadata, FinishReceive,
                      StageCreate, CopyDone, ReceiveChunk
  <2>8. CASE CreateNew(p) \/ RenameStage(p) \/ RemoveTemp(p)
    <3>1. CASE \E how \in Terminal : Exit(p, how)
      BY <2>1, <3>1
    <3>2. CASE ~\E how \in Terminal : Exit(p, how)
      <4>1. \/ /\ pc' = [pc EXCEPT ![p] = "locknew"] /\ lock' = lock
               /\ fd' = [fd EXCEPT ![p] = TempOf(p)]
            \/ /\ UNCHANGED <<fd, lock>> /\ pc[p] = "rename" /\ pc' = [pc EXCEPT ![p] = "unlock"]
            \/ UNCHANGED <<fd, lock>> /\ pc' = [pc EXCEPT ![p] = "ack"]
        BY <2>8, <3>2 DEF CreateNew, RenameStage, RemoveTemp, Terminal
      <4> QED BY <4>1
    <3> QED BY <3>1, <3>2
  <2>9. CASE CopyChunk(p) \/ CtrlC(p)
    BY <2>9 DEF CopyChunk, CtrlC
  <2>10. CASE \/ SendAck(p) \/ LockHeld(p) \/ StageFails(p) \/ Fails(p) \/ Interrupted(p)
              \/ Crash(p) \/ WriteFails(p, NextChunk(p))
    BY <2>1, <2>10 DEF SendAck, LockHeld, StageFails, Fails, Interrupted, Crash, WriteFails, Terminal
  <2> QED BY <1>1, <2>3, <2>4, <2>5, <2>6, <2>7, <2>8, <2>9, <2>10
          DEF Step, CheckResume, CreateTemp, Finalize, Stop
<1> QED BY <1>1 DEF Next, Finished, vars, procVars

(* For lengths and content it is LInv.                                     *)
LEMMA ExactIsIInv == LInv(TRUE) <=> IInv
BY DEF LInv, IInv, Counts, Progress, Claims, PartialIsPrefix, Has, Prefix

LEMMA SharedStep == IInv /\ Inv' /\ [Next]_vars => IInv'
<1> SUFFICES ASSUME IInv, Inv', [Next]_vars PROVE IInv'
  OBVIOUS
<1>1. LInv(TRUE) /\ [AnyNext(TRUE)]_vars
  BY ExactIsIInv, NextIsAny
<1>2. LInv(TRUE)'
  BY <1>1, AnySharedStep
<1>3. LInv(TRUE)' <=> IInv'
  BY DEF LInv, IInv, Counts, Progress, Claims, PartialIsPrefix, Has, Prefix
<1> QED BY <1>2, <1>3

(* IInv holds at the start.                                                *)
LEMMA SharedInit == Init => IInv
<1> SUFFICES ASSUME Init PROVE IInv
  OBVIOUS
<1>1. Locked /\ Progress
  BY DEF Init, Locked, Progress, Holding, Prepared, Filling
<1>2. \A i \in TempInodes : ino[i] = EmptyFile
  BY InodeFacts DEF Init
<1>3. PartialIsPrefix
  BY <1>2 DEF PartialIsPrefix, EmptyFile, NoHeader
<1> QED BY TypeInit, <1>1, <1>3 DEF IInv

(* So it holds in every run.                                               *)
LEMMA SharedInv == Spec => []IInv
<1>1. IInv /\ [Next]_vars => IInv'
  BY TypeStep, SharedStep DEF IInv
<1> QED BY SharedInit, <1>1, PTL DEF Spec

(* However many receivers run on one file name, no two of them have the    *)
(* same temp file open for writing.                                        *)
THEOREM ExclusiveWriter == Spec => []OneWriter
<1>1. IInv => OneWriter
  BY DEF IInv, Inv, TypeOK, Locked, OneWriter
<1> QED BY SharedInv, <1>1, PTL

(* At every moment, so after every crash, what a resume header claims is   *)
(* in the file: check_resume may ask any sender of that version for the    *)
(* rest.                                                                   *)
THEOREM HeaderNeverAhead == Spec => []PartialIsPrefix
<1>1. IInv => PartialIsPrefix
  BY DEF IInv
<1> QED BY SharedInv, <1>1, PTL
=============================================================================
