----------------------- MODULE ResumeStoreSerialProofs -----------------------
(***************************************************************************)
(* When receivers of one file name take turns, whatever else happens to    *)
(* them (crashes, errors, Ctrl+C, resumption by a later one), what is at a *)
(* final path is always one whole version, a receiver acknowledges only    *)
(* what its sender offered, and saved progress is not lost.                *)
(***************************************************************************)
EXTENDS ResumeStoreProofs

USE VersionAssumption, ChunkAssumption, NameAssumption, ModeAssumption,
    HoleAssumption, NilAssumption

SerialPart(exact) == /\ OneLive /\ Unborn /\ TempFits /\ Unshared /\ StagedAs(exact)
                     /\ FinalAs(exact) /\ DeliveredAs(exact)

(* What a step of the only live process may assume.                        *)
LEMMA AnyAlone ==
    ASSUME NEW exact \in BOOLEAN, CInv(exact), NEW p \in Procs, Live(p)
    PROVE  \A q \in Procs : q # p => pc[q] \in Terminal \cup {"start"}
BY DEF CInv, OneLive, Live

LEMMA Alone ==
    ASSUME SInv, NEW p \in Procs, Live(p)
    PROVE  \A q \in Procs : q # p => pc[q] \in Terminal \cup {"start"}
BY DEF SInv, OneLive, Live

(* A step that touches nothing but the temp file that p has open and       *)
(* locked, before the staging file exists.                                 *)
Receiving == {"discard", "writehdr", "control", "receive", "update", "stage", "failed"}
(* A step that only touches the temp file it has open keeps the serial     *)
(* invariant.                                                              *)
LEMMA TempStep ==
    ASSUME NEW exact \in BOOLEAN, ~Concurrent, CInv(exact), LInv(exact)', NEW p \in Procs, NEW i \in TempInodes,
           pc[p] \in {"read", "locktrunc", "writehdr", "receive", "update"},
           fd[p] = i, want' = want, name' = name,
           UNCHANGED dirVars,
           \A j \in Inodes : j # i => ino'[j] = ino[j],
           \A q \in Procs : q # p =>
               pc'[q] = pc[q] /\ got'[q] = got[q] /\ fd'[q] = fd[q] /\ cp'[q] = cp[q],
           cp'[p] = 0, fd'[p] \in {i, Nil},
           pc'[p] \in Receiving,
           pc'[p] = "discard" => pc[p] = "read" /\ ino'[i] = ino[i],
           ino'[i].hdr.sum # Nil => ino'[i].len <= Size[ino'[i].hdr.sum],
           pc'[p] = "writehdr" => fd'[p] = i /\ ino'[i] = EmptyFile,
           pc'[p] = "stage" => /\ fd'[p] = i /\ got'[p] = Size[want[p]]
                               /\ ino'[i].hdr.sum = want[p]
    PROVE  SerialPart(exact)'
<1>1. Live(p) /\ i \in Inodes /\ p \in DOMAIN pc
  BY InodeFacts DEF Live, Terminal, CInv, LInv, Inv, TypeOK
<1>2. \A q \in Procs : q # p => pc[q] \in Terminal \cup {"start"}
  BY <1>1, AnyAlone
<1>3. OneLive'
  BY <1>1, <1>2 DEF OneLive, Live, Terminal
<1>4. \A j \in StageInodes : ino'[j] = ino[j]
  BY <1>1, InodeFacts
<1>5. Unborn'
  <2>1. ASSUME NEW q \in Procs, pc'[q] \in BeforeTemp
        PROVE  ino'[TempOf(q)] = ino[TempOf(q)] /\ \A r \in Procs : fd'[r] # TempOf(q)
    <3>1. pc[q] \in BeforeTemp
      BY <1>1, <2>1 DEF BeforeTemp, Receiving
    <3>2. \A r \in Procs : fd[r] # TempOf(q)
      BY <3>1 DEF CInv, Unborn
    <3> QED BY <3>2, InodeFacts
  <2>2. \A q \in Procs : pc'[q] \in BeforeTemp => pc[q] \in BeforeTemp
    BY DEF BeforeTemp, Receiving
  <2>3. \A q \in Procs : pc'[q] \in BeforeStage => pc[q] \in BeforeStage
    BY DEF BeforeTemp, BeforeStage, Receiving
  <2> QED BY <2>1, <2>2, <2>3 DEF CInv, Unborn, dirVars
<1>6. TempFits'
  <2>1. \A j \in TempInodes : ino'[j].hdr.sum # Nil => ino'[j].len <= Size[ino'[j].hdr.sum]
    BY InodeFacts DEF CInv, TempFits
  <2>2. \A q \in Procs : q # p => pc'[q] \in Terminal \cup {"start"}
    BY <1>2
  <2> QED BY <2>1, <2>2 DEF TempFits, Receiving, Terminal
<1>7. Unshared'
  BY DEF CInv, Unshared, dirVars
<1>8. FinalAs(exact)'
  <2>1. ASSUME NEW n \in Names, final[n] # Nil PROVE ino'[final[n]] = ino[final[n]]
    BY <1>4, <2>1 DEF CInv, LInv, Inv, TypeOK
  <2> QED BY <2>1 DEF CInv, FinalAs, dirVars
<1>9. StagedAs(exact)' /\ DeliveredAs(exact)'
  BY <1>2 DEF CInv, StagedAs, DeliveredAs, Receiving, Terminal
<1> QED BY <1>3, <1>5, <1>6, <1>7, <1>8, <1>9 DEF SerialPart

(* A step that changes no file: paths may only be emptied by it, or a temp *)
(* path may get a new name.                                                *)
LEMMA ExitStep ==
    ASSUME NEW exact \in BOOLEAN, ~Concurrent, CInv(exact), LInv(exact)', NEW p \in Procs, NEW how \in Terminal, Exit(p, how),
           Live(p), ino' = ino, final' = final,
           \A n \in Names : temp'[n] \in {temp[n], Nil} /\ stage'[n] \in {stage[n], Nil}
    PROVE  SerialPart(exact)'
<1> USE DEF CInv, LInv, Inv, TypeOK
<1>1. /\ \A q \in Procs : q # p => pc[q] \in Terminal \cup {"start"}
      /\ \A q \in Procs : q # p => pc'[q] = pc[q] /\ fd'[q] = fd[q] /\ cp'[q] = cp[q]
      /\ pc'[p] \in Terminal /\ cp'[p] = 0 /\ fd'[p] = Nil /\ UNCHANGED <<want, name>>
  BY AnyAlone DEF Exit, Goto
<1>2. OneLive' /\ TempFits' /\ FinalAs(exact)' /\ DeliveredAs(exact)'
  BY <1>1 DEF OneLive, TempFits, FinalAs, DeliveredAs, Live, Terminal
<1>3. StagedAs(exact)'
  BY <1>1 DEF StagedAs, Terminal
<1>5. Unshared'
  BY DEF Unshared
<1>4. Unborn'
  BY <1>1, InodeFacts DEF Unborn, BeforeStage, BeforeTemp, Terminal
<1> QED BY <1>2, <1>3, <1>4, <1>5 DEF SerialPart

(* A step that changes no file, before the staging file or after it has    *)
(* become the final one.                                                   *)
LEMMA QuietStep ==
    ASSUME NEW exact \in BOOLEAN, ~Concurrent, CInv(exact), LInv(exact)', NEW p \in Procs,
           ino' = ino, stage' = stage, want' = want,
           \A n \in Names : temp'[n] \in {temp[n], Nil},
           \A n \in Names : final'[n] \in {final[n], Nil},
           final' = final \/ pc[p] = "prompt",
           \A q \in Procs : q # p =>
               pc'[q] = pc[q] /\ fd'[q] = fd[q] /\ cp'[q] = cp[q],
           \A q \in Procs : got'[q] = got[q],
           Live(p) \/ \A q \in Procs : ~Live(q),
           cp'[p] = cp[p], fd'[p] \in {fd[p], Nil} \cup {temp[n] : n \in Names},
           pc[p] \notin {"copy", "rename"},
           pc'[p] \notin {"stage", "copy", "rename"},
           pc'[p] \in BeforeTemp => pc[p] \in BeforeTemp,
           pc'[p] \in BeforeStage => pc[p] \in BeforeStage,
           pc'[p] \in {"locknew", "writehdr"} => pc[p] = "locknew" /\ fd'[p] = fd[p],
           pc[p] \in {"unlock", "remove", "ack"} <=> pc'[p] \in {"unlock", "remove", "ack"},
           pc'[p] \in {"unlock", "remove", "ack"} => name'[p] = name[p]
    PROVE  SerialPart(exact)'
<1>1. \A q \in Procs : q # p => pc[q] \in Terminal \cup {"start"}
  BY AnyAlone DEF Live
<1>2. OneLive'
  BY <1>1 DEF OneLive, Live, Terminal
<1>3. TempFits'
  BY <1>1 DEF CInv, TempFits, Terminal
<1>4. StagedAs(exact)'
  BY <1>1 DEF CInv, StagedAs, Terminal
<1>5. Unshared'
  BY DEF CInv, Unshared
<1>6. Unborn'
  <2>1. ASSUME NEW q \in Procs PROVE /\ pc'[q] \in BeforeTemp => pc[q] \in BeforeTemp
                                     /\ pc'[q] \in BeforeStage => pc[q] \in BeforeStage
    OBVIOUS
  <2>2. ASSUME NEW q \in Procs, pc'[q] \in BeforeTemp, NEW r \in Procs PROVE fd'[r] # TempOf(q)
    BY <2>1, <2>2, InodeFacts DEF CInv, Unborn
  <2> QED BY <2>1, <2>2, InodeFacts DEF CInv, Unborn
<1>7. FinalAs(exact)'
  BY DEF CInv, FinalAs
<1>8. DeliveredAs(exact)'
  BY <1>1 DEF CInv, DeliveredAs, Terminal
<1> QED BY <1>2, <1>3, <1>4, <1>5, <1>6, <1>7, <1>8 DEF SerialPart

(* Copying the next units of a file that is a prefix of v extends a copy.  *)
LEMMA CopiedHas ==
    ASSUME NEW exact \in BOOLEAN, NEW f \in File, NEW g \in File, NEW v \in Versions, NEW a \in 0..MaxSize,
           NEW t \in 0..MaxSize, a <= t, t <= g.len,
           f.len = a, Has(f, v, a, exact), Has(g, v, g.len, exact)
    PROVE  Copied(f, g, a, t).len = t /\ Has(Copied(f, g, a, t), v, t, exact)
<1> DEFINE h == Copied(f, g, a, t)
<1>1. h.len = t
  BY DEF Copied, File, Larger
<1>2. h.data = [u \in Units |-> IF a <= u /\ u < t THEN g.data[u] ELSE f.data[u]]
  BY DEF Copied, File
<1>3. ASSUME exact, NEW u \in 0..(t - 1) PROVE h.data[u] = <<v, u>>
  <2>1. u \in Units /\ u \in 0..(g.len - 1)
    BY <1>3, FileFacts DEF Units
  <2>2. CASE u < a
    <3>1. h.data[u] = f.data[u] /\ u \in 0..(a - 1)
      BY <1>2, <1>3, <2>1, <2>2
    <3> QED BY <1>3, <3>1 DEF Has, Prefix
  <2>3. CASE a <= u
    <3>1. h.data[u] = g.data[u]
      BY <1>2, <1>3, <2>1, <2>3
    <3> QED BY <1>3, <2>1, <3>1 DEF Has, Prefix
  <2> QED BY <1>3, <2>2, <2>3
<1> HIDE DEF h
<1>4. Has(h, v, t, exact)
  BY <1>1, <1>3 DEF Has, Prefix
<1> QED BY <1>1, <1>4 DEF h

(* Each step keeps CInv.                                                   *)
LEMMA AnySerialStep ==
    ASSUME NEW exact \in BOOLEAN, ~Concurrent, CInv(exact), LInv(exact)', [AnyNext(exact)]_vars
    PROVE  CInv(exact)'
<1> SUFFICES SerialPart(exact)'
  BY DEF CInv, SerialPart
<1> USE DEF Goto, dirVars
<1>1. ASSUME NEW p \in Procs, AnyStep(p, exact) PROVE SerialPart(exact)'
  <2>0. /\ TypeOK
        /\ \A q \in Procs : Live(q) <=> pc[q] \notin Terminal \cup {"start"}
    BY DEF CInv, LInv, Inv, Live
  <2>1. CASE Start(p)
    BY <2>0, <2>1, QuietStep
    DEF Start, TypeOK, BeforeTemp, BeforeStage, Terminal, Prepare
  <2>2. CASE ChooseOverwrite(p)
    BY <2>0, <2>2, QuietStep
    DEF ChooseOverwrite, Prepare, TypeOK, BeforeTemp, BeforeStage, Terminal
  <2>3. CASE ChooseRename(p)
    BY <2>0, <2>3, QuietStep
    DEF ChooseRename, TypeOK, BeforeTemp, BeforeStage, Terminal, Prepare
  <2>4. CASE ChooseCancel(p)
    BY <2>0, <2>4, ExitStep DEF ChooseCancel, TypeOK, Terminal
  <2>5. CASE OpenForResume(p)
    BY <2>0, <2>5, QuietStep
    DEF OpenForResume, TypeOK, BeforeTemp, BeforeStage, Terminal
  <2>6. CASE LockForResume(p)
    BY <2>0, <2>6, QuietStep
    DEF LockForResume, TypeOK, BeforeTemp, BeforeStage, Terminal, LockFd
  <2>7. CASE ReadHeader(p)
    <3>1. /\ fd[p] \in TempInodes /\ fd[p] \in Inodes /\ ino[fd[p]] \in File
          /\ want[p] \in Versions /\ cp[p] = 0 /\ pc[p] = "read"
      BY <2>7, InodeFacts
      DEF ReadHeader, SameFile, CInv, LInv, Inv, TypeOK, Handles, HasHandle, Holding, StagedAs
    <3>2. Corrected(ino[fd[p]]) = ino[fd[p]]
      BY <3>1, CorrectedSame DEF CInv, LInv, Claims
    <3>3. ino' = ino
      BY <2>7, <3>1, <3>2 DEF ReadHeader, SameFile, CInv, LInv, Inv, TypeOK
    <3>4. fd'[p] \in {fd[p], Nil} /\ pc'[p] \in {"control", "discard"}
      BY <2>7, <2>0 DEF ReadHeader, SameFile, TypeOK
    <3>5. \A q \in Procs : q # p =>
            pc'[q] = pc[q] /\ got'[q] = got[q] /\ fd'[q] = fd[q] /\ cp'[q] = cp[q]
      BY <2>7, <2>0 DEF ReadHeader, SameFile, TypeOK
    <3>6. ino[fd[p]].hdr.sum # Nil => ino[fd[p]].len <= Size[ino[fd[p]].hdr.sum]
      BY <3>1 DEF CInv, TempFits
    <3>7. want' = want /\ name' = name /\ cp' = cp /\ UNCHANGED dirVars
      BY <2>7 DEF ReadHeader, SameFile
    <3> QED
      BY <2>0, <3>1, <3>3, <3>4, <3>5, <3>6, <3>7, TempStep DEF Receiving
  <2>8. CASE DiscardStale(p)
    BY <2>0, <2>8, QuietStep
    DEF DiscardStale, TypeOK, BeforeTemp, BeforeStage, Terminal
  <2>9. CASE OpenForCreate(p)
    BY <2>0, <2>9, QuietStep
    DEF OpenForCreate, TypeOK, BeforeTemp, BeforeStage, Terminal
  <2>10. CASE LockAndTruncate(p)
    <3>1. /\ fd[p] \in TempInodes /\ fd[p] \in Inodes /\ ino[fd[p]] \in File
          /\ want[p] \in Versions /\ cp[p] = 0 /\ pc[p] = "locktrunc"
      BY <2>10, InodeFacts
      DEF LockAndTruncate, CInv, LInv, Inv, TypeOK, Handles, HasHandle, Holding, StagedAs
    <3>2. ino'[fd[p]] = EmptyFile /\ \A j \in Inodes : j # fd[p] => ino'[j] = ino[j]
      BY <2>10, <2>0, <3>1 DEF LockAndTruncate, TypeOK
    <3>3. EmptyFile.hdr.sum = Nil
      BY DEF EmptyFile, NoHeader
    <3>4. pc' = [pc EXCEPT ![p] = "writehdr"] /\ UNCHANGED <<want, name, fd, got, cp, dirVars>>
      BY <2>10 DEF LockAndTruncate
    <3> QED
      BY <2>0, <3>1, <3>2, <3>3, <3>4, TempStep DEF Receiving, TypeOK
  <2>11. CASE CreateNew(p)
    <3>1. CASE temp[name[p]] = Nil
      <4>1. /\ pc[p] = "createnew" /\ pc' = [pc EXCEPT ![p] = "locknew"]
            /\ temp' = [temp EXCEPT ![name[p]] = TempOf(p)]
            /\ fd' = [fd EXCEPT ![p] = TempOf(p)]
            /\ UNCHANGED <<want, name, got, cp, sfd, stage, final, ino>>
        BY <2>11, <3>1 DEF CreateNew
      <4>2. \A q \in Procs : q # p => pc[q] \in Terminal \cup {"start"}
        BY <4>1, AnyAlone DEF Live, Terminal
      <4>3. OneLive' /\ Unshared' /\ FinalAs(exact)' /\ DeliveredAs(exact)'
        BY <2>0, <4>1, <4>2
        DEF CInv, OneLive, Unshared, FinalAs, DeliveredAs, Live, Terminal, TypeOK
      <4>4. StagedAs(exact)'
        BY <2>0, <4>1, <4>2 DEF CInv, StagedAs, Terminal, TypeOK
      <4>5. TempFits'
        <5>1. ino[TempOf(p)] = EmptyFile
          BY <4>1 DEF CInv, Unborn, BeforeTemp
        <5> QED BY <2>0, <4>1, <4>2, <5>1 DEF CInv, TempFits, Terminal, TypeOK
      <4>6. Unborn'
        BY <2>0, <4>1, <4>2, InodeFacts
        DEF CInv, Unborn, BeforeTemp, BeforeStage, Terminal, TypeOK
      <4> QED BY <4>3, <4>4, <4>5, <4>6 DEF SerialPart
    <3>2. CASE temp[name[p]] # Nil
      BY <2>0, <2>11, <3>2, ExitStep DEF CreateNew, TypeOK, Terminal
    <3> QED BY <3>1, <3>2
  <2>12. CASE LockNew(p)
    BY <2>0, <2>12, QuietStep
    DEF LockNew, TypeOK, BeforeTemp, BeforeStage, Terminal, LockFd
  <2>13. CASE WriteHeader(p)
    <3>1. /\ fd[p] \in TempInodes /\ fd[p] \in Inodes /\ ino[fd[p]] \in File
          /\ want[p] \in Versions /\ cp[p] = 0 /\ pc[p] = "writehdr"
      BY <2>13, InodeFacts
      DEF WriteHeader, CInv, LInv, Inv, TypeOK, Handles, HasHandle, Holding, StagedAs
    <3>2. 0 \in 0..MaxSize /\ [sum |-> want[p], n |-> 0] \in Header
      BY <2>0, <3>1, FileFacts DEF TypeOK
    <3>3. /\ ino' = [ino EXCEPT ![fd[p]].hdr = [sum |-> want[p], n |-> 0]]
          /\ pc' = [pc EXCEPT ![p] = "control"] /\ UNCHANGED <<want, name, fd, got, cp, dirVars>>
      BY <2>13 DEF WriteHeader
    <3>4. ino'[fd[p]].hdr.sum = want[p] /\ ino'[fd[p]].len = ino[fd[p]].len
      BY <2>0, <3>1, <3>3 DEF TypeOK, File
    <3>5. \A j \in Inodes : j # fd[p] => ino'[j] = ino[j]
      BY <2>0, <3>3 DEF TypeOK
    <3>6. ino[fd[p]].len <= Size[want[p]]
      <4>1. ino[fd[p]] = EmptyFile
        BY <3>1 DEF CInv, TempFits
      <4>2. ino[fd[p]].len = 0
        BY <4>1 DEF EmptyFile
      <4> QED BY <3>1, <4>2
    <3> QED
      BY <2>0, <3>1, <3>3, <3>4, <3>5, <3>6, TempStep DEF Receiving, TypeOK
  <2>14. CASE SendControl(p)
    BY <2>0, <2>14, QuietStep
    DEF SendControl, TypeOK, BeforeTemp, BeforeStage, Terminal
  <2>15. ASSUME NEW v \in Allowed(p, exact), ReceiveChunk(p, Chunk(p, v))
         PROVE  SerialPart(exact)'
    <3>1. /\ fd[p] \in TempInodes /\ fd[p] \in Inodes /\ ino[fd[p]] \in File
          /\ want[p] \in Versions /\ cp[p] = 0 /\ pc[p] = "receive"
      BY <2>15, InodeFacts
      DEF ReceiveChunk, CInv, LInv, Inv, TypeOK, Handles, HasHandle, Holding, StagedAs
    <3> DEFINE f == ino[fd[p]]  k == ChunkAt(p)
               g == Written(f, got[p], Chunk(p, v))
    <3>2. /\ want[p] \in Versions /\ got[p] \in 0..MaxSize /\ Chunk(p, v).n = k
          /\ k \in Nat /\ got[p] + k <= Size[want[p]]
      BY <2>15, <2>0, ChunkFacts DEF ReceiveChunk, Chunk
    <3>3. g.hdr = f.hdr /\ g.len = Larger(f.len, got[p] + k)
      BY <3>1, <3>2 DEF Written, File
    <3>4. f.hdr.sum = want[p] /\ f.len <= Size[want[p]] /\ f.len \in 0..MaxSize
      <4>1. f.hdr.sum = want[p]
        BY <3>1 DEF CInv, LInv, Counts
      <4> QED BY <3>1, <4>1, FileFacts DEF CInv, TempFits
    <3>5. g.len <= Size[want[p]]
      BY <3>2, <3>3, <3>4 DEF Larger
    <3>6. /\ ino' = [ino EXCEPT ![fd[p]] = g]
          /\ got' = [got EXCEPT ![p] = got[p] + k]
          /\ UNCHANGED <<want, name, fd, cp, dirVars>>
      BY <2>15, <3>2 DEF ReceiveChunk
    <3>7. /\ pc'[p] \in {"receive", "update"}
          /\ \A q \in Procs : q # p => pc'[q] = pc[q]
      BY <2>15, <2>0 DEF ReceiveChunk, TypeOK
    <3>8. ino'[fd[p]] = g /\ \A j \in Inodes : j # fd[p] => ino'[j] = ino[j]
      BY <2>0, <3>1, <3>6 DEF TypeOK
    <3> HIDE DEF f, g, k
    <3> QED
      BY <2>0, <3>1, <3>3, <3>4, <3>5, <3>6, <3>7, <3>8, TempStep DEF Receiving, TypeOK
  <2>16. ASSUME NEW v \in Allowed(p, exact), WriteFails(p, Chunk(p, v))
         PROVE  SerialPart(exact)'
    <3>1. /\ fd[p] \in TempInodes /\ fd[p] \in Inodes /\ ino[fd[p]] \in File
          /\ want[p] \in Versions /\ cp[p] = 0 /\ pc[p] = "receive"
      BY <2>16, InodeFacts
      DEF WriteFails, CInv, LInv, Inv, TypeOK, Handles, HasHandle, Holding, StagedAs
    <3>2. PICK k \in 0..(Chunk(p, v).n - 1) :
            ino' = [ino EXCEPT ![fd[p]] = Written(@, got[p], [Chunk(p, v) EXCEPT !.n = k])]
      BY <2>16 DEF WriteFails
    <3> DEFINE f == ino[fd[p]]
               g == Written(f, got[p], [Chunk(p, v) EXCEPT !.n = k])
    <3>3. /\ want[p] \in Versions /\ got[p] \in 0..MaxSize
          /\ [Chunk(p, v) EXCEPT !.n = k].n = k
          /\ k \in Nat /\ got[p] + k <= Size[want[p]]
      <4>1. /\ want[p] \in Versions /\ got[p] \in 0..MaxSize /\ ChunkAt(p) \in Nat
            /\ Chunk(p, v).n = ChunkAt(p) /\ got[p] + ChunkAt(p) <= Size[want[p]]
            /\ Size[want[p]] \in Nat
        BY <2>16, <2>0, ChunkFacts DEF WriteFails, Chunk
      <4>2. [Chunk(p, v) EXCEPT !.n = k].n = k
        BY DEF Chunk
      <4> QED BY <3>2, <4>1, <4>2
    <3>4. g.hdr = f.hdr /\ g.len = Larger(f.len, got[p] + k)
      BY <3>1, <3>3 DEF Written, File
    <3>5. f.hdr.sum = want[p] /\ f.len <= Size[want[p]] /\ f.len \in 0..MaxSize
      <4>1. f.hdr.sum = want[p]
        BY <3>1 DEF CInv, LInv, Counts
      <4> QED BY <3>1, <4>1, FileFacts DEF CInv, TempFits
    <3>6. g.len <= Size[want[p]]
      BY <3>3, <3>4, <3>5 DEF Larger
    <3>7. Exit(p, "failed") /\ UNCHANGED dirVars
      BY <2>16 DEF WriteFails
    <3>8. ino'[fd[p]] = g /\ \A j \in Inodes : j # fd[p] => ino'[j] = ino[j]
      BY <2>0, <3>1, <3>2 DEF TypeOK
    <3> HIDE DEF f, g
    <3> QED
      BY <2>0, <3>1, <3>4, <3>5, <3>6, <3>7, <3>8, TempStep DEF Receiving, TypeOK, Exit
  <2>17. CASE UpdateMetadata(p)
    <3>1. /\ fd[p] \in TempInodes /\ fd[p] \in Inodes /\ ino[fd[p]] \in File
          /\ want[p] \in Versions /\ cp[p] = 0 /\ pc[p] = "update"
      BY <2>17, InodeFacts
      DEF UpdateMetadata, CInv, LInv, Inv, TypeOK, Handles, HasHandle, Holding, StagedAs
    <3>2. got[p] \in 0..MaxSize /\ [sum |-> want[p], n |-> got[p]] \in Header
      BY <2>0, <3>1, FileFacts DEF TypeOK
    <3>3. /\ ino' = [ino EXCEPT ![fd[p]].hdr = [sum |-> want[p], n |-> got[p]]]
          /\ pc' = [pc EXCEPT ![p] = "receive"] /\ UNCHANGED <<want, name, fd, got, cp, dirVars>>
      BY <2>17 DEF UpdateMetadata, SaveProgress
    <3>4. ino'[fd[p]].hdr.sum = want[p] /\ ino'[fd[p]].len = ino[fd[p]].len
      BY <2>0, <3>1, <3>3 DEF TypeOK, File
    <3>5. \A j \in Inodes : j # fd[p] => ino'[j] = ino[j]
      BY <2>0, <3>3 DEF TypeOK
    <3>6. ino[fd[p]].len <= Size[want[p]]
      <4>1. ino[fd[p]].hdr.sum = want[p]
        BY <3>1 DEF CInv, LInv, Counts
      <4> QED BY <3>1, <4>1 DEF CInv, TempFits
    <3> QED
      BY <2>0, <3>1, <3>3, <3>4, <3>5, <3>6, TempStep DEF Receiving, TypeOK
  <2>18. CASE FinishReceive(p)
    <3>1. /\ fd[p] \in TempInodes /\ fd[p] \in Inodes /\ ino[fd[p]] \in File
          /\ want[p] \in Versions /\ cp[p] = 0 /\ pc[p] = "receive"
      BY <2>18, InodeFacts
      DEF FinishReceive, CInv, LInv, Inv, TypeOK, Handles, HasHandle, Holding, StagedAs
    <3>2. got[p] \in 0..MaxSize /\ [sum |-> want[p], n |-> got[p]] \in Header
      BY <2>0, <3>1, FileFacts DEF TypeOK
    <3>3. /\ ino' = [ino EXCEPT ![fd[p]].hdr = [sum |-> want[p], n |-> got[p]]]
          /\ pc' = [pc EXCEPT ![p] = "stage"] /\ UNCHANGED <<want, name, fd, got, cp, dirVars>>
      BY <2>18 DEF FinishReceive, SaveProgress
    <3>4. ino'[fd[p]].hdr.sum = want[p] /\ ino'[fd[p]].len = ino[fd[p]].len
      BY <2>0, <3>1, <3>3 DEF TypeOK, File
    <3>5. \A j \in Inodes : j # fd[p] => ino'[j] = ino[j]
      BY <2>0, <3>3 DEF TypeOK
    <3>6. ino[fd[p]].len <= Size[want[p]]
      <4>1. ino[fd[p]].hdr.sum = want[p]
        BY <3>1 DEF CInv, LInv, Counts
      <4> QED BY <3>1, <4>1 DEF CInv, TempFits
    <3>7. got[p] = Size[want[p]]
      <4>1. got[p] <= Size[want[p]] /\ got[p] \in Nat
        BY <2>0, <3>1 DEF CInv, LInv, Counts, Filling, TypeOK
      <4> QED BY <2>18, <3>1, <4>1 DEF FinishReceive
    <3> QED
      BY <2>0, <3>1, <3>3, <3>4, <3>5, <3>6, <3>7, TempStep DEF Receiving, TypeOK
  <2>19. CASE StageCreate(p)
    <3> DEFINE j == IF stage[name[p]] = Nil THEN StageOf(p) ELSE stage[name[p]]
    <3>1. /\ pc[p] = "stage" /\ pc' = [pc EXCEPT ![p] = "copy"]
          /\ stage' = [stage EXCEPT ![name[p]] = j] /\ sfd' = [sfd EXCEPT ![p] = j]
          /\ ino' = [ino EXCEPT ![j] = EmptyFile]
          /\ UNCHANGED <<want, name, fd, got, cp, temp, final>>
      BY <2>19 DEF StageCreate
    <3>2. name[p] \in Names /\ want[p] \in Versions /\ cp[p] = 0
      BY <2>0, <3>1 DEF CInv, StagedAs, TypeOK
    <3>3. j \in StageInodes /\ j \in Inodes /\ j # Nil
      BY <2>0, <3>2, InodeFacts DEF TypeOK
    <3>4. \A q \in Procs : q # p => pc[q] \in Terminal \cup {"start"}
      BY <3>1, AnyAlone DEF Live, Terminal
    <3>5. \A n \in Names : final[n] # j /\ (n # name[p] => stage[n] # j)
      <4>1. \A n \in Names : final[n] # StageOf(p) /\ stage[n] # StageOf(p)
        BY <3>1 DEF CInv, Unborn, BeforeStage
      <4> QED BY <3>2, <4>1 DEF CInv, Unshared
    <3>6. j # Old
      BY <3>2, InodeFacts DEF CInv, Unshared
    <3>7. \A q \in Procs : q # p => j # StageOf(q) \/ pc[q] \in Terminal
      <4>1. ASSUME NEW q \in Procs, q # p, pc[q] = "start" PROVE j # StageOf(q)
        BY <3>2, <4>1, InodeFacts DEF CInv, Unborn, BeforeStage, BeforeTemp
      <4> QED BY <3>4, <4>1
    <3> HIDE DEF j
    <3>8. /\ ino'[j] = EmptyFile /\ \A i \in Inodes : i # j => ino'[i] = ino[i]
          /\ \A i \in TempInodes : ino'[i] = ino[i]
      BY <2>0, <3>1, <3>3, InodeFacts DEF TypeOK
    <3>9. \A n \in Names : stage'[n] = IF n = name[p] THEN j ELSE stage[n]
      BY <2>0, <3>1 DEF TypeOK
    <3>10. Unshared'
      BY <3>1, <3>3, <3>5, <3>6, <3>9 DEF CInv, Unshared
    <3>11. StagedAs(exact)'
      <4>1. EmptyFile.len = 0 /\ Has(EmptyFile, want[p], 0, exact)
        BY DEF EmptyFile, Has, Prefix
      <4>2. Size[want[p]] >= 0
        BY <3>2
      <4> QED
        BY <2>0, <3>1, <3>2, <3>4, <3>8, <3>9, <4>1, <4>2 DEF CInv, StagedAs, Terminal, TypeOK
    <3>12. FinalAs(exact)'
      <4>1. ASSUME NEW n \in Names, final[n] # Nil PROVE ino'[final[n]] = ino[final[n]]
        BY <2>0, <3>5, <3>8, <4>1, InodeFacts DEF TypeOK
      <4> QED BY <3>1, <4>1 DEF CInv, FinalAs
    <3>13. OneLive' /\ DeliveredAs(exact)'
      BY <2>0, <3>1, <3>4 DEF CInv, OneLive, DeliveredAs, Live, Terminal, TypeOK
    <3>14. TempFits'
      BY <2>0, <3>1, <3>4, <3>8 DEF CInv, LInv, Inv, TempFits, Handles, HasHandle, Holding,
                                    Terminal, TypeOK
    <3>15. Unborn'
      BY <2>0, <3>1, <3>4, <3>7, <3>8, <3>9, InodeFacts
      DEF CInv, Unborn, BeforeTemp, BeforeStage, Terminal, TypeOK
    <3> QED BY <3>10, <3>11, <3>12, <3>13, <3>14, <3>15 DEF SerialPart
  <2>20. CASE CopyChunk(p)
    <3> DEFINE f == ino[fd[p]]  s == sfd[p]  to == Smaller(cp[p] + ChunkLen, f.len)
               g == Copied(ino[s], f, cp[p], to)
    <3>1. /\ pc[p] = "copy" /\ cp[p] < f.len
          /\ ino' = [ino EXCEPT ![s] = g] /\ cp' = [cp EXCEPT ![p] = to]
          /\ UNCHANGED <<pc, want, name, fd, sfd, got, dirVars>>
      BY <2>20 DEF CopyChunk
    <3>2. /\ fd[p] \in TempInodes /\ s \in StageInodes /\ s # Nil
          /\ f \in File /\ ino[s] \in File /\ s \in Inodes
          /\ want[p] \in Versions /\ cp[p] \in 0..MaxSize /\ name[p] \in Names
      BY <2>0, <3>1, InodeFacts DEF CInv, LInv, Inv, Handles, HasHandle, Holding, TypeOK
    <3>3. \A q \in Procs : q # p => pc[q] \in Terminal \cup {"start"}
      BY <3>1, AnyAlone DEF Live, Terminal
    <3>4. /\ ino'[s] = g /\ \A j \in Inodes : j # s => ino'[j] = ino[j]
          /\ \A j \in TempInodes : ino'[j] = ino[j]
      BY <2>0, <3>1, <3>2, InodeFacts DEF TypeOK
    <3>5. /\ stage[name[p]] = s /\ ino[s].len = cp[p] /\ Has(ino[s], want[p], cp[p], exact)
      BY <3>1 DEF CInv, StagedAs
    <3>6. /\ f.len \in 0..MaxSize /\ f.len <= Size[want[p]] /\ Has(f, want[p], f.len, exact)
      <4>1. got[p] = Size[want[p]] /\ f.hdr.sum = want[p] /\ Has(f, want[p], got[p], exact)
        BY <3>1 DEF CInv, TempFits, LInv, Counts, Filling
      <4>2. f.len <= Size[want[p]] /\ f.len \in 0..MaxSize
        BY <3>2, <4>1, FileFacts DEF CInv, TempFits
      <4>3. Size[want[p]] <= f.len /\ Size[want[p]] \in 0..MaxSize
        BY <3>2, <4>1 DEF Has
      <4>4. f.len = Size[want[p]] /\ got[p] = f.len
        BY <4>1, <4>2, <4>3
      <4> HIDE DEF f
      <4> QED BY <4>1, <4>2, <4>4
    <3>7. to \in 0..MaxSize /\ to <= f.len /\ cp[p] <= to
      BY <3>1, <3>2, <3>6 DEF Smaller
    <3>8. g.len = to /\ Has(g, want[p], to, exact)
      BY <3>2, <3>5, <3>6, <3>7, CopiedHas
    <3> HIDE DEF f, g, s, to
    <3>9. \A n \in Names : final[n] # s /\ (n # name[p] => stage[n] # s)
      BY <3>2, <3>5 DEF CInv, Unshared
    <3>10. StagedAs(exact)'
      BY <2>0, <3>1, <3>2, <3>3, <3>4, <3>5, <3>6, <3>7, <3>8 DEF CInv, StagedAs, Terminal, TypeOK, s
    <3>11. FinalAs(exact)'
      <4>1. ASSUME NEW n \in Names, final[n] # Nil PROVE ino'[final[n]] = ino[final[n]]
        BY <2>0, <3>4, <3>9, <4>1, InodeFacts DEF TypeOK
      <4> QED BY <3>1, <4>1 DEF CInv, FinalAs
    <3>12. OneLive' /\ Unshared' /\ TempFits' /\ DeliveredAs(exact)'
      <4>1. OneLive' /\ Unshared'
        BY <3>1 DEF CInv, OneLive, Unshared, Live
      <4>2. DeliveredAs(exact)'
        BY <3>1, <3>3 DEF DeliveredAs, Terminal
      <4>3. TempFits'
        BY <3>1, <3>3, <3>4, <3>2 DEF CInv, TempFits, Terminal
      <4> QED BY <4>1, <4>2, <4>3
    <3>13. Unborn'
      BY <2>0, <3>1, <3>4, InodeFacts DEF CInv, Unborn, TypeOK
    <3> QED BY <3>10, <3>11, <3>12, <3>13 DEF SerialPart
  <2>21. CASE CopyDone(p)
    <3>1. /\ pc[p] = "copy" /\ pc' = [pc EXCEPT ![p] = "rename"]
          /\ cp[p] >= ino[fd[p]].len
          /\ UNCHANGED <<want, name, fd, got, cp, dirVars, ino>>
      BY <2>21 DEF CopyDone
    <3>2. \A q \in Procs : q # p => pc[q] \in Terminal \cup {"start"}
      BY <3>1, AnyAlone DEF Live, Terminal
    <3>3. OneLive' /\ Unshared' /\ FinalAs(exact)' /\ DeliveredAs(exact)' /\ TempFits'
      BY <2>0, <3>1, <3>2
      DEF CInv, OneLive, Unshared, FinalAs, DeliveredAs, Live, TempFits, Terminal, TypeOK
    <3>4. Unborn'
      BY <2>0, <3>1, <3>2 DEF CInv, Unborn, BeforeTemp, BeforeStage, Terminal, TypeOK
    <3>5. Whole(ino[stage[name[p]]], want[p], exact) /\ stage[name[p]] # Nil
      <4>1. /\ fd[p] \in TempInodes /\ sfd[p] \in StageInodes
            /\ want[p] \in Versions /\ cp[p] \in 0..MaxSize
        BY <2>0, <3>1 DEF CInv, LInv, Inv, Handles, HasHandle, Holding, TypeOK
      <4>2. /\ got[p] = Size[want[p]] /\ got[p] <= ino[fd[p]].len
            /\ cp[p] <= Size[want[p]]
        BY <3>1 DEF CInv, TempFits, StagedAs, LInv, Counts, Filling, Has
      <4>3. ino[fd[p]].len \in 0..MaxSize /\ Size[want[p]] \in 0..MaxSize
        BY <2>0, <4>1, InodeFacts, FileFacts DEF TypeOK
      <4>4. cp[p] = Size[want[p]]
        BY <3>1, <4>1, <4>2, <4>3
      <4>5. /\ stage[name[p]] = sfd[p] /\ ino[sfd[p]].len = cp[p]
            /\ Has(ino[sfd[p]], want[p], cp[p], exact)
        BY <3>1 DEF CInv, StagedAs
      <4> QED BY <4>1, <4>4, <4>5, InodeFacts DEF Whole, Has
    <3>6. StagedAs(exact)'
      BY <2>0, <3>1, <3>2, <3>5 DEF CInv, StagedAs, Terminal, TypeOK
    <3> QED BY <3>3, <3>4, <3>6 DEF SerialPart
  <2>22. CASE RenameStage(p)
    <3>1. CASE stage[name[p]] # Nil
      <4>1. /\ pc[p] = "rename" /\ pc' = [pc EXCEPT ![p] = "unlock"]
            /\ final' = [final EXCEPT ![name[p]] = stage[name[p]]]
            /\ stage' = [stage EXCEPT ![name[p]] = Nil]
            /\ UNCHANGED <<want, name, fd, got, cp, temp, ino>>
        BY <2>22, <3>1 DEF RenameStage
      <4>2. \A q \in Procs : q # p => pc[q] \in Terminal \cup {"start"}
        BY <4>1, AnyAlone DEF Live, Terminal
      <4>3. name[p] \in Names /\ want[p] \in Versions
        BY <2>0 DEF TypeOK
      <4>4. Whole(ino[stage[name[p]]], want[p], exact)
        BY <4>1 DEF CInv, StagedAs
      <4>5. OneLive' /\ TempFits'
        BY <2>0, <4>1, <4>2 DEF CInv, OneLive, TempFits, Live, Terminal, TypeOK
      <4>6. Unshared'
        BY <2>0, <3>1, <4>1, <4>3 DEF CInv, Unshared, TypeOK
      <4>7. StagedAs(exact)'
        BY <2>0, <4>1, <4>2 DEF CInv, StagedAs, Terminal, TypeOK
      <4>8. FinalAs(exact)' /\ DeliveredAs(exact)'
        <5>1. \A n \in Names : final'[n] = IF n = name[p] THEN stage[name[p]] ELSE final[n]
          BY <2>0, <4>1 DEF TypeOK
        <5>2. FinalAs(exact)'
          BY <4>1, <4>3, <4>4, <5>1 DEF CInv, FinalAs
        <5>3. DeliveredAs(exact)'
          BY <2>0, <3>1, <4>1, <4>2, <4>3, <4>4, <5>1 DEF DeliveredAs, Terminal, TypeOK
        <5> QED BY <5>2, <5>3
      <4>9. Unborn'
        BY <2>0, <4>1, <4>2, <4>3, InodeFacts
        DEF CInv, Unborn, BeforeTemp, BeforeStage, Terminal, TypeOK
      <4> QED BY <4>5, <4>6, <4>7, <4>8, <4>9 DEF SerialPart
    <3>2. CASE stage[name[p]] = Nil
      BY <2>0, <2>22, <3>2, ExitStep DEF RenameStage, TypeOK, Terminal
    <3> QED BY <3>1, <3>2
  <2>23. CASE DropTemp(p)
    BY <2>0, <2>23, QuietStep
    DEF DropTemp, TypeOK, BeforeTemp, BeforeStage, Terminal
  <2>24. CASE RemoveTemp(p)
    <3>1. CASE temp[name[p]] # Nil
      BY <2>0, <2>24, <3>1, QuietStep
      DEF RemoveTemp, TypeOK, BeforeTemp, BeforeStage, Terminal
    <3>2. CASE temp[name[p]] = Nil
      BY <2>0, <2>24, <3>2, ExitStep DEF RemoveTemp, TypeOK, Terminal
    <3> QED BY <3>1, <3>2
  <2>25. CASE SendAck(p)
    BY <2>0, <2>25, ExitStep DEF SendAck, TypeOK, Terminal
  <2>26. CASE LockHeld(p)
    BY <2>0, <2>26, ExitStep DEF LockHeld, TypeOK, Terminal
  <2>27. CASE StageFails(p)
    BY <2>0, <2>27, ExitStep DEF StageFails, TypeOK, Terminal
  <2>28. CASE Fails(p)
    BY <2>0, <2>28, ExitStep DEF Fails, TypeOK, Terminal
  <2>29. CASE CtrlC(p)
    <3>1. /\ UNCHANGED <<pc, want, name, fd, sfd, got, cp, stage, final, ino>>
          /\ \A n \in Names : temp'[n] \in {temp[n], Nil}
      BY <2>0, <2>29 DEF CtrlC, TypeOK
    <3>2. OneLive' /\ Unshared' /\ FinalAs(exact)' /\ DeliveredAs(exact)' /\ TempFits' /\ StagedAs(exact)'
      BY <3>1
      DEF CInv, OneLive, Unshared, FinalAs, DeliveredAs, Live, TempFits, StagedAs
    <3>3. Unborn'
      BY <3>1, InodeFacts DEF CInv, Unborn
    <3> QED BY <3>2, <3>3 DEF SerialPart
  <2>30. CASE Interrupted(p)
    BY <2>0, <2>30, ExitStep DEF Interrupted, TypeOK, Terminal
  <2>31. CASE Crash(p)
    BY <2>0, <2>31, ExitStep DEF Crash, TypeOK, Terminal
  <2> QED
    BY <1>1, <2>0, AnyKinds, <2>1, <2>2, <2>3, <2>4, <2>5, <2>6, <2>7, <2>8, <2>9, <2>10, <2>11, <2>12, <2>13, <2>14, <2>15, <2>16, <2>17, <2>18, <2>19, <2>20, <2>21, <2>22, <2>23, <2>24, <2>25, <2>26, <2>27, <2>28, <2>29, <2>30, <2>31
    DEF Otherwise, Decide, CheckResume, CreateTemp, Finalize, Stop
<1>2. CASE UNCHANGED vars
  BY <1>2 DEF vars, procVars, CInv, SerialPart, OneLive, Unborn, TempFits, Unshared, StagedAs,
              FinalAs, DeliveredAs, Live
<1> QED
  BY <1>1, <1>2 DEF AnyNext, Finished

(* With the content, this is SInv.                                         *)
LEMMA ExactIsSInv == CInv(TRUE) <=> SInv
<1>1. ASSUME NEW f, NEW v \in Versions PROVE Whole(f, v, TRUE) <=> Holds(f, v)
  <2>1. Size[v] \in Nat
    OBVIOUS
  <2> QED BY <2>1 DEF Whole, Holds, Prefix
<1>2. \A f, v, n : Has(f, v, n, TRUE) <=> Prefix(f, v, n)
  BY DEF Has, Prefix
<1>3. (\A p \in Procs : want[p] \in Versions) =>
        (StagedAs(TRUE) <=> Staged) /\ (DeliveredAs(TRUE) <=> DeliveredAtAck)
  BY <1>1, <1>2 DEF StagedAs, Staged, DeliveredAs, DeliveredAtAck
<1>4. FinalAs(TRUE) <=> FinalIntact
  BY <1>1 DEF FinalAs, FinalIntact
<1>5. LInv(TRUE) => \A p \in Procs : want[p] \in Versions
  BY DEF LInv, Inv, TypeOK
<1> QED BY <1>3, <1>4, <1>5, ExactIsIInv DEF CInv, SInv

LEMMA SerialStep ==
    ASSUME ~Concurrent PROVE SInv /\ IInv' /\ [Next]_vars => SInv'
<1> SUFFICES ASSUME SInv, IInv', [Next]_vars PROVE SInv'
  OBVIOUS
<1>1. CInv(TRUE) /\ [AnyNext(TRUE)]_vars
  BY ExactIsSInv, NextIsAny
<1>2. (LInv(TRUE) <=> IInv)' /\ (CInv(TRUE) <=> SInv)'
  BY ExactIsIInv, ExactIsSInv, PTL
<1>3. CInv(TRUE)'
  BY <1>1, <1>2, AnySerialStep
<1> QED BY <1>2, <1>3


(* SInv holds at the start.                                                *)
LEMMA SerialInit == Init => SInv
<1> SUFFICES ASSUME Init PROVE SInv
  OBVIOUS
<1>1. IInv
  BY SharedInit
<1>2. PICK old \in BOOLEAN, v \in Versions :
        /\ final = [n \in Names |-> IF n = 1 /\ old THEN Old ELSE Nil]
        /\ ino = [i \in Inodes |-> IF i = Old THEN WholeFile(v) ELSE EmptyFile]
  BY DEF Init
<1>3. \A n \in Names : final[n] \in {Nil, Old} /\ (final[n] = Old => n = 1)
  BY <1>2, InodeFacts
<1>4. /\ \A i \in Inodes : i # Old => ino[i] = EmptyFile
      /\ ino[Old] = WholeFile(v)
  BY <1>2, InodeFacts
<1>5. OneLive /\ Unshared /\ Staged /\ DeliveredAtAck
  BY <1>3, InodeFacts DEF Init, OneLive, Live, Unshared, Staged, DeliveredAtAck
<1>6. Unborn
  BY <1>3, <1>4, InodeFacts DEF Init, Unborn
<1>7. TempFits
  BY <1>4, InodeFacts DEF Init, TempFits, EmptyFile, NoHeader
<1>8. Holds(WholeFile(v), v)
  BY DEF Holds, WholeFile, Units
<1>9. FinalIntact
  BY <1>3, <1>4, <1>8 DEF FinalIntact
<1> QED BY <1>1, <1>5, <1>6, <1>7, <1>9 DEF SInv

(* The type part and the part for any number of receivers are carried      *)
(* along: SharedStep needs the types of the next state.                    *)
LEMMA SerialInv == ~Concurrent => (Spec => []SInv)
<1> SUFFICES ASSUME ~Concurrent PROVE Spec => []SInv
  OBVIOUS
<1>1. SInv /\ [Next]_vars => SInv'
  BY TypeStep, SharedStep, SerialStep DEF SInv, IInv
<1> QED BY SerialInit, <1>1, PTL DEF Spec

(* Receivers that take turns never leave anything but one whole version at *)
(* a final path: not after a crash between any two system calls, an error, *)
(* Ctrl+C, or a resumption.                                                *)
THEOREM FinalAlwaysWhole == ~Concurrent => (Spec => []FinalIntact)
<1>1. SInv => FinalIntact
  BY DEF SInv
<1> QED BY SerialInv, <1>1, PTL

(* A receiver acknowledges only when the version its sender announced is   *)
(* at the final path.                                                      *)
THEOREM AckMeansDelivered == ~Concurrent => (Spec => []DeliveredAtAck)
<1>1. SInv => DeliveredAtAck
  BY DEF SInv
<1> QED BY SerialInv, <1>1, PTL
------------------------------------------------------------------------------
(* What a resume header counts is never lost to an error, a crash, Ctrl+C  *)
(* or a retry of the same file.                                            *)

(* No inode is at two temp paths.                                          *)
TempsApart == \A m, n \in Names : m # n /\ temp[m] # Nil => temp[m] # temp[n]

(* The Ctrl+C handler is there once the temp file has a header.            *)
Early == BeforeTemp \cup {"locknew", "writehdr"}

(* Who deletes or truncates a temp file has looked at it, or runs without  *)
(* resume.                                                                 *)
Looked(p) ==
    /\ pc[p] \in {"lockres", "read", "locktrunc"} => fd[p] = temp[name[p]]
    /\ pc[p] = "discard" /\ temp[name[p]] # Nil => ino[temp[name[p]]].hdr.sum # want[p]
    /\ pc[p] = "create" /\ ~nores[p] => temp[name[p]] = Nil
    /\ pc[p] = "locktrunc" => nores[p]
    /\ pc[p] \in Early => sig[p] = "off"

PInv == SInv /\ TempsApart /\ \A p \in Procs : Looked(p)

(* The step that ProgressKept is about.                                    *)
KeptAt(n) == temp[n] # Nil /\ ino[temp[n]].hdr.n > 0 =>
                 Kept(n) \/ \E p \in Procs : MayDiscard(p, n, ino[temp[n]].hdr.sum)
------------------------------------------------------------------------------
(* What the invariant contains.                                            *)
LEMMA PartsOfPInv ==
    ASSUME PInv
    PROVE  /\ SInv /\ IInv /\ TypeOK /\ Handles /\ Progress /\ PartialIsPrefix
           /\ Unborn /\ TempFits /\ DeliveredAtAck /\ TempsApart
           /\ \A p \in Procs : Looked(p)
BY DEF PInv, SInv, IInv, Inv

(* Temp paths stay, and every header on them stays or grows.               *)
LEMMA Grows ==
    ASSUME PInv, temp' = temp,
           \A i \in TempInodes : ino[i].hdr.n > 0 =>
               ino'[i].hdr.sum = ino[i].hdr.sum /\ ino'[i].hdr.n >= ino[i].hdr.n
    PROVE  \A n \in Names : KeptAt(n)
BY PartsOfPInv DEF TypeOK, KeptAt, Kept

(* The steps of the live process leave the others' part alone.             *)
LEMMA LookedStep ==
    ASSUME PInv, NEW p \in Procs, Live(p) \/ \A q \in Procs : ~Live(q),
           \A q \in Procs : q # p => pc'[q] = pc[q] /\ sig'[q] = sig[q],
           Looked(p)', SInv', TempsApart'
    PROVE  PInv'
<1>1. ASSUME NEW q \in Procs, q # p PROVE Looked(q)'
  <2>1. pc[q] \in Terminal \cup {"start"}
    <3>1. CASE Live(p)
      BY <1>1, <3>1, Alone, PartsOfPInv
    <3>2. CASE \A r \in Procs : ~Live(r)
      BY <3>2 DEF Live
    <3> QED BY <3>1, <3>2
  <2>2. Looked(q) /\ pc'[q] = pc[q] /\ sig'[q] = sig[q]
    BY <1>1, PartsOfPInv
  <2> QED BY <2>1, <2>2 DEF Looked, Terminal, Early, BeforeTemp
<1> QED BY <1>1 DEF PInv

(* A step past the checks, of a handler that is there.                     *)
LEMMA LateStep ==
    ASSUME PInv, SInv', NEW p \in Procs, Live(p), temp' = temp,
           \A q \in Procs : q # p => pc'[q] = pc[q] /\ sig'[q] = sig[q],
           pc'[p] \notin {"lockres", "read", "locktrunc", "discard", "create"},
           pc'[p] \in Early => sig'[p] = "off"
    PROVE  PInv'
<1>1. Looked(p)'
  BY DEF Looked
<1>2. TempsApart'
  BY PartsOfPInv DEF TempsApart
<1> QED BY <1>1, <1>2, LookedStep

(* An exit that leaves the temp paths alone keeps the invariant.           *)
LEMMA ExitKeeps ==
    ASSUME PInv, SInv', NEW p \in Procs, Live(p), NEW how \in Terminal, Exit(p, how), temp' = temp
    PROVE  PInv'
<1>1. /\ \A q \in Procs : q # p => pc'[q] = pc[q] /\ sig'[q] = sig[q]
      /\ pc'[p] = how
  BY PartsOfPInv DEF Exit, Goto, TypeOK
<1>2. pc'[p] \notin {"lockres", "read", "locktrunc", "discard", "create"} \cup Early
  BY <1>1 DEF Terminal, Early, BeforeTemp
<1> QED BY <1>1, <1>2, LateStep

(* A receiver's step keeps the invariant and gives up no progress without  *)
(* a reason.                                                               *)
LEMMA ProgressStep ==
    ASSUME ~Concurrent, PInv, SInv', NEW p \in Procs, Step(p)
    PROVE  PInv' /\ \A n \in Names : KeptAt(n)
<1> DEFINE Good == PInv' /\ \A n \in Names : KeptAt(n)
<1>0. /\ TypeOK /\ Handles /\ Progress /\ PartialIsPrefix
      /\ Unborn /\ TempFits /\ DeliveredAtAck /\ TempsApart /\ Looked(p)
      /\ name[p] \in Names /\ want[p] \in Versions
  BY PartsOfPInv DEF TypeOK
<1>1. \A i \in TempInodes : i \in Inodes /\ ino[i] \in File /\ ino[i].hdr.n \in Nat
  BY <1>0, InodeFacts, FileFacts DEF TypeOK
<1>2. UNCHANGED <<temp, ino>> => \A n \in Names : KeptAt(n)
  BY <1>1, Grows
<1>3. ASSUME temp' = temp, \A i \in TempInodes : ino'[i] = ino[i] PROVE \A n \in Names : KeptAt(n)
  BY <1>1, <1>3, Grows
<1>4. CASE \/ ChooseCancel(p) \/ LockHeld(p) \/ StageFails(p) \/ Fails(p) \/ Interrupted(p)
           \/ Crash(p) \/ SendAck(p)
  <2>1. Live(p)
    BY <1>4 DEF ChooseCancel, LockHeld, StageFails, Fails, Interrupted, Crash, SendAck, Live, Terminal
  <2>2. \E how \in Terminal : Exit(p, how)
    BY <1>4 DEF ChooseCancel, LockHeld, StageFails, Fails, Interrupted, Crash, SendAck, Terminal
  <2>3. temp' = temp /\ ino' = ino
    BY <1>4 DEF ChooseCancel, LockHeld, StageFails, Fails, Interrupted, Crash, SendAck, dirVars
  <2> QED BY <1>2, <2>1, <2>2, <2>3, ExitKeeps
<1>5. CASE WriteFails(p, NextChunk(p))
  <2>1. pc[p] = "receive" /\ Exit(p, "failed") /\ temp' = temp
    BY <1>5 DEF WriteFails, dirVars
  <2>2. fd[p] \in TempInodes /\ fd[p] \in Inodes
    BY <1>0, <1>1, <2>1 DEF Handles, HasHandle, Holding
  <2>3. \E k : ino' = [ino EXCEPT ![fd[p]] = Written(@, got[p], k)]
    BY <1>5 DEF WriteFails
  <2>4. \A i \in TempInodes : ino'[i].hdr = ino[i].hdr
    BY <1>0, <1>1, <2>2, <2>3 DEF TypeOK, Written, File
  <2>5. Live(p)
    BY <2>1 DEF Live, Terminal
  <2> QED BY <1>1, <2>1, <2>4, <2>5, ExitKeeps, Grows DEF Terminal
<1>6. CASE Start(p)
  <2>1. /\ pc[p] = "start" /\ UNCHANGED <<name, nores, sig, temp, ino>> /\ \A q \in Procs : ~Live(q)
        /\ pc' = [pc EXCEPT ![p] = IF final[1] # Nil THEN "prompt" ELSE Prepare(p)]
    BY <1>6 DEF Start, Goto, dirVars
  <2>2. Looked(p)'
    BY <1>0, <2>1 DEF Looked, Prepare, TypeOK, Early, BeforeTemp
  <2>3. TempsApart' /\ \A q \in Procs : q # p => pc'[q] = pc[q] /\ sig'[q] = sig[q]
    BY <1>0, <2>1 DEF TempsApart, TypeOK
  <2> QED BY <1>2, <2>1, <2>2, <2>3, LookedStep
<1>7. CASE ChooseOverwrite(p) \/ ChooseRename(p)
  <2>1. /\ pc[p] = "prompt" /\ UNCHANGED <<nores, sig, temp, ino>>
        /\ pc' = [pc EXCEPT ![p] = Prepare(p)]
    BY <1>7 DEF ChooseOverwrite, ChooseRename, Goto, dirVars
  <2>2. Looked(p)'
    BY <1>0, <2>1 DEF Looked, Prepare, TypeOK, Early, BeforeTemp
  <2>3. TempsApart' /\ Live(p) /\ \A q \in Procs : q # p => pc'[q] = pc[q] /\ sig'[q] = sig[q]
    BY <1>0, <2>1 DEF TempsApart, TypeOK, Live, Terminal
  <2> QED BY <1>2, <2>1, <2>2, <2>3, LookedStep
<1>8. CASE OpenForResume(p) \/ LockForResume(p) \/ OpenForCreate(p)
  <2>1. /\ pc[p] \in {"open", "lockres", "create"} /\ UNCHANGED <<want, name, nores, sig, temp, ino>>
        /\ Looked(p)' /\ \A q \in Procs : q # p => pc'[q] = pc[q]
    <3>1. CASE OpenForResume(p)
      BY <1>0, <3>1 DEF OpenForResume, Goto, TypeOK, Looked, Early, BeforeTemp, dirVars
    <3>2. CASE LockForResume(p)
      BY <1>0, <3>2 DEF LockForResume, Goto, TypeOK, Looked, Early, BeforeTemp, dirVars
    <3>3. CASE OpenForCreate(p)
      BY <1>0, <3>3 DEF OpenForCreate, Goto, TypeOK, Looked, Early, BeforeTemp, dirVars
    <3> QED BY <1>8, <3>1, <3>2, <3>3
  <2>2. Live(p) /\ TempsApart'
    BY <1>0, <2>1 DEF Live, Terminal, TempsApart
  <2> QED BY <1>2, <2>1, <2>2, LookedStep
<1>9. CASE ReadHeader(p)
  <2>1. /\ pc[p] = "read" /\ temp' = temp /\ UNCHANGED <<want, name, nores>>
        /\ ino' = [ino EXCEPT ![fd[p]] = Corrected(ino[fd[p]])]
    BY <1>9 DEF ReadHeader, dirVars
  <2>2. fd[p] \in TempInodes /\ fd[p] = temp[name[p]]
    BY <1>0, <2>1 DEF Handles, HasHandle, Holding, Looked
  <2>3. Corrected(ino[fd[p]]) = ino[fd[p]]
    BY <1>0, <1>1, <2>2, CorrectedSame DEF PartialIsPrefix
  <2>4. ino' = ino
    BY <1>0, <2>1, <2>3, InodeFacts DEF TypeOK
  <2>5. CASE SameFile(p)
    <3>1. sig' = [sig EXCEPT ![p] = "armed"] /\ pc' = [pc EXCEPT ![p] = "control"]
      BY <1>9, <2>5 DEF ReadHeader, Goto
    <3> QED BY <1>0, <1>2, <2>1, <2>4, <3>1, LateStep DEF TypeOK, Early, BeforeTemp, Live, Terminal
  <2>6. CASE ~SameFile(p)
    <3>1. UNCHANGED sig /\ pc' = [pc EXCEPT ![p] = "discard"]
      BY <1>9, <2>6 DEF ReadHeader, Goto
    <3>2. ino[fd[p]].hdr.sum # want[p]
      BY <2>6 DEF SameFile
    <3>3. Looked(p)' /\ TempsApart' /\ Live(p)
      BY <1>0, <2>1, <2>2, <2>4, <3>1, <3>2
      DEF Looked, TypeOK, TempsApart, Live, Terminal, Early, BeforeTemp
    <3>4. \A q \in Procs : q # p => pc'[q] = pc[q] /\ sig'[q] = sig[q]
      BY <1>0, <3>1 DEF TypeOK
    <3> QED BY <1>2, <2>1, <2>4, <3>3, <3>4, LookedStep
  <2> QED BY <2>5, <2>6
<1>10. CASE DiscardStale(p)
  <2>1. /\ pc[p] = "discard" /\ temp' = [temp EXCEPT ![name[p]] = Nil]
        /\ pc' = [pc EXCEPT ![p] = "create"] /\ UNCHANGED <<name, nores, sig, ino>>
    BY <1>10 DEF DiscardStale, Goto
  <2>2. temp[name[p]] # Nil => ino[temp[name[p]]].hdr.sum # want[p]
    BY <1>0, <2>1 DEF Looked
  <2>3. Live(p)
    BY <2>1 DEF Live, Terminal
  <2>4. \A n \in Names : KeptAt(n)
    <3>1. ASSUME NEW n \in Names, n # name[p] PROVE KeptAt(n)
      BY <1>0, <1>1, <2>1, <3>1 DEF KeptAt, Kept, TypeOK
    <3>2. KeptAt(name[p])
      BY <2>2, <2>3 DEF KeptAt, MayDiscard
    <3> QED BY <3>1, <3>2
  <2>5. Looked(p)' /\ TempsApart'
    BY <1>0, <2>1 DEF Looked, TypeOK, TempsApart, Early, BeforeTemp
  <2>6. \A q \in Procs : q # p => pc'[q] = pc[q] /\ sig'[q] = sig[q]
    BY <1>0, <2>1 DEF TypeOK
  <2> QED BY <2>3, <2>4, <2>5, <2>6, LookedStep
<1>11. CASE LockAndTruncate(p)
  <2>1. /\ pc[p] = "locktrunc" /\ ino' = [ino EXCEPT ![fd[p]] = EmptyFile]
        /\ pc' = [pc EXCEPT ![p] = "writehdr"] /\ UNCHANGED <<sig, temp>>
    BY <1>11 DEF LockAndTruncate, Goto, dirVars
  <2>2. fd[p] = temp[name[p]] /\ nores[p] /\ sig[p] = "off"
    BY <1>0, <2>1 DEF Looked, Early, BeforeTemp
  <2>3. Live(p)
    BY <2>1 DEF Live, Terminal
  <2>4. \A n \in Names : KeptAt(n)
    <3>1. ASSUME NEW n \in Names, n # name[p], temp[n] # Nil PROVE KeptAt(n)
      <4>1. temp[n] # fd[p] /\ temp[n] \in TempInodes
        BY <1>0, <2>2, <3>1 DEF TempsApart, TypeOK
      <4>2. ino'[temp[n]] = ino[temp[n]]
        BY <1>0, <1>1, <2>1, <4>1 DEF TypeOK
      <4> QED BY <1>1, <2>1, <4>1, <4>2 DEF KeptAt, Kept
    <3>2. KeptAt(name[p])
      BY <2>2, <2>3 DEF KeptAt, MayDiscard
    <3> QED BY <3>1, <3>2 DEF KeptAt
  <2> QED BY <1>0, <2>1, <2>2, <2>3, <2>4, LateStep DEF TypeOK
<1>12. CASE CreateNew(p)
  <2>1. pc[p] = "createnew" /\ Live(p) /\ ino' = ino
    BY <1>12 DEF CreateNew, Live, Terminal
  <2>2. CASE temp[name[p]] = Nil
    <3>1. /\ temp' = [temp EXCEPT ![name[p]] = TempOf(p)]
          /\ pc' = [pc EXCEPT ![p] = "locknew"] /\ UNCHANGED <<name, sig>>
      BY <1>12, <2>2 DEF CreateNew, Goto
    <3>2. \A n \in Names : temp[n] # TempOf(p)
      BY <1>0, <2>1 DEF Unborn, BeforeTemp
    <3>3. \A n \in Names : KeptAt(n)
      BY <1>0, <1>1, <2>1, <2>2, <3>1 DEF KeptAt, Kept, TypeOK
    <3>4. TempsApart'
      BY <1>0, <3>1, <3>2 DEF TempsApart, TypeOK
    <3>5. Looked(p)'
      BY <1>0, <2>1, <3>1 DEF Looked, TypeOK, Early, BeforeTemp
    <3>6. \A q \in Procs : q # p => pc'[q] = pc[q] /\ sig'[q] = sig[q]
      BY <1>0, <3>1 DEF TypeOK
    <3> QED BY <2>1, <3>3, <3>4, <3>5, <3>6, LookedStep
  <2>3. CASE temp[name[p]] # Nil
    <3>1. Exit(p, "failed") /\ temp' = temp
      BY <1>12, <2>3 DEF CreateNew
    <3> QED BY <1>2, <2>1, <3>1, ExitKeeps DEF Terminal
  <2> QED BY <2>2, <2>3
<1>13. CASE LockNew(p) \/ SendControl(p) \/ CopyDone(p) \/ DropTemp(p)
  <2>1. /\ UNCHANGED <<sig, temp, ino>> /\ pc[p] \in {"locknew", "control", "copy", "unlock"}
        /\ \E l \in {"writehdr", "receive", "rename", "remove"} :
             pc' = [pc EXCEPT ![p] = l] /\ (l = "writehdr" => pc[p] = "locknew")
    BY <1>13 DEF LockNew, SendControl, CopyDone, DropTemp, Goto, dirVars
  <2>2. pc'[p] \in Early => sig'[p] = "off"
    BY <1>0, <2>1 DEF TypeOK, Looked, Early, BeforeTemp
  <2> QED BY <1>0, <1>2, <2>1, <2>2, LateStep DEF TypeOK, Live, Terminal
<1>14. CASE WriteHeader(p)
  <2>1. /\ pc[p] = "writehdr" /\ sig' = [sig EXCEPT ![p] = "armed"] /\ temp' = temp
        /\ pc' = [pc EXCEPT ![p] = "control"]
        /\ \E h : ino' = [ino EXCEPT ![fd[p]].hdr = h]
    BY <1>14 DEF WriteHeader, Goto, dirVars
  <2>2. fd[p] \in TempInodes /\ ino[fd[p]].hdr.n = 0
    BY <1>0, <2>1 DEF Handles, HasHandle, Holding, TempFits, EmptyFile, NoHeader
  <2>3. \A i \in TempInodes : i # fd[p] => ino'[i] = ino[i]
    BY <1>0, <1>1, <2>1 DEF TypeOK
  <2>4. \A n \in Names : KeptAt(n)
    BY <1>1, <2>1, <2>2, <2>3, Grows
  <2> QED BY <1>0, <2>1, <2>4, LateStep DEF TypeOK, Early, BeforeTemp, Live, Terminal
<1>15. CASE ReceiveChunk(p, NextChunk(p))
  <2>1. /\ pc[p] = "receive" /\ UNCHANGED <<sig, temp>>
        /\ \E l \in {"receive", "update"} : pc' = [pc EXCEPT ![p] = l]
        /\ ino' = [ino EXCEPT ![fd[p]] = Written(@, got[p], NextChunk(p))]
    BY <1>15 DEF ReceiveChunk, Goto, dirVars
  <2>2. fd[p] \in TempInodes
    BY <1>0, <2>1 DEF Handles, HasHandle, Holding
  <2>3. \A i \in TempInodes : ino'[i].hdr = ino[i].hdr
    BY <1>0, <1>1, <2>1, <2>2 DEF TypeOK, Written, File
  <2>4. \A n \in Names : KeptAt(n)
    BY <1>1, <2>1, <2>3, Grows
  <2> QED BY <1>0, <2>1, <2>4, LateStep DEF TypeOK, Early, BeforeTemp, Live, Terminal
<1>16. CASE UpdateMetadata(p) \/ FinishReceive(p)
  <2>1. /\ pc[p] \in {"receive", "update"} /\ UNCHANGED <<sig, temp>>
        /\ \E l \in {"receive", "stage"} : pc' = [pc EXCEPT ![p] = l]
        /\ ino' = [ino EXCEPT ![fd[p]].hdr = [sum |-> want[p], n |-> got[p]]]
    BY <1>16 DEF UpdateMetadata, FinishReceive, SaveProgress, Goto, dirVars
  <2>2. /\ fd[p] \in TempInodes /\ ino[fd[p]].hdr.sum = want[p]
        /\ ino[fd[p]].hdr.n <= got[p] /\ got[p] \in Nat
    BY <1>0, <2>1 DEF Handles, HasHandle, Holding, Progress, TypeOK
  <2>3. /\ \A i \in TempInodes : i # fd[p] => ino'[i] = ino[i]
        /\ ino'[fd[p]].hdr = [sum |-> want[p], n |-> got[p]]
    BY <1>0, <1>1, <2>1, <2>2 DEF TypeOK, File
  <2>4. \A n \in Names : KeptAt(n)
    BY <1>1, <2>1, <2>2, <2>3, Grows
  <2> QED BY <1>0, <2>1, <2>4, LateStep DEF TypeOK, Early, BeforeTemp, Live, Terminal
<1>17. CASE StageCreate(p) \/ CopyChunk(p)
  <2>1. UNCHANGED <<sig, temp>> /\ pc[p] \in {"stage", "copy"} /\ pc' = [pc EXCEPT ![p] = "copy"]
    BY <1>0, <1>17 DEF StageCreate, CopyChunk, Goto, dirVars, TypeOK
  <2>2. \E i \in StageInodes : \E f : ino' = [ino EXCEPT ![i] = f]
    <3>1. CASE StageCreate(p)
      <4> DEFINE i == IF stage[name[p]] = Nil THEN StageOf(p) ELSE stage[name[p]]
      <4>1. i \in StageInodes
        BY <1>0, InodeFacts DEF TypeOK
      <4>2. ino' = [ino EXCEPT ![i] = EmptyFile]
        BY <3>1 DEF StageCreate
      <4> QED BY <4>1, <4>2
    <3>2. CASE CopyChunk(p)
      <4>1. sfd[p] \in StageInodes
        BY <1>0, <3>2 DEF CopyChunk, Handles
      <4>2. \E f : ino' = [ino EXCEPT ![sfd[p]] = f]
        BY <3>2 DEF CopyChunk
      <4> QED BY <4>1, <4>2
    <3> QED BY <1>17, <3>1, <3>2
  <2>3. \A i \in TempInodes : ino'[i] = ino[i]
    BY <1>0, <1>1, <2>2, InodeFacts DEF TypeOK
  <2> QED BY <1>0, <1>3, <2>1, <2>3, LateStep DEF TypeOK, Early, BeforeTemp, Live, Terminal
<1>18. CASE RenameStage(p)
  <2>1. pc[p] = "rename" /\ UNCHANGED <<temp, ino>> /\ Live(p)
    BY <1>18 DEF RenameStage, Live, Terminal
  <2>2. CASE stage[name[p]] # Nil
    <3>1. pc' = [pc EXCEPT ![p] = "unlock"] /\ sig' = sig
      BY <1>18, <2>2 DEF RenameStage, Goto
    <3> QED BY <1>0, <1>2, <2>1, <3>1, LateStep DEF TypeOK, Early, BeforeTemp
  <2>3. CASE stage[name[p]] = Nil
    <3>1. Exit(p, "failed")
      BY <1>18, <2>3 DEF RenameStage
    <3> QED BY <1>2, <2>1, <3>1, ExitKeeps DEF Terminal
  <2> QED BY <2>2, <2>3
<1>19. CASE RemoveTemp(p)
  <2>1. pc[p] = "remove" /\ UNCHANGED ino /\ Live(p)
    BY <1>19 DEF RemoveTemp, Live, Terminal
  <2>2. CASE temp[name[p]] # Nil
    <3>1. /\ temp' = [temp EXCEPT ![name[p]] = Nil]
          /\ pc' = [pc EXCEPT ![p] = "ack"] /\ UNCHANGED <<name, sig>>
      BY <1>19, <2>2 DEF RemoveTemp, Goto
    <3>2. final[name[p]] # Nil /\ Holds(ino[final[name[p]]], want[p])
      BY <1>0, <2>1 DEF DeliveredAtAck
    <3>3. \A n \in Names : KeptAt(n)
      <4>1. ASSUME NEW n \in Names, n # name[p] PROVE KeptAt(n)
        BY <1>0, <1>1, <2>1, <3>1, <4>1 DEF KeptAt, Kept, TypeOK
      <4>2. KeptAt(name[p])
        BY <2>1, <3>2 DEF KeptAt, MayDiscard
      <4> QED BY <4>1, <4>2
    <3>4. Looked(p)' /\ TempsApart'
      BY <1>0, <3>1 DEF Looked, TypeOK, TempsApart, Early, BeforeTemp
    <3>5. \A q \in Procs : q # p => pc'[q] = pc[q] /\ sig'[q] = sig[q]
      BY <1>0, <3>1 DEF TypeOK
    <3> QED BY <2>1, <3>3, <3>4, <3>5, LookedStep
  <2>3. CASE temp[name[p]] = Nil
    <3>1. Exit(p, "failed") /\ temp' = temp
      BY <1>19, <2>3 DEF RemoveTemp
    <3> QED BY <1>2, <2>1, <3>1, ExitKeeps DEF Terminal
  <2> QED BY <2>2, <2>3
<1>20. CASE CtrlC(p)
  <2>1. /\ Live(p) /\ sig[p] = "armed" /\ sig' = [sig EXCEPT ![p] = "fired"]
        /\ UNCHANGED <<pc, name, nores, ino>>
        /\ temp' = IF nores[p] THEN [temp EXCEPT ![name[p]] = Nil] ELSE temp
    BY <1>20 DEF CtrlC
  <2>2. pc[p] \notin Early
    BY <1>0, <2>1 DEF Looked
  <2>3. \A n \in Names : KeptAt(n)
    <3>1. CASE nores[p]
      <4>1. ASSUME NEW n \in Names, n # name[p] PROVE KeptAt(n)
        BY <1>0, <1>1, <2>1, <4>1 DEF KeptAt, Kept, TypeOK
      <4>2. KeptAt(name[p])
        BY <2>1, <3>1 DEF KeptAt, MayDiscard
      <4> QED BY <4>1, <4>2
    <3>2. CASE ~nores[p]
      BY <1>2, <2>1, <3>2
    <3> QED BY <3>1, <3>2
  <2>4. Looked(p)' /\ TempsApart'
    BY <1>0, <2>1, <2>2 DEF Looked, TypeOK, TempsApart, Early, BeforeTemp
  <2>5. \A q \in Procs : q # p => pc'[q] = pc[q] /\ sig'[q] = sig[q]
    BY <1>0, <2>1 DEF TypeOK
  <2> QED BY <2>1, <2>3, <2>4, <2>5, LookedStep
<1> QED
  BY <1>4, <1>5, <1>6, <1>7, <1>8, <1>9, <1>10, <1>11, <1>12, <1>13, <1>14, <1>15, <1>16,
     <1>17, <1>18, <1>19, <1>20
  DEF Step, Decide, CheckResume, CreateTemp, Finalize, Stop
------------------------------------------------------------------------------
(* The invariant holds at the start.                                       *)
LEMMA ProgressInit == Init => PInv
<1> SUFFICES ASSUME Init PROVE PInv
  OBVIOUS
<1>1. TempsApart /\ \A p \in Procs : Looked(p)
  BY DEF Init, TempsApart, Looked
<1> QED BY <1>1, SerialInit DEF PInv

(* Each step keeps it, and keeps progress.                                 *)
LEMMA ProgressNext ==
    ASSUME ~Concurrent, PInv, [Next]_vars
    PROVE  PInv' /\ (vars' = vars \/ \A n \in Names : KeptAt(n))
<1>1. SInv'
  BY TypeStep, SharedStep, SerialStep DEF PInv, SInv, IInv
<1>2. CASE UNCHANGED vars
  BY <1>1, <1>2 DEF vars, procVars, dirVars, PInv, TempsApart, Looked
<1> QED BY <1>1, <1>2, ProgressStep DEF Next, Finished

(* Progress saved in a temp file is given up only by a receiver of that    *)
(* name that runs without resume, wants another version, or has delivered. *)
THEOREM ProgressSurvives == ~Concurrent => (Spec => ProgressKept)
<1> SUFFICES ASSUME ~Concurrent PROVE Spec => ProgressKept
  OBVIOUS
<1>1. PInv /\ [Next]_vars => PInv'
  BY ProgressNext
<1>2. PInv /\ [Next]_vars =>
        [\A n \in Names : temp[n] # Nil /\ ino[temp[n]].hdr.n > 0 =>
            Kept(n) \/ \E p \in Procs : MayDiscard(p, n, ino[temp[n]].hdr.sum)]_vars
  BY ProgressNext DEF KeptAt
<1> QED BY ProgressInit, <1>1, <1>2, PTL DEF Spec, ProgressKept
=============================================================================
