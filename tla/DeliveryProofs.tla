--------------------------- MODULE DeliveryProofs ---------------------------
(***************************************************************************)
(* When receivers of one file name take turns, and as long as no file has  *)
(* changed while it was sent, whole sessions keep the promise of Delivery, *)
(* for any number of sessions, sizes, windows, faults and edits.  All      *)
(* empty files are one version: the checksum and size in the header say no *)
(* more.  What is acknowledged has the announced length, edits or not.     *)
(***************************************************************************)
EXTENDS TransferProofs

USE TransferAssumption, VersionAssumption, ChunkAssumption, NameAssumption,
    ModeAssumption, HoleAssumption, NilAssumption

OneEmpty == \A v, w \in Versions : Size[v] = 0 /\ Size[w] = 0 => v = w
------------------------------------------------------------------------------
(* A receiver that has a name for its file, and has not published it.      *)
Owning == {"open", "lockres", "read", "discard", "create", "locktrunc", "createnew",
           "locknew", "writehdr", "control", "receive", "update", "stage", "copy", "rename"}
Asking == {"start", "prompt"}

(* The name in the header until the user chooses, and then a free one:     *)
(* with receivers taking turns it stays free until it is published.        *)
Named == \A p \in Procs : pc[p] \in Asking => name[p] = 1
FreeName == \A p \in Procs : pc[p] \in Owning => final[name[p]] = Nil

DInv == SInv /\ Named /\ FreeName

(* What a step of p does that the directory's user does not see.           *)
Unseen(p) ==
    /\ want' = want /\ name' = name /\ final' = final
    /\ \A i \in StageInodes : (\E n \in Names : final[n] = i) => ino'[i] = ino[i]
    /\ \A q \in Procs : q # p => pc'[q] = pc[q]
    /\ \/ pc[p] \in Asking /\ pc'[p] \in Asking
       \/ pc[p] \in Asking /\ pc'[p] \in Owning /\ pc[p] = "start" /\ final[1] = Nil
       \/ pc[p] \in Owning /\ pc'[p] \in Owning
       \/ pc[p] \in Reached /\ pc'[p] \in Reached
       \/ pc[p] \notin Terminal /\ pc'[p] \in Terminal \ {"done"}

Published(p) ==
    /\ pc[p] = "rename" /\ stage[name[p]] # Nil
    /\ final' = [final EXCEPT ![name[p]] = stage[name[p]]]
    /\ pc' = [pc EXCEPT ![p] = "unlock"]
    /\ UNCHANGED <<want, name, ino>>

(* An exit before delivery shows nothing in the directory.                 *)
LEMMA ExitUnseen ==
    ASSUME TypeOK, NEW p \in Procs, NEW how \in Terminal \ {"done"}, Exit(p, how),
           pc[p] \notin Terminal, final' = final,
           \A i \in StageInodes : ino'[i] = ino[i]
    PROVE  Unseen(p)
BY DEF Exit, Goto, TypeOK, Unseen, Terminal

(* Nor does a move between steps on one side of the rename.                *)
LEMMA MovedUnseen ==
    ASSUME TypeOK, NEW p \in Procs, NEW l, pc' = [pc EXCEPT ![p] = l],
           \/ pc[p] \in Owning /\ l \in Owning
           \/ pc[p] \in Reached /\ l \in Reached,
           UNCHANGED <<want, name, final>>,
           \A i \in StageInodes : (\E n \in Names : final[n] = i) => ino'[i] = ino[i]
    PROVE  Unseen(p)
BY DEF TypeOK, Unseen

(* Every step of a receiver is unseen, one of the two choices at the       *)
(* prompt, or the rename.                                                  *)
LEMMA StepKinds ==
    ASSUME SInv, NEW p \in Procs, Step(p)
    PROVE  Unseen(p) \/ ChooseOverwrite(p) \/ ChooseRename(p) \/ Published(p)
<1>1. TypeOK /\ Handles /\ Unborn /\ Unshared /\ Staged
  BY DEF SInv, IInv, Inv
<1>2. \A i \in TempInodes : \A j \in StageInodes : i # j
  BY InodeFacts
<1>3. StageInodes \subseteq Inodes /\ StageOf(p) \in StageInodes
  BY InodeFacts
<1>4. CASE \/ ChooseCancel(p) \/ LockHeld(p) \/ StageFails(p) \/ Fails(p) \/ Interrupted(p)
           \/ Crash(p)
  <2>1. pc[p] \notin Terminal
    BY <1>4 DEF ChooseCancel, LockHeld, StageFails, Fails, Interrupted, Crash, Live, Terminal
  <2>2. \E how \in Terminal \ {"done"} : Exit(p, how)
    BY <1>4 DEF ChooseCancel, LockHeld, StageFails, Fails, Interrupted, Crash, Terminal
  <2>3. final' = final /\ ino' = ino
    BY <1>4 DEF ChooseCancel, LockHeld, StageFails, Fails, Interrupted, Crash, dirVars
  <2> QED BY <1>1, <2>1, <2>2, <2>3, ExitUnseen
<1>5. CASE WriteFails(p, NextChunk(p))
  <2>1. pc[p] = "receive" /\ Exit(p, "failed") /\ final' = final
    BY <1>5 DEF WriteFails, dirVars
  <2>2. fd[p] \in TempInodes
    BY <1>1, <2>1 DEF Handles, HasHandle, Holding
  <2>3. \A i \in StageInodes : ino'[i] = ino[i]
    BY <1>1, <1>2, <1>3, <1>5, <2>2 DEF WriteFails, TypeOK
  <2> QED BY <1>1, <2>1, <2>3, ExitUnseen DEF Terminal
<1>6. CASE Start(p)
  <2>1. /\ pc[p] = "start" /\ UNCHANGED <<want, name, final, ino>>
        /\ pc' = [pc EXCEPT ![p] = IF final[1] # Nil THEN "prompt" ELSE Prepare(p)]
    BY <1>6 DEF Start, Goto, dirVars
  <2> QED BY <1>1, <2>1 DEF Unseen, TypeOK, Prepare, Asking, Owning
<1>7. CASE CheckResume(p) \/ OpenForCreate(p) \/ LockAndTruncate(p) \/ LockNew(p)
           \/ WriteHeader(p) \/ SendControl(p) \/ ReceiveChunk(p, NextChunk(p))
           \/ UpdateMetadata(p) \/ FinishReceive(p)
  <2>1. UNCHANGED <<want, name, final>>
    BY <1>7 DEF CheckResume, OpenForResume, LockForResume, ReadHeader, DiscardStale, OpenForCreate,
                LockAndTruncate, LockNew, WriteHeader, SendControl, ReceiveChunk, UpdateMetadata,
                FinishReceive, dirVars
  <2>2. pc[p] \in Owning /\ \E l \in Owning : pc' = [pc EXCEPT ![p] = l]
    <3>1. pc[p] \in Owning
      BY <1>7 DEF CheckResume, OpenForResume, LockForResume, ReadHeader, DiscardStale,
                  OpenForCreate, LockAndTruncate, LockNew, WriteHeader, SendControl, ReceiveChunk,
                  UpdateMetadata, FinishReceive, Owning
    <3>2. \E l : pc' = [pc EXCEPT ![p] = l] /\
            l \in {"create", "lockres", "read", "control", "discard", "createnew", "locktrunc",
                   "writehdr", "receive", "update", "stage"}
      <4>1. CASE CheckResume(p)
        BY <4>1 DEF CheckResume, OpenForResume, LockForResume, ReadHeader, DiscardStale, Goto
      <4>2. CASE OpenForCreate(p) \/ LockAndTruncate(p) \/ LockNew(p) \/ WriteHeader(p)
        BY <4>2 DEF OpenForCreate, LockAndTruncate, LockNew, WriteHeader, Goto
      <4>3. CASE SendControl(p) \/ ReceiveChunk(p, NextChunk(p)) \/ UpdateMetadata(p)
                 \/ FinishReceive(p)
        BY <4>3 DEF SendControl, ReceiveChunk, UpdateMetadata, FinishReceive, Goto
      <4> QED BY <1>7, <4>1, <4>2, <4>3
    <3> QED BY <3>1, <3>2 DEF Owning
  <2>3. ino' = ino \/ (fd[p] \in TempInodes /\ \E f : ino' = [ino EXCEPT ![fd[p]] = f])
    <3>1. CASE OpenForResume(p) \/ LockForResume(p) \/ DiscardStale(p) \/ OpenForCreate(p)
               \/ LockNew(p) \/ SendControl(p)
      BY <3>1 DEF OpenForResume, LockForResume, DiscardStale, OpenForCreate, LockNew, SendControl
    <3>2. CASE ReadHeader(p) \/ LockAndTruncate(p) \/ WriteHeader(p) \/ UpdateMetadata(p)
               \/ FinishReceive(p) \/ ReceiveChunk(p, NextChunk(p))
      <4>1. fd[p] \in TempInodes
        BY <1>1, <3>2 DEF ReadHeader, LockAndTruncate, WriteHeader, UpdateMetadata,
                     FinishReceive, ReceiveChunk, Handles, HasHandle, Holding
      <4>2. \E f : ino' = [ino EXCEPT ![fd[p]] = f]
        <5>1. CASE ReadHeader(p)
          BY <5>1 DEF ReadHeader
        <5>2. CASE LockAndTruncate(p)
          BY <5>2 DEF LockAndTruncate
        <5>3. CASE WriteHeader(p)
          BY <5>3 DEF WriteHeader
        <5>4. CASE UpdateMetadata(p) \/ FinishReceive(p)
          BY <5>4 DEF UpdateMetadata, FinishReceive, SaveProgress
        <5>5. CASE ReceiveChunk(p, NextChunk(p))
          BY <5>5 DEF ReceiveChunk
        <5> QED BY <3>2, <5>1, <5>2, <5>3, <5>4, <5>5
      <4> QED BY <4>1, <4>2
    <3> QED BY <1>7, <3>1, <3>2 DEF CheckResume
  <2>4. \A i \in StageInodes : ino'[i] = ino[i]
    BY <1>1, <1>2, <1>3, <2>3 DEF TypeOK
  <2> QED BY <1>1, <2>1, <2>2, <2>4, MovedUnseen
<1>8. CASE CreateNew(p)
  <2>1. pc[p] = "createnew" /\ UNCHANGED <<want, name, final, ino>>
    BY <1>8 DEF CreateNew, Exit
  <2>2. CASE temp[name[p]] = Nil
    <3>1. pc' = [pc EXCEPT ![p] = "locknew"]
      BY <1>8, <2>2 DEF CreateNew, Goto
    <3> QED BY <1>1, <2>1, <3>1, MovedUnseen DEF Owning
  <2>3. CASE temp[name[p]] # Nil
    <3>1. Exit(p, "failed")
      BY <1>8, <2>3 DEF CreateNew
    <3> QED BY <1>1, <2>1, <3>1, ExitUnseen DEF Terminal
  <2> QED BY <2>2, <2>3
<1>9. CASE StageCreate(p)
  <2> DEFINE i == IF stage[name[p]] = Nil THEN StageOf(p) ELSE stage[name[p]]
  <2>1. /\ pc[p] = "stage" /\ UNCHANGED <<want, name, final>>
        /\ pc' = [pc EXCEPT ![p] = "copy"] /\ ino' = [ino EXCEPT ![i] = EmptyFile]
    BY <1>9 DEF StageCreate, Goto
  <2>2. name[p] \in Names
    BY <1>1 DEF TypeOK
  <2>3. \A n \in Names : final[n] # i
    BY <1>1, <2>1, <2>2 DEF Unborn, BeforeStage, Unshared
  <2> HIDE DEF i
  <2>4. \A j \in StageInodes : (\E n \in Names : final[n] = j) => ino'[j] = ino[j]
    BY <1>1, <1>3, <2>1, <2>3 DEF TypeOK
  <2> QED BY <1>1, <2>1, <2>4, MovedUnseen DEF Owning
<1>10. CASE CopyChunk(p)
  <2>1. /\ pc[p] = "copy" /\ UNCHANGED <<pc, want, name, final>>
        /\ \E f : ino' = [ino EXCEPT ![sfd[p]] = f]
    BY <1>10 DEF CopyChunk, dirVars
  <2>2. name[p] \in Names /\ stage[name[p]] = sfd[p] /\ sfd[p] # Nil
    BY <1>1, <2>1, InodeFacts DEF TypeOK, Staged, Handles
  <2>3. \A n \in Names : final[n] # sfd[p]
    BY <1>1, <2>2 DEF Unshared
  <2>4. \A j \in StageInodes : (\E n \in Names : final[n] = j) => ino'[j] = ino[j]
    BY <1>1, <1>3, <2>1, <2>3 DEF TypeOK
  <2> QED BY <2>1, <2>4 DEF Unseen, Owning
<1>11. CASE CopyDone(p)
  BY <1>1, <1>11, MovedUnseen DEF CopyDone, Goto, Owning, dirVars
<1>12. CASE RenameStage(p)
  <2>1. CASE stage[name[p]] # Nil
    BY <1>12, <2>1 DEF RenameStage, Published, Goto
  <2>2. CASE stage[name[p]] = Nil
    <3>1. Exit(p, "failed") /\ pc[p] = "rename" /\ UNCHANGED <<final, ino>>
      BY <1>12, <2>2 DEF RenameStage
    <3> QED BY <1>1, <3>1, ExitUnseen DEF Terminal
  <2> QED BY <2>1, <2>2
<1>13. CASE DropTemp(p)
  BY <1>1, <1>13, MovedUnseen DEF DropTemp, Goto, Reached, dirVars
<1>14. CASE RemoveTemp(p)
  <2>1. pc[p] = "remove" /\ UNCHANGED <<final, ino>>
    BY <1>14 DEF RemoveTemp
  <2>2. CASE temp[name[p]] # Nil
    <3>1. UNCHANGED <<want, name>> /\ pc' = [pc EXCEPT ![p] = "ack"]
      BY <1>14, <2>2 DEF RemoveTemp, Goto
    <3> QED BY <1>1, <2>1, <3>1, MovedUnseen DEF Reached
  <2>3. CASE temp[name[p]] = Nil
    <3>1. Exit(p, "failed")
      BY <1>14, <2>3 DEF RemoveTemp
    <3> QED BY <1>1, <2>1, <3>1, ExitUnseen DEF Terminal
  <2> QED BY <2>2, <2>3
<1>15. CASE SendAck(p)
  BY <1>1, <1>15, MovedUnseen DEF SendAck, Exit, Goto, Reached, dirVars
<1>16. CASE CtrlC(p)
  <2>1. UNCHANGED <<pc, want, name, final, ino>> /\ Live(p)
    BY <1>16 DEF CtrlC
  <2>2. pc[p] \in Asking \cup Owning \cup Reached
    BY <1>1, <2>1 DEF Live, TypeOK, Stages, Terminal, Asking, Owning, Reached
  <2> QED BY <2>1, <2>2 DEF Unseen
<1> QED
  BY <1>4, <1>5, <1>6, <1>7, <1>8, <1>9, <1>10, <1>11, <1>12, <1>13, <1>14, <1>15, <1>16
  DEF Step, Decide, CreateTemp, Finalize, Stop
------------------------------------------------------------------------------
(* The invariant                                                           *)

(* Who is not live can only start.                                         *)
LEMMA StoppedStays ==
    ASSUME NEW p \in Procs, Step(p), pc[p] \in Terminal \cup {"start"}
    PROVE  Start(p)
<1>1. ~Live(p)
  BY DEF Live
<1> QED
  BY <1>1 DEF Step, Decide, ChooseOverwrite, ChooseRename, ChooseCancel, CheckResume, OpenForResume,
    LockForResume, ReadHeader, DiscardStale, CreateTemp, OpenForCreate, LockAndTruncate,
    CreateNew, LockNew, WriteHeader, SendControl, ReceiveChunk, WriteFails, UpdateMetadata,
    FinishReceive, Finalize, StageCreate, CopyChunk, CopyDone, RenameStage, DropTemp,
    RemoveTemp, SendAck, Stop, LockHeld, StageFails, Fails, CtrlC, Interrupted, Crash, Terminal

(* Names are as at the start while the prompt is open, and the chosen      *)
(* place stays free.                                                       *)
LEMMA NamedStep ==
    ASSUME ~Concurrent, DInv, SInv', [Next]_vars
    PROVE  DInv'
<1>1. TypeOK /\ Named /\ FreeName
  BY DEF DInv, SInv, IInv, Inv
<1>2. SUFFICES Named' /\ FreeName'
  BY DEF DInv
<1> USE DEF Asking, Owning
<1>3. CASE UNCHANGED vars
  BY <1>1, <1>3 DEF vars, procVars, dirVars, Named, FreeName
<1>4. ASSUME NEW p \in Procs, Step(p) PROVE Named' /\ FreeName'
  <2>1. ASSUME NEW q \in Procs, q # p PROVE pc[q] \notin Owning
    <3>1. CASE Live(p)
      BY <2>1, <3>1, Alone DEF DInv, Terminal
    <3>2. CASE ~Live(p)
      <4>1. Start(p)
        <5>1. pc[p] \in Terminal \cup {"start"}
          BY <3>2 DEF Live
        <5> QED BY <1>4, <3>2, <5>1, StoppedStays
      <4>2. ~Live(q)
        BY <4>1 DEF Start
      <4> QED BY <4>2 DEF Live, Terminal
    <3> QED BY <3>1, <3>2
  <2>2. CASE Unseen(p)
    BY <1>1, <2>1, <2>2 DEF Unseen, Named, FreeName, Terminal, Reached, TypeOK
  <2>3. CASE ChooseOverwrite(p)
    <3>1. /\ pc[p] = "prompt" /\ pc' = [pc EXCEPT ![p] = Prepare(p)]
          /\ final' = [final EXCEPT ![1] = Nil] /\ name' = name
      BY <2>3 DEF ChooseOverwrite, Goto
    <3> QED BY <1>1, <2>1, <3>1 DEF Named, FreeName, TypeOK, Prepare
  <2>4. CASE ChooseRename(p)
    <3>1. PICK n \in Names : Available(n) /\ name' = [name EXCEPT ![p] = n]
      BY <2>4 DEF ChooseRename
    <3>2. /\ pc[p] = "prompt" /\ pc' = [pc EXCEPT ![p] = Prepare(p)] /\ final' = final
          /\ final[n] = Nil
      BY <2>4, <3>1 DEF ChooseRename, Goto, Available, dirVars
    <3> QED BY <1>1, <2>1, <3>1, <3>2 DEF Named, FreeName, TypeOK, Prepare
  <2>5. CASE Published(p)
    BY <1>1, <2>1, <2>5 DEF Published, Named, FreeName, TypeOK
  <2> QED BY <1>4, <2>2, <2>3, <2>4, <2>5, StepKinds DEF DInv
<1> QED BY <1>3, <1>4 DEF Next, Finished

(* The rename finds its place free, and nothing else but the answer to the *)
(* prompt takes a file away.                                               *)
LEMMA ConsentStep ==
    ASSUME DInv, [Next]_vars, NEW n \in Names, final[n] # Nil, final'[n] # final[n]
    PROVE  \E p \in Procs : pc[p] = "prompt"
<1>1. TypeOK /\ FreeName
  BY DEF DInv, SInv, IInv, Inv
<1>2. PICK p \in Procs : Step(p)
  BY DEF Next, Finished, vars, procVars, dirVars
<1>3. CASE Unseen(p)
  BY <1>3 DEF Unseen
<1>4. CASE Published(p)
  <2>1. /\ pc[p] = "rename" /\ name[p] \in Names
        /\ final' = [final EXCEPT ![name[p]] = stage[name[p]]]
    BY <1>1, <1>4 DEF Published, TypeOK
  <2>2. n # name[p]
    BY <1>1, <2>1 DEF FreeName, Owning
  <2>3. final'[n] = final[n]
    BY <1>1, <2>1, <2>2 DEF TypeOK
  <2> QED BY <2>3
<1>5. CASE ChooseOverwrite(p) \/ ChooseRename(p)
  BY <1>5 DEF ChooseOverwrite, ChooseRename
<1> QED BY <1>2, <1>3, <1>4, <1>5, StepKinds DEF DInv

(* Receivers that take turns never replace a file nobody was asked about:  *)
(* whatever run_receiver_transfer finds free when the header arrives is    *)
(* still free when finalize_resume_file renames.                           *)
THEOREM NoOverwriteUnasked == ~Concurrent => (Spec => OverwriteByConsent)
<1> SUFFICES ASSUME ~Concurrent PROVE Spec => OverwriteByConsent
  OBVIOUS
<1>1. Init => DInv
  BY SerialInit DEF Init, DInv, Named, FreeName, Owning
<1>2. DInv /\ [Next]_vars => DInv'
  <2>1. DInv /\ [Next]_vars => SInv'
    BY TypeStep, SharedStep, SerialStep DEF DInv, SInv, IInv
  <2> QED BY <2>1, NamedStep
<1>3. DInv /\ [Next]_vars =>
        [\A n \in Names : final[n] # Nil /\ final'[n] # final[n] =>
            \E p \in Procs : pc[p] = "prompt"]_vars
  BY ConsentStep
<1> QED BY <1>1, <1>2, <1>3, PTL DEF Spec, OverwriteByConsent

(* DInv holds at the start.                                                *)
LEMMA DInvInit == TransferInit => DInv
BY SerialInit DEF TransferInit, Init, DInv, Named, FreeName, Owning

(* Until a file changes, sessions that take turns keep both invariants.    *)
Undisturbed == TransferInv /\ (edits = 0 => DInv)

LEMMA SerialSessions == ~Concurrent => (TransferSpec => []Undisturbed)
<1> SUFFICES ASSUME ~Concurrent PROVE TransferSpec => []Undisturbed
  OBVIOUS
<1>1. Undisturbed /\ [TransferNext]_allVars /\ TransferInv' => Undisturbed'
  <2> SUFFICES ASSUME Undisturbed, [TransferNext]_allVars, TransferInv', edits' = 0
               PROVE  DInv'
    BY DEF Undisturbed
  <2>1. TransferTypeOK
    BY DEF Undisturbed, TransferInv, TInv
  <2>2. edits = 0
    <3>1. edits \in Nat
      BY <2>1 DEF TransferTypeOK
    <3> QED BY <2>1, <3>1, EditsCount
  <2>3. TInv(TRUE) /\ DInv /\ TInv(TRUE)'
    BY <2>2 DEF Undisturbed, TransferInv
  <2>4. [Next]_vars
    BY <2>3, Refines
  <2>5. IInv'
    BY <2>3, <2>4, TypeStep, SharedStep DEF DInv, SInv, IInv
  <2>6. SInv'
    BY <2>3, <2>4, <2>5, SerialStep DEF DInv
  <2> QED BY <2>3, <2>4, <2>6, NamedStep
<1>2. TransferInit => (edits = 0 => DInv)
  BY DInvInit
<1>3. TransferInv /\ (edits = 0 => DInv) <=> Undisturbed
  BY DEF Undisturbed
<1> QED BY <1>1, <1>2, <1>3, TransferInvHolds, PTL DEF TransferSpec

(* The store's invariant without the content holds in every run.           *)
LEMMA CountingSessions ==
    ~Concurrent => (TransferSpec => [](TInv(FALSE) /\ CInv(FALSE)))
<1> SUFFICES ASSUME ~Concurrent PROVE TransferSpec => [](TInv(FALSE) /\ CInv(FALSE))
  OBVIOUS
<1>1. TInv(FALSE) /\ CInv(FALSE) /\ [TransferNext]_allVars => TInv(FALSE)' /\ CInv(FALSE)'
  <2> SUFFICES ASSUME TInv(FALSE), CInv(FALSE), [TransferNext]_allVars
               PROVE  TInv(FALSE)' /\ CInv(FALSE)'
    OBVIOUS
  <2>1. TInv(FALSE)' /\ [AnyNext(FALSE)]_vars
    BY TransferInvStep, AnyRefines
  <2>2. LInv(FALSE)'
    BY <2>1 DEF TInv
  <2> QED BY <2>1, <2>2, AnySerialStep
<1>2. TransferInit => TInv(FALSE)
  BY TransferInvInit
<1>3. TransferInit => CInv(FALSE)
  <2> SUFFICES ASSUME TransferInit PROVE CInv(FALSE)
    OBVIOUS
  <2>1. SInv
    BY SerialInit DEF TransferInit
  <2>2. LInv(FALSE)
    BY <1>2 DEF TInv
  <2>3. CInv(TRUE)
    BY <2>1, ExactIsSInv
  <2> QED BY <2>2, <2>3 DEF CInv, StagedAs, FinalAs, DeliveredAs, Whole, Has
<1> QED BY <1>1, <1>2, <1>3, PTL DEF TransferSpec
------------------------------------------------------------------------------
(* What is under a name                                                    *)

(* A file is whole for one version at most.                                *)
LEMMA OneVersion ==
    ASSUME OneEmpty, NEW f, NEW v \in Versions, NEW w \in Versions, Holds(f, v), Holds(f, w)
    PROVE  v = w
<1>1. Size[v] = Size[w] /\ Size[v] \in Nat
  BY DEF Holds
<1>2. CASE Size[v] = 0
  BY <1>1, <1>2 DEF OneEmpty
<1>3. CASE Size[v] # 0
  <2>1. f.data[0] = <<v, 0>> /\ f.data[0] = <<w, 0>>
    BY <1>1, <1>3 DEF Holds
  <2> QED BY <2>1
<1> QED BY <1>2, <1>3

(* So what a place shows is the version it is whole for.                   *)
LEMMA ShownVersion ==
    ASSUME OneEmpty, NEW n, NEW v \in Versions, final[n] # Nil, Holds(ino[final[n]], v)
    PROVE  Shown(n) = v
BY OneVersion DEF Shown

(* A place that keeps its file shows what it showed.                       *)
LEMMA ShownSame ==
    ASSUME NEW n, final'[n] = final[n], final[n] # Nil => ino'[final[n]] = ino[final[n]]
    PROVE  Shown(n)' = Shown(n)
BY DEF Shown, Holds
------------------------------------------------------------------------------
(* The refinement                                                          *)

Dir == [n \in Names |-> Shown(n)]
Recv == [p \in Procs |-> CASE pc[p] \in Reached -> "delivered"
                           [] pc[p] \in Terminal \ {"done"} -> "ended"
                           [] OTHER -> "running"]
Send == [p \in Procs |-> IF spc[p] \in SenderEnd THEN spc[p] ELSE "running"]

(* How a receiver counts, by where it is.                                  *)
LEMMA RecvIs ==
    ASSUME NEW p \in Procs
    PROVE  /\ pc[p] \in Reached => Recv[p] = "delivered"
           /\ pc[p] \in Terminal \ {"done"} => Recv[p] = "ended"
           /\ pc[p] \in Asking \cup Owning => Recv[p] = "running"
           /\ pc[p] \notin Terminal => Recv[p] # "ended"
BY DEF Recv, Reached, Terminal, Asking, Owning

(* A step of one receiver moves one entry of Recv.                         *)
LEMMA RecvSame ==
    ASSUME NEW p \in Procs, \A q \in Procs : q # p => pc'[q] = pc[q]
    PROVE  Recv' = [Recv EXCEPT ![p] = Recv'[p]]
<1>1. \A q \in Procs : q # p => Recv'[q] = Recv[q]
  BY DEF Recv
<1>2. /\ Recv = [q \in Procs |-> Recv[q]] /\ Recv' = [q \in Procs |-> Recv'[q]]
  BY DEF Recv
<1> HIDE DEF Recv
<1> QED BY <1>1, <1>2

(* The steps of Delivery under the mapping, written out.                   *)
LEMMA PromiseSteps ==
    /\ Promise!dvars = <<want, name, Dir, Recv, Send>>
    /\ \A p \in Procs :
        /\ Promise!Overwrite(p) <=>
             /\ Recv[p] = "running" /\ name[p] = 1
             /\ Dir' = [Dir EXCEPT ![1] = Nil] /\ UNCHANGED <<want, name, Recv, Send>>
        /\ Promise!Rename(p) <=>
             /\ Recv[p] = "running"
             /\ \E n \in Names : Dir[n] = Nil /\ name' = [name EXCEPT ![p] = n]
             /\ UNCHANGED <<want, Dir, Recv, Send>>
        /\ Promise!Publish(p) <=>
             /\ Recv[p] = "running" /\ Dir[name[p]] = Nil
             /\ Dir' = [Dir EXCEPT ![name[p]] = want[p]]
             /\ Recv' = [Recv EXCEPT ![p] = "delivered"] /\ UNCHANGED <<want, name, Send>>
        /\ Promise!End(p) <=>
             /\ Recv[p] # "ended" /\ Recv' = [Recv EXCEPT ![p] = "ended"]
             /\ UNCHANGED <<want, name, Dir, Send>>
        /\ Promise!Confirm(p) <=>
             /\ Send[p] = "running" /\ Recv[p] = "delivered"
             /\ Send' = [Send EXCEPT ![p] = "success"] /\ UNCHANGED <<want, name, Dir, Recv>>
        /\ Promise!GiveUp(p) <=>
             /\ Send[p] = "running"
             /\ \E how \in {"aborted", "failed"} : Send' = [Send EXCEPT ![p] = how]
             /\ UNCHANGED <<want, name, Dir, Recv>>
BY DEF Promise!dvars, Promise!Overwrite, Promise!Rename, Promise!Publish, Promise!End,
       Promise!Confirm, Promise!GiveUp, Dir, Recv, Send

(* A step of a receiver, as the user of the directory sees it.             *)
LEMMA ReceiverRefines ==
    ASSUME OneEmpty, DInv, NEW p \in Procs, Step(p), Send' = Send
    PROVE  \/ UNCHANGED <<want, name, Dir, Recv, Send>>
           \/ Promise!Overwrite(p) \/ Promise!Rename(p) \/ Promise!Publish(p) \/ Promise!End(p)
<1>1. TypeOK /\ Named /\ FreeName /\ Staged
  BY DEF DInv, SInv, IInv, Inv
<1>2. DOMAIN Dir = Names /\ DOMAIN Recv = Procs /\ Dir = [n \in Names |-> Dir[n]]
      /\ Recv = [q \in Procs |-> Recv[q]] /\ \A n \in Names : Dir[n] = Shown(n) /\ Dir'[n] = Shown(n)'
  BY DEF Dir, Recv
<1>3. \A n \in Names : final[n] = Nil => Shown(n) = Nil
  BY DEF Shown
<1>4. CASE Unseen(p)
  <2>1. UNCHANGED <<want, name>>
    BY <1>4 DEF Unseen
  <2>2. \A n \in Names : Shown(n)' = Shown(n)
    <3> SUFFICES ASSUME NEW n \in Names PROVE Shown(n)' = Shown(n)
      OBVIOUS
    <3>1. final[n] # Nil => final[n] \in StageInodes
      BY <1>1 DEF TypeOK
    <3>2. final'[n] = final[n] /\ (final[n] # Nil => ino'[final[n]] = ino[final[n]])
      BY <1>4, <3>1 DEF Unseen
    <3> QED BY <3>2, ShownSame
  <2>3. Dir' = Dir
    BY <2>2 DEF Dir
  <2>4. Recv' = [Recv EXCEPT ![p] = Recv'[p]]
    BY <1>4, RecvSame DEF Unseen
  <2>5. CASE Recv'[p] = Recv[p]
    <3>1. Recv' = Recv
      BY <1>2, <2>4, <2>5
    <3> QED BY <2>1, <2>3, <3>1
  <2>6. CASE Recv'[p] # Recv[p]
    <3>1. pc[p] \notin Terminal /\ pc'[p] \in Terminal \ {"done"}
      BY <1>4, <2>6 DEF Unseen, Recv, Asking, Owning, Reached, Terminal
    <3>2. Recv[p] # "ended" /\ Recv'[p] = "ended"
      BY <3>1 DEF Recv, Reached, Terminal
    <3>3. Recv' = [Recv EXCEPT ![p] = "ended"]
      BY <2>4, <3>2
    <3> QED BY <2>1, <2>3, <3>2, <3>3, PromiseSteps
  <2> QED BY <2>5, <2>6
<1>5. CASE ChooseOverwrite(p)
  <2>1. /\ pc[p] = "prompt" /\ pc' = [pc EXCEPT ![p] = Prepare(p)]
        /\ final' = [final EXCEPT ![1] = Nil] /\ UNCHANGED <<want, name, ino>>
    BY <1>5 DEF ChooseOverwrite, Goto
  <2>2. Recv[p] = "running" /\ Recv' = Recv
    BY <1>1, <2>1 DEF Recv, TypeOK, Prepare, Reached, Terminal
  <2>3. Dir' = [Dir EXCEPT ![1] = Nil]
    <3>1. 1 \in Names /\ final'[1] = Nil /\ \A n \in Names : n # 1 => final'[n] = final[n]
      BY <1>1, <2>1 DEF TypeOK, Names
    <3>2. Shown(1)' = Nil
      BY <3>1 DEF Shown
    <3>3. \A n \in Names : n # 1 => Shown(n)' = Shown(n)
      BY <2>1, <3>1, ShownSame
    <3> QED BY <3>1, <3>2, <3>3 DEF Dir
  <2>4. name[p] = 1
    BY <1>1, <2>1 DEF Named, Asking
  <2> QED BY <2>1, <2>2, <2>3, <2>4, PromiseSteps
<1>6. CASE ChooseRename(p)
  <2>1. PICK n \in Names : Available(n) /\ name' = [name EXCEPT ![p] = n]
    BY <1>6 DEF ChooseRename
  <2>2. /\ pc[p] = "prompt" /\ pc' = [pc EXCEPT ![p] = Prepare(p)]
        /\ UNCHANGED <<want, final, ino>> /\ final[n] = Nil
    BY <1>6, <2>1 DEF ChooseRename, Goto, Available, dirVars
  <2>3. Recv[p] = "running" /\ Recv' = Recv
    BY <1>1, <2>2 DEF Recv, TypeOK, Prepare, Reached, Terminal
  <2>4. Dir' = Dir /\ Dir[n] = Nil
    <3>1. \A m \in Names : Shown(m)' = Shown(m)
      BY <2>2, ShownSame
    <3> QED BY <1>2, <1>3, <2>2, <3>1 DEF Dir
  <2> QED BY <2>1, <2>2, <2>3, <2>4, PromiseSteps
<1>7. CASE Published(p)
  <2>1. /\ pc[p] = "rename" /\ pc' = [pc EXCEPT ![p] = "unlock"] /\ UNCHANGED <<want, name, ino>>
        /\ stage[name[p]] # Nil /\ final' = [final EXCEPT ![name[p]] = stage[name[p]]]
    BY <1>7 DEF Published
  <2>2. name[p] \in Names /\ want[p] \in Versions /\ final[name[p]] = Nil
    BY <1>1, <2>1 DEF TypeOK, FreeName, Owning
  <2>3. Holds(ino[stage[name[p]]], want[p])
    BY <1>1, <2>1 DEF Staged
  <2>4. Recv[p] = "running" /\ Recv' = [Recv EXCEPT ![p] = "delivered"]
    BY <1>1, <2>1 DEF Recv, TypeOK, Reached, Terminal
  <2>5. /\ final'[name[p]] = stage[name[p]]
        /\ \A n \in Names : n # name[p] => final'[n] = final[n]
    BY <1>1, <2>1, <2>2 DEF TypeOK
  <2>6. Shown(name[p])' = want[p]
    <3>1. /\ final'[name'[p]] # Nil /\ Holds(ino'[final'[name'[p]]], want[p])
      BY <2>1, <2>3, <2>5
    <3>2. \A v \in Versions : Holds(ino'[final'[name'[p]]], v) => v = want[p]
      BY <2>2, <3>1, OneVersion
    <3> QED BY <2>2, <3>1, <3>2 DEF Shown
  <2>7. \A n \in Names : n # name[p] => Shown(n)' = Shown(n)
    BY <2>1, <2>5, ShownSame
  <2>8. Dir' = [Dir EXCEPT ![name[p]] = want[p]]
    BY <2>1, <2>2, <2>6, <2>7 DEF Dir
  <2>9. Dir[name[p]] = Nil
    BY <1>2, <1>3, <2>2
  <2> QED BY <2>1, <2>4, <2>8, <2>9, PromiseSteps
<1> QED BY <1>4, <1>5, <1>6, <1>7, StepKinds DEF DInv

(* A step of a sender: it is told of success only by a receiver that is    *)
(* done.                                                                   *)
LEMMA SenderRefines ==
    ASSUME TInv(TRUE), NEW p \in Procs, spc[p] \notin SenderEnd, UNCHANGED vars,
           NEW l \in SenderStages, spc' = [spc EXCEPT ![p] = l], l = "success" => pc[p] = "done"
    PROVE  \/ UNCHANGED <<want, name, Dir, Recv, Send>>
           \/ Promise!Confirm(p) \/ Promise!GiveUp(p)
<1>1. UNCHANGED <<want, name, Dir, Recv>>
  BY DEF vars, procVars, dirVars, Dir, Shown, Holds, Recv
<1>2. spc \in [Procs -> SenderStages]
  BY StreamTypes DEF TInv
<1>3. Send[p] = "running"
  BY DEF Send
<1>4. CASE l \notin SenderEnd
  <2>1. Send' = Send
    BY <1>2, <1>4 DEF Send
  <2> QED BY <1>1, <2>1
<1>5. CASE l \in SenderEnd
  <2>1. Send' = [Send EXCEPT ![p] = l]
    BY <1>2, <1>5 DEF Send
  <2>2. CASE l = "success"
    <3>1. Recv[p] = "delivered"
      BY <2>2, RecvIs DEF Reached
    <3> QED BY <1>1, <1>3, <2>1, <2>2, <3>1, PromiseSteps
  <2>3. CASE l \in {"aborted", "failed"}
    BY <1>1, <1>3, <2>1, <2>3, PromiseSteps
  <2> QED BY <1>5, <2>2, <2>3 DEF SenderEnd
<1> QED BY <1>4, <1>5

(* Each step of a session is a step of Delivery or a stutter.              *)
LEMMA Delivers ==
    ASSUME OneEmpty, TInv(TRUE), DInv, [TransferNext]_allVars
    PROVE  [Promise!Next]_(Promise!dvars)
<1>1. SUFFICES \/ UNCHANGED <<want, name, Dir, Recv, Send>>
               \/ \E p \in Procs : Promise!Overwrite(p) \/ Promise!Rename(p) \/ Promise!Publish(p)
                                   \/ Promise!End(p) \/ Promise!Confirm(p) \/ Promise!GiveUp(p)
  <2>1. UNCHANGED <<want, name, Dir, Recv, Send>> => UNCHANGED Promise!dvars
    BY DEF Promise!dvars, Dir, Recv, Send
  <2>2. (\E p \in Procs : Promise!Overwrite(p) \/ Promise!Rename(p) \/ Promise!Publish(p)
                          \/ Promise!End(p) \/ Promise!Confirm(p) \/ Promise!GiveUp(p))
        => Promise!Next
    BY DEF Promise!Next
  <2> QED BY <1>1, <2>1, <2>2
<1>0. TypeOK
  BY DEF DInv, SInv, IInv, Inv
<1>2. UNCHANGED <<vars, spc>> => UNCHANGED <<want, name, Dir, Recv, Send>>
  BY DEF vars, procVars, dirVars, Dir, Shown, Holds, Recv, Send
<1>3. UNCHANGED spc => UNCHANGED Send
  BY DEF Send
<1> DEFINE Same == UNCHANGED <<want, name, Dir, Recv, Send>>
           Kind(p) == Promise!Overwrite(p) \/ Promise!Rename(p) \/ Promise!Publish(p)
                      \/ Promise!End(p) \/ Promise!Confirm(p) \/ Promise!GiveUp(p)
<1>4. ASSUME NEW p \in Procs, Step(p), UNCHANGED spc PROVE Same \/ Kind(p)
  BY <1>3, <1>4, ReceiverRefines
<1>5. ASSUME NEW p \in Procs, Sender(p) \/ SenderFault(p) PROVE Same \/ Kind(p)
  <2>1. UNCHANGED vars
    BY <1>5 DEF Sender, SendHeader, RecvGo, RecvAbort, SendChunk, ReadFails, FinishData,
                RecvAck, SenderError, SenderFault
  <2>2. CASE SendChunk(p)
    BY <1>2, <2>1, <2>2 DEF SendChunk
  <2>3. CASE ~SendChunk(p)
    <3>1. spc[p] \notin SenderEnd
      BY <1>5, <2>3 DEF Sender, SendHeader, RecvGo, RecvAbort, ReadFails, FinishData,
                        RecvAck, SenderError, SenderFault, SenderEnd
    <3>2. CASE RecvAck(p)
      <4>1. /\ spc' = [spc EXCEPT ![p] = "success"] /\ r2s[p] # <<>> /\ Head(r2s[p]).t = "ack"
        BY <3>2 DEF RecvAck, SenderAt, Arrives
      <4>2. 1 \in 1..Len(r2s[p]) /\ Head(r2s[p]) = r2s[p][1]
        BY <4>1, SessionTypes
      <4>3. pc[p] = "done"
        BY <4>1, <4>2, SessionTypes DEF Acked
      <4>4. "success" \in SenderStages
        BY DEF SenderStages, SenderEnd
      <4> QED BY <2>1, <3>1, <4>1, <4>3, <4>4, SenderRefines
    <3>3. CASE ~RecvAck(p)
      <4>1. \E l \in {"await", "data", "failed", "aborted", "ackwait"} : spc' = [spc EXCEPT ![p] = l]
        BY <1>5, <2>3, <3>3 DEF Sender, SendHeader, RecvGo, RecvAbort, ReadFails, FinishData,
                        SenderError, SenderFault, SenderAt
      <4>2. PICK l \in SenderStages : l # "success" /\ spc' = [spc EXCEPT ![p] = l]
        BY <4>1 DEF SenderStages, SenderEnd
      <4> QED BY <2>1, <3>1, <4>2, SenderRefines
    <3> QED BY <3>2, <3>3
  <2> QED BY <2>2, <2>3
<1>6. ASSUME NEW p \in Procs, Receiver(p) PROVE Same \/ Kind(p)
  <2>1. UNCHANGED spc
    BY <1>6 DEF Receiver, Begin, AskForData, Receive, Acknowledge, StreamError, Local, sendVars
  <2>2. Step(p)
    BY <1>6, <1>0, ReceiverStore, ExactStep
  <2> QED BY <1>4, <2>1, <2>2
<1>7. ASSUME NEW p \in Procs, Disturbance(p) PROVE Same \/ Kind(p)
  <2>1. CASE SenderFault(p)
    BY <1>5, <2>1
  <2>2. CASE ~SenderFault(p)
    <3>1. UNCHANGED spc
      BY <1>7, <2>2 DEF Disturbance, Decline, ReceiverFault, LinkLost, Disconnect, EditSource,
                        sendVars
    <3>2. Step(p) \/ UNCHANGED vars
      BY <1>7, <1>0, DisturbanceStore, ExactStep
    <3> QED BY <1>2, <1>4, <3>1, <3>2
  <2> QED BY <2>1, <2>2
<1>8. ASSUME NEW p \in Procs, PeerGone(p) PROVE Same
  BY <1>2, <1>8 DEF PeerGone, Disconnect, sendVars
<1>9. AllOver \/ UNCHANGED allVars => Same
  BY <1>2 DEF AllOver, allVars, sendVars
<1> HIDE DEF Same, Kind
<1>10. Same \/ \E p \in Procs : Kind(p)
  BY <1>5, <1>6, <1>7, <1>8, <1>9 DEF TransferNext
<1> QED BY <1>10 DEF Same, Kind

(* The initial states map to initial states.                               *)
LEMMA DeliveryInit ==
    ASSUME OneEmpty, TransferInit PROVE Promise!Init
<1>1. PICK old \in BOOLEAN, v \in Versions :
        /\ final = [n \in Names |-> IF n = 1 /\ old THEN Old ELSE Nil]
        /\ ino = [i \in Inodes |-> IF i = Old THEN WholeFile(v) ELSE EmptyFile]
  BY DEF TransferInit, Init
<1>2. Old # Nil /\ Old \in Inodes
  BY InodeFacts
<1>3. Holds(ino[Old], v)
  BY <1>1, <1>2 DEF Holds, WholeFile, Units
<1>4. 1 \in Names
  BY DEF Names
<1>5. \A n \in Names : Shown(n) = IF n = 1 /\ old THEN v ELSE Nil
  BY <1>1, <1>2, <1>3, ShownVersion DEF Shown
<1>6. \E w \in Versions \cup {Nil} : Dir = [n \in Names |-> IF n = 1 THEN w ELSE Nil]
  BY <1>5 DEF Dir
<1>7. Recv = [p \in Procs |-> "running"] /\ Send = [p \in Procs |-> "running"]
  BY DEF TransferInit, Init, Recv, Send, Reached, Terminal, SenderEnd
<1>8. want \in [Procs -> Versions] /\ name = [p \in Procs |-> 1]
  BY DEF TransferInit, Init
<1>9. Promise!Init <=> /\ want \in [Procs -> Versions] /\ name = [p \in Procs |-> 1]
                       /\ \E w \in Versions \cup {Nil} : Dir = [n \in Names |-> IF n = 1 THEN w ELSE Nil]
                       /\ Recv = [p \in Procs |-> "running"] /\ Send = [p \in Procs |-> "running"]
  BY DEF Promise!Init, Dir, Recv, Send
<1> QED BY <1>6, <1>7, <1>8, <1>9

(* Sessions that take turns keep the promise of Delivery: a file appears   *)
(* whole, in a free place, at most once per session, the sender is told of *)
(* success only after that, and only the user's answer removes a file.     *)
THEOREM SessionsDeliver ==
    ~Concurrent /\ OneEmpty => (TransferSpec => KeepsPromise)
<1> SUFFICES ASSUME ~Concurrent, OneEmpty PROVE TransferSpec => KeepsPromise
  OBVIOUS
<1>1. TransferInit => Promise!Init
  BY DeliveryInit
<1>2. Undisturbed /\ [TransferNext]_allVars => [edits' = 0 => Promise!Next]_(Promise!dvars)
  <2> SUFFICES ASSUME Undisturbed, [TransferNext]_allVars, edits' = 0
               PROVE  [Promise!Next]_(Promise!dvars)
    OBVIOUS
  <2>1. TransferTypeOK
    BY DEF Undisturbed, TransferInv, TInv
  <2>2. edits = 0
    <3>1. edits \in Nat
      BY <2>1 DEF TransferTypeOK
    <3> QED BY <2>1, <3>1, EditsCount
  <2> QED BY <2>2, Delivers DEF Undisturbed, TransferInv
<1> QED BY SerialSessions, <1>1, <1>2, PTL DEF TransferSpec, KeepsPromise

(* What a receiver acknowledges is as long as the header announced, also   *)
(* when the file changed while it was sent.                                *)
THEOREM AcksCount == ~Concurrent => (TransferSpec => []AckCountsBytes)
<1> SUFFICES ASSUME ~Concurrent PROVE TransferSpec => []AckCountsBytes
  OBVIOUS
<1>1. CInv(FALSE) => AckCountsBytes
  BY DEF CInv, DeliveredAs, AckCountsBytes, Whole
<1> QED BY CountingSessions, <1>1, PTL
=============================================================================
