------------------------------ MODULE PowerLoss ------------------------------
(***************************************************************************)
(* ResumeStore on a machine that may lose power.  ResumeStore is what the  *)
(* processes see; dino and the d-directory are what is on the disk, and    *)
(* after an outage that is all there is.  The disk follows on its own      *)
(* (WriteBack...) or when a process waits for it: sync_data and sync_all,  *)
(* in src/core/resume.rs, which a process cannot pass before they are done.*)
(*                                                                         *)
(* Assumed of the file system, as of one with an ordered journal: changes  *)
(* to the directory reach the disk in the order they were made, and so do  *)
(* a truncation and the writes after it; a file's length never counts a    *)
(* unit that is not on the disk.  The header is a block of its own, and    *)
(* may get there before or after the data it counts.                       *)
(***************************************************************************)
EXTENDS ResumeStore, Sequences

CONSTANTS
    Dir,         \* the directory, as a thing to sync
    MaxOutages   \* bound on the times the power fails

ASSUME PowerAssumption == MaxOutages \in Nat /\ Dir \notin Inodes

VARIABLES
    dino, dtemp, dstage, dfinal,   \* the files and the directory on the disk
    cut,     \* the files whose last truncation has not reached the disk
    due,     \* what each process is waiting to see synced, in order
    missed,  \* the receivers that could not sync the directory after the rename
    outages

diskVars == <<dino, dtemp, dstage, dfinal>>
powerVars == <<vars, diskVars, cut, due, missed, outages>>

PowerInit ==
    /\ Init
    /\ dino = ino
    /\ dtemp = temp /\ dstage = stage /\ dfinal = final
    /\ cut = {}
    /\ due = [p \in Procs |-> <<>>]
    /\ missed = {}
    /\ outages = 0
------------------------------------------------------------------------------
(* The processes                                                           *)

SyncThen(p, what) == due' = [due EXCEPT ![p] = what]

(* update_resume_metadata: sync_data.                                      *)
SaveAndSync(p) ==
    /\ UpdateMetadata(p) \/ FinishReceive(p)
    /\ SyncThen(p, <<fd[p]>>)
    /\ UNCHANGED cut

(* Mutant: a header ahead of the file is used as it is.                    *)
TrustHeader(p) ==
    /\ pc[p] = "read"
    /\ SameFile(p)
    /\ got' = [got EXCEPT ![p] = ino[fd[p]].hdr.n]
    /\ sig' = [sig EXCEPT ![p] = "armed"]
    /\ Goto(p, "control")
    /\ UNCHANGED <<want, nores, name, fd, sfd, cp, dirVars, ino, lock, cut, due>>

(* read_resume_metadata: sync_all, when the header had to be corrected.    *)
ReadAndSync(p) ==
    /\ ReadHeader(p)
    /\ SyncThen(p, IF ino' = ino THEN <<>> ELSE <<fd[p]>>)
    /\ UNCHANGED cut

(* Mutant: the directory is synced before the rename, the file is not.     *)
StageUnsynced(p) == CopyDone(p) /\ SyncThen(p, <<Dir>>) /\ UNCHANGED cut

(* Mutant: the directory before the file.                                  *)
StageSwapped(p) == CopyDone(p) /\ SyncThen(p, <<Dir, sfd[p]>>) /\ UNCHANGED cut

(* finalize_resume_file: the staging file, the directory, the rename, and  *)
(* the directory again.                                                    *)
StageAndSync(p) == CopyDone(p) /\ SyncThen(p, <<sfd[p], Dir>>) /\ UNCHANGED cut

(* Mutant: the rename is left to reach the disk in its own time.           *)
RenameUnsynced(p) == RenameStage(p) /\ UNCHANGED <<cut, due>>

RenameAndSync(p) ==
    /\ RenameStage(p)
    /\ SyncThen(p, IF pc'[p] = "unlock" THEN <<Dir>> ELSE <<>>)
    /\ UNCHANGED cut

(* set_len(0), and File::create on a path that has a file.                 *)
Truncate(p) ==
    /\ \/ LockAndTruncate(p) /\ cut' = cut \cup {fd[p]}
       \/ StageCreate(p) /\ cut' = cut \cup ({stage[name[p]]} \ {Nil})
    /\ UNCHANGED due

Unsynced(p) ==
    /\ \/ Decide(p) \/ OpenForResume(p) \/ LockForResume(p) \/ DiscardStale(p)
       \/ OpenForCreate(p) \/ CreateNew(p) \/ LockNew(p) \/ WriteHeader(p)
       \/ SendControl(p) \/ ReceiveChunk(p, NextChunk(p)) \/ WriteFails(p, NextChunk(p))
       \/ CopyChunk(p) \/ DropTemp(p) \/ RemoveTemp(p) \/ SendAck(p)
       \/ LockHeld(p) \/ StageFails(p) \/ Fails(p) \/ Interrupted(p)
    /\ UNCHANGED <<cut, due>>

(* Ctrl+C and kill do not wait for a sync.                                 *)
Signal(p) ==
    /\ \/ CtrlC(p) /\ UNCHANGED due
       \/ Crash(p) /\ SyncThen(p, <<>>)
    /\ UNCHANGED cut

Act(p) ==
    /\ \/ Signal(p)
       \/ /\ due[p] = <<>>
          /\ Unsynced(p) \/ Truncate(p) \/ SaveAndSync(p) \/ ReadAndSync(p)
             \/ StageAndSync(p) \/ RenameAndSync(p)
    /\ UNCHANGED <<diskVars, missed, outages>>
------------------------------------------------------------------------------
(* The disk                                                                *)

DirectoryReaches == dtemp' = temp /\ dstage' = stage /\ dfinal' = final

(* sync_data and sync_all return when everything written is on the disk.   *)
Sync(p) ==
    /\ due[p] # <<>>
    /\ LET i == Head(due[p])
       IN  \/ i = Dir /\ DirectoryReaches /\ UNCHANGED <<dino, cut>>
           \/ /\ i # Dir
              /\ dino' = [dino EXCEPT ![i] = ino[i]]
              /\ cut' = cut \ {i}
              /\ UNCHANGED <<dtemp, dstage, dfinal>>
    /\ due' = [due EXCEPT ![p] = Tail(@)]
    /\ UNCHANGED <<vars, missed, outages>>

(* The directory cannot be opened, or its sync_all fails: finalize goes on *)
(* as if it had been synced.                                               *)
IgnoreSyncError(p) ==
    /\ due[p] # <<>> /\ Head(due[p]) = Dir
    /\ due' = [due EXCEPT ![p] = Tail(@)]
    /\ missed' = IF pc[p] = "rename" THEN missed ELSE missed \cup {p}
    /\ UNCHANGED <<vars, diskVars, cut, outages>>

WriteBackTruncation(i) ==
    /\ i \in cut
    /\ dino' = [dino EXCEPT ![i] = EmptyFile]
    /\ cut' = cut \ {i}
    /\ UNCHANGED <<dtemp, dstage, dfinal>>

WriteBackHeader(i) ==
    /\ i \notin cut
    /\ dino[i].hdr # ino[i].hdr
    /\ dino' = [dino EXCEPT ![i].hdr = ino[i].hdr]
    /\ UNCHANGED <<dtemp, dstage, dfinal, cut>>

(* The next unit.  (A unit received again is the one that is there.)       *)
WriteBackUnit(i) ==
    /\ i \notin cut
    /\ dino[i].len < ino[i].len
    /\ dino' = [dino EXCEPT ![i].data[dino[i].len] = ino[i].data[dino[i].len],
                            ![i].len = @ + 1]
    /\ UNCHANGED <<dtemp, dstage, dfinal, cut>>

WriteBackDir ==
    /\ <<dtemp, dstage, dfinal>> # dirVars
    /\ DirectoryReaches
    /\ UNCHANGED <<dino, cut>>

WriteBack ==
    /\ \/ \E i \in Inodes : WriteBackTruncation(i) \/ WriteBackHeader(i) \/ WriteBackUnit(i)
       \/ WriteBackDir
    /\ UNCHANGED <<vars, due, missed, outages>>

(* A file to which no entry on the disk leads is gone.                     *)
OnDisk == [i \in Inodes |-> IF \E n \in Names : i \in {dtemp[n], dstage[n], dfinal[n]}
                            THEN dino[i] ELSE EmptyFile]

Outage ==
    /\ outages < MaxOutages
    /\ outages' = outages + 1
    /\ pc' = [p \in Procs |-> IF Live(p) THEN "crashed" ELSE pc[p]]
    /\ fd' = [p \in Procs |-> Nil]
    /\ sfd' = [p \in Procs |-> Nil]
    /\ got' = [p \in Procs |-> 0]
    /\ cp' = [p \in Procs |-> 0]
    /\ sig' = [p \in Procs |-> "off"]
    /\ lock' = [i \in Inodes |-> Nil]
    /\ ino' = OnDisk /\ dino' = OnDisk
    /\ temp' = dtemp /\ stage' = dstage /\ final' = dfinal
    /\ cut' = {}
    /\ due' = [p \in Procs |-> <<>>]
    /\ UNCHANGED <<want, nores, name, dtemp, dstage, dfinal, missed>>
------------------------------------------------------------------------------
PowerNext ==
    \/ \E p \in Procs : Act(p) \/ Sync(p) \/ IgnoreSyncError(p)
    \/ WriteBack
    \/ Outage
    \/ Finished /\ UNCHANGED powerVars

PowerSpec == PowerInit /\ [][PowerNext]_powerVars
------------------------------------------------------------------------------
(* Type invariant of the disk; a process waits for at most two syncs, and  *)
(* never for a file it did not have open.                                  *)
PowerTypeOK ==
    /\ dino \in [Inodes -> File]
    /\ dtemp \in [Names -> TempInodes \cup {Nil}]
    /\ dstage \in [Names -> StageInodes \cup {Nil}]
    /\ dfinal \in [Names -> StageInodes \cup {Nil}]
    /\ cut \subseteq Inodes
    /\ due \in [Procs -> {<<>>, <<Dir>>} \cup {<<i>> : i \in Inodes}
                         \cup {<<i, Dir>> : i \in StageInodes}]
    /\ missed \subseteq Procs
    /\ outages \in 0..MaxOutages

(* Whenever the power fails, a final path of the disk has one whole        *)
(* version or nothing: the rename never gets there before the content.     *)
DiskFinalWhole == \A n \in Names :
    dfinal[n] # Nil => \E v \in Versions : Holds(dino[dfinal[n]], v)

(* A receiver that acknowledges, and could sync the directory after the    *)
(* rename, has the file on the disk: no outage takes away what the sender  *)
(* was told has arrived.  (After a later receiver has asked its user the   *)
(* file may be gone.)                                                      *)
DurableAtAck == \A p \in Procs \ missed :
    (\/ pc[p] \in {"unlock", "remove", "ack"} /\ due[p] = <<>>
     \/ pc[p] = "done" /\ \A q \in Procs \ {p} : pc[q] \in {"start", "prompt"})
    => dfinal[name[p]] # Nil /\ Holds(dino[dfinal[name[p]]], want[p])
=============================================================================
