---------------------------- MODULE ResumeStore ----------------------------
(***************************************************************************)
(* The receiving side of a transfer and the directory it writes to:        *)
(* src/core/resume.rs and the receiver half of src/core/transfer.rs.       *)
(*                                                                         *)
(* A process is one run of run_receiver_transfer that has read the file    *)
(* header.  All processes receive a file of the same name into the same    *)
(* directory, so they meet at three paths per candidate name n: the final  *)
(* file, the temp file kept for resume, and the staging file that          *)
(* finalize_resume_file renames.  A path holds an inode or nothing; a      *)
(* process keeps a handle on an inode whatever happens to its path, and    *)
(* the lock (File::try_lock) is on the inode.  Each action is one system   *)
(* call, so processes interleave, and stop, between any two of them.       *)
(*                                                                         *)
(* A version stands for the content a sender offers; it determines the     *)
(* checksum and the size in the header (collisions are excluded).  Content *)
(* is counted in units: unit u of version v is the block <<v, u>>, and a   *)
(* chunk is ChunkLen units, fewer at the end.                              *)
(***************************************************************************)
EXTENDS Integers, FiniteSets

CONSTANTS
    Procs,       \* the receiver runs
    Versions,    \* the contents senders offer under the file name
    Size,        \* Size[v]: units of version v
    MaxSize,     \* bound on every size
    ChunkLen,    \* units per chunk (CHUNK_SIZE)
    MetaEvery,   \* a header update every MetaEvery chunks (100 in the code)
    MaxName,     \* candidate names 1..MaxName; 1 is the name in the header
    Concurrent,  \* may two receivers run at the same time?
    Nil, Hole

ASSUME VersionAssumption ==
    /\ MaxSize \in Nat
    /\ Size \in [Versions -> 0..MaxSize]
    /\ Nil \notin Versions
ASSUME ChunkAssumption == ChunkLen \in Nat \ {0} /\ MetaEvery \in Nat \ {0}
ASSUME NameAssumption == MaxName \in Nat \ {0}
ASSUME ModeAssumption == Concurrent \in BOOLEAN

Names == 1..MaxName
Units == 0..(MaxSize - 1)
Blocks == Versions \X Units
ASSUME HoleAssumption == Hole \notin Blocks

(* Inodes: a process creates at most one temp and one staging file; Old is *)
(* a final file that was there before.                                     *)
TempOf(p) == <<p, "temp">>
StageOf(p) == <<p, "stage">>
Old == StageOf(Nil)
TempInodes == {TempOf(p) : p \in Procs}
StageInodes == {StageOf(p) : p \in Procs} \cup {Old}
Inodes == TempInodes \cup StageInodes
ASSUME NilAssumption == Nil \notin Procs /\ Nil \notin Inodes

(* The resume header: bytes_received and the checksum and size it is for.  *)
(* A file too short or not parsable as a header reads as NoHeader.         *)
Header == [sum: Versions \cup {Nil}, n: 0..MaxSize]
NoHeader == [sum |-> Nil, n |-> 0]
File == [hdr: Header, len: 0..MaxSize, data: [Units -> Blocks \cup {Hole}]]
EmptyFile == [hdr |-> NoHeader, len |-> 0, data |-> [u \in Units |-> Hole]]

VARIABLES
    pc,      \* where each process is
    want,    \* the version its header announced
    nores,   \* --no-resume
    name,    \* the candidate name chosen for the final file
    fd,      \* handle on the temp file
    sfd,     \* handle on the staging file
    got,     \* FileReceiver.bytes_received, also the write position
    cp,      \* units copied to the staging file
    sig,     \* the Ctrl+C handler
    temp, stage, final,   \* what each path holds
    ino,     \* the files
    lock     \* who holds the exclusive lock of a file

procVars == <<pc, want, nores, name, fd, sfd, got, cp, sig>>
dirVars == <<temp, stage, final>>
vars == <<procVars, dirVars, ino, lock>>

Terminal == {"done", "failed", "cancelled", "interrupted", "crashed"}
Stages == {"start", "prompt", "open", "lockres", "read", "discard", "create",
           "locktrunc", "createnew", "locknew", "writehdr", "control",
           "receive", "update", "stage", "copy", "rename", "unlock",
           "remove", "ack"} \cup Terminal
Live(p) == pc[p] \notin Terminal \cup {"start"}

Smaller(a, b) == IF a < b THEN a ELSE b
Larger(a, b) == IF a > b THEN a ELSE b

(* A file that is version v and nothing else, as published.                *)
Holds(f, v) == f.len = Size[v] /\ \A u \in 0..(Size[v] - 1) : f.data[u] = <<v, u>>
WholeFile(v) == [hdr |-> NoHeader, len |-> Size[v],
                 data |-> [u \in Units |-> IF u < Size[v] THEN <<v, u>> ELSE Hole]]

(* run of units: c.n units of version c.v from unit c.from on.  Written at *)
(* position at, past the end of the file it leaves a hole.                 *)
Written(f, at, c) ==
    [f EXCEPT !.len = Larger(f.len, at + c.n),
              !.data = [u \in Units |-> IF at <= u /\ u < at + c.n
                                        THEN <<c.v, c.from + (u - at)>>
                                        ELSE f.data[u]]]

(* Units at..to-1 of file g copied to the same place in f.                 *)
Copied(f, g, at, to) ==
    [f EXCEPT !.len = Larger(f.len, to),
              !.data = [u \in Units |-> IF at <= u /\ u < to THEN g.data[u]
                                                             ELSE f.data[u]]]
------------------------------------------------------------------------------
Init ==
    /\ pc = [p \in Procs |-> "start"]
    /\ want \in [Procs -> Versions]
    /\ nores \in [Procs -> BOOLEAN]
    /\ name = [p \in Procs |-> 1]
    /\ fd = [p \in Procs |-> Nil]
    /\ sfd = [p \in Procs |-> Nil]
    /\ got = [p \in Procs |-> 0]
    /\ cp = [p \in Procs |-> 0]
    /\ sig = [p \in Procs |-> "off"]
    /\ temp = [n \in Names |-> Nil]
    /\ stage = [n \in Names |-> Nil]
    /\ \E old \in BOOLEAN, v \in Versions :
        /\ final = [n \in Names |-> IF n = 1 /\ old THEN Old ELSE Nil]
        /\ ino = [i \in Inodes |-> IF i = Old THEN WholeFile(v) ELSE EmptyFile]
    /\ lock = [i \in Inodes |-> Nil]

Goto(p, l) == pc' = [pc EXCEPT ![p] = l]

(* Dropping the handle on the temp file releases the lock that is held     *)
(* through it.                                                             *)
Released(p) == [i \in Inodes |-> IF lock[i] = p THEN Nil ELSE lock[i]]

(* The process returns, or dies: its handles close, its memory is gone.    *)
Exit(p, how) ==
    /\ Goto(p, how)
    /\ fd' = [fd EXCEPT ![p] = Nil]
    /\ sfd' = [sfd EXCEPT ![p] = Nil]
    /\ got' = [got EXCEPT ![p] = 0]
    /\ cp' = [cp EXCEPT ![p] = 0]
    /\ sig' = [sig EXCEPT ![p] = "off"]
    /\ lock' = Released(p)
    /\ UNCHANGED <<want, nores, name>>
------------------------------------------------------------------------------
(* run_receiver_transfer up to the name of the final file                  *)

Prepare(p) == IF nores[p] THEN "create" ELSE "open"

(* Mutant: nobody is asked about the file that is there.                   *)
NeverAsk(p) ==
    /\ pc[p] = "start"
    /\ Concurrent \/ \A q \in Procs : ~Live(q)
    /\ Goto(p, Prepare(p))
    /\ UNCHANGED <<want, nores, name, fd, sfd, got, cp, sig, dirVars, ino, lock>>

(* The header has arrived: does the file exist already?                    *)
Start(p) ==
    /\ pc[p] = "start"
    /\ Concurrent \/ \A q \in Procs : ~Live(q)
    /\ Goto(p, IF final[1] # Nil THEN "prompt" ELSE Prepare(p))
    /\ UNCHANGED <<want, nores, name, fd, sfd, got, cp, sig, dirVars, ino, lock>>

(* The user answers; a file removed since the check is not an error.       *)
ChooseOverwrite(p) ==
    /\ pc[p] = "prompt"
    /\ final' = [final EXCEPT ![1] = Nil]
    /\ Goto(p, Prepare(p))
    /\ UNCHANGED <<want, nores, name, fd, sfd, got, cp, sig, temp, stage, ino, lock>>

(* find_available_filename: the first candidate that does not exist.       *)
Available(n) == final[n] = Nil /\ \A m \in 1..(n - 1) : final[m] # Nil

ChooseRename(p) ==
    /\ pc[p] = "prompt"
    /\ \E n \in Names : Available(n) /\ name' = [name EXCEPT ![p] = n]
    /\ Goto(p, Prepare(p))
    /\ UNCHANGED <<want, nores, fd, sfd, got, cp, sig, dirVars, ino, lock>>

ChooseCancel(p) ==
    /\ pc[p] = "prompt"
    /\ Exit(p, "cancelled")
    /\ UNCHANGED <<dirVars, ino>>
------------------------------------------------------------------------------
(* check_resume and read_resume_metadata                                   *)

OpenForResume(p) ==
    /\ pc[p] = "open"
    /\ fd' = [fd EXCEPT ![p] = temp[name[p]]]
    /\ Goto(p, IF temp[name[p]] = Nil THEN "create" ELSE "lockres")
    /\ UNCHANGED <<want, nores, name, sfd, got, cp, sig, dirVars, ino, lock>>

(* Mutant: the lock is taken without looking whether it is held.           *)
TakeLock(p) == lock' = [lock EXCEPT ![fd[p]] = p]

LockFd(p) == lock[fd[p]] = Nil /\ lock' = [lock EXCEPT ![fd[p]] = p]

(* "Another transfer is in progress for this file"                         *)
LockHeld(p) ==
    /\ pc[p] \in {"lockres", "locktrunc", "locknew"}
    /\ lock[fd[p]] # Nil
    /\ Exit(p, "failed")
    /\ UNCHANGED <<dirVars, ino>>

LockForResume(p) ==
    /\ pc[p] = "lockres"
    /\ LockFd(p)
    /\ Goto(p, "read")
    /\ UNCHANGED <<want, nores, name, fd, sfd, got, cp, sig, dirVars, ino>>

(* Mutant: any header will do, the checksum is not compared.               *)
AnyHeader(p) == ino[fd[p]].hdr.sum # Nil

(* The header is for the file the sender offers.                           *)
SameFile(p) == ino[fd[p]].hdr.sum = want[p]

(* A header that claims more than the file holds is rewritten first.       *)
Corrected(f) == [f EXCEPT !.hdr.n = Smaller(f.hdr.n, f.len)]

ReadHeader(p) ==
    /\ pc[p] = "read"
    /\ ino' = [ino EXCEPT ![fd[p]] = Corrected(ino[fd[p]])]
    /\ IF SameFile(p)
       THEN /\ got' = [got EXCEPT ![p] = ino'[fd[p]].hdr.n]
            /\ sig' = [sig EXCEPT ![p] = "armed"]
            /\ Goto(p, "control")
            /\ UNCHANGED <<fd, lock>>
       ELSE /\ fd' = [fd EXCEPT ![p] = Nil]
            /\ lock' = Released(p)
            /\ Goto(p, "discard")
            /\ UNCHANGED <<got, sig>>
    /\ UNCHANGED <<want, nores, name, sfd, cp, dirVars>>

(* The handle is closed before the path is unlinked, and a failure to      *)
(* unlink is ignored.                                                      *)
DiscardStale(p) ==
    /\ pc[p] = "discard"
    /\ temp' = [temp EXCEPT ![name[p]] = Nil]
    /\ Goto(p, "create")
    /\ UNCHANGED <<want, nores, name, fd, sfd, got, cp, sig, stage, final, ino, lock>>
------------------------------------------------------------------------------
(* create_resume_file                                                      *)

(* Mutant: a temp file that is there is not opened, create_new decides.    *)
AlwaysNew(p) ==
    /\ pc[p] = "create"
    /\ Goto(p, "createnew")
    /\ UNCHANGED <<want, nores, name, fd, sfd, got, cp, sig, dirVars, ino, lock>>

OpenForCreate(p) ==
    /\ pc[p] = "create"
    /\ fd' = [fd EXCEPT ![p] = temp[name[p]]]
    /\ Goto(p, IF temp[name[p]] = Nil THEN "createnew" ELSE "locktrunc")
    /\ UNCHANGED <<want, nores, name, sfd, got, cp, sig, dirVars, ino, lock>>

LockAndTruncate(p) ==
    /\ pc[p] = "locktrunc"
    /\ LockFd(p)
    /\ ino' = [ino EXCEPT ![fd[p]] = EmptyFile]
    /\ Goto(p, "writehdr")
    /\ UNCHANGED <<want, nores, name, fd, sfd, got, cp, sig, dirVars>>

(* create_new fails when the path exists.                                  *)
CreateNew(p) ==
    /\ pc[p] = "createnew"
    /\ \/ /\ temp[name[p]] = Nil
          /\ temp' = [temp EXCEPT ![name[p]] = TempOf(p)]
          /\ fd' = [fd EXCEPT ![p] = TempOf(p)]
          /\ Goto(p, "locknew")
          /\ UNCHANGED <<want, nores, name, sfd, got, cp, sig, lock>>
       \/ /\ temp[name[p]] # Nil
          /\ Exit(p, "failed")
          /\ UNCHANGED temp
    /\ UNCHANGED <<stage, final, ino>>

LockNew(p) ==
    /\ pc[p] = "locknew"
    /\ LockFd(p)
    /\ Goto(p, "writehdr")
    /\ UNCHANGED <<want, nores, name, fd, sfd, got, cp, sig, dirVars, ino>>

(* The header goes in, prepare_file_receiver returns, and the Ctrl+C       *)
(* handler is set up.                                                      *)
WriteHeader(p) ==
    /\ pc[p] = "writehdr"
    /\ ino' = [ino EXCEPT ![fd[p]].hdr = [sum |-> want[p], n |-> 0]]
    /\ sig' = [sig EXCEPT ![p] = "armed"]
    /\ Goto(p, "control")
    /\ UNCHANGED <<want, nores, name, fd, sfd, got, cp, dirVars, lock>>
------------------------------------------------------------------------------
(* The control signal and receive_file_data                                *)

SendControl(p) ==
    /\ pc[p] = "control"
    /\ Goto(p, "receive")
    /\ UNCHANGED <<want, nores, name, fd, sfd, got, cp, sig, dirVars, ino, lock>>

(* Mutant: the last chunk is as long as the others.                        *)
FullChunk(p) == ChunkLen

ChunkAt(p) == Smaller(ChunkLen, Size[want[p]] - got[p])

(* What an honest sender that started at the resume offset sends next.     *)
NextChunk(p) == [v |-> want[p], from |-> got[p], n |-> ChunkAt(p)]

(* chunk_num, counted from the resume offset, after the chunk at got.      *)
HeaderDue(p) == ((got[p] \div ChunkLen) + 2) % MetaEvery = 0

ReceiveChunk(p, c) ==
    /\ pc[p] = "receive"
    /\ got[p] < Size[want[p]]
    /\ ino' = [ino EXCEPT ![fd[p]] = Written(@, got[p], c)]
    /\ got' = [got EXCEPT ![p] = @ + c.n]
    /\ Goto(p, IF HeaderDue(p) THEN "update" ELSE "receive")
    /\ UNCHANGED <<want, nores, name, fd, sfd, cp, sig, dirVars, lock>>

(* write_all fails after part of the chunk: disk full, or killed midway.   *)
WriteFails(p, c) ==
    /\ pc[p] = "receive"
    /\ got[p] < Size[want[p]]
    /\ \E k \in 0..(c.n - 1) :
        ino' = [ino EXCEPT ![fd[p]] = Written(@, got[p], [c EXCEPT !.n = k])]
    /\ Exit(p, "failed")
    /\ UNCHANGED dirVars

(* Mutant: the header counts the chunk that is still to come.              *)
SaveAhead(p) == ino' = [ino EXCEPT ![fd[p]].hdr =
                           [sum |-> want[p], n |-> Smaller(got[p] + ChunkLen, Size[want[p]])]]

SaveProgress(p) == ino' = [ino EXCEPT ![fd[p]].hdr = [sum |-> want[p], n |-> got[p]]]

UpdateMetadata(p) ==
    /\ pc[p] = "update"
    /\ SaveProgress(p)
    /\ Goto(p, "receive")
    /\ UNCHANGED <<want, nores, name, fd, sfd, got, cp, sig, dirVars, lock>>

(* Mutant: the loop ends one unit early.                                   *)
FinishEarly(p) ==
    /\ pc[p] = "receive"
    /\ got[p] + 1 >= Size[want[p]]
    /\ SaveProgress(p)
    /\ Goto(p, "stage")
    /\ UNCHANGED <<want, nores, name, fd, sfd, got, cp, sig, dirVars, lock>>

FinishReceive(p) ==
    /\ pc[p] = "receive"
    /\ got[p] >= Size[want[p]]
    /\ SaveProgress(p)
    /\ Goto(p, "stage")
    /\ UNCHANGED <<want, nores, name, fd, sfd, got, cp, sig, dirVars, lock>>
------------------------------------------------------------------------------
(* finalize_resume_file and the acknowledgment                             *)

(* Mutant: a staging file left by an earlier run is not truncated.         *)
StageAppend(p) ==
    /\ pc[p] = "stage"
    /\ LET i == IF stage[name[p]] = Nil THEN StageOf(p) ELSE stage[name[p]]
       IN  /\ stage' = [stage EXCEPT ![name[p]] = i]
           /\ sfd' = [sfd EXCEPT ![p] = i]
    /\ Goto(p, "copy")
    /\ UNCHANGED <<want, nores, name, fd, got, cp, sig, temp, final, ino, lock>>

(* File::create truncates a staging file that is there, whoever uses it.   *)
StageCreate(p) ==
    /\ pc[p] = "stage"
    /\ LET i == IF stage[name[p]] = Nil THEN StageOf(p) ELSE stage[name[p]]
       IN  /\ stage' = [stage EXCEPT ![name[p]] = i]
           /\ sfd' = [sfd EXCEPT ![p] = i]
           /\ ino' = [ino EXCEPT ![i] = EmptyFile]
    /\ Goto(p, "copy")
    /\ UNCHANGED <<want, nores, name, fd, got, cp, sig, temp, final, lock>>

CopyChunk(p) ==
    /\ pc[p] = "copy"
    /\ cp[p] < ino[fd[p]].len
    /\ LET to == Smaller(cp[p] + ChunkLen, ino[fd[p]].len)
       IN  /\ ino' = [ino EXCEPT ![sfd[p]] = Copied(@, ino[fd[p]], cp[p], to)]
           /\ cp' = [cp EXCEPT ![p] = to]
    /\ UNCHANGED <<pc, want, nores, name, fd, sfd, got, sig, dirVars, lock>>

(* Synced and closed.                                                      *)
CopyDone(p) ==
    /\ pc[p] = "copy"
    /\ cp[p] >= ino[fd[p]].len
    /\ sfd' = [sfd EXCEPT ![p] = Nil]
    /\ Goto(p, "rename")
    /\ UNCHANGED <<want, nores, name, fd, got, cp, sig, dirVars, ino, lock>>

(* An error while staging removes the staging file.                        *)
StageFails(p) ==
    /\ pc[p] \in {"stage", "copy"}
    /\ stage' = [stage EXCEPT ![name[p]] = Nil]
    /\ Exit(p, "failed")
    /\ UNCHANGED <<temp, final, ino>>

RenameStage(p) ==
    /\ pc[p] = "rename"
    /\ \/ /\ stage[name[p]] # Nil
          /\ final' = [final EXCEPT ![name[p]] = stage[name[p]]]
          /\ stage' = [stage EXCEPT ![name[p]] = Nil]
          /\ Goto(p, "unlock")
          /\ UNCHANGED <<want, nores, name, fd, sfd, got, cp, sig, lock>>
       \/ /\ stage[name[p]] = Nil
          /\ Exit(p, "failed")
          /\ UNCHANGED <<final, stage>>
    /\ UNCHANGED <<temp, ino>>

(* drop(temp_file), then remove_file(temp_path).                           *)
DropTemp(p) ==
    /\ pc[p] = "unlock"
    /\ fd' = [fd EXCEPT ![p] = Nil]
    /\ lock' = Released(p)
    /\ Goto(p, "remove")
    /\ UNCHANGED <<want, nores, name, sfd, got, cp, sig, dirVars, ino>>

RemoveTemp(p) ==
    /\ pc[p] = "remove"
    /\ \/ /\ temp[name[p]] # Nil
          /\ temp' = [temp EXCEPT ![name[p]] = Nil]
          /\ Goto(p, "ack")
          /\ UNCHANGED <<want, nores, name, fd, sfd, got, cp, sig, lock>>
       \/ /\ temp[name[p]] = Nil
          /\ Exit(p, "failed")
          /\ UNCHANGED temp
    /\ UNCHANGED <<stage, final, ino>>

SendAck(p) ==
    /\ pc[p] = "ack"
    /\ Exit(p, "done")
    /\ UNCHANGED <<dirVars, ino>>
------------------------------------------------------------------------------
(* Errors, Ctrl+C and crashes                                              *)

(* The stream or a system call fails and ? returns: every step but the     *)
(* ones whose failure has its own handling.                                *)
Fails(p) ==
    /\ Live(p)
    /\ pc[p] \notin {"discard", "stage", "copy", "unlock"}
    /\ Exit(p, "failed")
    /\ UNCHANGED <<dirVars, ino>>

(* Mutant: the temp file goes on Ctrl+C whether it is resumable or not.    *)
CtrlCDeletes(p) ==
    /\ Live(p)
    /\ sig[p] = "armed"
    /\ sig' = [sig EXCEPT ![p] = "fired"]
    /\ temp' = [temp EXCEPT ![name[p]] = Nil]
    /\ UNCHANGED <<pc, want, nores, name, fd, sfd, got, cp, stage, final, ino, lock>>

(* The handler task: it stays armed until the process ends, and without    *)
(* resume it unlinks the temp path.                                        *)
CtrlC(p) ==
    /\ Live(p)
    /\ sig[p] = "armed"
    /\ sig' = [sig EXCEPT ![p] = "fired"]
    /\ temp' = IF nores[p] THEN [temp EXCEPT ![name[p]] = Nil] ELSE temp
    /\ UNCHANGED <<pc, want, nores, name, fd, sfd, got, cp, stage, final, ino, lock>>

(* Only the select! around receive_file_data listens to it.                *)
Interrupted(p) ==
    /\ pc[p] = "receive"
    /\ sig[p] = "fired"
    /\ Exit(p, "interrupted")
    /\ UNCHANGED <<dirVars, ino>>

Crash(p) ==
    /\ Live(p)
    /\ Exit(p, "crashed")
    /\ UNCHANGED <<dirVars, ino>>
------------------------------------------------------------------------------
Decide(p) == Start(p) \/ ChooseOverwrite(p) \/ ChooseRename(p) \/ ChooseCancel(p)
CheckResume(p) == OpenForResume(p) \/ LockForResume(p) \/ ReadHeader(p) \/ DiscardStale(p)
CreateTemp(p) == OpenForCreate(p) \/ LockAndTruncate(p) \/ CreateNew(p) \/ LockNew(p)
                 \/ WriteHeader(p)
Finalize(p) == StageCreate(p) \/ CopyChunk(p) \/ CopyDone(p) \/ RenameStage(p)
               \/ DropTemp(p) \/ RemoveTemp(p)
Stop(p) == LockHeld(p) \/ StageFails(p) \/ Fails(p) \/ CtrlC(p) \/ Interrupted(p) \/ Crash(p)

Step(p) ==
    \/ Decide(p) \/ CheckResume(p) \/ CreateTemp(p)
    \/ SendControl(p)
    \/ ReceiveChunk(p, NextChunk(p)) \/ WriteFails(p, NextChunk(p))
    \/ UpdateMetadata(p) \/ FinishReceive(p)
    \/ Finalize(p) \/ SendAck(p)
    \/ Stop(p)

Finished == (\A p \in Procs : pc[p] \in Terminal) /\ UNCHANGED vars

Next == (\E p \in Procs : Step(p)) \/ Finished

Spec == Init /\ [][Next]_vars
------------------------------------------------------------------------------
(* Type invariant of the directory, the files and the processes.           *)
TypeOK ==
    /\ pc \in [Procs -> Stages]
    /\ want \in [Procs -> Versions]
    /\ nores \in [Procs -> BOOLEAN]
    /\ name \in [Procs -> Names]
    /\ fd \in [Procs -> TempInodes \cup {Nil}]
    /\ sfd \in [Procs -> StageInodes \cup {Nil}]
    /\ got \in [Procs -> 0..MaxSize]
    /\ cp \in [Procs -> 0..MaxSize]
    /\ sig \in [Procs -> {"off", "armed", "fired"}]
    /\ temp \in [Names -> TempInodes \cup {Nil}]
    /\ stage \in [Names -> StageInodes \cup {Nil}]
    /\ final \in [Names -> StageInodes \cup {Nil}]
    /\ ino \in [Inodes -> File]
    /\ lock \in [Inodes -> Procs \cup {Nil}]

(* No two receivers are ever between lock and drop on the same temp file,  *)
(* however their opens, truncations and unlinks interleave: the "Another   *)
(* transfer is in progress" check of resume.rs.                            *)
Holding == {"read", "writehdr", "control", "receive", "update", "stage",
            "copy", "rename", "unlock"}
OneWriter == \A p, q \in Procs :
    p # q /\ pc[p] \in Holding /\ pc[q] \in Holding => fd[p] # fd[q]

(* A resume header never claims what is not there: at every moment, so     *)
(* after any crash, the first n units of a temp file with a valid header   *)
(* are the first n units of the version it names.  This is what makes the  *)
(* offset check_resume returns safe to ask the sender for.                 *)
PartialIsPrefix == \A i \in TempInodes :
    LET h == ino[i].hdr
    IN  /\ h.n <= ino[i].len
        /\ h.sum # Nil => /\ h.n <= Size[h.sum]
                          /\ \A u \in 0..(h.n - 1) : ino[i].data[u] = <<h.sum, u>>

(* What is at a final path is always one whole version, never a prefix or  *)
(* a mixture: the staging file and the rename of finalize_resume_file.     *)
FinalIntact == \A n \in Names :
    final[n] # Nil => \E v \in Versions : Holds(ino[final[n]], v)

(* A receiver that is about to acknowledge has its sender's content at the *)
(* final path, resumed or not, and whatever runs came before it.           *)
DeliveredAtAck == \A p \in Procs :
    pc[p] \in {"unlock", "remove", "ack"} =>
        final[name[p]] # Nil /\ Holds(ino[final[name[p]]], want[p])

(* What finalize_resume_file copies is everything in the temp file, so the *)
(* temp file must hold the wanted version and nothing after it.            *)
TempComplete == \A p \in Procs :
    pc[p] \in {"stage", "copy"} => Holds(ino[fd[p]], want[p])

(* Progress saved in a temp file is given up only by a receiver of that    *)
(* name that runs without resume, receives another version, or has put     *)
(* that version at the final path: no error, crash, interrupt or retry of  *)
(* the same file loses it.                                                 *)
MayDiscard(p, n, v) ==
    /\ Live(p) /\ name[p] = n
    /\ nores[p] \/ want[p] # v \/ (final[n] # Nil /\ Holds(ino[final[n]], v))
Kept(n) == /\ temp'[n] = temp[n]
           /\ ino'[temp[n]].hdr.sum = ino[temp[n]].hdr.sum
           /\ ino'[temp[n]].hdr.n >= ino[temp[n]].hdr.n
ProgressKept == [][\A n \in Names :
    temp[n] # Nil /\ ino[temp[n]].hdr.n > 0 =>
        Kept(n) \/ \E p \in Procs : MayDiscard(p, n, ino[temp[n]].hdr.sum)]_vars

(* ARCHITECTURE.md, File Transfer Handshake: no accidental overwrite       *)
(* without user consent.  A file at a final path goes only when a user     *)
(* answers the prompt; receivers that take turns keep to this, concurrent  *)
(* ones do not.                                                            *)
OverwriteByConsent == [][\A n \in Names :
    final[n] # Nil /\ final'[n] # final[n] =>
        \E p \in Procs : pc[p] = "prompt"]_vars
=============================================================================
