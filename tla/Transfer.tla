------------------------------ MODULE Transfer ------------------------------
(***************************************************************************)
(* Whole sessions: run_sender_transfer and run_receiver_transfer of        *)
(* src/core/transfer.rs joined by an authorized stream, over the directory *)
(* of ResumeStore.  Session p is a sender of its own, a stream in each     *)
(* direction, and receiver p.  A stream (QUIC) delivers in order and       *)
(* without gaps until the connection is lost, and then loses a suffix of   *)
(* what was in flight.                                                     *)
(*                                                                         *)
(* ResumeStore lets chunks come from nowhere: NextChunk is what an honest  *)
(* sender that obeyed the offset would send.  Here they come from the      *)
(* sender, and ImplementsStore says they are the same chunks.              *)
(***************************************************************************)
EXTENDS ResumeStore, Sequences

CONSTANTS
    Window,      \* bound on the messages in flight to the receiver
    MaxFaults,   \* bound on the faults of a behaviour, of all sessions
    MaxEdits     \* bound on the times a file being sent changes

ASSUME TransferAssumption ==
    Window \in Nat \ {0} /\ MaxFaults \in Nat /\ MaxEdits \in Nat

VARIABLES
    spc,     \* where each sender is
    src,     \* the version its file holds now; want is the one it announced
    pos,     \* the read position in that file, and bytes_sent
    s2r, r2s,   \* the streams
    conn,    \* "up" or "lost"
    faults, edits

sendVars == <<spc, src, pos>>
netVars == <<s2r, r2s, conn>>
allVars == <<vars, sendVars, netVars, faults, edits>>

SenderEnd == {"success", "aborted", "failed"}
SenderStages == {"header", "await", "data", "ackwait"} \cup SenderEnd

(* PROCEED is RESUME with offset 0: the sender does the same on both.      *)
Offer == [t |-> "header"]
Go(n) == [t |-> "go", at |-> n]
Abort == [t |-> "abort"]
Ack == [t |-> "ack"]
Chunks == [v : Versions, from : 0..MaxSize, n : 0..MaxSize]
Data(c) == [t |-> "chunk", c |-> c]

TransferInit ==
    /\ Init
    /\ spc = [p \in Procs |-> "header"]
    /\ src = want
    /\ pos = [p \in Procs |-> 0]
    /\ s2r = [p \in Procs |-> <<>>]
    /\ r2s = [p \in Procs |-> <<>>]
    /\ conn = [p \in Procs |-> "up"]
    /\ faults = 0
    /\ edits = 0

ToReceiver(p, m) == conn[p] = "up" /\ s2r' = [s2r EXCEPT ![p] = Append(@, m)]
ToSender(p, m) == conn[p] = "up" /\ r2s' = [r2s EXCEPT ![p] = Append(@, m)]
Arrives(q, p, kind) == q[p] # <<>> /\ Head(q[p]).t = kind
SenderAt(p, l) == spc' = [spc EXCEPT ![p] = l]
------------------------------------------------------------------------------
(* run_sender_transfer                                                     *)

SendHeader(p) ==
    /\ spc[p] = "header"
    /\ ToReceiver(p, Offer)
    /\ SenderAt(p, "await")
    /\ UNCHANGED <<vars, src, pos, r2s, conn, faults, edits>>

(* Mutant: the sender reads from the start whatever offset it is given.    *)
IgnoreOffset(p) ==
    /\ spc[p] = "await"
    /\ Arrives(r2s, p, "go")
    /\ r2s' = [r2s EXCEPT ![p] = Tail(@)]
    /\ SenderAt(p, "data")
    /\ UNCHANGED <<vars, src, pos, s2r, conn, faults, edits>>

(* An offset beyond the file is refused.                                   *)
RecvGo(p) ==
    /\ spc[p] = "await"
    /\ Arrives(r2s, p, "go")
    /\ LET at == Head(r2s[p]).at
       IN  IF at > Size[want[p]]
           THEN SenderAt(p, "failed") /\ UNCHANGED pos
           ELSE SenderAt(p, "data") /\ pos' = [pos EXCEPT ![p] = at]
    /\ r2s' = [r2s EXCEPT ![p] = Tail(@)]
    /\ UNCHANGED <<vars, src, s2r, conn, faults, edits>>

RecvAbort(p) ==
    /\ spc[p] = "await"
    /\ Arrives(r2s, p, "abort")
    /\ r2s' = [r2s EXCEPT ![p] = Tail(@)]
    /\ SenderAt(p, "aborted")
    /\ UNCHANGED <<vars, src, pos, s2r, conn, faults, edits>>

ToRead(p) == Smaller(ChunkLen, Size[want[p]] - pos[p])

(* The length is the one announced; read_exact fails on a file that has    *)
(* become shorter.                                                         *)
SendChunk(p) ==
    /\ spc[p] = "data"
    /\ pos[p] < Size[want[p]]
    /\ pos[p] + ToRead(p) <= Size[src[p]]
    /\ Len(s2r[p]) < Window
    /\ ToReceiver(p, Data([v |-> src[p], from |-> pos[p], n |-> ToRead(p)]))
    /\ pos' = [pos EXCEPT ![p] = @ + ToRead(p)]
    /\ UNCHANGED <<vars, spc, src, r2s, conn, faults, edits>>

ReadFails(p) ==
    /\ spc[p] = "data"
    /\ pos[p] < Size[want[p]]
    /\ pos[p] + ToRead(p) > Size[src[p]]
    /\ SenderAt(p, "failed")
    /\ UNCHANGED <<vars, src, pos, netVars, faults, edits>>

(* Mutant: success is reported once the data is sent.                      *)
SkipAck(p) ==
    /\ spc[p] = "data"
    /\ pos[p] >= Size[want[p]]
    /\ SenderAt(p, "success")
    /\ UNCHANGED <<vars, src, pos, netVars, faults, edits>>

(* Mutant: the loop ends one unit early.                                   *)
StopShort(p) ==
    /\ spc[p] = "data"
    /\ pos[p] + 1 >= Size[want[p]]
    /\ SenderAt(p, "ackwait")
    /\ UNCHANGED <<vars, src, pos, netVars, faults, edits>>

FinishData(p) ==
    /\ spc[p] = "data"
    /\ pos[p] >= Size[want[p]]
    /\ SenderAt(p, "ackwait")
    /\ UNCHANGED <<vars, src, pos, netVars, faults, edits>>

RecvAck(p) ==
    /\ spc[p] = "ackwait"
    /\ Arrives(r2s, p, "ack")
    /\ r2s' = [r2s EXCEPT ![p] = Tail(@)]
    /\ SenderAt(p, "success")
    /\ UNCHANGED <<vars, src, pos, s2r, conn, faults, edits>>

(* A write on a lost connection fails at once, a read when nothing that    *)
(* arrived is left.                                                        *)
SenderError(p) ==
    /\ conn[p] = "lost"
    /\ \/ spc[p] \in {"header", "data"}
       \/ spc[p] \in {"await", "ackwait"} /\ r2s[p] = <<>>
    /\ SenderAt(p, "failed")
    /\ UNCHANGED <<vars, src, pos, netVars, faults, edits>>
------------------------------------------------------------------------------
(* run_receiver_transfer: what it sends and receives                       *)

Begin(p) ==
    /\ Start(p)
    /\ Arrives(s2r, p, "header")
    /\ s2r' = [s2r EXCEPT ![p] = Tail(@)]
    /\ UNCHANGED <<sendVars, r2s, conn, faults, edits>>

AskForData(p) ==
    /\ SendControl(p)
    /\ ToSender(p, Go(got[p]))
    /\ UNCHANGED <<sendVars, s2r, conn, faults, edits>>

Receive(p) ==
    /\ Arrives(s2r, p, "chunk")
    /\ ReceiveChunk(p, Head(s2r[p]).c)
    /\ s2r' = [s2r EXCEPT ![p] = Tail(@)]
    /\ UNCHANGED <<sendVars, r2s, conn, faults, edits>>

Acknowledge(p) ==
    /\ SendAck(p)
    /\ ToSender(p, Ack)
    /\ UNCHANGED <<sendVars, s2r, conn, faults, edits>>

StreamError(p) ==
    /\ conn[p] = "lost"
    /\ pc[p] \in {"control", "ack"} \/ (pc[p] = "receive" /\ s2r[p] = <<>>)
    /\ Fails(p)
    /\ UNCHANGED <<sendVars, netVars, faults, edits>>

Local(p) ==
    /\ \/ ChooseOverwrite(p) \/ ChooseRename(p) \/ CheckResume(p) \/ CreateTemp(p)
       \/ UpdateMetadata(p) \/ FinishReceive(p) \/ Finalize(p)
       \/ LockHeld(p) \/ Interrupted(p)
    /\ UNCHANGED <<sendVars, netVars, faults, edits>>
------------------------------------------------------------------------------
(* Faults                                                                  *)

Fault == faults < MaxFaults /\ faults' = faults + 1

Decline(p) ==
    /\ Fault
    /\ ChooseCancel(p)
    /\ ToSender(p, Abort)
    /\ UNCHANGED <<sendVars, s2r, conn, edits>>

ReceiverFault(p) ==
    /\ Fault
    /\ \/ StageFails(p) \/ Fails(p) \/ CtrlC(p) \/ Crash(p)
       \/ Arrives(s2r, p, "chunk") /\ WriteFails(p, Head(s2r[p]).c)
    /\ UNCHANGED <<sendVars, netVars, edits>>

(* The sender's process dies, or reading its file fails.                   *)
SenderFault(p) ==
    /\ Fault
    /\ spc[p] \notin SenderEnd
    /\ SenderAt(p, "failed")
    /\ UNCHANGED <<vars, src, pos, netVars, edits>>

Cut(q, p) == \E k \in 0..Len(q[p]) : q' = [q EXCEPT ![p] = SubSeq(@, 1, k)]

Disconnect(p) ==
    /\ conn[p] = "up"
    /\ conn' = [conn EXCEPT ![p] = "lost"]
    /\ Cut(s2r, p)
    /\ Cut(r2s, p)
    /\ UNCHANGED <<vars, sendVars, edits>>

LinkLost(p) == Fault /\ Disconnect(p)

(* An end that is over drops the connection.  A receiver that sent its ACK *)
(* finishes the stream and waits until the sender has it (5 seconds: a     *)
(* longer silence counts as LinkLost); every other exit does not wait.     *)
PeerGone(p) ==
    /\ \/ spc[p] \in SenderEnd
       \/ pc[p] \in Terminal \ {"done"}
       \/ pc[p] = "done" /\ r2s[p] = <<>>
    /\ Disconnect(p)
    /\ UNCHANGED faults

(* Somebody saves another version over the file while it is being sent.    *)
EditSource(p) ==
    /\ Fault
    /\ edits < MaxEdits
    /\ spc[p] \in {"await", "data"}
    /\ \E v \in Versions \ {src[p]} : src' = [src EXCEPT ![p] = v]
    /\ edits' = edits + 1
    /\ UNCHANGED <<vars, spc, pos, netVars>>
------------------------------------------------------------------------------
Sender(p) == SendHeader(p) \/ RecvGo(p) \/ RecvAbort(p) \/ SendChunk(p) \/ ReadFails(p)
             \/ FinishData(p) \/ RecvAck(p) \/ SenderError(p)
Receiver(p) == Begin(p) \/ AskForData(p) \/ Receive(p) \/ Acknowledge(p)
               \/ StreamError(p) \/ Local(p)
Disturbance(p) == Decline(p) \/ ReceiverFault(p) \/ SenderFault(p) \/ LinkLost(p)
                  \/ EditSource(p)

Over(p) == /\ spc[p] \in SenderEnd
           /\ pc[p] \in Terminal \/ (pc[p] = "start" /\ ~Arrives(s2r, p, "header"))
           /\ conn[p] = "lost"
AllOver == (\A p \in Procs : Over(p)) /\ UNCHANGED allVars

TransferNext ==
    \/ \E p \in Procs : Sender(p) \/ Receiver(p) \/ PeerGone(p) \/ Disturbance(p)
    \/ AllOver

TransferSpec == TransferInit /\ [][TransferNext]_allVars

(* Each end is a task the runtime keeps running, the user answers the      *)
(* prompt, and QUIC notices in the end that the other side is gone.        *)
Fairness == \A p \in Procs :
    WF_allVars(Sender(p)) /\ WF_allVars(Receiver(p)) /\ WF_allVars(PeerGone(p))
FairSpec == TransferSpec /\ Fairness
------------------------------------------------------------------------------
(* Type invariant of the senders and the streams; a sender never reads     *)
(* past the announced length and waits for the ACK only at its end.        *)
TransferTypeOK ==
    /\ spc \in [Procs -> SenderStages]
    /\ src \in [Procs -> Versions]
    /\ pos \in [Procs -> 0..MaxSize]
    /\ \A p \in Procs :
        /\ pos[p] <= Size[want[p]]
        /\ spc[p] \in {"ackwait", "success"} => pos[p] = Size[want[p]]
    /\ s2r \in [Procs -> Seq({Offer} \cup {Data(c) : c \in Chunks})]
    /\ r2s \in [Procs -> Seq({Abort, Ack} \cup {Go(n) : n \in 0..MaxSize})]
    /\ conn \in [Procs -> {"up", "lost"}]
    /\ faults \in 0..MaxFaults
    /\ edits \in 0..MaxEdits

(* As long as no file has been edited while it was sent, the sessions do   *)
(* to the directory what ResumeStore says: every chunk a receiver writes   *)
(* is the one that belongs at its write position, whatever offset it       *)
(* resumed from and whatever was in flight when something failed.  All     *)
(* that is shown and proved of ResumeStore therefore holds of sessions     *)
(* whose files stay as they are.                                           *)
ImplementsStore == Init /\ [][edits' = 0 => Next]_vars

(* A partial file that is resumed is a prefix of the sender's file:        *)
(* README.md, Resuming, says it is verified against the checksum.          *)
ResumeVerified == \A p \in Procs :
    pc[p] = "control" => \A u \in 0..(got[p] - 1) : ino[fd[p]].data[u] = <<want[p], u>>

(* Even when files change while they are sent, what a receiver is about to *)
(* acknowledge is as long as the header announced: ARCHITECTURE.md on ACK, *)
(* "all expected bytes were received".                                     *)
AckCountsBytes == \A p \in Procs :
    pc[p] \in {"unlock", "remove", "ack"} =>
        final[name[p]] # Nil /\ ino[final[name[p]]].len = Size[want[p]]

(* A sender reports success only for a session that its receiver finished, *)
(* whatever fails and whoever else receives or edits: run_sender_transfer  *)
(* "5. Wait for ACK", and the receiver sends it last.  The converse does   *)
(* not hold, because the connection may be lost with the ACK in it.        *)
SuccessIsDone == \A p \in Procs : spc[p] = "success" => pc[p] = "done"

(* With one session more than there are faults, one sender is told that    *)
(* its file arrived: no fault leaves the directory in a state in which the *)
(* next attempt cannot complete.                                           *)
RetryDelivers == Cardinality(Procs) > MaxFaults => <>(\E p \in Procs : spc[p] = "success")
------------------------------------------------------------------------------
(* Seen from outside, a session is Delivery.                               *)
Reached == {"unlock", "remove", "ack", "done"}
Shown(n) == IF final[n] = Nil THEN Nil
            ELSE IF \E v \in Versions : Holds(ino[final[n]], v)
                 THEN CHOOSE v \in Versions : Holds(ino[final[n]], v)
                 ELSE Hole
Promise == INSTANCE Delivery WITH
    dir <- [n \in Names |-> Shown(n)],
    recv <- [p \in Procs |-> CASE pc[p] \in Reached -> "delivered"
                               [] pc[p] \in Terminal \ {"done"} -> "ended"
                               [] OTHER -> "running"],
    send <- [p \in Procs |-> IF spc[p] \in SenderEnd THEN spc[p] ELSE "running"]

(* As long as no file has been edited while it was sent, the sessions keep *)
(* the promise of Delivery when receivers take turns.                      *)
KeepsPromise == Promise!Init /\ [][edits' = 0 => Promise!Next]_(Promise!dvars)
=============================================================================
