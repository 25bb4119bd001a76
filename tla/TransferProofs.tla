--------------------------- MODULE TransferProofs ---------------------------
(***************************************************************************)
(* While no file changes as it is sent, whole sessions do to the directory *)
(* exactly what ResumeStore says, for any number of sessions, any window,  *)
(* and any faults.  What is proved of ResumeStore then holds of the        *)
(* sessions.  When files do change, the chunks still have the right places *)
(* and lengths: the invariant is stated for both, by exact.                *)
(***************************************************************************)
EXTENDS Transfer, ResumeStoreSerialProofs

USE TransferAssumption, VersionAssumption, ChunkAssumption, NameAssumption,
    ModeAssumption, HoleAssumption, NilAssumption
------------------------------------------------------------------------------
(* The inductive invariant                                                 *)

(* The receiver has not yet asked for data, or is receiving it.            *)
Deciding == BeforeTemp \cup {"locknew", "writehdr", "control"}
Taking == {"receive", "update"}

(* The chunk that a sender that announced v reads at unit a when its file  *)
(* holds u, and a sequence of them from unit a on, without gaps or         *)
(* repetitions.                                                            *)
ChunkFrom(u, v, a) == [v |-> u, from |-> a, n |-> Smaller(ChunkLen, Size[v] - a)]
Chain(v, w, a) == \A i \in 1..Len(w) :
    /\ w[i].t = "chunk"
    /\ w[i].c.from \in 0..(Size[v] - 1)
    /\ w[i].c = ChunkFrom(w[i].c.v, v, w[i].c.from)
    /\ i = 1 => w[i].c.from = a
    /\ i < Len(w) => w[i+1].c.from = w[i].c.from + w[i].c.n
EndOf(w, a) == IF w = <<>> THEN a ELSE w[Len(w)].c.from + w[Len(w)].c.n

(* Until the receiver answers there is nothing but the header in flight.   *)
Opening(p) ==
    /\ spc[p] = "header" => pc[p] = "start" /\ s2r[p] = <<>>
    /\ pc[p] \in Deciding => r2s[p] = <<>> /\ spc[p] \in {"header", "await", "failed"}
    /\ pc[p] = "start" => s2r[p] \in {<<>>, <<Offer>>}
    /\ pc[p] \in Deciding \ {"start"} => s2r[p] = <<>>

(* A sender that has not read the offset yet will read the one the         *)
(* receiver is at.                                                         *)
Asked(p) == pc[p] \in Taking /\ spc[p] = "await" =>
    s2r[p] = <<>> /\ r2s[p] \in {<<>>, <<Go(got[p])>>}

(* What is in flight continues what the receiver has, and the sender       *)
(* continues what is in flight.                                            *)
Contiguous(p) == pc[p] \in Taking =>
    /\ Chain(want[p], s2r[p], got[p])
    /\ spc[p] = "data" /\ conn[p] = "up" => pos[p] = EndOf(s2r[p], got[p])

(* An ACK is in flight, or has arrived, only after the receiver is done.   *)
Acked(p) ==
    /\ \A i \in 1..Len(r2s[p]) : r2s[p][i].t = "ack" => pc[p] = "done"
    /\ spc[p] = "success" => pc[p] = "done"

Streams == \A p \in Procs : Opening(p) /\ Asked(p) /\ Contiguous(p) /\ Acked(p)

(* Every file is what was announced, and so is what is in flight.          *)
Announced(p) == {Offer} \cup {Data(c) : c \in {d \in Chunks : d.v = want[p]}}
Genuine == src = want /\ \A p \in Procs : s2r[p] \in Seq(Announced(p))

TInv(exact) == LInv(exact) /\ TransferTypeOK /\ Streams /\ (exact => Genuine)
------------------------------------------------------------------------------
(* Streams                                                                 *)

ToR == {Offer} \cup {Data(c) : c \in Chunks}
ToS == {Abort, Ack} \cup {Go(n) : n \in 0..MaxSize}

(* The messages and the streams they belong to.                            *)
LEMMA MessageFacts ==
    /\ Offer \in ToR /\ Abort \in ToS /\ Ack \in ToS
    /\ \A n \in 0..MaxSize : Go(n) \in ToS /\ Go(n).t = "go" /\ Go(n).at = n
    /\ \A c : Data(c).t = "chunk" /\ Data(c).c = c
    /\ \A c \in Chunks : Data(c) \in ToR
    /\ Offer.t = "header" /\ Abort.t = "abort" /\ Ack.t = "ack"
    /\ \A m \in ToS : m.t = "go" => m.at \in 0..MaxSize
<1>1. /\ Offer \in ToR /\ Abort \in ToS /\ Ack \in ToS
      /\ \A n \in 0..MaxSize : Go(n) \in ToS
      /\ \A c \in Chunks : Data(c) \in ToR
  BY DEF ToR, ToS
<1>2. \A n : Go(n).t = "go" /\ Go(n).at = n
  BY DEF Go
<1>3. \A c : Data(c).t = "chunk" /\ Data(c).c = c
  BY DEF Data
<1>4. Offer.t = "header" /\ Abort.t = "abort" /\ Ack.t = "ack"
  BY DEF Offer, Abort, Ack
<1>5. ASSUME NEW m \in ToS, m.t = "go" PROVE m.at \in 0..MaxSize
  <2>1. m = Abort \/ m = Ack \/ \E n \in 0..MaxSize : m = Go(n)
    BY DEF ToS
  <2> QED BY <1>2, <1>4, <1>5, <2>1
<1> QED BY <1>1, <1>2, <1>3, <1>4, <1>5

(* What a step may do to a stream: take, cut, and append what fits.        *)
Follows(w, q, S) ==
    \/ w = q
    \/ q # <<>> /\ w = Tail(q)
    \/ \E k \in 0..Len(q) : w = SubSeq(q, 1, k)
    \/ \E m \in S : w = Append(q, m)

(* What a step leaves in a stream is of the stream's type.                 *)
LEMMA FollowsIn ==
    ASSUME NEW S, NEW q \in Seq(S), NEW w, Follows(w, q, S)
    PROVE  w \in Seq(S)
<1>1. CASE \E k \in 0..Len(q) : w = SubSeq(q, 1, k)
  <2>1. PICK k \in 0..Len(q) : w = SubSeq(q, 1, k)
    BY <1>1
  <2>2. \A i \in 1..k : q[i] \in S
    OBVIOUS
  <2> QED BY <2>1, <2>2
<1>2. CASE \E m \in S : w = Append(q, m)
  BY <1>2
<1>3. CASE w = q \/ (q # <<>> /\ w = Tail(q))
  BY <1>3
<1> QED BY <1>1, <1>2, <1>3 DEF Follows

(* A stream of p changes, the others do not.                               *)
LEMMA OneStream ==
    ASSUME NEW S, NEW Q \in [Procs -> Seq(S)], NEW R, NEW p \in Procs, NEW w,
           R = [Q EXCEPT ![p] = w], Follows(w, Q[p], S)
    PROVE  R \in [Procs -> Seq(S)]
BY FollowsIn
------------------------------------------------------------------------------
(* What the steps of a receiver that leave the streams alone do            *)

Quiet(p) ==
    \/ ChooseOverwrite(p) \/ ChooseRename(p) \/ ChooseCancel(p)
    \/ CheckResume(p) \/ CreateTemp(p)
    \/ UpdateMetadata(p) \/ FinishReceive(p) \/ Finalize(p) \/ Stop(p)
    \/ \E c : WriteFails(p, c)

(* What an exit changes.                                                   *)
LEMMA ExitMoves ==
    ASSUME TypeOK, NEW p \in Procs, NEW how \in Terminal, Exit(p, how)
    PROVE  /\ want' = want /\ pc'[p] = how
           /\ \A q \in Procs : q # p => pc'[q] = pc[q] /\ got'[q] = got[q]
BY DEF Exit, Goto, TypeOK

(* What a step changes that neither sends nor receives.                    *)
LEMMA QuietMoves ==
    ASSUME TypeOK, NEW p \in Procs, Quiet(p)
    PROVE  /\ want' = want
           /\ \A q \in Procs : q # p => pc'[q] = pc[q] /\ got'[q] = got[q]
           /\ pc[p] \notin {"start", "done"}
           /\ pc'[p] \in Deciding => pc[p] \in Deciding /\ pc'[p] # "start"
           /\ pc'[p] \in Taking => pc[p] \in Taking /\ got'[p] = got[p]
<1> USE DEF BeforeTemp, Deciding, Taking, Terminal
<1> DEFINE Goal == /\ want' = want
                   /\ \A q \in Procs : q # p => pc'[q] = pc[q] /\ got'[q] = got[q]
                   /\ pc[p] \notin {"start", "done"}
                   /\ pc'[p] \in Deciding => pc[p] \in Deciding /\ pc'[p] # "start"
                   /\ pc'[p] \in Taking => pc[p] \in Taking /\ got'[p] = got[p]
<1>1. ASSUME NEW how \in Terminal, Exit(p, how), pc[p] \notin {"start", "done"}
      PROVE  Goal
  BY <1>1, ExitMoves
<1>2. CASE \/ ChooseCancel(p) \/ LockHeld(p) \/ StageFails(p) \/ Fails(p) \/ Interrupted(p)
            \/ Crash(p) \/ \E c : WriteFails(p, c)
  <2>1. pc[p] \notin {"start", "done"}
    BY <1>2 DEF ChooseCancel, LockHeld, StageFails, Fails, Interrupted, Crash, WriteFails, Live
  <2>2. \E how \in Terminal : Exit(p, how)
    BY <1>2 DEF ChooseCancel, LockHeld, StageFails, Fails, Interrupted, Crash, WriteFails
  <2> QED BY <1>1, <2>1, <2>2
<1>3. CASE ChooseOverwrite(p) \/ ChooseRename(p)
  <2>1. UNCHANGED <<want, got>> /\ pc[p] = "prompt" /\ pc' = [pc EXCEPT ![p] = Prepare(p)]
    BY <1>3 DEF ChooseOverwrite, ChooseRename, Goto
  <2> QED BY <2>1 DEF TypeOK, Prepare
<1>4. CASE CheckResume(p)
  <2>1. CASE OpenForResume(p)
    BY <2>1 DEF OpenForResume, Goto, TypeOK
  <2>2. CASE LockForResume(p)
    BY <2>2 DEF LockForResume, Goto, TypeOK
  <2>3. CASE ReadHeader(p)
    <3>1. /\ want' = want /\ pc[p] = "read"
          /\ \E l \in {"control", "discard"} : pc' = [pc EXCEPT ![p] = l]
      BY <2>3 DEF ReadHeader, Goto
    <3>2. \A q \in Procs : q # p => got'[q] = got[q]
      BY <2>3 DEF ReadHeader, TypeOK
    <3> QED BY <3>1, <3>2 DEF TypeOK
  <2>4. CASE DiscardStale(p)
    BY <2>4 DEF DiscardStale, Goto, TypeOK
  <2> QED BY <1>4, <2>1, <2>2, <2>3, <2>4 DEF CheckResume
<1>5. CASE CreateTemp(p)
  <2>1. CASE CreateNew(p)
    <3>1. CASE temp[name[p]] = Nil
      BY <2>1, <3>1 DEF CreateNew, Goto, TypeOK
    <3>2. CASE temp[name[p]] # Nil
      <4>1. pc[p] = "createnew" /\ Exit(p, "failed")
        BY <2>1, <3>2 DEF CreateNew
      <4> QED BY <1>1, <4>1
    <3> QED BY <3>1, <3>2
  <2>2. CASE OpenForCreate(p) \/ LockAndTruncate(p) \/ LockNew(p) \/ WriteHeader(p)
    <3>1. /\ UNCHANGED <<want, got>>
          /\ pc[p] \in {"create", "locktrunc", "locknew", "writehdr"}
          /\ \E l \in {"createnew", "locktrunc", "writehdr", "control"} : pc' = [pc EXCEPT ![p] = l]
      BY <2>2 DEF OpenForCreate, LockAndTruncate, LockNew, WriteHeader, Goto
    <3> QED BY <3>1 DEF TypeOK
  <2> QED BY <1>5, <2>1, <2>2 DEF CreateTemp
<1>6. CASE UpdateMetadata(p) \/ FinishReceive(p)
  BY <1>6 DEF UpdateMetadata, FinishReceive, Goto, TypeOK
<1>7. CASE Finalize(p)
  <2>1. CASE StageCreate(p) \/ CopyDone(p) \/ DropTemp(p)
    BY <2>1 DEF StageCreate, CopyDone, DropTemp, Goto, TypeOK
  <2>2. CASE CopyChunk(p)
    BY <2>2 DEF CopyChunk, TypeOK
  <2>3. CASE RenameStage(p)
    <3>1. CASE stage[name[p]] # Nil
      BY <2>3, <3>1 DEF RenameStage, Goto, TypeOK
    <3>2. CASE stage[name[p]] = Nil
      <4>1. pc[p] = "rename" /\ Exit(p, "failed")
        BY <2>3, <3>2 DEF RenameStage
      <4> QED BY <1>1, <4>1
    <3> QED BY <3>1, <3>2
  <2>4. CASE RemoveTemp(p)
    <3>1. CASE temp[name[p]] # Nil
      BY <2>4, <3>1 DEF RemoveTemp, Goto, TypeOK
    <3>2. CASE temp[name[p]] = Nil
      <4>1. pc[p] = "remove" /\ Exit(p, "failed")
        BY <2>4, <3>2 DEF RemoveTemp
      <4> QED BY <1>1, <4>1
    <3> QED BY <3>1, <3>2
  <2> QED BY <1>7, <2>1, <2>2, <2>3, <2>4 DEF Finalize
<1>8. CASE CtrlC(p)
  BY <1>8 DEF CtrlC, Live, TypeOK
<1> QED BY <1>2, <1>3, <1>4, <1>5, <1>6, <1>7, <1>8 DEF Quiet, Stop
------------------------------------------------------------------------------
(* Every step is one of ResumeStore, or changes nothing there.             *)

(* The chunk at the head belongs at the write position.                    *)
LEMMA HeadChunk ==
    ASSUME NEW exact \in BOOLEAN, TInv(exact), NEW p \in Procs,
           pc[p] = "receive", s2r[p] # <<>>
    PROVE  \E v \in Allowed(p, exact) : Head(s2r[p]).c = Chunk(p, v)
<1>1. s2r[p] \in Seq(ToR)
  BY DEF TInv, TransferTypeOK, ToR
<1>2. 1 \in 1..Len(s2r[p]) /\ Head(s2r[p]) = s2r[p][1] /\ s2r[p][1] \in ToR
  BY <1>1
<1> DEFINE m == s2r[p][1]
<1>3. m.t = "chunk" /\ m.c = ChunkFrom(m.c.v, want[p], got[p])
  BY <1>2 DEF TInv, Streams, Contiguous, Taking, Chain
<1>4. m.c = Chunk(p, m.c.v)
  BY <1>3 DEF ChunkFrom, Chunk, ChunkAt
<1>5. m.c.v \in Versions
  <2>1. m \in {Data(c) : c \in Chunks}
    BY <1>2, <1>3 DEF ToR, Offer
  <2> QED BY <2>1 DEF Data, Chunks
<1>6. exact => m.c.v = want[p]
  <2>1. exact => m \in Announced(p)
    BY <1>2 DEF TInv, Genuine
  <2> QED BY <1>3, <2>1 DEF Announced, Offer, Data
<1> HIDE DEF m
<1>7. m.c.v \in Allowed(p, exact)
  BY <1>5, <1>6 DEF Allowed
<1> QED BY <1>2, <1>4, <1>7 DEF m

(* A receiver's step in a session is a step of ResumeStore.                *)
LEMMA ReceiverStore ==
    ASSUME NEW exact \in BOOLEAN, TInv(exact), NEW p \in Procs, Receiver(p)
    PROVE  AnyStep(p, exact)
<1>1. CASE Begin(p)
  BY <1>1 DEF Begin, AnyStep, Step, Decide
<1>2. CASE AskForData(p)
  BY <1>2 DEF AskForData, AnyStep, Step
<1>3. CASE Receive(p)
  <2>1. pc[p] = "receive" /\ s2r[p] # <<>> /\ ReceiveChunk(p, Head(s2r[p]).c)
    BY <1>3 DEF Receive, ReceiveChunk, Arrives
  <2>2. PICK v \in Allowed(p, exact) : Head(s2r[p]).c = Chunk(p, v)
    BY <2>1, HeadChunk
  <2>3. ReceiveChunk(p, Chunk(p, v))
    BY <2>1, <2>2
  <2> QED BY <2>3 DEF AnyStep
<1>4. CASE Acknowledge(p)
  BY <1>4 DEF Acknowledge, AnyStep, Step
<1>5. CASE StreamError(p)
  BY <1>5 DEF StreamError, AnyStep, Step, Stop
<1>6. CASE Local(p)
  BY <1>6 DEF Local, AnyStep, Step, Decide, Stop
<1> QED BY <1>1, <1>2, <1>3, <1>4, <1>5, <1>6 DEF Receiver

(* A fault is a step of ResumeStore, or none of its business.              *)
LEMMA DisturbanceStore ==
    ASSUME NEW exact \in BOOLEAN, TInv(exact), NEW p \in Procs, Disturbance(p)
    PROVE  AnyStep(p, exact) \/ UNCHANGED vars
<1>1. CASE Decline(p)
  BY <1>1 DEF Decline, AnyStep, Step, Decide
<1>2. CASE ReceiverFault(p)
  <2>1. CASE Arrives(s2r, p, "chunk") /\ WriteFails(p, Head(s2r[p]).c)
    <3>1. pc[p] = "receive" /\ s2r[p] # <<>>
      BY <2>1 DEF WriteFails, Arrives
    <3>2. PICK v \in Allowed(p, exact) : Head(s2r[p]).c = Chunk(p, v)
      BY <3>1, HeadChunk
    <3>3. WriteFails(p, Chunk(p, v))
      BY <2>1, <3>2
    <3> QED BY <3>3 DEF AnyStep
  <2> QED BY <1>2, <2>1 DEF ReceiverFault, AnyStep, Step, Stop
<1>3. CASE SenderFault(p) \/ LinkLost(p) \/ EditSource(p)
  BY <1>3 DEF SenderFault, LinkLost, Disconnect, EditSource
<1> QED BY <1>1, <1>2, <1>3 DEF Disturbance

(* So each step of the sessions is a step or a stutter of a receiver whose *)
(* chunks have the right place and length and, if exact, content.          *)
LEMMA AnyRefines ==
    ASSUME NEW exact \in BOOLEAN, TInv(exact), [TransferNext]_allVars
    PROVE  [AnyNext(exact)]_vars
<1>1. ASSUME NEW p \in Procs, Sender(p) PROVE UNCHANGED vars
  BY <1>1 DEF Sender, SendHeader, RecvGo, RecvAbort, SendChunk, ReadFails, FinishData,
              RecvAck, SenderError
<1>2. ASSUME NEW p \in Procs, PeerGone(p) PROVE UNCHANGED vars
  BY <1>2 DEF PeerGone, Disconnect
<1>3. AllOver \/ UNCHANGED allVars => UNCHANGED vars
  BY DEF AllOver, allVars
<1> QED BY <1>1, <1>2, <1>3, ReceiverStore, DisturbanceStore DEF TransferNext, AnyNext

(* With the right content they are those of ResumeStore.                   *)
LEMMA ExactStep ==
    ASSUME TypeOK, NEW p \in Procs, AnyStep(p, TRUE) PROVE Step(p)
<1>1. ASSUME NEW v \in Allowed(p, TRUE) PROVE Chunk(p, v) = NextChunk(p)
  BY DEF Allowed, Chunk, NextChunk
<1> QED BY <1>1 DEF AnyStep, Step

LEMMA Refines == TInv(TRUE) /\ [TransferNext]_allVars => [Next]_vars
<1>1. TInv(TRUE) => TypeOK
  BY DEF TInv, LInv, Inv
<1> QED BY <1>1, AnyRefines, ExactStep DEF AnyNext, Next
------------------------------------------------------------------------------
(* What a session announced stays.                                         *)
LEMMA WantStays ==
    ASSUME NEW exact \in BOOLEAN, TypeOK, [AnyNext(exact)]_vars PROVE UNCHANGED want
<1>1. ASSUME NEW p \in Procs, AnyStep(p, exact) PROVE want' = want
  <2>1. Quiet(p) \/ Start(p) \/ SendControl(p) \/ SendAck(p) \/ \E c : ReceiveChunk(p, c)
    BY <1>1 DEF AnyStep, Step, Quiet, Decide, CheckResume, CreateTemp, Finalize, Stop
  <2> QED BY <2>1, QuietMoves DEF Start, SendControl, SendAck, Exit, ReceiveChunk
<1> QED BY <1>1 DEF AnyNext, Finished, vars, procVars

(* A file changes only by an edit, and edits are counted.                  *)
LEMMA EditsCount ==
    ASSUME TransferTypeOK, [TransferNext]_allVars
    PROVE  \/ UNCHANGED <<src, edits>>
           \/ /\ edits < MaxEdits /\ edits' = edits + 1
              /\ \E p \in Procs : EditSource(p)
<1>1. ASSUME NEW p \in Procs, Sender(p) PROVE UNCHANGED <<edits, src>>
  BY <1>1 DEF Sender, SendHeader, RecvGo, RecvAbort, SendChunk, ReadFails, FinishData,
              RecvAck, SenderError
<1>2. ASSUME NEW p \in Procs, Receiver(p) PROVE UNCHANGED <<edits, src>>
  BY <1>2 DEF Receiver, Begin, AskForData, Receive, Acknowledge, StreamError, Local, sendVars
<1>3. ASSUME NEW p \in Procs, Disturbance(p) \/ PeerGone(p), ~EditSource(p)
      PROVE  UNCHANGED <<edits, src>>
  BY <1>3 DEF Disturbance, PeerGone, Decline, ReceiverFault, SenderFault, LinkLost,
              Disconnect, sendVars
<1>4. ASSUME NEW p \in Procs, EditSource(p) PROVE edits < MaxEdits /\ edits' = edits + 1
  BY <1>4 DEF EditSource
<1>5. AllOver \/ UNCHANGED allVars => UNCHANGED <<edits, src>>
  BY DEF AllOver, allVars, sendVars
<1> QED BY <1>1, <1>2, <1>3, <1>4, <1>5 DEF TransferNext
------------------------------------------------------------------------------
(* Types                                                                   *)

(* The type invariant, stream by stream.                                   *)
LEMMA StreamTypes ==
    TransferTypeOK <=>
    /\ spc \in [Procs -> SenderStages] /\ src \in [Procs -> Versions]
    /\ pos \in [Procs -> 0..MaxSize]
    /\ \A p \in Procs :
        /\ pos[p] <= Size[want[p]]
        /\ spc[p] \in {"ackwait", "success"} => pos[p] = Size[want[p]]
    /\ s2r \in [Procs -> Seq(ToR)] /\ r2s \in [Procs -> Seq(ToS)]
    /\ conn \in [Procs -> {"up", "lost"}]
    /\ faults \in 0..MaxFaults /\ edits \in 0..MaxEdits
BY DEF TransferTypeOK, ToR, ToS

(* The streams after a loss.                                               *)
LEMMA CutStream ==
    ASSUME NEW S, NEW Q \in [Procs -> Seq(S)], NEW p \in Procs, NEW k \in 0..Len(Q[p])
    PROVE  [Q EXCEPT ![p] = SubSeq(@, 1, k)] \in [Procs -> Seq(S)]
BY OneStream DEF Follows

(* Taking the message at the head, and appending one.                      *)
LEMMA TakenStream ==
    ASSUME NEW S, NEW Q \in [Procs -> Seq(S)], NEW p \in Procs, Q[p] # <<>>
    PROVE  [Q EXCEPT ![p] = Tail(@)] \in [Procs -> Seq(S)] /\ Head(Q[p]) \in S
BY OneStream DEF Follows

(* A message more in one stream.                                           *)
LEMMA LongerStream ==
    ASSUME NEW S, NEW Q \in [Procs -> Seq(S)], NEW p \in Procs, NEW m \in S
    PROVE  [Q EXCEPT ![p] = Append(@, m)] \in [Procs -> Seq(S)]
BY OneStream DEF Follows

(* Each step keeps the types.                                              *)
LEMMA TransferTypesStep ==
    ASSUME Inv, TransferTypeOK, [TransferNext]_allVars, UNCHANGED want
    PROVE  TransferTypeOK'
<1>1. /\ spc \in [Procs -> SenderStages] /\ src \in [Procs -> Versions]
      /\ pos \in [Procs -> 0..MaxSize]
      /\ s2r \in [Procs -> Seq(ToR)] /\ r2s \in [Procs -> Seq(ToS)]
      /\ conn \in [Procs -> {"up", "lost"}]
      /\ faults \in 0..MaxFaults /\ edits \in 0..MaxEdits
      /\ \A p \in Procs :
          /\ pos[p] <= Size[want[p]]
          /\ spc[p] \in {"ackwait", "success"} => pos[p] = Size[want[p]]
  BY StreamTypes
<1>2. want \in [Procs -> Versions] /\ got \in [Procs -> 0..MaxSize]
  BY DEF Inv, TypeOK
<1> DEFINE Senders == /\ spc' \in [Procs -> SenderStages] /\ pos' \in [Procs -> 0..MaxSize]
                      /\ src' \in [Procs -> Versions]
                      /\ \A p \in Procs :
                          /\ pos'[p] <= Size[want[p]]
                          /\ spc'[p] \in {"ackwait", "success"} => pos'[p] = Size[want[p]]
           Flow == /\ s2r' \in [Procs -> Seq(ToR)] /\ r2s' \in [Procs -> Seq(ToS)]
                   /\ conn' \in [Procs -> {"up", "lost"}]
           Fewer == faults' \in 0..MaxFaults /\ edits' \in 0..MaxEdits
<1>3. SUFFICES Senders /\ Flow /\ Fewer
  <2>1. (Senders /\ Flow /\ Fewer) => TransferTypeOK'
    BY <1>1, StreamTypes, MessageFacts DEF TransferTypeOK, ToR, ToS
  <2> QED BY <2>1
<1> USE DEF SenderStages, SenderEnd
<1>4. UNCHANGED sendVars => Senders
  BY <1>1 DEF sendVars
<1>5. UNCHANGED netVars => Flow
  BY <1>1 DEF netVars
<1>6. UNCHANGED <<faults, edits>> => Fewer
  BY <1>1
<1>7. Fault /\ UNCHANGED edits => Fewer
  BY <1>1 DEF Fault
<1>8. ASSUME NEW p \in Procs, Disconnect(p) PROVE Senders /\ Flow /\ UNCHANGED edits
  <2>1. PICK k \in 0..Len(s2r[p]) : s2r' = [s2r EXCEPT ![p] = SubSeq(@, 1, k)]
    BY <1>8 DEF Disconnect, Cut
  <2>2. PICK j \in 0..Len(r2s[p]) : r2s' = [r2s EXCEPT ![p] = SubSeq(@, 1, j)]
    BY <1>8 DEF Disconnect, Cut
  <2>3. s2r' \in [Procs -> Seq(ToR)] /\ r2s' \in [Procs -> Seq(ToS)]
    BY <1>1, <2>1, <2>2, CutStream
  <2>4. conn' \in [Procs -> {"up", "lost"}] /\ UNCHANGED sendVars
    BY <1>1, <1>8 DEF Disconnect
  <2>5. UNCHANGED edits
    BY <1>8 DEF Disconnect
  <2> QED BY <1>4, <2>3, <2>4, <2>5
<1> HIDE DEF Fewer
<1>9. ASSUME NEW p \in Procs, Sender(p) PROVE Senders /\ Flow /\ Fewer
  <2>1. CASE SendHeader(p)
    <3>1. s2r' = [s2r EXCEPT ![p] = Append(@, Offer)] /\ UNCHANGED <<src, pos, r2s, conn, faults, edits>>
          /\ spc' = [spc EXCEPT ![p] = "await"]
      BY <2>1 DEF SendHeader, ToReceiver, SenderAt
    <3>2. s2r' \in [Procs -> Seq(ToR)]
      BY <1>1, <3>1, LongerStream, MessageFacts
    <3> QED BY <1>1, <1>6, <3>1, <3>2
  <2>2. CASE RecvGo(p)
    <3>1. /\ Head(r2s[p]).t = "go" /\ r2s[p] # <<>>
          /\ r2s' = [r2s EXCEPT ![p] = Tail(@)] /\ UNCHANGED <<src, s2r, conn, faults, edits>>
      BY <2>2 DEF RecvGo, Arrives
    <3>2. r2s' \in [Procs -> Seq(ToS)] /\ Head(r2s[p]) \in ToS
      BY <1>1, <3>1, TakenStream
    <3>3. Head(r2s[p]).at \in 0..MaxSize
      BY <3>1, <3>2, MessageFacts
    <3>4. CASE Head(r2s[p]).at > Size[want[p]]
      <4>1. spc' = [spc EXCEPT ![p] = "failed"] /\ pos' = pos
        BY <2>2, <3>4 DEF RecvGo, SenderAt
      <4> QED BY <1>1, <1>6, <3>1, <3>2, <4>1
    <3>5. CASE ~(Head(r2s[p]).at > Size[want[p]])
      <4>1. spc' = [spc EXCEPT ![p] = "data"] /\ pos' = [pos EXCEPT ![p] = Head(r2s[p]).at]
        BY <2>2, <3>5 DEF RecvGo, SenderAt
      <4>2. Size[want[p]] \in 0..MaxSize
        BY <1>2
      <4>3. Senders
        BY <1>1, <3>1, <3>3, <3>5, <4>1, <4>2
      <4> QED BY <1>1, <1>6, <3>1, <3>2, <4>3
    <3> QED BY <3>4, <3>5
  <2>3. CASE RecvAbort(p)
    <3>1. /\ r2s[p] # <<>> /\ r2s' = [r2s EXCEPT ![p] = Tail(@)]
          /\ UNCHANGED <<src, pos, s2r, conn, faults, edits>> /\ spc' = [spc EXCEPT ![p] = "aborted"]
      BY <2>3 DEF RecvAbort, Arrives, SenderAt
    <3>2. r2s' \in [Procs -> Seq(ToS)]
      BY <1>1, <3>1, TakenStream
    <3> QED BY <1>1, <1>6, <3>1, <3>2
  <2>4. CASE SendChunk(p)
    <3> DEFINE c == [v |-> src[p], from |-> pos[p], n |-> ToRead(p)]
    <3>1. /\ s2r' = [s2r EXCEPT ![p] = Append(@, Data(c))]
          /\ pos' = [pos EXCEPT ![p] = @ + ToRead(p)] /\ pos[p] < Size[want[p]]
          /\ UNCHANGED <<src, spc, r2s, conn, faults, edits>> /\ spc[p] = "data"
      BY <2>4 DEF SendChunk, ToReceiver
    <3>2. Size[want[p]] \in 0..MaxSize /\ pos[p] \in 0..MaxSize
      BY <1>1, <1>2
    <3>3. ToRead(p) \in 0..MaxSize /\ pos[p] + ToRead(p) <= Size[want[p]]
      BY <3>1, <3>2 DEF ToRead, Smaller
    <3>4. c \in Chunks
      BY <1>1, <3>3 DEF Chunks
    <3> HIDE DEF c
    <3>5. s2r' \in [Procs -> Seq(ToR)]
      BY <1>1, <3>1, <3>4, LongerStream, MessageFacts
    <3>6. pos' \in [Procs -> 0..MaxSize]
      BY <1>1, <3>1, <3>2, <3>3
    <3> QED BY <1>1, <1>6, <3>1, <3>3, <3>5, <3>6
  <2>5. CASE ReadFails(p) \/ FinishData(p) \/ SenderError(p)
    <3>1. /\ UNCHANGED <<src, pos, netVars, faults, edits>>
          /\ \E l \in {"failed", "ackwait"} :
               spc' = [spc EXCEPT ![p] = l] /\ (l = "ackwait" => pos[p] >= Size[want[p]])
      BY <2>5 DEF ReadFails, FinishData, SenderError, SenderAt
    <3>2. Size[want[p]] \in 0..MaxSize /\ pos[p] \in 0..MaxSize
      BY <1>1, <1>2
    <3> QED BY <1>1, <1>5, <1>6, <3>1, <3>2
  <2>6. CASE RecvAck(p)
    <3>1. /\ r2s[p] # <<>> /\ r2s' = [r2s EXCEPT ![p] = Tail(@)]
          /\ UNCHANGED <<src, pos, s2r, conn, faults, edits>> /\ spc' = [spc EXCEPT ![p] = "success"]
          /\ spc[p] = "ackwait"
      BY <2>6 DEF RecvAck, Arrives, SenderAt
    <3>2. r2s' \in [Procs -> Seq(ToS)]
      BY <1>1, <3>1, TakenStream
    <3> QED BY <1>1, <1>6, <3>1, <3>2
  <2> QED BY <1>9, <2>1, <2>2, <2>3, <2>4, <2>5, <2>6 DEF Sender
<1>10. ASSUME NEW p \in Procs, Receiver(p) PROVE Senders /\ Flow /\ Fewer
  <2>1. UNCHANGED <<sendVars, conn, faults, edits>>
    BY <1>10 DEF Receiver, Begin, AskForData, Receive, Acknowledge, StreamError, Local, netVars
  <2>2. s2r' \in [Procs -> Seq(ToR)]
    <3>1. s2r' = s2r \/ (s2r[p] # <<>> /\ s2r' = [s2r EXCEPT ![p] = Tail(@)])
      BY <1>10 DEF Receiver, Begin, AskForData, Receive, Acknowledge, StreamError, Local,
                   Arrives, netVars
    <3>2. CASE s2r[p] # <<>> /\ s2r' = [s2r EXCEPT ![p] = Tail(@)]
      BY <1>1, <3>2, TakenStream
    <3> QED BY <1>1, <3>1, <3>2
  <2>3. r2s' \in [Procs -> Seq(ToS)]
    <3>1. r2s' = r2s \/ \E m \in {Go(got[p]), Ack} : r2s' = [r2s EXCEPT ![p] = Append(@, m)]
      BY <1>10 DEF Receiver, Begin, AskForData, Receive, Acknowledge, StreamError, Local,
                   ToSender, netVars
    <3>2. {Go(got[p]), Ack} \subseteq ToS
      BY <1>2, MessageFacts
    <3>3. ASSUME NEW m \in ToS, r2s' = [r2s EXCEPT ![p] = Append(@, m)]
          PROVE  r2s' \in [Procs -> Seq(ToS)]
      BY <1>1, <3>3, LongerStream
    <3> QED BY <1>1, <3>1, <3>2, <3>3
  <2> QED BY <1>1, <1>4, <1>6, <2>1, <2>2, <2>3
<1>11. ASSUME NEW p \in Procs, Disturbance(p) PROVE Senders /\ Flow /\ Fewer
  <2>1. CASE Decline(p)
    <3>1. /\ r2s' = [r2s EXCEPT ![p] = Append(@, Abort)] /\ UNCHANGED <<sendVars, s2r, conn, edits>>
          /\ Fault
      BY <2>1 DEF Decline, ToSender
    <3>2. r2s' \in [Procs -> Seq(ToS)]
      BY <1>1, <3>1, LongerStream, MessageFacts
    <3> QED BY <1>1, <1>4, <1>7, <3>1, <3>2
  <2>2. CASE ReceiverFault(p)
    BY <1>4, <1>5, <1>7, <2>2 DEF ReceiverFault
  <2>3. CASE SenderFault(p)
    <3>1. UNCHANGED <<src, pos, netVars, edits>> /\ spc' = [spc EXCEPT ![p] = "failed"] /\ Fault
      BY <2>3 DEF SenderFault, SenderAt
    <3> QED BY <1>1, <1>5, <1>7, <3>1
  <2>4. CASE LinkLost(p)
    BY <1>7, <1>8, <2>4 DEF LinkLost
  <2>5. CASE EditSource(p)
    <3>1. /\ Fault /\ edits < MaxEdits /\ edits' = edits + 1 /\ UNCHANGED <<spc, pos, netVars>>
          /\ \E v \in Versions : src' = [src EXCEPT ![p] = v]
      BY <2>5 DEF EditSource
    <3>2. Fewer
      BY <1>1, <3>1, TransferAssumption DEF Fault, Fewer
    <3>3. Senders
      BY <1>1, <3>1
    <3> QED BY <1>5, <3>1, <3>2, <3>3
  <2> QED BY <1>11, <2>1, <2>2, <2>3, <2>4, <2>5 DEF Disturbance
<1>12. ASSUME NEW p \in Procs, PeerGone(p) PROVE Senders /\ Flow /\ Fewer
  BY <1>6, <1>8, <1>12 DEF PeerGone
<1>13. AllOver \/ UNCHANGED allVars => Senders /\ Flow /\ Fewer
  BY <1>4, <1>5, <1>6 DEF AllOver, allVars
<1> QED BY <1>9, <1>10, <1>11, <1>12, <1>13 DEF TransferNext
------------------------------------------------------------------------------
(* Chains of chunks                                                        *)

(* A chunk is one of the model's and stays within its version.             *)
LEMMA ChunkLength ==
    ASSUME NEW u, NEW v \in Versions, NEW a \in 0..(Size[v] - 1)
    PROVE  /\ u \in Versions => ChunkFrom(u, v, a) \in Chunks
           /\ ChunkFrom(u, v, a).v = u
           /\ ChunkFrom(u, v, a).from = a
           /\ a + ChunkFrom(u, v, a).n \in 0..Size[v]
<1>1. Size[v] \in 0..MaxSize
  OBVIOUS
<1>2. Smaller(ChunkLen, Size[v] - a) \in 0..MaxSize /\ a + Smaller(ChunkLen, Size[v] - a) \in 0..Size[v]
  BY <1>1 DEF Smaller
<1> QED BY <1>1, <1>2 DEF ChunkFrom, Chunks

(* A chain of chunks ends within its version.                              *)
LEMMA ChainEnd ==
    ASSUME NEW v \in Versions, NEW w \in Seq(ToR), NEW a \in 0..Size[v], Chain(v, w, a)
    PROVE  EndOf(w, a) \in 0..Size[v]
<1>1. CASE w = <<>>
  BY <1>1 DEF EndOf
<1>2. CASE w # <<>>
  <2>1. Len(w) \in 1..Len(w)
    BY <1>2
  <2>2. w[Len(w)].c.from \in 0..(Size[v] - 1) /\ w[Len(w)].c = ChunkFrom(w[Len(w)].c.v, v, w[Len(w)].c.from)
    BY <2>1 DEF Chain
  <2> DEFINE c == w[Len(w)].c
  <2>3. c.from \in 0..(Size[v] - 1) /\ c = ChunkFrom(c.v, v, c.from)
    BY <2>2
  <2> HIDE DEF c
  <2>4. c.from + ChunkFrom(c.v, v, c.from).n \in 0..Size[v]
    BY <2>3, ChunkLength
  <2>5. c.from + c.n \in 0..Size[v]
    BY <2>3, <2>4
  <2> QED BY <1>2, <2>5 DEF EndOf, c
<1> QED BY <1>1, <1>2

(* A chain cut off at its end is a chain.                                  *)
LEMMA ChainCut ==
    ASSUME NEW v, NEW w \in Seq(ToR), NEW a, Chain(v, w, a), NEW k \in 0..Len(w)
    PROVE  Chain(v, SubSeq(w, 1, k), a)
<1> DEFINE x == SubSeq(w, 1, k)
<1>1. Len(x) = k /\ \A i \in 1..k : x[i] = w[i] /\ i \in 1..Len(w)
  OBVIOUS
<1>2. \A i \in 1..k : i < k => x[i+1] = w[i+1] /\ i < Len(w)
  BY <1>1
<1> HIDE DEF x
<1> QED BY <1>1, <1>2 DEF Chain, x

(* The empty sequence is the one of length 0.                              *)
LEMMA EmptyLength ==
    ASSUME NEW S, NEW q \in Seq(S)
    PROVE  q = <<>> <=> Len(q) = 0
OBVIOUS

(* A chain without its head starts where the head ends.                    *)
LEMMA ChainTail ==
    ASSUME NEW v \in Versions, NEW w \in Seq(ToR), NEW a, Chain(v, w, a), w # <<>>
    PROVE  /\ Chain(v, Tail(w), a + Head(w).c.n)
           /\ EndOf(Tail(w), a + Head(w).c.n) = EndOf(w, a)
           /\ Head(w).c = ChunkFrom(Head(w).c.v, v, a) /\ a \in 0..(Size[v] - 1)
<1> DEFINE x == Tail(w)  b == a + Head(w).c.n
<1>1. /\ Len(w) \in Nat \ {0} /\ Head(w) = w[1] /\ 1 \in 1..Len(w)
      /\ Len(x) = Len(w) - 1 /\ \A i \in 1..Len(x) : x[i] = w[i+1] /\ i + 1 \in 1..Len(w)
  OBVIOUS
<1>2. w[1].c.from = a /\ w[1].c = ChunkFrom(w[1].c.v, v, a) /\ a \in 0..(Size[v] - 1)
  BY <1>1 DEF Chain
<1>3. Len(w) > 1 => w[2].c.from = b
  BY <1>1, <1>2 DEF Chain
<1>4. \A i \in 1..Len(x) : i < Len(x) => x[i+1] = w[(i+1)+1] /\ i + 1 < Len(w)
  BY <1>1
<1>5. (x = <<>> <=> Len(w) = 1) /\ (x # <<>> => x[Len(x)] = w[Len(w)])
  <2>1. x \in Seq(ToR)
    OBVIOUS
  <2>2. x = <<>> <=> Len(x) = 0
    <3> HIDE DEF x
    <3> QED BY <2>1, EmptyLength
  <2>3. x # <<>> => Len(x) \in 1..Len(x)
    BY <2>1, <2>2
  <2> QED BY <1>1, <2>2, <2>3
<1> HIDE DEF x, b
<1>6. Chain(v, x, b)
  <2> SUFFICES ASSUME NEW i \in 1..Len(x)
      PROVE  /\ x[i].t = "chunk" /\ x[i].c.from \in 0..(Size[v] - 1)
             /\ x[i].c = ChunkFrom(x[i].c.v, v, x[i].c.from)
             /\ i = 1 => x[i].c.from = b
             /\ i < Len(x) => x[i+1].c.from = x[i].c.from + x[i].c.n
    BY DEF Chain
  <2>1. x[i] = w[i+1] /\ i + 1 \in 1..Len(w)
    BY <1>1
  <2>2. /\ w[i+1].t = "chunk" /\ w[i+1].c.from \in 0..(Size[v] - 1)
        /\ w[i+1].c = ChunkFrom(w[i+1].c.v, v, w[i+1].c.from)
        /\ i + 1 < Len(w) => w[(i+1)+1].c.from = w[i+1].c.from + w[i+1].c.n
    BY <2>1 DEF Chain
  <2>3. i = 1 => w[i+1].c.from = b
    BY <1>1, <1>3
  <2> QED BY <1>4, <2>1, <2>2, <2>3
<1>7. EndOf(x, b) = EndOf(w, a)
  <2>1. CASE Len(w) = 1
    BY <1>1, <1>2, <1>5, <2>1 DEF EndOf, b
  <2>2. CASE Len(w) # 1
    BY <1>1, <1>5, <2>2 DEF EndOf
  <2> QED BY <2>1, <2>2
<1> QED BY <1>1, <1>2, <1>6, <1>7 DEF x, b

(* A chain with the next chunk appended is a chain.                        *)
LEMMA ChainAppend ==
    ASSUME NEW u \in Versions, NEW v \in Versions, NEW w \in Seq(ToR), NEW a \in 0..Size[v],
           Chain(v, w, a), EndOf(w, a) < Size[v]
    PROVE  /\ Chain(v, Append(w, Data(ChunkFrom(u, v, EndOf(w, a)))), a)
           /\ EndOf(Append(w, Data(ChunkFrom(u, v, EndOf(w, a)))), a) =
                  EndOf(w, a) + ChunkFrom(u, v, EndOf(w, a)).n
<1> DEFINE b == EndOf(w, a)  x == Append(w, Data(ChunkFrom(u, v, b)))
<1>0. b = EndOf(w, a) /\ b < Size[v] /\ x = Append(w, Data(ChunkFrom(u, v, b)))
  OBVIOUS
<1> HIDE DEF b, x
<1>1. b \in 0..(Size[v] - 1)
  BY <1>0, ChainEnd
<1>2. ChunkFrom(u, v, b) \in Chunks /\ ChunkFrom(u, v, b).from = b /\ ChunkFrom(u, v, b).v = u
  BY <1>1, ChunkLength
<1> DEFINE m == Data(ChunkFrom(u, v, b))
<1>3. m \in ToR /\ m.t = "chunk" /\ m.c = ChunkFrom(u, v, b)
  BY <1>2, MessageFacts
<1> HIDE DEF m
<1>4. /\ x = Append(w, m) /\ Len(x) = Len(w) + 1 /\ x # <<>> /\ x[Len(x)] = m
      /\ \A i \in 1..Len(w) : x[i] = w[i]
      /\ Len(w) \in Nat
  BY <1>0, <1>3 DEF m
<1>5. EndOf(x, a) = b + ChunkFrom(u, v, b).n
  BY <1>2, <1>3, <1>4 DEF EndOf
<1>6. ASSUME NEW i \in 1..Len(x)
      PROVE  /\ x[i].t = "chunk" /\ x[i].c.from \in 0..(Size[v] - 1)
             /\ x[i].c = ChunkFrom(x[i].c.v, v, x[i].c.from)
             /\ i = 1 => x[i].c.from = a
             /\ i < Len(x) => x[i+1].c.from = x[i].c.from + x[i].c.n
  <2>1. CASE i = Len(x)
    <3>1. x[i] = m
      BY <1>4, <2>1
    <3>2. i = 1 => b = a
      BY <1>0, <1>4, <2>1 DEF EndOf
    <3>3. m.c.from = b /\ m.c.v = u /\ m.c = ChunkFrom(u, v, b)
      BY <1>2, <1>3
    <3>4. m.c = ChunkFrom(m.c.v, v, m.c.from)
      BY <3>3
    <3> QED BY <1>1, <1>3, <2>1, <3>1, <3>2, <3>3, <3>4
  <2>2. CASE i < Len(x)
    <3>1. i \in 1..Len(w) /\ x[i] = w[i]
      BY <1>4, <2>2
    <3>2. CASE i = Len(w)
      <4>1. w # <<>> /\ x[i+1] = m /\ b = w[i].c.from + w[i].c.n
        BY <1>0, <1>4, <3>1, <3>2 DEF EndOf
      <4> QED BY <1>2, <1>3, <3>1, <3>2, <4>1 DEF Chain
    <3>3. CASE i < Len(w)
      <4>1. x[i+1] = w[i+1]
        BY <1>4, <3>3
      <4> QED BY <3>1, <3>3, <4>1 DEF Chain
    <3> QED BY <1>4, <3>1, <3>2, <3>3
  <2> QED BY <1>4, <2>1, <2>2
<1>7. Chain(v, x, a)
  BY <1>6 DEF Chain
<1> QED BY <1>5, <1>7 DEF b, x
------------------------------------------------------------------------------
(* Steps of a session                                                      *)

(* The other sessions are not disturbed.                                   *)
LEMMA OneSession ==
    ASSUME Streams, UNCHANGED want, NEW p \in Procs,
           \A q \in Procs : q # p =>
               /\ pc'[q] = pc[q] /\ got'[q] = got[q]
               /\ spc'[q] = spc[q] /\ pos'[q] = pos[q]
               /\ s2r'[q] = s2r[q] /\ r2s'[q] = r2s[q] /\ conn'[q] = conn[q],
           Opening(p)', Asked(p)', Contiguous(p)', Acked(p)'
    PROVE  Streams'
<1> SUFFICES ASSUME NEW q \in Procs, q # p
             PROVE  Opening(q)' /\ Asked(q)' /\ Contiguous(q)' /\ Acked(q)'
  BY DEF Streams
<1>1. Opening(q) /\ Asked(q) /\ Contiguous(q) /\ Acked(q)
  BY DEF Streams
<1>2. Opening(q)' /\ Asked(q)'
  BY <1>1 DEF Opening, Asked
<1>3. Contiguous(q)'
  BY <1>1 DEF Contiguous
<1>4. Acked(q)'
  BY <1>1 DEF Acked
<1> QED BY <1>2, <1>3, <1>4

(* What the invariant says of one session.                                 *)
LEMMA SessionTypes ==
    ASSUME NEW exact \in BOOLEAN, TInv(exact), NEW p \in Procs
    PROVE  /\ Opening(p) /\ Asked(p) /\ Contiguous(p) /\ Acked(p)
           /\ s2r \in [Procs -> Seq(ToR)] /\ r2s \in [Procs -> Seq(ToS)]
           /\ s2r[p] \in Seq(ToR) /\ r2s[p] \in Seq(ToS)
           /\ want[p] \in Versions /\ Size[want[p]] \in Nat
           /\ got[p] \in 0..MaxSize /\ pos[p] \in 0..Size[want[p]]
           /\ spc \in [Procs -> SenderStages] /\ pos \in [Procs -> 0..MaxSize]
           /\ conn \in [Procs -> {"up", "lost"}]
           /\ pc \in [Procs -> Stages] /\ got \in [Procs -> 0..MaxSize]
           /\ src \in [Procs -> Versions]
           /\ pc[p] \in Taking => got[p] <= Size[want[p]]
<1>1. /\ Opening(p) /\ Asked(p) /\ Contiguous(p) /\ Acked(p)
  BY DEF TInv, Streams
<1>2. /\ s2r \in [Procs -> Seq(ToR)] /\ r2s \in [Procs -> Seq(ToS)]
      /\ spc \in [Procs -> SenderStages] /\ pos \in [Procs -> 0..MaxSize]
      /\ conn \in [Procs -> {"up", "lost"}] /\ pos[p] <= Size[want[p]]
      /\ src \in [Procs -> Versions]
  BY StreamTypes DEF TInv
<1>3. /\ want \in [Procs -> Versions] /\ pc \in [Procs -> Stages] /\ got \in [Procs -> 0..MaxSize]
      /\ pc[p] \in Taking => got[p] <= Size[want[p]]
  BY DEF TInv, LInv, Inv, TypeOK, Counts, Filling, Taking
<1> QED BY <1>1, <1>2, <1>3

(* After the head is taken, what follows is what was behind it.            *)
LEMMA AckedTail ==
    ASSUME NEW S, NEW q \in Seq(S), q # <<>>
    PROVE  \A i \in 1..Len(Tail(q)) : Tail(q)[i] = q[i+1] /\ i + 1 \in 1..Len(q)
OBVIOUS

(* A sender's step keeps what is in flight contiguous.                     *)
LEMMA SenderStep ==
    ASSUME NEW exact \in BOOLEAN, TInv(exact), NEW p \in Procs, Sender(p)
    PROVE  Streams'
<1>1. Opening(p) /\ Asked(p) /\ Contiguous(p) /\ Acked(p)
  BY SessionTypes
<1>2. UNCHANGED <<pc, want, got, conn>>
  BY DEF Sender, SendHeader, RecvGo, RecvAbort, SendChunk, ReadFails, FinishData,
         RecvAck, SenderError, vars, procVars, netVars
<1>3. ASSUME NEW q \in Procs, q # p
      PROVE  spc'[q] = spc[q] /\ pos'[q] = pos[q] /\ s2r'[q] = s2r[q] /\ r2s'[q] = r2s[q]
  BY <1>3, SessionTypes DEF Sender, SendHeader, RecvGo, RecvAbort, SendChunk, ReadFails, FinishData,
         RecvAck, SenderError, netVars, SenderAt, ToReceiver
<1>4. SUFFICES Opening(p)' /\ Asked(p)' /\ Contiguous(p)' /\ Acked(p)'
  BY <1>2, <1>3, OneSession DEF TInv
<1>5. CASE SendHeader(p)
  <2>1. /\ spc[p] = "header" /\ spc'[p] = "await" /\ s2r'[p] = Append(s2r[p], Offer)
        /\ UNCHANGED r2s
    BY <1>5, SessionTypes DEF SendHeader, ToReceiver, SenderAt
  <2>2. pc[p] = "start" /\ s2r'[p] = <<Offer>> /\ r2s[p] = <<>>
    <3>1. pc[p] = "start" /\ s2r[p] = <<>> /\ r2s[p] = <<>>
      BY <1>1, <2>1 DEF Opening, Deciding, BeforeTemp
    <3>2. Append(<<>>, Offer) = <<Offer>>
      OBVIOUS
    <3> QED BY <2>1, <3>1, <3>2
  <2>3. Opening(p)'
    BY <1>2, <2>1, <2>2 DEF Opening
  <2>4. Asked(p)' /\ Contiguous(p)'
    BY <1>2, <2>2 DEF Asked, Contiguous, Taking
  <2>5. Acked(p)'
    BY <1>1, <1>2, <2>1 DEF Acked
  <2> QED BY <2>3, <2>4, <2>5
<1>6. CASE RecvGo(p)
  <2>1. /\ spc[p] = "await" /\ r2s[p] # <<>> /\ Head(r2s[p]).t = "go"
        /\ r2s'[p] = Tail(r2s[p]) /\ UNCHANGED s2r
    BY <1>6, SessionTypes DEF RecvGo, Arrives
  <2>2. /\ spc'[p] \in {"data", "failed"}
        /\ spc'[p] = "data" => pos'[p] = Head(r2s[p]).at
    BY <1>6, SessionTypes DEF RecvGo, SenderAt
  <2>3. pc[p] \notin Deciding
    BY <1>1, <2>1 DEF Opening
  <2>4. pc[p] \in Taking => s2r[p] = <<>> /\ Head(r2s[p]).at = got[p]
    <3>1. SUFFICES ASSUME pc[p] \in Taking PROVE s2r[p] = <<>> /\ Head(r2s[p]).at = got[p]
      OBVIOUS
    <3>2. s2r[p] = <<>> /\ r2s[p] = <<Go(got[p])>>
      BY <1>1, <2>1, <3>1 DEF Asked
    <3> QED BY <3>2 DEF Go
  <2>5. Acked(p)'
    BY <1>1, <1>2, <2>1, <2>2, SessionTypes, AckedTail DEF Acked
  <2>6. Contiguous(p)'
    BY <1>2, <2>1, <2>2, <2>4 DEF Contiguous, Chain, EndOf
  <2>7. Opening(p)' /\ Asked(p)'
    BY <1>2, <2>2, <2>3 DEF Opening, Asked, Deciding, BeforeTemp
  <2> QED BY <2>5, <2>6, <2>7
<1>7. CASE RecvAbort(p) \/ RecvAck(p)
  <2>1. /\ r2s[p] # <<>> /\ r2s'[p] = Tail(r2s[p]) /\ UNCHANGED <<s2r, pos>>
        /\ spc'[p] \in {"aborted", "success"}
        /\ spc'[p] = "success" => Head(r2s[p]).t = "ack"
    BY <1>7, SessionTypes DEF RecvAbort, RecvAck, Arrives, SenderAt
  <2>2. pc[p] \notin Deciding
    BY <1>1, <2>1 DEF Opening
  <2>3. Acked(p)'
    <3>1. 1 \in 1..Len(r2s[p]) /\ Head(r2s[p]) = r2s[p][1]
      BY <2>1, SessionTypes
    <3>2. spc'[p] = "success" => pc[p] = "done"
      BY <1>1, <2>1, <3>1 DEF Acked
    <3>3. \A i \in 1..Len(Tail(r2s[p])) : Tail(r2s[p])[i] = r2s[p][i+1] /\ i + 1 \in 1..Len(r2s[p])
      BY <2>1, SessionTypes, AckedTail
    <3> QED BY <1>1, <1>2, <2>1, <3>2, <3>3 DEF Acked
  <2>4. Contiguous(p)'
    BY <1>1, <1>2, <2>1 DEF Contiguous
  <2>5. Opening(p)' /\ Asked(p)'
    BY <1>2, <2>1, <2>2 DEF Opening, Asked, Deciding, BeforeTemp
  <2> QED BY <2>3, <2>4, <2>5
<1>8. CASE SendChunk(p)
  <2> DEFINE b == pos[p]  c == ChunkFrom(src[p], want[p], b)
  <2>1. /\ spc[p] = "data" /\ b < Size[want[p]] /\ conn[p] = "up"
        /\ UNCHANGED <<spc, r2s>>
        /\ s2r'[p] = Append(s2r[p], Data(c)) /\ pos'[p] = b + c.n
    BY <1>8, SessionTypes DEF SendChunk, ToReceiver, ToRead, ChunkFrom
  <2>2. pc[p] \notin Deciding
    BY <1>1, <2>1 DEF Opening
  <2>3. Contiguous(p)'
    <3>1. SUFFICES ASSUME pc[p] \in Taking
                   PROVE  /\ Chain(want[p], s2r'[p], got[p])
                          /\ pos'[p] = EndOf(s2r'[p], got[p])
      BY <1>2 DEF Contiguous
    <3>2. Chain(want[p], s2r[p], got[p]) /\ b = EndOf(s2r[p], got[p])
      BY <1>1, <2>1, <3>1 DEF Contiguous
    <3>3. got[p] \in 0..Size[want[p]]
      BY <3>1, SessionTypes
    <3>4. s2r[p] \in Seq(ToR) /\ want[p] \in Versions /\ src[p] \in Versions
      BY SessionTypes
    <3>5. /\ b < Size[want[p]] /\ s2r'[p] = Append(s2r[p], Data(ChunkFrom(src[p], want[p], b)))
          /\ pos'[p] = b + ChunkFrom(src[p], want[p], b).n
      BY <2>1
    <3> DEFINE u == src[p]  v == want[p]  w == s2r[p]  a == got[p]  x == s2r'[p]
    <3> HIDE DEF b, c, u, v, w, a, x
    <3>6. /\ u \in Versions /\ v \in Versions /\ w \in Seq(ToR) /\ a \in 0..Size[v] /\ Chain(v, w, a)
          /\ b = EndOf(w, a) /\ b < Size[v] /\ x = Append(w, Data(ChunkFrom(u, v, b)))
      BY <3>2, <3>3, <3>4, <3>5 DEF u, v, w, a, x
    <3>7. Chain(v, x, a) /\ EndOf(x, a) = b + ChunkFrom(u, v, b).n
      BY <3>6, ChainAppend
    <3> QED BY <3>5, <3>7 DEF u, v, a, x
  <2>4. Acked(p)' /\ Opening(p)' /\ Asked(p)'
    BY <1>1, <1>2, <2>1, <2>2 DEF Acked, Opening, Asked, Deciding, BeforeTemp
  <2> QED BY <2>3, <2>4
<1>9. CASE ReadFails(p) \/ FinishData(p) \/ SenderError(p)
  <2>1. /\ UNCHANGED <<pos, s2r, r2s>> /\ spc'[p] \in {"failed", "ackwait"}
        /\ spc'[p] = "ackwait" => spc[p] = "data"
    BY <1>9, SessionTypes DEF ReadFails, FinishData, SenderError, SenderAt, netVars
  <2>2. Opening(p)'
    BY <1>1, <1>2, <2>1 DEF Opening
  <2>3. Asked(p)' /\ Acked(p)'
    BY <1>1, <1>2, <2>1 DEF Asked, Acked
  <2>4. Contiguous(p)'
    BY <1>1, <1>2, <2>1 DEF Contiguous
  <2> QED BY <2>2, <2>3, <2>4
<1> QED BY <1>5, <1>6, <1>7, <1>8, <1>9 DEF Sender

(* A step that is the receiver's alone.                                    *)
LEMMA ReceiverAlone ==
    ASSUME NEW exact \in BOOLEAN, TInv(exact), NEW p \in Procs, Quiet(p), UNCHANGED <<spc, pos, s2r, r2s, conn>>
    PROVE  Streams'
<1>1. Opening(p) /\ Asked(p) /\ Contiguous(p) /\ Acked(p)
  BY SessionTypes
<1>2. TypeOK
  BY DEF TInv, LInv, Inv
<1>3. /\ want' = want
      /\ \A q \in Procs : q # p => pc'[q] = pc[q] /\ got'[q] = got[q]
      /\ pc[p] \notin {"start", "done"}
      /\ pc'[p] \in Deciding => pc[p] \in Deciding /\ pc'[p] # "start"
      /\ pc'[p] \in Taking => pc[p] \in Taking /\ got'[p] = got[p]
  BY <1>2, QuietMoves
<1>4. Opening(p)'
  BY <1>1, <1>3 DEF Opening, Deciding, BeforeTemp
<1>5. Asked(p)'
  BY <1>1, <1>3 DEF Asked
<1>6. Contiguous(p)'
  BY <1>1, <1>3 DEF Contiguous
<1>7. Acked(p)'
  BY <1>1, <1>3 DEF Acked
<1> QED BY <1>3, <1>4, <1>5, <1>6, <1>7, OneSession DEF TInv

(* So does a receiver's.                                                   *)
LEMMA ReceiverStep ==
    ASSUME NEW exact \in BOOLEAN, TInv(exact), NEW p \in Procs, Receiver(p)
    PROVE  Streams'
<1>1. Opening(p) /\ Asked(p) /\ Contiguous(p) /\ Acked(p)
  BY SessionTypes
<1>2. UNCHANGED <<spc, pos, conn>>
  BY DEF Receiver, Begin, AskForData, Receive, Acknowledge, StreamError, Local, sendVars, netVars
<1>3. CASE StreamError(p) \/ Local(p)
  <2>1. Quiet(p) /\ UNCHANGED <<spc, pos, s2r, r2s, conn>>
    BY <1>3 DEF StreamError, Local, Quiet, Stop, sendVars, netVars
  <2> QED BY <2>1, ReceiverAlone
<1>4. CASE Begin(p)
  <2>1. /\ pc[p] = "start" /\ UNCHANGED <<want, got, r2s>>
        /\ \E l \in {"prompt", "create", "open"} : pc' = [pc EXCEPT ![p] = l]
        /\ s2r[p] # <<>> /\ s2r' = [s2r EXCEPT ![p] = Tail(@)]
    BY <1>4 DEF Begin, Start, Goto, Prepare, Arrives
  <2>2. s2r[p] = <<Offer>> /\ r2s[p] = <<>> /\ spc[p] \in {"await", "failed"}
    BY <1>1, <2>1 DEF Opening, Deciding, BeforeTemp
  <2>3. s2r'[p] = <<>>
    <3>1. Tail(<<Offer>>) = <<>>
      OBVIOUS
    <3> QED BY <2>1, <2>2, <3>1, SessionTypes
  <2>4. pc'[p] \in Deciding \ {"start"}
    BY <2>1, SessionTypes DEF Deciding, BeforeTemp
  <2>5. Opening(p)'
    BY <1>2, <2>1, <2>2, <2>3, <2>4 DEF Opening
  <2>6. Asked(p)' /\ Contiguous(p)'
    BY <2>4 DEF Asked, Contiguous, Taking, Deciding, BeforeTemp
  <2>7. Acked(p)'
    BY <1>2, <2>1, <2>2 DEF Acked
  <2>8. \A q \in Procs : q # p => pc'[q] = pc[q] /\ s2r'[q] = s2r[q]
    BY <2>1, SessionTypes
  <2> QED BY <1>2, <2>1, <2>5, <2>6, <2>7, <2>8, OneSession DEF TInv
<1>5. CASE AskForData(p)
  <2>1. /\ pc[p] = "control" /\ pc' = [pc EXCEPT ![p] = "receive"]
        /\ UNCHANGED <<want, got, s2r>> /\ r2s' = [r2s EXCEPT ![p] = Append(@, Go(got[p]))]
    BY <1>5 DEF AskForData, SendControl, Goto, ToSender
  <2>2. s2r[p] = <<>> /\ r2s[p] = <<>> /\ spc[p] \in {"await", "failed"}
    BY <1>1, <2>1 DEF Opening, Deciding, BeforeTemp
  <2>3. r2s'[p] = <<Go(got[p])>> /\ pc'[p] = "receive"
    <3>1. Append(<<>>, Go(got[p])) = <<Go(got[p])>>
      OBVIOUS
    <3> QED BY <2>1, <2>2, <3>1, SessionTypes
  <2>4. Opening(p)'
    BY <1>2, <2>2, <2>3 DEF Opening, Deciding, BeforeTemp
  <2>5. Asked(p)'
    BY <2>1, <2>2, <2>3 DEF Asked
  <2>6. Contiguous(p)'
    BY <1>2, <2>1, <2>2 DEF Contiguous, Chain
  <2>7. Acked(p)'
    BY <1>2, <2>2, <2>3, MessageFacts DEF Acked, Go
  <2>8. \A q \in Procs : q # p => pc'[q] = pc[q] /\ r2s'[q] = r2s[q]
    BY <2>1, SessionTypes
  <2> QED BY <1>2, <2>1, <2>4, <2>5, <2>6, <2>7, <2>8, OneSession DEF TInv
<1>6. CASE Receive(p)
  <2>1. /\ pc[p] = "receive" /\ s2r[p] # <<>> /\ s2r' = [s2r EXCEPT ![p] = Tail(@)]
        /\ got' = [got EXCEPT ![p] = @ + Head(s2r[p]).c.n] /\ UNCHANGED <<want, r2s>>
        /\ \E l \in {"receive", "update"} : pc' = [pc EXCEPT ![p] = l]
    BY <1>6 DEF Receive, ReceiveChunk, Arrives, Goto
  <2>2. /\ Chain(want[p], s2r[p], got[p])
        /\ spc[p] = "data" /\ conn[p] = "up" => pos[p] = EndOf(s2r[p], got[p])
        /\ spc[p] \notin {"header", "await"}
    BY <1>1, <2>1 DEF Contiguous, Taking, Asked, Opening
  <2>3. /\ Chain(want[p], Tail(s2r[p]), got[p] + Head(s2r[p]).c.n)
        /\ EndOf(Tail(s2r[p]), got[p] + Head(s2r[p]).c.n) = EndOf(s2r[p], got[p])
    BY <2>1, <2>2, SessionTypes, ChainTail
  <2>4. /\ s2r'[p] = Tail(s2r[p]) /\ got'[p] = got[p] + Head(s2r[p]).c.n
        /\ pc'[p] \in {"receive", "update"}
    BY <2>1, SessionTypes
  <2>5. Contiguous(p)'
    BY <1>2, <2>1, <2>2, <2>3, <2>4 DEF Contiguous
  <2>6. Opening(p)' /\ Asked(p)'
    BY <1>2, <2>2, <2>4 DEF Opening, Asked, Deciding, BeforeTemp
  <2>7. Acked(p)'
    BY <1>1, <1>2, <2>1 DEF Acked
  <2>8. \A q \in Procs : q # p => pc'[q] = pc[q] /\ s2r'[q] = s2r[q] /\ got'[q] = got[q]
    BY <2>1, SessionTypes
  <2> QED BY <1>2, <2>1, <2>5, <2>6, <2>7, <2>8, OneSession DEF TInv
<1>7. CASE Acknowledge(p)
  <2>1. /\ pc[p] = "ack" /\ pc' = [pc EXCEPT ![p] = "done"] /\ UNCHANGED <<want, s2r>>
        /\ got' = [got EXCEPT ![p] = 0] /\ r2s' = [r2s EXCEPT ![p] = Append(@, Ack)]
    BY <1>7 DEF Acknowledge, SendAck, Exit, Goto, ToSender
  <2>2. pc'[p] = "done" /\ spc[p] # "header"
    BY <1>1, <2>1, SessionTypes DEF Opening
  <2>3. Opening(p)' /\ Asked(p)' /\ Contiguous(p)' /\ Acked(p)'
    BY <1>2, <2>2 DEF Opening, Asked, Contiguous, Acked, Deciding, BeforeTemp, Taking
  <2>4. \A q \in Procs : q # p => pc'[q] = pc[q] /\ r2s'[q] = r2s[q] /\ got'[q] = got[q]
    BY <2>1, SessionTypes
  <2> QED BY <1>2, <2>1, <2>3, <2>4, OneSession DEF TInv
<1> QED BY <1>3, <1>4, <1>5, <1>6, <1>7 DEF Receiver

(* A lost connection: what arrives is a beginning of what was sent.        *)
LEMMA LossStep ==
    ASSUME NEW exact \in BOOLEAN, TInv(exact), NEW p \in Procs, Disconnect(p)
    PROVE  Streams'
<1>1. Opening(p) /\ Asked(p) /\ Contiguous(p) /\ Acked(p)
  BY SessionTypes
<1>2. /\ UNCHANGED <<pc, want, got, spc, pos>> /\ conn' = [conn EXCEPT ![p] = "lost"]
  BY DEF Disconnect, vars, procVars, sendVars
<1>3. PICK k \in 0..Len(s2r[p]) : s2r' = [s2r EXCEPT ![p] = SubSeq(@, 1, k)]
  BY DEF Disconnect, Cut
<1>4. PICK j \in 0..Len(r2s[p]) : r2s' = [r2s EXCEPT ![p] = SubSeq(@, 1, j)]
  BY DEF Disconnect, Cut
<1>5. /\ s2r'[p] = SubSeq(s2r[p], 1, k) /\ r2s'[p] = SubSeq(r2s[p], 1, j) /\ conn'[p] = "lost"
      /\ \A q \in Procs : q # p => s2r'[q] = s2r[q] /\ r2s'[q] = r2s[q] /\ conn'[q] = conn[q]
  BY <1>2, <1>3, <1>4, SessionTypes
<1>6. \A m : \A i \in 0..Len(<<m>>) : SubSeq(<<m>>, 1, i) \in {<<>>, <<m>>}
  <2> SUFFICES ASSUME NEW m, NEW i \in 0..1 PROVE SubSeq(<<m>>, 1, i) \in {<<>>, <<m>>}
    OBVIOUS
  <2>1. <<m>> \in Seq({m}) /\ Len(<<m>>) = 1
    OBVIOUS
  <2>2. SubSeq(<<m>>, 1, 0) = <<>>
    OBVIOUS
  <2>3. SubSeq(<<m>>, 1, 1) = <<m>>
    <3> DEFINE x == SubSeq(<<m>>, 1, 1)
    <3>1. x \in Seq({m}) /\ Len(x) = 1 /\ x[1] = m
      BY <2>1
    <3> HIDE DEF x
    <3>2. x = <<m>>
      BY <3>1
    <3> QED BY <3>2 DEF x
  <2> QED BY <2>2, <2>3
<1>7. \A i \in 0..Len(<<>>) : SubSeq(<<>>, 1, i) = <<>>
  OBVIOUS
<1>8. Opening(p)'
  BY <1>1, <1>2, <1>5, <1>6, <1>7 DEF Opening
<1>9. Asked(p)'
  BY <1>1, <1>2, <1>5, <1>6, <1>7 DEF Asked
<1>10. Contiguous(p)'
  BY <1>1, <1>2, <1>5, ChainCut, SessionTypes DEF Contiguous
<1>11. Acked(p)'
  <2>1. \A i \in 1..Len(r2s'[p]) : i \in 1..Len(r2s[p]) /\ r2s'[p][i] = r2s[p][i]
    BY <1>5, SessionTypes
  <2> QED BY <1>1, <1>2, <2>1 DEF Acked
<1> QED BY <1>2, <1>5, <1>8, <1>9, <1>10, <1>11, OneSession DEF TInv

(* And a fault.                                                            *)
LEMMA DisturbanceStep ==
    ASSUME NEW exact \in BOOLEAN, TInv(exact), NEW p \in Procs, Disturbance(p)
    PROVE  Streams'
<1>1. Opening(p) /\ Asked(p) /\ Contiguous(p) /\ Acked(p)
  BY SessionTypes
<1>2. CASE Decline(p)
  <2>1. /\ pc[p] = "prompt" /\ pc' = [pc EXCEPT ![p] = "cancelled"] /\ UNCHANGED want
        /\ got' = [got EXCEPT ![p] = 0] /\ r2s' = [r2s EXCEPT ![p] = Append(@, Abort)]
        /\ UNCHANGED <<spc, pos, s2r, conn>>
    BY <1>2 DEF Decline, ChooseCancel, Exit, Goto, ToSender, sendVars
  <2>2. pc'[p] = "cancelled" /\ r2s[p] = <<>> /\ spc[p] \notin {"header", "success"}
    BY <1>1, <2>1, SessionTypes DEF Opening, Deciding, BeforeTemp
  <2>3. Opening(p)' /\ Asked(p)' /\ Contiguous(p)'
    BY <2>1, <2>2 DEF Opening, Asked, Contiguous, Deciding, BeforeTemp, Taking
  <2>4. Acked(p)'
    <3>1. r2s'[p] = <<Abort>>
      <4>1. Append(<<>>, Abort) = <<Abort>>
        OBVIOUS
      <4> QED BY <2>1, <2>2, <4>1, SessionTypes
    <3> QED BY <2>1, <2>2, <3>1 DEF Acked, Abort
  <2>5. \A q \in Procs : q # p => pc'[q] = pc[q] /\ r2s'[q] = r2s[q] /\ got'[q] = got[q]
    BY <2>1, SessionTypes
  <2> QED BY <2>1, <2>3, <2>4, <2>5, OneSession DEF TInv
<1>3. CASE ReceiverFault(p)
  <2>1. Quiet(p) /\ UNCHANGED <<spc, pos, s2r, r2s, conn>>
    BY <1>3 DEF ReceiverFault, Quiet, Stop, sendVars, netVars
  <2> QED BY <2>1, ReceiverAlone
<1>4. CASE SenderFault(p)
  <2>1. /\ spc' = [spc EXCEPT ![p] = "failed"]
        /\ UNCHANGED <<pc, want, got, pos, s2r, r2s, conn>>
    BY <1>4 DEF SenderFault, SenderAt, vars, procVars, netVars
  <2>2. spc'[p] = "failed" /\ \A q \in Procs : q # p => spc'[q] = spc[q]
    BY <2>1, SessionTypes
  <2>3. Opening(p)' /\ Asked(p)'
    BY <1>1, <2>1, <2>2 DEF Opening, Asked
  <2>4. Contiguous(p)' /\ Acked(p)'
    BY <1>1, <2>1, <2>2 DEF Contiguous, Acked
  <2> QED BY <2>1, <2>2, <2>3, <2>4, OneSession DEF TInv
<1>5. CASE LinkLost(p)
  BY <1>5, LossStep DEF LinkLost
<1>6. CASE EditSource(p)
  <2>1. UNCHANGED <<pc, want, got, spc, pos, s2r, r2s, conn>>
    BY <1>6 DEF EditSource, vars, procVars, netVars
  <2> QED BY <2>1 DEF TInv, Streams, Opening, Asked, Contiguous, Acked
<1> QED BY <1>2, <1>3, <1>4, <1>5, <1>6 DEF Disturbance

(* So each step keeps the streams' invariant.                              *)
LEMMA StreamsStep ==
    ASSUME NEW exact \in BOOLEAN, TInv(exact), [TransferNext]_allVars
    PROVE  Streams'
<1>1. AllOver \/ UNCHANGED allVars => Streams'
  <2>1. AllOver \/ UNCHANGED allVars => UNCHANGED <<pc, want, got, spc, pos, s2r, r2s, conn>>
    BY DEF AllOver, allVars, vars, procVars, sendVars, netVars
  <2>2. UNCHANGED <<pc, want, got, spc, pos, s2r, r2s, conn>> => Streams'
    BY DEF TInv, Streams, Opening, Asked, Contiguous, Acked
  <2> QED BY <2>1, <2>2
<1>2. ASSUME NEW p \in Procs, PeerGone(p) PROVE Streams'
  BY <1>2, LossStep DEF PeerGone
<1> QED BY <1>1, <1>2, SenderStep, ReceiverStep, DisturbanceStep DEF TransferNext
------------------------------------------------------------------------------
(* While no file changes, what is sent is what was announced.              *)
LEMMA GenuineStep ==
    ASSUME TInv(TRUE), [TransferNext]_allVars, UNCHANGED <<want, src>>
    PROVE  Genuine'
<1>1. src = want /\ \A q \in Procs : s2r[q] \in Seq(Announced(q))
  BY DEF TInv, Genuine
<1>2. s2r \in [Procs -> Seq(ToR)] /\ pos \in [Procs -> 0..MaxSize]
      /\ want \in [Procs -> Versions] /\ \A q \in Procs : pos[q] <= Size[want[q]]
  BY StreamTypes DEF TInv, LInv, Inv, TypeOK
<1> DEFINE Fits(q) == Follows(s2r'[q], s2r[q], Announced(q))
<1>3. SUFFICES \A q \in Procs : Fits(q)
  <2>1. ASSUME NEW q \in Procs, Fits(q) PROVE s2r'[q] \in Seq(Announced(q))
    BY <1>1, <2>1, FollowsIn
  <2>2. \A q \in Procs : Announced(q)' = Announced(q)
    BY DEF Announced
  <2> QED BY <1>1, <1>3, <2>1, <2>2 DEF Genuine
<1>4. UNCHANGED s2r => \A q \in Procs : Fits(q)
  BY DEF Follows
<1>5. ASSUME NEW p \in Procs, NEW w, s2r' = [s2r EXCEPT ![p] = w],
             Follows(w, s2r[p], Announced(p))
      PROVE  \A q \in Procs : Fits(q)
  <2>1. s2r'[p] = w /\ \A q \in Procs : q # p => s2r'[q] = s2r[q]
    BY <1>2, <1>5
  <2>2. ASSUME NEW q \in Procs, q # p PROVE Fits(q)
    BY <2>1, <2>2 DEF Follows
  <2> QED BY <1>5, <2>1, <2>2
<1> HIDE DEF Fits
<1>6. ASSUME NEW p \in Procs, Sender(p) PROVE \A q \in Procs : Fits(q)
  <2>1. CASE SendHeader(p)
    <3>1. s2r' = [s2r EXCEPT ![p] = Append(s2r[p], Offer)] /\ Offer \in Announced(p)
      BY <2>1 DEF SendHeader, ToReceiver, Announced
    <3>2. Follows(Append(s2r[p], Offer), s2r[p], Announced(p))
      BY <3>1 DEF Follows
    <3> QED BY <1>5, <3>1, <3>2
  <2>2. CASE SendChunk(p)
    <3> DEFINE c == [v |-> src[p], from |-> pos[p], n |-> ToRead(p)]
    <3>1. s2r' = [s2r EXCEPT ![p] = Append(s2r[p], Data(c))] /\ pos[p] < Size[want[p]]
      BY <2>2 DEF SendChunk, ToReceiver
    <3>2. Size[want[p]] \in 0..MaxSize /\ pos[p] \in 0..MaxSize
      BY <1>2
    <3>3. ToRead(p) \in 0..MaxSize
      BY <3>1, <3>2 DEF ToRead, Smaller
    <3>4. c \in Chunks /\ c.v = want[p]
      BY <1>1, <1>2, <3>3 DEF Chunks
    <3> HIDE DEF c
    <3>5. Data(c) \in Announced(p)
      BY <3>4 DEF Announced
    <3>6. Follows(Append(s2r[p], Data(c)), s2r[p], Announced(p))
      BY <3>5 DEF Follows
    <3> QED BY <1>5, <3>1, <3>6
  <2>3. CASE ~SendHeader(p) /\ ~SendChunk(p)
    <3>1. UNCHANGED s2r
      BY <1>6, <2>3 DEF Sender, RecvGo, RecvAbort, ReadFails, FinishData, RecvAck,
                        SenderError, netVars
    <3> QED BY <1>4, <3>1
  <2> QED BY <2>1, <2>2, <2>3
<1>7. ASSUME NEW p \in Procs, Receiver(p) PROVE \A q \in Procs : Fits(q)
  <2>1. s2r' = s2r \/ (s2r[p] # <<>> /\ s2r' = [s2r EXCEPT ![p] = Tail(s2r[p])])
    BY <1>7 DEF Receiver, Begin, AskForData, Receive, Acknowledge, StreamError, Local,
                Arrives, netVars
  <2>2. s2r[p] # <<>> => Follows(Tail(s2r[p]), s2r[p], Announced(p))
    BY DEF Follows
  <2> QED BY <1>4, <1>5, <2>1, <2>2
<1>8. ASSUME NEW p \in Procs, Disconnect(p) PROVE \A q \in Procs : Fits(q)
  <2>1. PICK k \in 0..Len(s2r[p]) : s2r' = [s2r EXCEPT ![p] = SubSeq(s2r[p], 1, k)]
    BY <1>8 DEF Disconnect, Cut
  <2>2. Follows(SubSeq(s2r[p], 1, k), s2r[p], Announced(p))
    BY DEF Follows
  <2> QED BY <1>5, <2>1, <2>2
<1>9. ASSUME NEW p \in Procs, Disturbance(p) \/ PeerGone(p), ~Disconnect(p) PROVE UNCHANGED s2r
  BY <1>9 DEF Disturbance, PeerGone, Decline, ReceiverFault, SenderFault, LinkLost,
              EditSource, netVars
<1>10. AllOver \/ UNCHANGED allVars => UNCHANGED s2r
  BY DEF AllOver, allVars, netVars
<1> QED BY <1>4, <1>6, <1>7, <1>8, <1>9, <1>10 DEF TransferNext
------------------------------------------------------------------------------
(* Each step keeps the whole invariant, for the content as long as no file *)
(* has changed.                                                            *)
LEMMA TransferInvStep ==
    ASSUME NEW exact \in BOOLEAN, TInv(exact), [TransferNext]_allVars, exact => edits' = 0
    PROVE  TInv(exact)'
<1>1. [AnyNext(exact)]_vars
  BY AnyRefines
<1>2. Inv /\ LInv(exact) /\ TransferTypeOK /\ TypeOK
  BY DEF TInv, LInv, Inv
<1>3. Inv'
  BY <1>1, <1>2, AnyTypeStep
<1>4. LInv(exact)'
  BY <1>1, <1>2, <1>3, AnySharedStep
<1>5. UNCHANGED want
  BY <1>1, <1>2, WantStays
<1>6. TransferTypeOK'
  BY <1>2, <1>5, TransferTypesStep
<1>7. Streams'
  BY StreamsStep
<1>8. exact => Genuine'
  <2>1. edits \in Nat
    BY <1>2 DEF TransferTypeOK
  <2>2. exact => UNCHANGED src
    BY <1>2, <2>1, EditsCount
  <2> QED BY <1>5, <2>2, GenuineStep
<1> QED BY <1>4, <1>6, <1>7, <1>8 DEF TInv

(* It holds at the start.                                                  *)
LEMMA TransferInvInit ==
    ASSUME NEW exact \in BOOLEAN, TransferInit PROVE TInv(exact)
<1>1. LInv(exact)
  <2>1. IInv
    BY SharedInit DEF TransferInit
  <2> QED BY <2>1 DEF LInv, IInv, Counts, Progress, Claims, PartialIsPrefix, Has, Prefix
<1>2. TransferTypeOK
  BY DEF TransferInit, Init, TransferTypeOK, SenderStages, SenderEnd
<1>3. Streams
  BY DEF TransferInit, Init, Streams, Opening, Asked, Contiguous, Acked, Deciding,
         BeforeTemp, Taking
<1>4. Genuine
  BY DEF TransferInit, Genuine
<1> QED BY <1>1, <1>2, <1>3, <1>4 DEF TInv

(* So it holds in every run: without the content always, and with it while *)
(* no file has changed.                                                    *)
TransferInv == TInv(FALSE) /\ (edits = 0 => TInv(TRUE))

LEMMA TransferInvHolds == TransferSpec => []TransferInv
<1>1. TransferInit => TransferInv
  BY TransferInvInit DEF TransferInv
<1>2. TransferInv /\ [TransferNext]_allVars => TransferInv'
  <2> SUFFICES ASSUME TransferInv, [TransferNext]_allVars PROVE TransferInv'
    OBVIOUS
  <2>1. TInv(FALSE)'
    BY TransferInvStep DEF TransferInv
  <2>2. edits' = 0 => edits = 0
    <3>1. TransferTypeOK
      BY DEF TransferInv, TInv
    <3>2. edits \in Nat
      BY <3>1 DEF TransferTypeOK
    <3> QED BY <3>1, <3>2, EditsCount
  <2>3. edits' = 0 => TInv(TRUE)'
    BY <2>2, TransferInvStep DEF TransferInv
  <2> QED BY <2>1, <2>3 DEF TransferInv
<1> QED BY <1>1, <1>2, PTL DEF TransferSpec

(* The senders and the streams keep to their types, also when files change *)
(* as they are sent: no sender reads past the length it announced, and one *)
(* that waits for the ACK is at its end.                                   *)
THEOREM SessionsWellTyped == TransferSpec => []TransferTypeOK
<1>1. TransferInv => TransferTypeOK
  BY DEF TransferInv, TInv
<1> QED BY TransferInvHolds, <1>1, PTL

(* A sender that reports success (run_sender_transfer, "5. Wait for ACK")  *)
(* has a receiver that is done, also when sessions share the directory and *)
(* files change: an ACK is in flight only after the receiver's last step.  *)
THEOREM SuccessMeansDone == TransferSpec => []SuccessIsDone
<1>1. TransferInv => SuccessIsDone
  BY DEF TransferInv, TInv, Streams, Acked, SuccessIsDone
<1> QED BY TransferInvHolds, <1>1, PTL

(* The lock of resume.rs keeps a partial file to one receiver, also in     *)
(* whole sessions that fail half-way and whose senders edit their files.   *)
THEOREM SessionsOneWriter == TransferSpec => []OneWriter
<1>1. TransferInv => OneWriter
  BY DEF TransferInv, TInv, LInv, Inv, TypeOK, Locked, OneWriter
<1> QED BY TransferInvHolds, <1>1, PTL

(* A step after which still no file has changed is a step of ResumeStore.  *)
LEMMA UneditedStep ==
    ASSUME TransferInv, [TransferNext]_allVars, edits' = 0 PROVE [Next]_vars
<1>1. TransferTypeOK
  BY DEF TransferInv, TInv
<1>2. edits \in Nat
  BY <1>1 DEF TransferTypeOK
<1>3. edits = 0
  BY <1>1, <1>2, EditsCount
<1> QED BY <1>3, Refines DEF TransferInv

(* Whole sessions implement ResumeStore as long as no file has been edited *)
(* while it was sent: whatever fails, and from whatever offset a receiver  *)
(* resumes, the chunk run_receiver_transfer writes is the one that belongs *)
(* at its write position.                                                  *)
THEOREM SessionsImplementStore == TransferSpec => ImplementsStore
<1>1. TransferInit => Init
  BY DEF TransferInit
<1>2. TransferInv /\ [TransferNext]_allVars => [edits' = 0 => Next]_vars
  BY UneditedStep
<1> QED BY TransferInvHolds, <1>1, <1>2, PTL DEF TransferSpec, ImplementsStore

(* Where files are never edited the sessions are an implementation of      *)
(* ResumeStore without reserve, and inherit whatever is proved of it.      *)
THEOREM UneditedSessions == MaxEdits = 0 => (TransferSpec => Spec)
<1> SUFFICES ASSUME MaxEdits = 0 PROVE TransferSpec => Spec
  OBVIOUS
<1>1. TransferInit => Init
  BY DEF TransferInit
<1>2. TransferInv /\ [TransferNext]_allVars => [Next]_vars
  <2>1. TransferInv => TransferTypeOK
    BY DEF TransferInv, TInv
  <2>2. TransferTypeOK => edits = 0
    BY DEF TransferTypeOK
  <2> QED BY <2>1, <2>2, Refines DEF TransferInv
<1> QED BY TransferInvHolds, <1>1, <1>2, PTL DEF TransferSpec, Spec
=============================================================================
