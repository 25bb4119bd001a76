---------------------------- MODULE SessionProofs ----------------------------
(***************************************************************************)
(* Proofs about Session, for every set of peers, whatever their secrets,   *)
(* claims and number of faults.                                            *)
(***************************************************************************)
EXTENDS Session, TLAPS

USE SessionAssumption
------------------------------------------------------------------------------
(* Peer r has the secret and has seen the sender's confirmation.  It       *)
(* remembers so after the connection has ended; only who never had one     *)
(* tries again.                                                            *)
Sealed(r) ==
    /\ secret[r] = Secret /\ link[r] # "none"
    /\ rkey[r] = <<r, "shared">>
    /\ rpc[r] \in {"authed"} \cup PeerEnd

(* What can be in a stream.                                                *)
ToS(r) == {Hello(r), Confirm(<<r, "receiver">>)} \cup {m \in {Confirm(<<r, "shared">>)} : Sealed(r)}
SenderKey(r) == Derived(r, "sender", Secret, secret[r])
ToR(r) == {Ready, Pake, Confirm(SenderKey(r))} \cup {m \in {Header} : spc = "transfer" /\ cur = r}

Types ==
    /\ pin \in BOOLEAN
    /\ secret \in [Peers -> {Secret, Wrong}]
    /\ claim \in [Peers -> Claims]
    /\ spc \in SenderStages
    /\ cur \in Peers \cup {Nil}
    /\ skey \in Keys \cup {Nil}
    /\ rpc \in [Peers -> PeerStages]
    /\ rkey \in [Peers -> Keys \cup {Nil}]
    /\ DOMAIN toS = Peers /\ DOMAIN toR = Peers
    /\ link \in [Peers -> {"none", "up", "closed"}]
    /\ faults \in 0..MaxFaults
    /\ spc \in {"opening", "hello", "confirm", "authorized", "transfer"} => cur # Nil

SenderInv ==
    /\ spc = "confirm" => skey = SenderKey(cur) /\ claim[cur] = Truth
    /\ spc \in {"authorized", "transfer"} =>
          skey = <<cur, "shared">> /\ claim[cur] = Truth /\ Sealed(cur)

PeerInv(r) ==
    /\ rpc[r] \in {"confirm", "authed", "receiving"} =>
          rkey[r] = Derived(r, "receiver", secret[r], Secret)
    /\ rpc[r] \in {"authed", "receiving"} => secret[r] = Secret
    /\ rpc[r] = "receiving" => spc = "transfer" /\ cur = r
    /\ rpc[r] \in {"stream", "pake", "confirm", "authed"} => link[r] # "none"

Streams == /\ toS = [r \in Peers |-> toS[r]] /\ toR = [r \in Peers |-> toR[r]]
           /\ \A r \in Peers : toS[r] \in Seq(ToS(r)) /\ toR[r] \in Seq(ToR(r))

IInv == Types /\ SenderInv /\ (\A r \in Peers : PeerInv(r)) /\ Streams
------------------------------------------------------------------------------
(* What a step may do to a stream: take, cut, and append what fits.        *)
Follows(w, q, S) ==
    \/ w = q
    \/ q # <<>> /\ w = Tail(q)
    \/ \E k \in 0..Len(q) : w = SubSeq(q, 1, k)
    \/ \E m \in S : w = Append(q, m)
    \/ \E m, n \in S : w = q \o <<m, n>>
    \/ \E m \in S : w = <<m>>

(* What such a step leaves in the stream is of the stream's type.          *)
LEMMA FollowsIn ==
    ASSUME NEW S, NEW T, S \subseteq T, NEW q \in Seq(S), NEW w, Follows(w, q, T)
    PROVE  w \in Seq(T)
<1>1. q \in Seq(T)
  OBVIOUS
<1>2. CASE \E k \in 0..Len(q) : w = SubSeq(q, 1, k)
  <2>1. PICK k \in 0..Len(q) : w = SubSeq(q, 1, k)
    BY <1>2
  <2>2. \A i \in 1..k : q[i] \in T
    BY <1>1
  <2> QED BY <1>1, <2>1, <2>2
<1>3. CASE \E m, n \in T : w = q \o <<m, n>>
  BY <1>1, <1>3
<1>4. CASE \E m \in T : w = Append(q, m)
  BY <1>1, <1>4
<1>6. CASE \E m \in T : w = <<m>>
  BY <1>6
<1>5. CASE w = q \/ (q # <<>> /\ w = Tail(q))
  BY <1>1, <1>5
<1> QED BY <1>2, <1>3, <1>4, <1>5, <1>6 DEF Follows

(* The types that TypeOK gives the streams are wider.                      *)
LEMMA TypesSuffice == IInv => TypeOK
<1> SUFFICES ASSUME IInv PROVE TypeOK
  OBVIOUS
<1> DEFINE A == {Confirm(k) : k \in Keys} \cup [t : {"hello"}, claim : Claims, by : {Secret, Wrong}]
           B == {Ready, Header, Pake} \cup {Confirm(k) : k \in Keys}
<1>1. \A r \in Peers : ToS(r) \subseteq A
  <2> SUFFICES ASSUME NEW r \in Peers PROVE ToS(r) \subseteq A
    OBVIOUS
  <2>1. <<r, "shared">> \in Keys /\ <<r, "receiver">> \in Keys
    BY DEF Keys
  <2>2. Hello(r) \in [t : {"hello"}, claim : Claims, by : {Secret, Wrong}]
    BY DEF IInv, Types, Hello
  <2> QED BY <2>1, <2>2 DEF ToS
<1>2. \A r \in Peers : ToR(r) \subseteq B
  <2>1. \A r \in Peers : SenderKey(r) \in Keys
    BY DEF SenderKey, Derived, Keys
  <2> QED BY <2>1 DEF ToR
<1> HIDE DEF A, B
<1>3. toS \in [Peers -> Seq(A)]
  BY <1>1 DEF IInv, Streams
<1>4. toR \in [Peers -> Seq(B)]
  BY <1>2 DEF IInv, Streams
<1> USE DEF A, B
<1> QED BY <1>3, <1>4 DEF IInv, Types, TypeOK

(* The invariant implies both properties.                                  *)
LEMMA Safe == IInv => Agreement /\ RightSender
BY DEF IInv, Types, SenderInv, PeerInv, Agreement, RightSender, Sealed, Honest, PeerEnd

(* The invariant holds at the start.                                       *)
LEMMA InitInv == Init => IInv
<1> SUFFICES ASSUME Init PROVE IInv
  OBVIOUS
<1>1. Types
  <2>1. spc \in SenderStages /\ rpc \in [Peers -> PeerStages] /\ faults \in 0..MaxFaults
    BY DEF Init, SenderStages, Waiting, PeerStages
  <2> QED BY <2>1 DEF Init, Types
<1>2. SenderInv /\ \A r \in Peers : PeerInv(r)
  BY DEF Init, SenderInv, PeerInv
<1>3. Streams
  <2>1. \A r \in Peers : toS[r] = <<>> /\ toR[r] = <<>>
    BY DEF Init
  <2>2. \A r \in Peers : <<>> \in Seq(ToS(r)) /\ <<>> \in Seq(ToR(r))
    OBVIOUS
  <2> QED BY <2>1, <2>2 DEF Init, Streams
<1> QED BY <1>1, <1>2, <1>3 DEF IInv

(* A step that keeps the types, seals no less, and lets the streams follow *)
(* what they were, keeps the streams.                                      *)
LEMMA StreamsFollow ==
    ASSUME IInv, secret' = secret, claim' = claim,
           \A r \in Peers : Sealed(r) => Sealed(r)',
           spc = "transfer" => spc' = "transfer" /\ cur' = cur,
           toS' = [r \in Peers |-> toS'[r]], toR' = [r \in Peers |-> toR'[r]],
           \A r \in Peers : Follows(toS'[r], toS[r], ToS(r)'),
           \A r \in Peers : Follows(toR'[r], toR[r], ToR(r)')
    PROVE  Streams'
<1> SUFFICES ASSUME NEW r \in Peers PROVE toS'[r] \in Seq(ToS(r)') /\ toR'[r] \in Seq(ToR(r)')
  BY DEF Streams
<1>1. toS[r] \in Seq(ToS(r)) /\ toR[r] \in Seq(ToR(r))
  BY DEF IInv, Streams
<1>2. ToS(r) \subseteq ToS(r)'
  BY DEF ToS, Hello
<1>3. ToR(r) \subseteq ToR(r)'
  BY DEF ToR, SenderKey
<1>4. toS'[r] \in Seq(ToS(r)')
  BY <1>1, <1>2, FollowsIn
<1>5. toR'[r] \in Seq(ToR(r)')
  BY <1>1, <1>3, FollowsIn
<1> QED BY <1>4, <1>5

(* Closing a connection cuts its two streams and no other.                 *)
LEMMA CloseFollows ==
    ASSUME IInv, NEW c \in Peers, Close(c)
    PROVE  /\ toS' = [r \in Peers |-> toS'[r]] /\ toR' = [r \in Peers |-> toR'[r]]
           /\ \A r \in Peers : Follows(toS'[r], toS[r], ToS(r)') /\ Follows(toR'[r], toR[r], ToR(r)')
           /\ link' \in [Peers -> {"none", "up", "closed"}]
           /\ \A r \in Peers : link[r] # "none" => link'[r] # "none"
<1>1. PICK k \in 0..Len(toS[c]) : toS' = [toS EXCEPT ![c] = SubSeq(@, 1, k)]
  BY DEF Close, Cut
<1>2. PICK n \in 0..Len(toR[c]) : toR' = [toR EXCEPT ![c] = SubSeq(@, 1, n)]
  BY DEF Close, Cut
<1>3. DOMAIN toS = Peers /\ DOMAIN toR = Peers /\ toS = [r \in Peers |-> toS[r]]
      /\ toR = [r \in Peers |-> toR[r]]
  BY DEF IInv, Types, Streams
<1>4. \A r \in Peers : toS'[r] = toS[r] \/ \E j \in 0..Len(toS[r]) : toS'[r] = SubSeq(toS[r], 1, j)
  BY <1>1, <1>3
<1>5. \A r \in Peers : toR'[r] = toR[r] \/ \E j \in 0..Len(toR[r]) : toR'[r] = SubSeq(toR[r], 1, j)
  BY <1>2, <1>3
<1>6. /\ link' \in [Peers -> {"none", "up", "closed"}]
      /\ \A r \in Peers : link[r] # "none" => link'[r] # "none"
  BY DEF Close, IInv, Types
<1> QED BY <1>1, <1>2, <1>3, <1>4, <1>5, <1>6 DEF Follows

(* A step of a peer: what is special about it is what it knows, and what   *)
(* it sends.                                                               *)
LEMMA PeerMoves ==
    ASSUME IInv, NEW r \in Peers, NEW l \in PeerStages,
           UNCHANGED <<inputs, svars>>,
           rpc' = [rpc EXCEPT ![r] = l],
           rkey' \in [Peers -> Keys \cup {Nil}], \A q \in Peers \ {r} : rkey'[q] = rkey[q],
           Sealed(r) => Sealed(r)', PeerInv(r)',
           link' \in [Peers -> {"none", "up", "closed"}], faults' \in 0..MaxFaults,
           \A q \in Peers : link[q] # "none" => link'[q] # "none",
           toS' = [q \in Peers |-> toS'[q]], toR' = [q \in Peers |-> toR'[q]],
           \A q \in Peers : Follows(toS'[q], toS[q], ToS(q)'),
           \A q \in Peers : Follows(toR'[q], toR[q], ToR(q)')
    PROVE  IInv'
<1>1. \A q \in Peers : Sealed(q) => Sealed(q)'
  BY DEF IInv, Types, Sealed, inputs
<1>2. Types'
  BY DEF IInv, Types, inputs, svars
<1>3. SenderInv'
  BY <1>1 DEF IInv, Types, SenderInv, SenderKey, inputs, svars
<1>4. \A q \in Peers : PeerInv(q)'
  BY DEF IInv, Types, PeerInv, inputs, svars
<1>5. Streams'
  BY <1>1, StreamsFollow DEF inputs, svars
<1> QED BY <1>2, <1>3, <1>4, <1>5 DEF IInv

(* A step of the sender's in which no peer moves, before it serves one.    *)
LEMMA SenderMoves ==
    ASSUME IInv, UNCHANGED <<inputs, rvars>>,
           spc # "transfer", spc' \in SenderStages,
           cur' \in Peers \cup {Nil}, skey' \in Keys \cup {Nil},
           spc' \in {"opening", "hello", "confirm", "authorized", "transfer"} => cur' # Nil,
           SenderInv',
           link' \in [Peers -> {"none", "up", "closed"}], faults' \in 0..MaxFaults,
           \A q \in Peers : link[q] # "none" => link'[q] # "none",
           toS' = [q \in Peers |-> toS'[q]], toR' = [q \in Peers |-> toR'[q]],
           \A q \in Peers : Follows(toS'[q], toS[q], ToS(q)'),
           \A q \in Peers : Follows(toR'[q], toR[q], ToR(q)')
    PROVE  IInv'
<1>1. \A q \in Peers : Sealed(q) => Sealed(q)'
  BY DEF Sealed, inputs, rvars
<1>2. Types'
  BY DEF IInv, Types, inputs, rvars
<1>3. \A q \in Peers : PeerInv(q)'
  BY DEF IInv, PeerInv, inputs, rvars
<1>4. Streams'
  BY <1>1, StreamsFollow DEF inputs
<1> QED BY <1>2, <1>3, <1>4 DEF IInv

(* Going back to accept, or to the end, keeps the invariant.               *)
LEMMA RejectStep ==
    ASSUME IInv, UNCHANGED <<inputs, rvars>>, spc # "transfer", cur \in Peers,
           spc' \in {"accept", "expired"}, cur' = Nil, skey' = Nil, Close(cur),
           faults' \in 0..MaxFaults
    PROVE  IInv'
<1>1. spc' \in SenderStages /\ SenderInv'
  BY DEF SenderStages, Waiting, SenderInv
<1> QED BY <1>1, CloseFollows, SenderMoves
------------------------------------------------------------------------------
(* The sender *)

(* The streams as the invariant has them.                                  *)
LEMMA StreamFacts ==
    ASSUME IInv
    PROVE  /\ toS = [q \in Peers |-> toS[q]] /\ toR = [q \in Peers |-> toR[q]]
           /\ DOMAIN toS = Peers /\ DOMAIN toR = Peers
           /\ \A q \in Peers : toS[q] \in Seq(ToS(q)) /\ toR[q] \in Seq(ToR(q))
           /\ \A q \in Peers : \A S : Follows(toS[q], toS[q], S) /\ Follows(toR[q], toR[q], S)
BY DEF IInv, Streams, Types, Follows

(* What comes out of a stream was put there by the peer it belongs to.     *)
LEMMA Received ==
    ASSUME IInv, NEW r \in Peers, toS[r] # <<>>
    PROVE  /\ Head(toS[r]).t = "hello" => Head(toS[r]) = Hello(r)
           /\ Head(toS[r]).t = "confirm" =>
                 \/ Head(toS[r]) = Confirm(<<r, "shared">>) /\ Sealed(r)
                 \/ Head(toS[r]) = Confirm(<<r, "receiver">>)
<1>1. Head(toS[r]) \in ToS(r)
  BY StreamFacts
<1> QED BY <1>1 DEF ToS, Hello, Confirm

(* What a peer can find at the head of its stream.                         *)
LEMMA Shown ==
    ASSUME IInv, NEW r \in Peers, toR[r] # <<>>
    PROVE  /\ Head(toR[r]).t = "pake" => Head(toR[r]) = Pake
           /\ Head(toR[r]).t = "confirm" => Head(toR[r]) = Confirm(SenderKey(r))
           /\ Head(toR[r]).t = "header" => spc = "transfer" /\ cur = r
<1>1. Head(toR[r]) \in ToR(r)
  BY StreamFacts
<1> QED BY <1>1 DEF ToR, Ready, Pake, Header, Confirm

(* The sender takes the next peer.                                         *)
LEMMA AcceptStep == ASSUME IInv, NEW r \in Peers, Accept(r) PROVE IInv'
<1>1. /\ spc = "accept" /\ rpc[r] = "dialing" /\ spc' = "opening" /\ cur' = r /\ skey' = skey
      /\ rpc' = [rpc EXCEPT ![r] = "stream"] /\ rkey' = rkey /\ UNCHANGED <<inputs, toS, toR, faults>>
      /\ link' = [link EXCEPT ![r] = "up"]
  BY DEF Accept, PeerAt
<1>2. Types'
  BY <1>1 DEF IInv, Types, inputs, SenderStages, Waiting, PeerStages
<1>3. SenderInv' /\ \A q \in Peers : PeerInv(q)'
  BY <1>1 DEF IInv, Types, SenderInv, PeerInv, inputs
<1>4. \A q \in Peers : Sealed(q) => Sealed(q)'
  BY <1>1 DEF IInv, Types, Sealed, PeerEnd, inputs
<1>5. Streams'
  BY <1>1, <1>4, StreamFacts, StreamsFollow DEF inputs
<1> QED BY <1>2, <1>3, <1>5 DEF IInv

(* The ready byte.                                                         *)
LEMMA ReadyByteStep == ASSUME IInv, ReadyByte PROVE IInv'
<1>1. /\ cur \in Peers /\ spc = "opening" /\ spc' = "hello" /\ toR' = [toR EXCEPT ![cur] = <<Ready>>]
      /\ UNCHANGED <<inputs, cur, skey, rvars, toS, link, faults>>
  BY DEF ReadyByte, IInv, Types
<1>2. SenderInv' /\ spc' \in SenderStages
  BY <1>1 DEF SenderInv, SenderStages, Waiting
<1>3. \A q \in Peers : Follows(toR'[q], toR[q], ToR(q)')
  <2>1. \A q \in Peers : toR'[q] = toR[q] \/ toR'[q] = <<Ready>>
    BY <1>1, StreamFacts
  <2> QED BY <2>1 DEF Follows, ToR
<1>4. toR' = [q \in Peers |-> toR'[q]]
  BY <1>1, StreamFacts
<1> QED BY <1>1, <1>2, <1>3, <1>4, StreamFacts, SenderMoves DEF IInv, Types

(* The sender answers the first message, or rejects it.                    *)
LEMMA RecvHelloStep == ASSUME IInv, RecvHello PROVE IInv'
<1>1. /\ cur \in Peers /\ spc = "hello" /\ toS[cur] # <<>> /\ Head(toS[cur]) = Hello(cur)
      /\ UNCHANGED <<inputs, rvars, faults>>
  BY Received DEF RecvHello, Arrives, IInv, Types
<1>2. CASE Reject
  BY <1>1, <1>2, RejectStep DEF Reject, IInv, Types
<1>3. CASE ~Reject
  <2>1. /\ claim[cur] = Truth /\ spc' = "confirm" /\ skey' = SenderKey(cur)
        /\ toS' = [toS EXCEPT ![cur] = Tail(@)]
        /\ toR' = [toR EXCEPT ![cur] = @ \o <<Pake, Confirm(SenderKey(cur))>>]
        /\ UNCHANGED <<cur, link>>
    BY <1>1, <1>3 DEF RecvHello, Hello, SenderKey
  <2>2. SenderKey(cur) \in Keys
    BY <1>1 DEF SenderKey, Derived, Keys
  <2>3. SenderInv' /\ spc' \in SenderStages
    BY <1>1, <2>1 DEF SenderInv, SenderKey, inputs, SenderStages, Waiting
  <2>4. \A q \in Peers : toS'[q] = toS[q] \/ (toS'[q] = Tail(toS[q]) /\ toS[q] # <<>>)
    <3>1. DOMAIN toS = Peers
      BY StreamFacts
    <3>2. toS'[cur] = Tail(toS[cur]) /\ \A q \in Peers \ {cur} : toS'[q] = toS[q]
      BY <1>1, <2>1, <3>1
    <3> QED BY <1>1, <3>2
  <2>5. \A q \in Peers : \/ toR'[q] = toR[q]
                         \/ q = cur /\ toR'[q] = toR[q] \o <<Pake, Confirm(SenderKey(q))>>
    BY <1>1, <2>1, StreamFacts
  <2>6. \A q \in Peers : Follows(toS'[q], toS[q], ToS(q)')
    BY <2>4 DEF Follows
  <2>7. \A q \in Peers : Follows(toR'[q], toR[q], ToR(q)')
    <3>1. \A q \in Peers : Pake \in ToR(q)' /\ Confirm(SenderKey(q)) \in ToR(q)'
      BY <1>1 DEF ToR, SenderKey, inputs
    <3> QED BY <2>5, <3>1 DEF Follows
  <2> QED BY <1>1, <2>1, <2>2, <2>3, <2>6, <2>7, StreamFacts, SenderMoves DEF IInv, Types
<1> QED BY <1>2, <1>3

(* The sender checks the confirmation: here the peer shows that it has the *)
(* secret.                                                                 *)
LEMMA RecvConfirmStep == ASSUME IInv, RecvConfirm PROVE IInv'
<1>1. /\ cur \in Peers /\ spc = "confirm" /\ toS[cur] # <<>>
      /\ \/ Head(toS[cur]) = Confirm(<<cur, "shared">>) /\ Sealed(cur)
         \/ Head(toS[cur]) = Confirm(<<cur, "receiver">>)
      /\ UNCHANGED <<inputs, rvars, faults>>
  BY Received DEF RecvConfirm, Arrives, IInv, Types
<1>2. CASE Reject
  BY <1>1, <1>2, RejectStep DEF Reject, IInv, Types
<1>3. CASE ~Reject
  <2>1. /\ Head(toS[cur]).key = skey /\ spc' = "authorized"
        /\ toS' = [toS EXCEPT ![cur] = Tail(@)]
        /\ UNCHANGED <<cur, skey, toR, link>>
    BY <1>1, <1>3 DEF RecvConfirm
  <2>2. Sealed(cur) /\ skey = <<cur, "shared">> /\ claim[cur] = Truth
    <3>1. skey = SenderKey(cur) /\ claim[cur] = Truth
      BY <1>1 DEF IInv, SenderInv
    <3>2. SenderKey(cur) # <<cur, "receiver">>
      BY DEF SenderKey, Derived
    <3> QED BY <1>1, <2>1, <3>1, <3>2 DEF Confirm
  <2>3. SenderInv' /\ spc' \in SenderStages
    BY <1>1, <2>1, <2>2 DEF SenderInv, Sealed, inputs, rvars, SenderStages
  <2>4. \A q \in Peers : toS'[q] = toS[q] \/ (toS'[q] = Tail(toS[q]) /\ toS[q] # <<>>)
    <3>1. DOMAIN toS = Peers
      BY StreamFacts
    <3>2. toS'[cur] = Tail(toS[cur]) /\ \A q \in Peers \ {cur} : toS'[q] = toS[q]
      BY <1>1, <2>1, <3>1
    <3> QED BY <1>1, <3>2
  <2>5. \A q \in Peers : Follows(toS'[q], toS[q], ToS(q)')
    BY <2>4 DEF Follows
  <2> QED BY <1>1, <2>1, <2>3, <2>5, StreamFacts, SenderMoves DEF IInv, Types
<1> QED BY <1>2, <1>3

(* Errors, timeouts and the deadline.                                      *)
LEMMA GivesUpStep ==
    ASSUME IInv, OpenFails \/ AuthError \/ AuthTimeout \/ PinExpires PROVE IInv'
<1>1. ASSUME OpenFails \/ AuthError \/ AuthTimeout PROVE IInv'
  <2>1. /\ spc \in {"opening", "hello", "confirm"} /\ cur \in Peers /\ Reject
        /\ UNCHANGED <<inputs, rvars>> /\ faults' \in 0..MaxFaults
    BY <1>1 DEF OpenFails, AuthError, AuthTimeout, Fault, IInv, Types
  <2> QED BY <2>1, RejectStep DEF Reject
<1>2. ASSUME PinExpires PROVE IInv'
  <2>1. /\ spc \in Waiting /\ spc' = "expired" /\ skey' = Nil /\ cur' = Nil
        /\ UNCHANGED <<inputs, rvars, faults>>
        /\ IF cur = Nil THEN UNCHANGED nvars ELSE Close(cur)
    BY <1>2 DEF PinExpires, Expire
  <2>2. CASE cur = Nil
    <3>1. SenderInv' /\ spc' \in SenderStages
      BY <2>1 DEF SenderInv, SenderStages
    <3> QED BY <2>1, <2>2, <3>1, StreamFacts, SenderMoves DEF IInv, Types, nvars, Waiting
  <2>3. CASE cur # Nil
    BY <2>1, <2>3, RejectStep DEF IInv, Types, Waiting
  <2> QED BY <2>2, <2>3
<1> QED BY <1>1, <1>2

(* The sender goes on to the transfer.                                     *)
LEMMA SendHeaderStep == ASSUME IInv, SendHeader PROVE IInv'
<1>1. /\ cur \in Peers /\ spc = "authorized" /\ spc' \in {"transfer", "failed"}
      /\ UNCHANGED <<inputs, cur, skey, rvars, toS, link, faults>>
      /\ spc' = "transfer" => toR' = [toR EXCEPT ![cur] = Append(@, Header)]
      /\ spc' = "failed" => toR' = toR
  BY DEF SendHeader, IInv, Types
<1>2. SenderInv' /\ spc' \in SenderStages
  BY <1>1 DEF IInv, SenderInv, Sealed, SenderStages, inputs, rvars
<1>3. toR' = [q \in Peers |-> toR'[q]]
      /\ \A q \in Peers : \/ toR'[q] = toR[q]
                          \/ (spc' = "transfer" /\ q = cur /\ toR'[q] = Append(toR[q], Header))
  BY <1>1, StreamFacts
<1>4. \A q \in Peers : Follows(toR'[q], toR[q], ToR(q)')
  BY <1>1, <1>3 DEF Follows, ToR
<1>5. toS' = [q \in Peers |-> toS'[q]] /\ \A q \in Peers : Follows(toS'[q], toS[q], ToS(q)')
  BY <1>1, StreamFacts
<1> QED BY <1>1, <1>2, <1>3, <1>4, <1>5, SenderMoves DEF IInv, Types
------------------------------------------------------------------------------
(* The peers *)

(* Steps that send nothing and learn nothing.                              *)
LEMMA QuietStep ==
    ASSUME IInv, NEW r \in Peers,
           \/ Dial(r) \/ StreamError(r) \/ DialFails(r) \/ Retry(r)
           \/ PeerTimeout(r) \/ Stall(r) \/ Withhold(r)
    PROVE  IInv'
<1>1. /\ UNCHANGED <<inputs, svars, rkey>>
      /\ UNCHANGED nvars \/ Close(r)
      /\ faults' \in 0..MaxFaults
  BY DEF Dial, StreamError, DialFails, Retry, PeerTimeout, Stall, Withhold, Wayward, Fault, IInv, Types
<1>2. \E l \in {"idle", "dialing", "failed", "silent", "holding"} :
         rpc' = [rpc EXCEPT ![r] = l] /\ (l = "dialing" => rpc[r] = "idle") /\ (l = "idle" => link[r] = "none")
  BY DEF Dial, StreamError, DialFails, Retry, PeerTimeout, Stall, Withhold, PeerAt
<1>3. PICK l \in {"idle", "dialing", "failed", "silent", "holding"} :
         rpc' = [rpc EXCEPT ![r] = l] /\ (l = "dialing" => rpc[r] = "idle") /\ (l = "idle" => link[r] = "none")
  BY <1>2
<1>4. l \in PeerStages /\ rpc'[r] = l
  <2>1. l \in PeerStages
    BY DEF PeerStages, PeerEnd
  <2>2. rpc'[r] = l
    BY <1>3 DEF IInv, Types
  <2> QED BY <2>1, <2>2
<1>5. /\ toS' = [q \in Peers |-> toS'[q]] /\ toR' = [q \in Peers |-> toR'[q]]
      /\ \A q \in Peers : Follows(toS'[q], toS[q], ToS(q)') /\ Follows(toR'[q], toR[q], ToR(q)')
      /\ link' \in [Peers -> {"none", "up", "closed"}]
      /\ \A q \in Peers : link[q] # "none" => link'[q] # "none"
  <2>1. CASE UNCHANGED nvars  BY <2>1, StreamFacts DEF nvars, IInv, Types
  <2>2. CASE Close(r)  BY <2>2, CloseFollows
  <2> QED BY <1>1, <2>1, <2>2
<1>6. PeerInv(r)' /\ (Sealed(r) => Sealed(r)')
  <2>1. l \notin {"stream", "pake", "confirm", "authed", "receiving"}
    OBVIOUS
  <2>2. PeerInv(r)'
    BY <1>4, <2>1 DEF PeerInv
  <2>3. ASSUME Sealed(r) PROVE Sealed(r)'
    <3>1. l \in {"failed", "silent", "holding"}
      BY <1>3, <2>3 DEF Sealed, PeerEnd
    <3>2. secret' = secret /\ rkey' = rkey /\ link'[r] # "none"
      BY <1>1, <1>5, <2>3 DEF Sealed, inputs
    <3> QED BY <1>4, <2>3, <3>1, <3>2 DEF Sealed, PeerEnd
  <2> QED BY <2>2, <2>3
<1>7. rkey \in [Peers -> Keys \cup {Nil}]
  BY DEF IInv, Types
<1> QED BY <1>1, <1>3, <1>4, <1>5, <1>6, <1>7, PeerMoves

(* A peer with another secret sends a confirmation that opens with no key  *)
(* of the sender's.                                                        *)
LEMMA BluffStep == ASSUME IInv, NEW r \in Peers, Bluff(r) PROVE IInv'
<1>1. /\ secret[r] # Secret /\ rpc[r] = "confirm" /\ rpc' = [rpc EXCEPT ![r] = "silent"]
      /\ toS' = [toS EXCEPT ![r] = Append(@, Confirm(rkey[r]))] \/ toS' = [toS EXCEPT ![r] = @]
      /\ UNCHANGED <<inputs, svars, rkey, toR, link, faults>>
  BY DEF Bluff, PeerAt
<1>2. rkey[r] = <<r, "receiver">>
  BY <1>1 DEF IInv, PeerInv, Derived
<1>3. /\ "silent" \in PeerStages /\ rpc'[r] = "silent" /\ rkey \in [Peers -> Keys \cup {Nil}]
      /\ link \in [Peers -> {"none", "up", "closed"}] /\ faults \in 0..MaxFaults
  BY <1>1 DEF IInv, Types, PeerStages, PeerEnd
<1>4. PeerInv(r)' /\ (Sealed(r) => Sealed(r)')
  BY <1>1, <1>3 DEF PeerInv, Sealed, PeerEnd
<1>5. /\ toS' = [q \in Peers |-> toS'[q]] /\ toR' = [q \in Peers |-> toR'[q]]
      /\ \A q \in Peers : toS'[q] = toS[q] \/ toS'[q] = Append(toS[q], Confirm(<<q, "receiver">>))
      /\ \A q \in Peers : toR'[q] = toR[q]
  BY <1>1, <1>2, StreamFacts
<1>6. \A q \in Peers : Follows(toS'[q], toS[q], ToS(q)') /\ Follows(toR'[q], toR[q], ToR(q)')
  BY <1>5 DEF Follows, ToS
<1> QED BY <1>1, <1>3, <1>4, <1>5, <1>6, PeerMoves

(* A connection breaks.                                                    *)
LEMMA LinkLostStep == ASSUME IInv, NEW r \in Peers, LinkLost(r) PROVE IInv'
<1>1. /\ UNCHANGED <<inputs, svars, rvars>> /\ Close(r) /\ faults' \in 0..MaxFaults
  BY DEF LinkLost, Fault, IInv, Types
<1>2. rpc' = [rpc EXCEPT ![r] = rpc[r]] /\ rpc[r] \in PeerStages
      /\ rkey' \in [Peers -> Keys \cup {Nil}] /\ rkey' = rkey
  BY <1>1 DEF IInv, Types, rvars
<1>3. PeerInv(r)' /\ (Sealed(r) => Sealed(r)')
  BY <1>1, CloseFollows DEF IInv, PeerInv, Sealed, inputs, svars, rvars
<1> QED BY <1>1, <1>2, <1>3, CloseFollows, PeerMoves

(* The peer opens the stream and says hello.                               *)
LEMMA OpenStreamStep == ASSUME IInv, NEW r \in Peers, OpenStream(r) PROVE IInv'
<1>1. /\ rpc[r] = "stream" /\ toR[r] # <<>> /\ rpc' = [rpc EXCEPT ![r] = "pake"]
      /\ toR' = [toR EXCEPT ![r] = Tail(@)]
      /\ toS' = [toS EXCEPT ![r] = Append(@, Hello(r))] \/ toS' = [toS EXCEPT ![r] = @]
      /\ UNCHANGED <<inputs, svars, rkey, link, faults>>
  BY DEF OpenStream, Arrives, PeerAt
<1>2. /\ "pake" \in PeerStages /\ rpc'[r] = "pake" /\ rkey \in [Peers -> Keys \cup {Nil}]
      /\ link \in [Peers -> {"none", "up", "closed"}] /\ faults \in 0..MaxFaults
  BY <1>1 DEF IInv, Types, PeerStages
<1>3. PeerInv(r)' /\ (Sealed(r) => Sealed(r)')
  BY <1>1, <1>2 DEF IInv, PeerInv, Sealed, PeerEnd
<1>4. /\ toS' = [q \in Peers |-> toS'[q]] /\ toR' = [q \in Peers |-> toR'[q]]
      /\ \A q \in Peers : toS'[q] = toS[q] \/ toS'[q] = Append(toS[q], Hello(q))
      /\ \A q \in Peers : toR'[q] = toR[q] \/ (toR[q] # <<>> /\ toR'[q] = Tail(toR[q]))
  BY <1>1, StreamFacts
<1>5. \A q \in Peers : Hello(q) \in ToS(q)'
  BY <1>1 DEF ToS, Hello, inputs
<1>6. \A q \in Peers : Follows(toS'[q], toS[q], ToS(q)') /\ Follows(toR'[q], toR[q], ToR(q)')
  BY <1>4, <1>5 DEF Follows
<1> QED BY <1>1, <1>2, <1>3, <1>4, <1>6, PeerMoves

(* The peer derives its key.                                               *)
LEMMA RecvPakeStep == ASSUME IInv, NEW r \in Peers, RecvPake(r) PROVE IInv'
<1>1. /\ rpc[r] = "pake" /\ toR[r] # <<>> /\ Head(toR[r]) = Pake
      /\ rpc' = [rpc EXCEPT ![r] = "confirm"]
      /\ rkey' = [rkey EXCEPT ![r] = Derived(r, "receiver", secret[r], Secret)]
      /\ toR' = [toR EXCEPT ![r] = Tail(@)]
      /\ UNCHANGED <<inputs, svars, toS, link, faults>>
  <2>1. toR[r] # <<>> /\ Head(toR[r]) = Pake
    BY Shown DEF RecvPake, Arrives
  <2>2. Head(toR[r]).by = Secret
    BY <2>1 DEF Pake
  <2> QED BY <2>1, <2>2 DEF RecvPake, PeerAt
<1>2. /\ "confirm" \in PeerStages /\ rpc'[r] = "confirm"
      /\ Derived(r, "receiver", secret[r], Secret) \in Keys
      /\ link \in [Peers -> {"none", "up", "closed"}] /\ faults \in 0..MaxFaults
  BY <1>1 DEF IInv, Types, PeerStages, Derived, Keys
<1>3. /\ rkey' \in [Peers -> Keys \cup {Nil}] /\ \A q \in Peers \ {r} : rkey'[q] = rkey[q]
      /\ rkey'[r] = Derived(r, "receiver", secret[r], Secret)
  BY <1>1, <1>2 DEF IInv, Types
<1>4. PeerInv(r)' /\ (Sealed(r) => Sealed(r)')
  BY <1>1, <1>2, <1>3 DEF IInv, PeerInv, Sealed, PeerEnd, inputs
<1>5. /\ toS' = [q \in Peers |-> toS'[q]] /\ toR' = [q \in Peers |-> toR'[q]]
      /\ \A q \in Peers : toS'[q] = toS[q]
      /\ \A q \in Peers : toR'[q] = toR[q] \/ (toR[q] # <<>> /\ toR'[q] = Tail(toR[q]))
  BY <1>1, StreamFacts
<1>6. \A q \in Peers : Follows(toS'[q], toS[q], ToS(q)') /\ Follows(toR'[q], toR[q], ToR(q)')
  BY <1>5 DEF Follows
<1> QED BY <1>1, <1>2, <1>3, <1>4, <1>5, <1>6, PeerMoves

(* The two confirmations open with one key: the secrets are the same.      *)
LEMMA ConfirmBackStep == ASSUME IInv, NEW r \in Peers, ConfirmBack(r) PROVE IInv'
<1>1. /\ rpc[r] = "confirm" /\ toR[r] # <<>> /\ Head(toR[r]) = Confirm(SenderKey(r))
      /\ UNCHANGED <<inputs, svars, rkey, faults>>
      /\ rkey[r] = Derived(r, "receiver", secret[r], Secret)
      /\ rkey \in [Peers -> Keys \cup {Nil}] /\ faults \in 0..MaxFaults
      /\ link \in [Peers -> {"none", "up", "closed"}] /\ link[r] # "none"
  BY Shown DEF ConfirmBack, Arrives, IInv, PeerInv, Types
<1>2. CASE Opens(r)
  <2>1. /\ rpc' = [rpc EXCEPT ![r] = "authed"] /\ UNCHANGED link
        /\ toR' = [toR EXCEPT ![r] = Tail(@)]
        /\ toS' = [toS EXCEPT ![r] = Append(@, Confirm(rkey[r]))] \/ toS' = [toS EXCEPT ![r] = @]
    BY <1>2 DEF ConfirmBack, PeerAt
  <2>2. secret[r] = Secret /\ rkey[r] = <<r, "shared">>
    BY <1>1, <1>2 DEF Opens, Confirm, SenderKey, Derived
  <2>3. "authed" \in PeerStages /\ rpc'[r] = "authed"
    BY <2>1 DEF PeerStages, IInv, Types
  <2>4. Sealed(r)' /\ PeerInv(r)'
    BY <1>1, <2>1, <2>2, <2>3 DEF Sealed, PeerInv, inputs
  <2>5. /\ toS' = [q \in Peers |-> toS'[q]] /\ toR' = [q \in Peers |-> toR'[q]]
        /\ \A q \in Peers : toS'[q] = toS[q] \/ (q = r /\ toS'[q] = Append(toS[q], Confirm(<<r, "shared">>)))
        /\ \A q \in Peers : toR'[q] = toR[q] \/ (toR[q] # <<>> /\ toR'[q] = Tail(toR[q]))
    BY <1>1, <2>1, <2>2, StreamFacts
  <2>6. Confirm(<<r, "shared">>) \in ToS(r)'
    BY <2>4 DEF ToS
  <2>7. \A q \in Peers : Follows(toS'[q], toS[q], ToS(q)') /\ Follows(toR'[q], toR[q], ToR(q)')
    BY <2>5, <2>6 DEF Follows
  <2> QED BY <1>1, <2>1, <2>3, <2>4, <2>5, <2>7, PeerMoves
<1>3. CASE ~Opens(r)
  <2>1. rpc' = [rpc EXCEPT ![r] = "failed"] /\ Close(r)
    BY <1>3 DEF ConfirmBack, PeerAt
  <2>2. "failed" \in PeerStages /\ rpc'[r] = "failed"
    BY <2>1 DEF PeerStages, PeerEnd, IInv, Types
  <2>3. PeerInv(r)' /\ (Sealed(r) => Sealed(r)')
    BY <1>1, <2>1, <2>2, CloseFollows DEF PeerInv, Sealed, PeerEnd
  <2> QED BY <1>1, <2>1, <2>2, <2>3, CloseFollows, PeerMoves
<1> QED BY <1>2, <1>3

(* The peer takes the header.                                              *)
LEMMA GetHeaderStep == ASSUME IInv, NEW r \in Peers, GetHeader(r) PROVE IInv'
<1>1. /\ rpc[r] = "authed" /\ toR[r] # <<>> /\ spc = "transfer" /\ cur = r
      /\ rpc' = [rpc EXCEPT ![r] = "receiving"]
      /\ toR' = [toR EXCEPT ![r] = Tail(@)]
      /\ UNCHANGED <<inputs, svars, rkey, toS, link, faults>>
  BY Shown DEF GetHeader, Arrives, PeerAt
<1>2. /\ "receiving" \in PeerStages /\ rpc'[r] = "receiving" /\ rkey \in [Peers -> Keys \cup {Nil}]
      /\ link \in [Peers -> {"none", "up", "closed"}] /\ faults \in 0..MaxFaults
  BY <1>1 DEF IInv, Types, PeerStages, PeerEnd
<1>3. PeerInv(r)' /\ (Sealed(r) => Sealed(r)')
  <2>1. PeerInv(r)
    BY DEF IInv
  <2> QED BY <1>1, <1>2, <2>1 DEF PeerInv, Sealed, PeerEnd, Derived, inputs, svars
<1>4. /\ toS' = [q \in Peers |-> toS'[q]] /\ toR' = [q \in Peers |-> toR'[q]]
      /\ \A q \in Peers : toS'[q] = toS[q]
      /\ \A q \in Peers : toR'[q] = toR[q] \/ (toR[q] # <<>> /\ toR'[q] = Tail(toR[q]))
  BY <1>1, StreamFacts
<1>5. \A q \in Peers : Follows(toS'[q], toS[q], ToS(q)') /\ Follows(toR'[q], toR[q], ToR(q)')
  BY <1>4 DEF Follows
<1> QED BY <1>1, <1>2, <1>3, <1>4, <1>5, PeerMoves
------------------------------------------------------------------------------
(* Each step keeps the invariant.                                          *)
LEMMA Step == IInv /\ [Next]_vars => IInv'
<1> SUFFICES ASSUME IInv, [Next]_vars PROVE IInv'
  OBVIOUS
<1>1. CASE UNCHANGED vars
  <2>1. Types' /\ SenderInv' /\ \A r \in Peers : PeerInv(r)'
    BY <1>1 DEF IInv, Types, SenderInv, PeerInv, Sealed, SenderKey, vars, inputs, svars, rvars, nvars
  <2>2. Streams'
    BY <1>1, StreamFacts, StreamsFollow DEF vars, inputs, svars, rvars, nvars, Sealed
  <2> QED BY <2>1, <2>2 DEF IInv
<1>2. CASE Sender
  BY <1>2, AcceptStep, ReadyByteStep, RecvHelloStep, RecvConfirmStep, GivesUpStep, SendHeaderStep DEF Sender
<1>4. ASSUME NEW r \in Peers, Peer(r) PROVE IInv'
  BY <1>4, QuietStep, OpenStreamStep, RecvPakeStep, ConfirmBackStep, GetHeaderStep DEF Peer
<1>5. ASSUME NEW r \in Peers, Disturb(r) PROVE IInv'
  BY <1>5, QuietStep, BluffStep, LinkLostStep DEF Disturb
<1> QED BY <1>1, <1>2, <1>4, <1>5 DEF Next, AllOver

(* So it holds in every run.                                               *)
LEMMA Invariant == Spec => []IInv
BY InitInv, Step, PTL DEF Spec

(* The types of both ends and of what is in the streams.                   *)
THEOREM TypeCorrect == Spec => []TypeOK
BY Invariant, TypesSuffice, PTL

(* For any number of peers: a sender that goes on to the header has been   *)
(* shown the secret by the peer it serves, and both hold one key.          *)
THEOREM AgreementHolds == Spec => []Agreement
BY Invariant, Safe, PTL

(* For any number of peers: who takes the sender for authenticated has its *)
(* secret, and only the peer that is served has a header.                  *)
THEOREM OnlyTheRightOnes == Spec => []RightSender
BY Invariant, Safe, PTL
=============================================================================
