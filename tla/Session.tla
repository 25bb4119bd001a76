------------------------------- MODULE Session -------------------------------
(***************************************************************************)
(* How a sender and a receiver find out that they belong together, up to   *)
(* the point where Transfer begins: the accept loop of send_file and       *)
(* accept_authorized (src/iroh/sender.rs), receive_internal                *)
(* (src/iroh/receiver.rs) and the handshake of src/auth/spake2.rs.         *)
(*                                                                         *)
(* One sender serves one of several peers that have, or have not, its      *)
(* code.  Cryptography is symbolic: the two ends of a handshake derive the *)
(* same key when they used the same secret and two different keys          *)
(* otherwise, and a confirmation sealed with one key opens with no other.  *)
(* Clocks are abstract: a timeout may strike once the wait it bounds has   *)
(* begun, and the deadline of a PIN at any time.                           *)
(***************************************************************************)
EXTENDS Naturals, Sequences, FiniteSets

CONSTANTS
    Peers,       \* the receivers, named by their endpoint IDs
    Secret,      \* the secret in the sender's code, or its PIN
    Wrong,       \* any other secret
    MaxFaults,   \* bound on the faults of a behaviour
    Nil

ASSUME SessionAssumption ==
    /\ Secret # Wrong /\ Nil \notin Peers
    /\ MaxFaults \in Nat

VARIABLES
    pin,     \* was the sender started with --pin?
    secret,  \* the secret each peer uses
    claim,   \* are the session ID and the client ID it states right?
    spc,     \* where the sender is
    cur,     \* the peer it talks to
    skey,    \* the key it derived
    rpc, rkey,   \* the same of the peers
    toS, toR,    \* the streams of each connection
    link,    \* none, up or closed
    faults

svars == <<spc, cur, skey>>
rvars == <<rpc, rkey>>
nvars == <<toS, toR, link>>
inputs == <<pin, secret, claim>>
vars == <<inputs, svars, rvars, nvars, faults>>

Waiting == {"accept", "opening", "hello", "confirm"}
SenderStages == Waiting \cup {"authorized", "transfer", "failed", "expired"}
PeerEnd == {"receiving", "failed", "silent", "holding"}
PeerStages == {"idle", "dialing", "stream", "pake", "confirm", "authed"} \cup PeerEnd
Claims == [sid : BOOLEAN, cid : BOOLEAN]
Truth == [sid |-> TRUE, cid |-> TRUE]

Keys == Peers \X {"shared", "sender", "receiver"}
Derived(r, side, own, peer) == IF own = peer THEN <<r, "shared">> ELSE <<r, side>>

Ready == [t |-> "ready"]
Header == [t |-> "header"]
Hello(r) == [t |-> "hello", claim |-> claim[r], by |-> secret[r]]
Pake == [t |-> "pake", by |-> Secret]
Confirm(k) == [t |-> "confirm", key |-> k]

Init ==
    /\ pin \in BOOLEAN
    /\ secret \in [Peers -> {Secret, Wrong}]
    /\ claim \in [Peers -> Claims]
    /\ spc = "accept" /\ cur = Nil /\ skey = Nil
    /\ rpc = [r \in Peers |-> "idle"]
    /\ rkey = [r \in Peers |-> Nil]
    /\ toS = [r \in Peers |-> <<>>]
    /\ toR = [r \in Peers |-> <<>>]
    /\ link = [r \in Peers |-> "none"]
    /\ faults = 0

(* The intended receiver's program with the sender's code.                 *)
Honest(r) == secret[r] = Secret /\ claim[r] = Truth

PeerAt(r, l) == rpc' = [rpc EXCEPT ![r] = l]
Arrives(q, r, kind) == q[r] # <<>> /\ Head(q[r]).t = kind

(* A closed connection: what was in flight may still arrive, or part of it. *)
Cut(q, r) == \E k \in 0..Len(q[r]) : q' = [q EXCEPT ![r] = SubSeq(@, 1, k)]
Close(r) ==
    /\ link' = [link EXCEPT ![r] = "closed"]
    /\ Cut(toS, r)
    /\ Cut(toR, r)

Fault == faults < MaxFaults /\ faults' = faults + 1
------------------------------------------------------------------------------
(* The sender                                                              *)

(* The next connection is taken: its handshake, and the stream for ours,   *)
(* have no timeout but the PIN's deadline.                                 *)
Accept(r) ==
    /\ spc = "accept"
    /\ rpc[r] = "dialing"
    /\ spc' = "opening" /\ cur' = r
    /\ PeerAt(r, "stream")
    /\ link' = [link EXCEPT ![r] = "up"]
    /\ UNCHANGED <<inputs, skey, rkey, toS, toR, faults>>

(* The stream is open and the ready byte materializes it.                  *)
ReadyByte ==
    /\ spc = "opening"
    /\ link[cur] = "up" /\ rpc[cur] # "holding"
    /\ spc' = "hello"
    /\ toR' = [toR EXCEPT ![cur] = <<Ready>>]
    /\ UNCHANGED <<inputs, cur, skey, rvars, toS, link, faults>>

(* Mutant: the peer is dropped, but the loop does not start over.          *)
RejectHalf == cur' = Nil /\ skey' = Nil /\ Close(cur) /\ UNCHANGED spc

(* "Rejected unauthorized receiver": close and accept the next.            *)
Reject == spc' = "accept" /\ cur' = Nil /\ skey' = Nil /\ Close(cur)

(* The connection fails, or the stream, or the ready byte.                 *)
OpenFails ==
    /\ spc = "opening"
    /\ link[cur] = "closed"
    /\ Reject
    /\ UNCHANGED <<inputs, rvars, faults>>

(* The session ID and the client ID are compared before anything is sent,  *)
(* the latter with the peer's authenticated endpoint ID.                   *)
RecvHello ==
    /\ spc = "hello"
    /\ Arrives(toS, cur, "hello")
    /\ LET h == Head(toS[cur])
           k == Derived(cur, "sender", Secret, h.by)
       IN  IF h.claim = Truth /\ link[cur] = "up"
           THEN /\ spc' = "confirm" /\ skey' = k
                /\ toS' = [toS EXCEPT ![cur] = Tail(@)]
                /\ toR' = [toR EXCEPT ![cur] = @ \o <<Pake, Confirm(k)>>]
                /\ UNCHANGED <<cur, link>>
           ELSE Reject
    /\ UNCHANGED <<inputs, rvars, faults>>

(* Mutant: whatever the peer sends for its confirmation will do.           *)
AnyConfirm ==
    /\ spc = "confirm"
    /\ Arrives(toS, cur, "confirm")
    /\ spc' = "authorized"
    /\ toS' = [toS EXCEPT ![cur] = Tail(@)]
    /\ UNCHANGED <<inputs, cur, skey, rvars, toR, link, faults>>

RecvConfirm ==
    /\ spc = "confirm"
    /\ Arrives(toS, cur, "confirm")
    /\ IF Head(toS[cur]).key = skey
       THEN /\ spc' = "authorized"
            /\ toS' = [toS EXCEPT ![cur] = Tail(@)]
            /\ UNCHANGED <<cur, skey, toR, link>>
       ELSE Reject
    /\ UNCHANGED <<inputs, rvars, faults>>

(* The connection is lost in the middle of the handshake.                  *)
AuthError ==
    /\ spc \in {"hello", "confirm"}
    /\ link[cur] = "closed" /\ toS[cur] = <<>>
    /\ Reject
    /\ UNCHANGED <<inputs, rvars, faults>>

(* Mutant: no timeout around the handshake of a silent peer.               *)
AuthNoTimeout ==
    /\ spc \in {"hello", "confirm"}
    /\ rpc[cur] # "silent" /\ Fault
    /\ Reject
    /\ UNCHANGED <<inputs, rvars>>

(* "Peer authorization timed out": the peer is silent, or only slow.       *)
AuthTimeout ==
    /\ spc \in {"hello", "confirm"}
    /\ \/ rpc[cur] = "silent" /\ UNCHANGED faults
       \/ rpc[cur] # "silent" /\ Fault
    /\ Reject
    /\ UNCHANGED <<inputs, rvars>>

Expire ==
    /\ spc' = "expired" /\ skey' = Nil /\ cur' = Nil
    /\ IF cur = Nil THEN UNCHANGED nvars ELSE Close(cur)
    /\ UNCHANGED <<inputs, rvars, faults>>

(* Mutant: only the wait for a connection has the deadline.                *)
AcceptExpires == pin /\ spc = "accept" /\ Expire

(* timeout_at(pin_deadline) drops accept_authorized wherever it is.        *)
PinExpires == pin /\ spc \in Waiting /\ Expire

(* run_sender_transfer begins.                                             *)
SendHeader ==
    /\ spc = "authorized"
    /\ IF link[cur] = "up"
       THEN spc' = "transfer" /\ toR' = [toR EXCEPT ![cur] = Append(@, Header)]
       ELSE spc' = "failed" /\ UNCHANGED toR
    /\ UNCHANGED <<inputs, cur, skey, rvars, toS, link, faults>>
------------------------------------------------------------------------------
(* The peers                                                               *)

Dial(r) ==
    /\ rpc[r] = "idle"
    /\ PeerAt(r, "dialing")
    /\ UNCHANGED <<inputs, svars, rkey, nvars, faults>>

(* accept_bi, the ready byte, and the first message of the handshake.      *)
OpenStream(r) ==
    /\ rpc[r] = "stream"
    /\ Arrives(toR, r, "ready")
    /\ PeerAt(r, "pake")
    /\ toR' = [toR EXCEPT ![r] = Tail(@)]
    /\ toS' = [toS EXCEPT ![r] = IF link[r] = "up" THEN Append(@, Hello(r)) ELSE @]
    /\ UNCHANGED <<inputs, svars, rkey, link, faults>>

RecvPake(r) ==
    /\ rpc[r] = "pake"
    /\ Arrives(toR, r, "pake")
    /\ rkey' = [rkey EXCEPT ![r] = Derived(r, "receiver", secret[r], Head(toR[r]).by)]
    /\ PeerAt(r, "confirm")
    /\ toR' = [toR EXCEPT ![r] = Tail(@)]
    /\ UNCHANGED <<inputs, svars, toS, link, faults>>

(* Mutant: any confirmation is taken for the sender's.                     *)
AnyKey(r) == TRUE

Opens(r) == Head(toR[r]).key = rkey[r]

(* The confirmation goes out; whether the sender takes it is not known.    *)
ConfirmBack(r) ==
    /\ rpc[r] = "confirm"
    /\ Arrives(toR, r, "confirm")
    /\ IF Opens(r)
       THEN /\ PeerAt(r, "authed")
            /\ toR' = [toR EXCEPT ![r] = Tail(@)]
            /\ toS' = [toS EXCEPT ![r] = IF link[r] = "up" THEN Append(@, Confirm(rkey[r]))
                                                           ELSE @]
            /\ UNCHANGED link
       ELSE PeerAt(r, "failed") /\ Close(r)
    /\ UNCHANGED <<inputs, svars, rkey, faults>>

GetHeader(r) ==
    /\ rpc[r] = "authed"
    /\ Arrives(toR, r, "header")
    /\ PeerAt(r, "receiving")
    /\ toR' = [toR EXCEPT ![r] = Tail(@)]
    /\ UNCHANGED <<inputs, svars, rkey, toS, link, faults>>

(* The sender closed the connection: "handshake failed", or no header.     *)
StreamError(r) ==
    /\ rpc[r] \in {"stream", "pake", "confirm", "authed"}
    /\ link[r] = "closed" /\ toR[r] = <<>>
    /\ PeerAt(r, "failed")
    /\ UNCHANGED <<inputs, svars, rkey, nvars, faults>>

(* A peer with another secret that sends its confirmation all the same,    *)
(* without opening the sender's.                                           *)
Bluff(r) ==
    /\ secret[r] # Secret
    /\ rpc[r] = "confirm"
    /\ PeerAt(r, "silent")
    /\ toS' = [toS EXCEPT ![r] = IF link[r] = "up" THEN Append(@, Confirm(rkey[r])) ELSE @]
    /\ UNCHANGED <<inputs, svars, rkey, toR, link, faults>>

(* Nobody accepts: the sender is gone, or busy with another peer for       *)
(* longer than a dial lasts; a fault when it is free.                      *)
DialFails(r) ==
    /\ rpc[r] = "dialing"
    /\ \/ (spc \notin Waiting \/ cur # Nil) /\ UNCHANGED faults
       \/ (spc \in Waiting /\ cur = Nil) /\ Fault
    /\ PeerAt(r, "failed")
    /\ UNCHANGED <<inputs, svars, rkey, nvars>>

(* The user with the code tries again while the sender waits.              *)
Retry(r) ==
    /\ Honest(r)
    /\ rpc[r] = "failed" /\ link[r] = "none"
    /\ spc \in Waiting
    /\ PeerAt(r, "idle")
    /\ UNCHANGED <<inputs, svars, rkey, nvars, faults>>

(* What a stranger may do, an honest peer does by a fault.                 *)
Wayward(r) == IF Honest(r) THEN Fault ELSE UNCHANGED faults

(* 30 seconds for the stream, 30 for the handshake; a stranger leaves when *)
(* it likes.                                                               *)
PeerTimeout(r) ==
    /\ Wayward(r)
    /\ rpc[r] \in {"stream", "pake", "confirm", "holding"}
    /\ PeerAt(r, "failed")
    /\ Close(r)
    /\ UNCHANGED <<inputs, svars, rkey>>

(* A peer that stops answering without closing.                            *)
Stall(r) ==
    /\ Wayward(r)
    /\ rpc[r] \notin PeerEnd \cup {"idle", "dialing"}
    /\ PeerAt(r, "silent")
    /\ UNCHANGED <<inputs, svars, rkey, nvars>>

(* A stranger that lets the sender open no stream, but keeps the           *)
(* connection.                                                             *)
Withhold(r) ==
    /\ ~Honest(r)
    /\ spc = "opening" /\ cur = r /\ rpc[r] = "stream"
    /\ PeerAt(r, "holding")
    /\ UNCHANGED <<inputs, svars, rkey, nvars, faults>>

(* A connection that breaks.                                               *)
LinkLost(r) ==
    /\ Fault
    /\ link[r] = "up"
    /\ Close(r)
    /\ UNCHANGED <<inputs, svars, rvars>>
------------------------------------------------------------------------------
Sender == (\E r \in Peers : Accept(r)) \/ ReadyByte \/ OpenFails \/ RecvHello \/ RecvConfirm
          \/ AuthError \/ AuthTimeout \/ PinExpires \/ SendHeader
Peer(r) == Dial(r) \/ OpenStream(r) \/ RecvPake(r) \/ ConfirmBack(r) \/ GetHeader(r)
           \/ StreamError(r) \/ DialFails(r) \/ Retry(r)
Disturb(r) == PeerTimeout(r) \/ Stall(r) \/ Bluff(r) \/ Withhold(r) \/ LinkLost(r)

(* The peers are through.  Whether the sender may be left waiting then is  *)
(* for the liveness properties to say.                                     *)
AllOver == (\A r \in Peers : rpc[r] \in PeerEnd) /\ UNCHANGED vars

Next == Sender \/ AllOver \/ \E r \in Peers : Peer(r) \/ Disturb(r)

Spec == Init /\ [][Next]_vars

(* Both programs run, and users who have a code use it, again when nobody  *)
(* accepted them; a deadline comes (PinExpires is a step of the sender).   *)
FairSpec == Spec /\ WF_vars(Sender) /\ \A r \in Peers : WF_vars(Peer(r))
------------------------------------------------------------------------------
(* Type invariant of the sender, the peers and the streams between them.   *)
TypeOK ==
    /\ pin \in BOOLEAN
    /\ secret \in [Peers -> {Secret, Wrong}]
    /\ claim \in [Peers -> Claims]
    /\ spc \in SenderStages
    /\ cur \in Peers \cup {Nil}
    /\ skey \in Keys \cup {Nil}
    /\ rpc \in [Peers -> PeerStages]
    /\ rkey \in [Peers -> Keys \cup {Nil}]
    /\ toS \in [Peers -> Seq({Confirm(k) : k \in Keys}
                \cup [t : {"hello"}, claim : Claims, by : {Secret, Wrong}])]
    /\ toR \in [Peers -> Seq({Ready, Header, Pake} \cup {Confirm(k) : k \in Keys})]
    /\ link \in [Peers -> {"none", "up", "closed"}]
    /\ faults \in 0..MaxFaults
    /\ spc \in {"opening", "hello", "confirm", "authorized", "transfer"} => cur # Nil

(* The sender goes on to the file header only with a peer that has the     *)
(* secret and is who it says, and that has already checked the sender and  *)
(* holds the same key.                                                     *)
Agreement == spc \in {"authorized", "transfer"} =>
    /\ Honest(cur)
    /\ rkey[cur] = skey /\ skey = <<cur, "shared">>
    /\ rpc[cur] \notin {"stream", "pake", "confirm"}

(* However many peers were turned away or left half authorized before, a   *)
(* peer that takes the sender for authenticated has its secret, and only   *)
(* the one the sender serves gets a header.                                *)
RightSender == \A r \in Peers :
    /\ rpc[r] \in {"authed", "receiving"} => secret[r] = Secret
    /\ rpc[r] = "receiving" => spc = "transfer" /\ cur = r

Served == spc \in {"authorized", "transfer"}

(* Strangers, peers that fall silent in the handshake or bluff, dials that *)
(* give up behind them and broken connections do not keep the sender from  *)
(* the intended receiver: it ends up serving one, or a fault has hit each  *)
(* of those that have its code.  The one peer that can keep it for good is *)
(* one that never lets it open the stream: there nothing is timed out.     *)
SomebodyIsServed ==
    ~pin => \/ <>(Served \/ Cardinality({r \in Peers : Honest(r)}) <= faults)
            \/ <>[](spc = "opening" /\ rpc[cur] = "holding")

(* Nobody keeps a sender with a PIN beyond its deadline, not even a peer   *)
(* that never lets it open the stream.                                     *)
DeadlineEnds == pin => <>(spc \in {"transfer", "failed", "expired"})

(* ARCHITECTURE.md, PIN-based Key Exchange: the sender "exits after 120    *)
(* seconds if no receiver starts connecting".  So the intended receiver,   *)
(* connected and in its handshake, would not be cut off by the deadline.   *)
ExpiresUnconnected ==
    [][spc # "expired" /\ spc' = "expired" => ~(spc \in {"hello", "confirm"} /\ Honest(cur))]_vars
=============================================================================
