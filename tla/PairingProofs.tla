---------------------------- MODULE PairingProofs ----------------------------
(***************************************************************************)
(* Proofs about Pairing, for every alphabet and PIN length, every length   *)
(* of a bucket, every timeout, channel and difference of the clocks.       *)
(***************************************************************************)
EXTENDS Pairing, PinCodeProofs

USE PairingAssumption

------------------------------------------------------------------------------
(* What is shown has been stamped, and the sender's timer counts from the  *)
(* display.                                                                *)
SenderInv ==
    /\ mode \in {"pin", "code", "serverless"} /\ skew \in Int
    /\ spc \in {"start", "open", "derive"} => shown = Nil
    /\ spc = "derive" => mode = "pin" /\ stamp # Nil
    /\ shown # Nil /\ mode \in {"pin", "code"} => stamp # Nil
    /\ spc = "listening" => shown # Nil
    /\ stamp # Nil => stamp <= now
    /\ spc \in {"listening", "expired"} /\ mode = "pin" =>
          shown # Nil /\ due # Nil /\ due = shown + Life
    /\ spc = "expired" => mode = "pin" /\ now >= due
    /\ spc \in {"failed", "stopped"} => trouble
    /\ spc = "paired" => rpc = "paired"

(* The receiver has entered what was shown, and its timer is within the    *)
(* time of the steps so far.                                               *)
ReceiverInv ==
    /\ rpc = "prompt" <=> entered = Nil
    /\ rpc # "prompt" => shown # Nil
    /\ rpc \in {"derive", "lookup", "notfound"} => mode = "pin"
    /\ rpc \in Busy => rdue # Nil /\ now <= rdue
    /\ mode = "pin" =>
        /\ rpc = "derive" => rdue <= entered + Derive
        /\ rpc = "lookup" => rdue <= entered + Derive + Lookup
        /\ rpc = "endpoint" => rdue <= entered + Derive + Lookup + Ready
        /\ rpc = "connect" => rdue <= entered + Derive + Lookup + Ready + Hop + delayed

(* The channel holds candidates, and from the first announcement of the    *)
(* sender's record that it had room for, one of them can be decrypted.     *)
Within == entered + skew - stamp \in -Life..Life
ChanInv ==
    /\ chan \in Seq([name : Candidates, opens : BOOLEAN])
    /\ rpc \in {"prompt", "derive"} => chan = <<>> /\ ~heard
    /\ rpc = "lookup" /\ heard /\ typed = pin /\ Within => \E i \in 1..Len(chan) : chan[i].opens

IInv == PairingTypeOK /\ SenderInv /\ ReceiverInv /\ ChanInv
        /\ InTimeConnects /\ CodeWindow /\ LookupFinds

(* Two times within a bucket's length are in one bucket or in neighbours.  *)
LEMMA BucketNear ==
    ASSUME NEW a \in Int, NEW b \in Int, b - a \in -Life..Life
    PROVE  Bucket(a) \in {Bucket(b), Bucket(b) - 1, Bucket(b) + 1}
BY DEF Bucket

(* The invariant holds at the start.                                       *)
LEMMA InitInv == Init => IInv
<1> SUFFICES ASSUME Init PROVE IInv
  OBVIOUS
<1> USE DEF Init, SenderEnd, Busy
<1>1. now \in Nat /\ skew \in Int
  BY DEF Start
<1>2. pin \in Generated \cup {<<>>}
  OBVIOUS
<1>3. PairingTypeOK
  <2>1. Len(chan) <= Cap /\ DOMAIN chan = {}
    OBVIOUS
  <2>2. 0 \in 0..Dialing
    OBVIOUS
  <2> QED BY <1>1, <1>2, <2>1, <2>2 DEF PairingTypeOK, ReceiverEnd
<1>4. SenderInv /\ ReceiverInv
  BY <1>1 DEF SenderInv, ReceiverInv
<1>5. ChanInv
  <2>1. <<>> \in Seq([name : Candidates, opens : BOOLEAN])
    OBVIOUS
  <2> QED BY <2>1 DEF ChanInv
<1>6. InTimeConnects /\ CodeWindow /\ LookupFinds
  BY DEF InTimeConnects, CodeWindow, LookupFinds
<1> QED BY <1>3, <1>4, <1>5, <1>6 DEF IInv
------------------------------------------------------------------------------
(* Stuttering keeps it.                                                    *)
LEMMA StutterStep == ASSUME IInv, UNCHANGED vars PROVE IInv'
<1> USE DEF vars, fixed, sender, receiver
<1>1. Candidates' = Candidates
  BY DEF Candidates, Buckets, Name, Bucket
<1>2. PairingTypeOK' = PairingTypeOK
  BY <1>1 DEF PairingTypeOK
<1>3. SenderInv' = SenderInv /\ ReceiverInv' = ReceiverInv
  BY DEF SenderInv, ReceiverInv
<1>4. ChanInv' = ChanInv
  BY <1>1 DEF ChanInv, Within
<1>5. /\ InTimeConnects' = InTimeConnects
      /\ CodeWindow' = CodeWindow /\ LookupFinds' = LookupFinds
  BY DEF InTimeConnects, CodeWindow, LookupFinds
<1> QED BY <1>2, <1>3, <1>4, <1>5 DEF IInv

(* A step of the sender, with a stranger or without: it reads the clock    *)
(* and displays before anything has been entered, and does not touch the   *)
(* receiver.                                                               *)
SenderSide == Sender \/ SenderStops \/ TakeStranger \/ RejectStranger
LEMMA SenderStep == ASSUME IInv, SenderSide PROVE IInv'
<1>0. PairingTypeOK /\ SenderInv /\ ReceiverInv /\ ChanInv
      /\ InTimeConnects /\ CodeWindow /\ LookupFinds
  BY DEF IInv
<1>1. UNCHANGED <<mode, pin, skew, now, rpc, typed, entered, rdue, delayed, chan, heard>>
  BY <1>0 DEF SenderSide, Sender, SenderStops, TakeStranger, RejectStranger, OpenEndpoint, ShowCode,
         ShowServerless, ReadClock, Advertise, Expire, fixed, receiver
<1>2. /\ stamp' \in Nat \cup {Nil} /\ shown' \in Nat \cup {Nil} /\ due' \in Nat \cup {Nil}
      /\ trouble' \in BOOLEAN /\ (trouble => trouble')
      /\ loop' \in {"free", "taken", "held"}
      /\ spc' \in {"open", "derive", "listening"} \cup SenderEnd
  <2>1. /\ stamp \in Nat \cup {Nil} /\ shown \in Nat \cup {Nil} /\ due \in Nat \cup {Nil}
        /\ now \in Nat /\ trouble \in BOOLEAN /\ loop \in {"free", "taken", "held"}
    BY <1>0 DEF PairingTypeOK
  <2>2. {Life, Derive} \subseteq Nat
    OBVIOUS
  <2> USE <2>1, <2>2 DEF SenderEnd
  <2>3. CASE OpenEndpoint \/ SenderStops \/ Expire
    BY <2>3 DEF OpenEndpoint, SenderStops, Expire
  <2>4. CASE ShowCode \/ ShowServerless
    BY <2>4 DEF ShowCode, ShowServerless
  <2>5. CASE ReadClock \/ Advertise
    BY <2>5 DEF ReadClock, Advertise
  <2>6. CASE TakeStranger \/ RejectStranger
    BY <2>6 DEF TakeStranger, RejectStranger
  <2> QED BY <2>3, <2>4, <2>5, <2>6 DEF SenderSide, Sender
<1>3. (stamp' = stamp /\ shown' = shown) \/ (rpc = "prompt" /\ shown = Nil)
  BY <1>0 DEF SenderSide, Sender, SenderStops, TakeStranger, RejectStranger, OpenEndpoint, ShowCode,
         ShowServerless, ReadClock, Advertise, Expire, SenderInv, ReceiverInv
<1>4. SenderInv'
  <2> USE <1>0, <1>1, <1>2 DEF SenderInv, PairingTypeOK, SenderEnd
  <2>1. CASE OpenEndpoint  BY <2>1 DEF OpenEndpoint
  <2>2. CASE ShowCode  BY <2>2 DEF ShowCode
  <2>3. CASE ShowServerless  BY <2>3 DEF ShowServerless
  <2>4. CASE ReadClock  BY <2>4 DEF ReadClock
  <2>5. CASE Advertise  BY <2>5 DEF Advertise
  <2>6. CASE Expire  BY <2>6 DEF Expire
  <2>7. CASE SenderStops  BY <2>7 DEF SenderStops
  <2>8. CASE TakeStranger \/ RejectStranger  BY <2>8 DEF TakeStranger, RejectStranger
  <2> QED BY <2>1, <2>2, <2>3, <2>4, <2>5, <2>6, <2>7, <2>8 DEF SenderSide, Sender
<1>5. Candidates' = Candidates
  BY <1>1 DEF Candidates, Buckets, Name
<1>6. PairingTypeOK'
  BY <1>0, <1>1, <1>2, <1>5 DEF PairingTypeOK
<1>7. ReceiverInv'
  BY <1>0, <1>1, <1>3 DEF ReceiverInv, Busy
<1>8. ChanInv'
  BY <1>0, <1>1, <1>3, <1>5 DEF ChanInv, Within
<1>9. InTimeConnects' /\ CodeWindow' /\ LookupFinds'
  BY <1>0, <1>1, <1>2, <1>3 DEF InTimeConnects, CodeWindow, LookupFinds, ReceiverInv
<1> QED BY <1>4, <1>6, <1>7, <1>8, <1>9 DEF IInv

(* What the user types: a code is judged by the clock of that moment.      *)
LEMMA TypingStep == ASSUME IInv, Typing PROVE IInv'
<1>0. PairingTypeOK /\ SenderInv /\ ReceiverInv /\ ChanInv
      /\ InTimeConnects /\ CodeWindow /\ LookupFinds
  BY DEF IInv
<1>1. CASE UNCHANGED vars
  BY <1>1, StutterStep
<1>2. CASE ~UNCHANGED vars
  <2>1. (mode = "pin" /\ \E t : EnterPin(t) \/ EnterScrap(t)) \/ EnterCode \/ EnterServerless
    BY <1>2 DEF Typing, AskAgain, Enter, vars, fixed, sender, receiver
  <2>2. /\ rpc = "prompt" /\ shown # Nil
        /\ UNCHANGED <<mode, pin, skew, now, spc, stamp, shown, due, loop, delayed, chan, heard, trouble>>
        /\ entered' = now
    BY <2>1 DEF EnterPin, EnterScrap, EnterCode, EnterServerless, Enter, fixed, sender
  <2>3. now \in Nat /\ now # Nil /\ chan = <<>> /\ ~heard /\ shown \in Nat
    BY <1>0, <2>2 DEF PairingTypeOK, ChanInv
  <2>4. /\ rpc' \in {"derive", "invalid", "stale", "future", "endpoint"}
        /\ rpc' = "derive" => mode = "pin" /\ rdue' = now + Derive
        /\ rpc' = "endpoint" => mode # "pin" /\ rdue' = now + Ready
        /\ rdue' = rdue \/ rdue' = now + Derive \/ rdue' = now + Ready
    BY <2>1 DEF EnterPin, EnterScrap, EnterCode, EnterServerless, To
  <2>5. PairingTypeOK'
    <3>1. rdue' \in Nat \cup {Nil}
      BY <1>0, <2>3, <2>4 DEF PairingTypeOK
    <3>2. DOMAIN chan = {} /\ Len(chan) <= Cap
      BY <2>3
    <3> QED BY <1>0, <2>2, <2>3, <2>4, <3>1, <3>2 DEF PairingTypeOK, Busy, ReceiverEnd
  <2>6. SenderInv'
    BY <1>0, <2>2, <2>4 DEF SenderInv
  <2>7. ReceiverInv'
    BY <1>0, <2>2, <2>3, <2>4 DEF ReceiverInv, Busy
  <2>8. ChanInv'
    <3>1. <<>> \in Seq([name : Candidates', opens : BOOLEAN])
      OBVIOUS
    <3> QED BY <1>0, <2>2, <2>3, <2>4, <3>1 DEF ChanInv
  <2>9. CodeWindow'
    <3> SUFFICES ASSUME mode = "code", skew \in -Allow..Allow
                 PROVE  /\ now - stamp <= Ttl - Allow => rpc' \notin {"stale", "future"}
                        /\ now - stamp > Ttl + Allow => rpc' = "stale"
      BY <1>0, <2>2 DEF CodeWindow
    <3>1. stamp \in Nat
      BY <1>0, <2>2 DEF SenderInv, PairingTypeOK
    <3>2. EnterCode
      BY <2>1 DEF EnterServerless
    <3>3. stamp <= now
      BY <1>0, <2>2, <2>3, <3>1 DEF SenderInv
    <3>4. Ttl \in Nat /\ Allow \in Nat /\ Clock \in Int /\ Clock - now \in -Allow..Allow
      BY <2>3 DEF Clock
    <3>5. ~(stamp > Clock + Allow)
      BY <2>3, <3>1, <3>3, <3>4
    <3>6. rpc' = IF Age(stamp) > Ttl THEN "stale" ELSE "endpoint"
      BY <3>2, <3>5 DEF EnterCode, To
    <3>7. Age(stamp) >= now - stamp - Allow /\ (now - stamp >= Allow => Age(stamp) <= now - stamp + Allow)
          /\ (now - stamp <= Ttl - Allow => Age(stamp) <= Ttl) /\ Age(stamp) \in Int
      BY <2>3, <3>1, <3>3, <3>4 DEF Age
    <3> QED BY <2>3, <3>1, <3>4, <3>6, <3>7
  <2>10. InTimeConnects' /\ LookupFinds'
    BY <1>0, <2>4 DEF InTimeConnects, LookupFinds
  <2> QED BY <2>5, <2>6, <2>7, <2>8, <2>9, <2>10 DEF IInv
<1> QED BY <1>1, <1>2

(* A step of the receiver: each may take the time of its bound.  It ends   *)
(* without a sender only when the sender's deadline is over.               *)
LEMMA ReceiverStep == ASSUME IInv, Receiver PROVE IInv'
<1>0. PairingTypeOK /\ SenderInv /\ ReceiverInv /\ ChanInv
      /\ InTimeConnects /\ CodeWindow /\ LookupFinds
  BY DEF IInv
<1>1. /\ UNCHANGED <<mode, pin, skew, now, stamp, shown, due, loop, typed, entered, delayed, heard>>
      /\ spc' = spc \/ (rpc' = "paired" /\ spc' = "paired")
      /\ rpc \in Busy /\ rpc' \in (Busy \cup ReceiverEnd) \ {"derive", "stale", "future", "invalid"}
  BY <1>0 DEF Receiver, StartLookup, Take, LookupTimeout, EndpointReady, EndpointFails, Connect,
              GivesUp, Waits, NobodyThere, To, fixed, sender, Busy, ReceiverEnd
<1>2. entered # Nil /\ shown # Nil /\ rpc # "prompt"
  BY <1>0, <1>1 DEF ReceiverInv, Busy
<1>3. /\ now \in Nat /\ entered \in Nat /\ shown \in Nat /\ rdue \in Nat /\ now <= rdue
      /\ trouble \in BOOLEAN /\ now # Nil
  BY <1>0, <1>1, <1>2 DEF PairingTypeOK, ReceiverInv
<1>4. /\ Lookup \in Nat /\ Ready \in Nat /\ Hop \in Nat /\ Derive \in Nat
      /\ now + Lookup \in Nat /\ now + Ready \in Nat /\ now + Hop \in Nat
  BY <1>3
<1>5. Candidates' = Candidates
  BY <1>1 DEF Candidates, Buckets, Name
<1>6. /\ rdue' \in Nat /\ (trouble => trouble') /\ trouble' \in BOOLEAN
  BY <1>3, <1>4 DEF Receiver, StartLookup, Take, LookupTimeout, EndpointReady, EndpointFails,
                    Connect, GivesUp, NobodyThere
<1>7. /\ Take => rpc = "lookup" /\ chan # <<>> /\ UNCHANGED trouble
      /\ Take /\ Head(chan).opens => rpc' = "endpoint" /\ rdue' = now + Ready /\ chan' = <<>>
      /\ Take /\ ~Head(chan).opens => rpc' = rpc /\ rdue' = rdue /\ chan' = Tail(chan)
  BY DEF Take, To
<1>8. \/ chan' = chan \/ chan' = <<>>
      \/ /\ Take /\ chan # <<>> /\ ~Head(chan).opens /\ chan' = Tail(chan)
         /\ rpc = "lookup" /\ UNCHANGED <<rpc, rdue>>
  BY <1>7 DEF Receiver, StartLookup, LookupTimeout, EndpointReady, EndpointFails, Connect,
              GivesUp, NobodyThere
<1>9. chan \in Seq([name : Candidates, opens : BOOLEAN]) /\ Len(chan) <= Cap
  BY <1>0 DEF ChanInv, PairingTypeOK
<1>a. /\ chan' \in Seq([name : Candidates, opens : BOOLEAN])
      /\ Len(chan') <= Cap
      /\ \A i \in DOMAIN chan' : chan'[i].name \in Candidates
  <2> DEFINE Records == [name : Candidates, opens : BOOLEAN]
  <2>1. \A r \in Records : r.name \in Candidates
    OBVIOUS
  <2>2. chan' \in Seq(Records) /\ Len(chan') <= Cap
    <3>1. chan \in Seq(Records)
      BY <1>9
    <3> HIDE DEF Records
    <3>2. CASE chan' = chan
      BY <1>9, <3>1, <3>2
    <3>3. CASE chan' = <<>>
      BY <3>3
    <3>4. CASE chan # <<>> /\ chan' = Tail(chan)
      BY <1>9, <3>1, <3>4
    <3> QED BY <1>8, <3>2, <3>3, <3>4
  <2>3. \A i \in DOMAIN chan' : chan'[i] \in Records
    <3> HIDE DEF Records
    <3> QED BY <2>2
  <2> QED BY <2>1, <2>2, <2>3
<1>10. PairingTypeOK'
  <2>1. spc' \in {"start", "open", "derive", "listening"} \cup SenderEnd
    BY <1>0, <1>1 DEF PairingTypeOK, SenderEnd
  <2> QED BY <1>0, <1>1, <1>5, <1>6, <1>a, <2>1 DEF PairingTypeOK
<1>11. SenderInv'
  BY <1>0, <1>1, <1>6 DEF SenderInv, Busy
<1>12. ReceiverInv'
  <2>0. delayed \in Nat
    BY <1>0 DEF PairingTypeOK
  <2> USE <1>0, <1>1, <1>2, <1>3, <1>4, <2>0 DEF ReceiverInv, Busy, To
  <2>1. CASE StartLookup  BY <2>1 DEF StartLookup
  <2>2. CASE Take  BY <2>2, <1>7
  <2>3. CASE LookupTimeout  BY <2>3 DEF LookupTimeout
  <2>4. CASE EndpointReady  BY <2>4 DEF EndpointReady
  <2>5. CASE EndpointFails  BY <2>5 DEF EndpointFails
  <2>6. CASE Connect  BY <2>6 DEF Connect
  <2>7. CASE GivesUp \/ NobodyThere  BY <2>7 DEF GivesUp, NobodyThere
  <2> QED BY <2>1, <2>2, <2>3, <2>4, <2>5, <2>6, <2>7 DEF Receiver
<1>13. ChanInv'
  <2>1. CASE Take /\ ~Head(chan).opens
    <3>1. rpc = "lookup" /\ rpc' = "lookup" /\ chan' = Tail(chan) /\ chan # <<>>
      BY <1>7, <2>1
    <3>2. ASSUME NEW i \in 1..Len(chan), chan[i].opens
          PROVE  \E j \in 1..Len(chan') : chan'[j].opens
      <4>1. i # 1
        BY <1>9, <2>1, <3>1, <3>2
      <4>2. i - 1 \in 1..Len(chan') /\ chan'[i - 1] = chan[i]
        BY <1>9, <3>1, <4>1
      <4> QED BY <3>2, <4>2
    <3> QED BY <1>0, <1>1, <1>5, <1>a, <3>1, <3>2 DEF ChanInv, Within
  <2>2. CASE ~(Take /\ ~Head(chan).opens)
    <3>1. rpc' = "lookup" => chan' = <<>> /\ ~heard'
      BY <1>0, <1>1, <1>7, <2>2 DEF Receiver, StartLookup, LookupTimeout, EndpointReady,
                EndpointFails, Connect, GivesUp, NobodyThere, To, ChanInv
    <3> QED BY <1>1, <1>5, <1>a, <3>1 DEF ChanInv, Busy, ReceiverEnd
  <2> QED BY <2>1, <2>2
<1>14. InTimeConnects'
  <2>1. CASE NobodyThere
    <3> SUFFICES ASSUME mode = "pin", ~trouble
                 PROVE  entered + Derive + Lookup + Ready + Hop + delayed >= shown + Life
      BY <1>1, <2>1 DEF InTimeConnects, NobodyThere
    <3>1. spc = "expired" /\ rpc = "connect"
      BY <1>0, <2>1 DEF NobodyThere, SenderInv, SenderEnd
    <3>2. due = shown + Life /\ now >= due /\ rdue <= entered + Derive + Lookup + Ready + Hop + delayed
      BY <1>0, <3>1 DEF SenderInv, ReceiverInv
    <3>3. delayed \in Nat
      BY <1>0 DEF PairingTypeOK
    <3> QED BY <1>3, <1>4, <3>2, <3>3
  <2>2. CASE GivesUp
    BY <1>1, <2>2 DEF InTimeConnects, GivesUp
  <2>3. CASE ~NobodyThere /\ ~GivesUp
    <3>1. rpc' = "failed" => trouble'
      BY <1>7, <2>3 DEF Receiver, StartLookup, LookupTimeout, EndpointReady, EndpointFails,
                        Connect, To
    <3> QED BY <3>1 DEF InTimeConnects
  <2> QED BY <2>1, <2>2, <2>3
<1>15. CodeWindow'
  BY <1>0, <1>1, <1>2 DEF CodeWindow, Busy
<1>16. LookupFinds'
  <2>1. rpc' = "notfound" => rpc = "lookup" /\ chan = <<>>
    BY <1>7 DEF Receiver, StartLookup, LookupTimeout, EndpointReady, EndpointFails, Connect,
                GivesUp, NobodyThere, To
  <2>2. Len(<<>>) = 0
    OBVIOUS
  <2> QED BY <1>0, <1>1, <2>1, <2>2 DEF LookupFinds, ChanInv, Within
<1> QED BY <1>10, <1>11, <1>12, <1>13, <1>14, <1>15, <1>16 DEF IInv

(* An announcement: if it is the one looked for, its bucket is among the   *)
(* candidates, and the channel has it or is full of others that are.       *)
LEMMA HearStep == ASSUME IInv, Hear PROVE IInv'
<1>0. PairingTypeOK /\ SenderInv /\ ReceiverInv /\ ChanInv
      /\ InTimeConnects /\ CodeWindow /\ LookupFinds
  BY DEF IInv
<1>1. /\ UNCHANGED <<mode, pin, skew, now, spc, stamp, shown, due, loop, rpc, typed, entered, rdue, delayed,
                     trouble>>
      /\ rpc = "lookup"
      /\ heard' \in BOOLEAN
  BY <1>0 DEF Hear, fixed, sender, PairingTypeOK
<1>2. Candidates' = Candidates
  BY <1>1 DEF Candidates, Buckets, Name
<1> DEFINE Records == [name : Candidates, opens : BOOLEAN]
<1>3. chan \in Seq(Records) /\ Len(chan) \in Nat /\ Cap \in Nat /\ Len(chan) <= Cap
  BY <1>0 DEF ChanInv, PairingTypeOK
<1>4. PICK r : TrySend(r) /\ r.opens \in BOOLEAN /\ r = [name |-> r.name, opens |-> r.opens]
               /\ ((r = Record /\ heard' = (heard \/ Len(chan) < Cap)) \/ UNCHANGED heard)
  BY DEF Hear, Record, Noise, Garbled
<1>5. \/ chan' = chan
      \/ r \in Records /\ Len(chan) < Cap /\ chan' = Append(chan, r)
  BY <1>4 DEF TrySend
<1>6. /\ chan' \in Seq(Records) /\ Len(chan') <= Cap
      /\ \A i \in 1..Len(chan) : i \in 1..Len(chan') /\ chan'[i] = chan[i]
  <2> HIDE DEF Records
  <2>1. CASE chan' = chan
    BY <1>3, <2>1
  <2>2. CASE r \in Records /\ Len(chan) < Cap /\ chan' = Append(chan, r)
    BY <1>3, <2>2
  <2> QED BY <1>5, <2>1, <2>2
<1>b. ASSUME typed = pin, Within, r = Record, Len(chan) < Cap
      PROVE  \E i \in 1..Len(chan') : chan'[i].opens
  <2>1. stamp \in Nat /\ entered \in Nat /\ skew \in Int
    BY <1>0, <1>1 DEF PairingTypeOK, SenderInv, ReceiverInv
  <2>2. Bucket(stamp) \in Buckets
    BY <1>b, <2>1, BucketNear DEF Within, Buckets
  <2>3. r.name \in Candidates /\ r.opens
    BY <1>b, <2>2 DEF Record, Candidates
  <2>4. chan' = Append(chan, r)
    BY <1>4, <1>b, <2>3 DEF TrySend
  <2>5. Len(chan) + 1 \in 1..Len(chan') /\ chan'[Len(chan) + 1] = r
    <3> HIDE DEF Records
    <3> QED BY <1>3, <2>4
  <2> QED BY <2>3, <2>5
<1>7. PairingTypeOK'
  <2>1. \A x \in Records : x.name \in Candidates
    OBVIOUS
  <2>2. \A i \in DOMAIN chan' : chan'[i].name \in Candidates'
    <3>1. \A i \in DOMAIN chan' : chan'[i] \in Records
      <4> HIDE DEF Records
      <4> QED BY <1>6
    <3> QED BY <1>2, <2>1, <3>1
  <2> QED BY <1>0, <1>1, <1>6, <2>2 DEF PairingTypeOK
<1>8. SenderInv' /\ ReceiverInv'
  BY <1>0, <1>1 DEF SenderInv, ReceiverInv
<1>9. ChanInv'
  <2>1. Records' = Records
    BY <1>2
  <2>2. ASSUME heard', typed = pin, Within PROVE \E i \in 1..Len(chan') : chan'[i].opens
    <3>1. CASE heard
      <4>1. \E i \in 1..Len(chan) : chan[i].opens
        BY <1>0, <1>1, <2>2, <3>1 DEF ChanInv
      <4> QED BY <1>6, <4>1
    <3>2. CASE ~heard
      BY <1>4, <1>b, <2>2, <3>2
    <3> QED BY <3>1, <3>2
  <2> QED BY <1>1, <1>6, <2>1, <2>2 DEF ChanInv, Within
<1>10. InTimeConnects' /\ CodeWindow' /\ LookupFinds'
  BY <1>0, <1>1 DEF InTimeConnects, CodeWindow, LookupFinds
<1> QED BY <1>7, <1>8, <1>9, <1>10 DEF IInv

(* Time does not pass a timer.                                             *)
LEMMA TickStep == ASSUME IInv, Tick PROVE IInv'
<1>0. PairingTypeOK /\ SenderInv /\ ReceiverInv /\ ChanInv
      /\ InTimeConnects /\ CodeWindow /\ LookupFinds
  BY DEF IInv
<1>1. /\ UNCHANGED <<mode, pin, skew, spc, stamp, shown, due, rpc, typed, entered, chan, heard,
                     trouble>>
      /\ now' = now + 1 /\ now \in Nat
      /\ loop' \in {"free", "held"}
  BY <1>0 DEF Tick, fixed, PairingTypeOK
<1>a. /\ rdue \in Nat \cup {Nil} /\ due \in Nat \cup {Nil} /\ stamp \in Nat \cup {Nil}
      /\ delayed \in 0..Dialing /\ Dialing \in Nat
  BY <1>0 DEF PairingTypeOK
<1>b. \/ /\ rpc = "connect" /\ delayed < Dialing
         /\ delayed' = delayed + 1 /\ rdue' = rdue + 1
      \/ /\ UNCHANGED <<delayed, rdue>> /\ (rpc \in Busy => now < rdue)
  BY DEF Tick, Waits, Busy
<1>c. rpc \in Busy => rdue \in Nat /\ now <= rdue
  BY <1>0, <1>a DEF ReceiverInv
<1>d. rpc = "connect" => rpc \in Busy
  BY DEF Busy
<1>2. Candidates' = Candidates
  BY <1>1 DEF Candidates, Buckets, Name
<1>3. PairingTypeOK'
  <2>1. rdue' \in Nat \cup {Nil} /\ delayed' \in 0..Dialing
    BY <1>a, <1>b, <1>c, <1>d
  <2> QED BY <1>0, <1>1, <1>2, <2>1 DEF PairingTypeOK
<1>4. SenderInv' /\ ReceiverInv'
  <2>1. SenderInv'
    BY <1>0, <1>1, <1>a DEF SenderInv
  <2>2. rpc \in Busy => rdue' # Nil /\ now' <= rdue'
    BY <1>1, <1>b, <1>c, <1>d
  <2>3. mode = "pin" /\ rpc = "connect" =>
            rdue' <= entered + Derive + Lookup + Ready + Hop + delayed'
    <3> SUFFICES ASSUME mode = "pin", rpc = "connect"
                 PROVE  rdue' <= entered + Derive + Lookup + Ready + Hop + delayed'
      OBVIOUS
    <3>1. entered \in Nat /\ rdue \in Nat
          /\ rdue <= entered + Derive + Lookup + Ready + Hop + delayed
      BY <1>0, <1>c, <1>d DEF ReceiverInv, PairingTypeOK
    <3> QED BY <1>a, <1>b, <3>1
  <2>4. rpc # "connect" => UNCHANGED rdue
    BY <1>b
  <2>5. ReceiverInv'
    BY <1>0, <1>1, <2>2, <2>3, <2>4 DEF ReceiverInv, Busy
  <2> QED BY <2>1, <2>5
<1>5. ChanInv'
  BY <1>0, <1>1, <1>2 DEF ChanInv, Within
<1>6. InTimeConnects' /\ CodeWindow' /\ LookupFinds'
  <2>1. rpc = "failed" => UNCHANGED delayed
    BY <1>b
  <2> QED BY <1>0, <1>1, <2>1 DEF InTimeConnects, CodeWindow, LookupFinds
<1> QED BY <1>3, <1>4, <1>5, <1>6 DEF IInv

(* Each step keeps it.                                                     *)
LEMMA Step == IInv /\ [Next]_vars => IInv'
<1> SUFFICES ASSUME IInv, [Next]_vars PROVE IInv'
  OBVIOUS
<1>1. CASE SenderSide  BY <1>1, SenderStep
<1>2. CASE Typing  BY <1>2, TypingStep
<1>3. CASE Receiver  BY <1>3, ReceiverStep
<1>4. CASE Hear  BY <1>4, HearStep
<1>5. CASE Tick  BY <1>5, TickStep
<1>6. CASE UNCHANGED vars  BY <1>6, StutterStep
<1> QED BY <1>1, <1>2, <1>3, <1>4, <1>5, <1>6 DEF Next, SenderSide

(* So it holds in every run.                                               *)
LEMMA Invariant == Spec => []IInv
BY InitInv, Step, PTL DEF Spec
------------------------------------------------------------------------------
(* The types, and only candidates in the lookup's channel.                 *)
THEOREM TypeCorrect == Spec => []PairingTypeOK
<1>1. IInv => PairingTypeOK  BY DEF IInv
<1> QED BY <1>1, Invariant, PTL

(* "no sender found" is the truth for a receiver within one lifetime of    *)
(* the sender, whatever the channel's capacity and the announcements.      *)
THEOREM NeverMissesWhatItHeard == Spec => []LookupFinds
<1>1. IInv => LookupFinds  BY DEF IInv
<1> QED BY <1>1, Invariant, PTL

(* Who enters the PIN early enough for its own steps, and for the time     *)
(* that strangers hold the sender while it dials, is accepted unless its   *)
(* connect gives up first, for every choice of the timeouts.               *)
THEOREM EarlyEnoughConnects == Spec => []InTimeConnects
<1>1. IInv => InTimeConnects  BY DEF IInv
<1> QED BY <1>1, Invariant, PTL

(* The TTL with its allowance accepts what is younger and rejects what is  *)
(* older, for every TTL and allowance.                                     *)
THEOREM TtlHolds == Spec => []CodeWindow
<1>1. IInv => CodeWindow  BY DEF IInv
<1> QED BY <1>1, Invariant, PTL
------------------------------------------------------------------------------
(* What is looked for is a PIN that some generate_pin could have returned. *)
Looking == Busy \cup {"notfound", "paired"}
PinTyped ==
    /\ mode = "pin" => pin \in Pins
    /\ mode = "pin" /\ rpc \in Looking => typed \in Pins

LEMMA InitTyped == Init => PinTyped
BY DEF Init, PinTyped, Looking, Busy

LEMMA StepTyped == ASSUME PinTyped, [Next]_vars PROVE PinTyped'
<1>1. CASE UNCHANGED vars
  BY <1>1 DEF PinTyped, vars, fixed, receiver
<1>2. CASE Sender \/ SenderStops \/ TakeStranger \/ RejectStranger \/ Tick
  BY <1>2 DEF PinTyped, Sender, SenderStops, TakeStranger, RejectStranger, Tick, OpenEndpoint, ShowCode,
              ShowServerless, ReadClock, Advertise, Expire, fixed, receiver, sender, vars
<1>3. CASE Receiver \/ Hear
  <2>1. UNCHANGED <<mode, pin, typed>> /\ rpc \in Looking
    BY <1>3 DEF Receiver, StartLookup, Take, LookupTimeout, EndpointReady, EndpointFails, Connect,
                GivesUp, Waits, NobodyThere, Hear, fixed, Looking, Busy
  <2> QED BY <2>1 DEF PinTyped
<1>4. CASE Typing
  <2>1. CASE mode = "pin" /\ \E t \in Typings(pin) \cup {<<>>} :
                 AskAgain(t) \/ EnterPin(t) \/ EnterScrap(t)
    <3>1. PICK t \in Typings(pin) \cup {<<>>} : AskAgain(t) \/ EnterPin(t) \/ EnterScrap(t)
      BY <2>1
    <3>2. t \in Seq(Char)
      <4>1. pin \in Pins
        BY <2>1 DEF PinTyped
      <4>2. <<>> \in Seq(Char)
        OBVIOUS
      <4> QED BY <4>1, <4>2, TypingsAreTexts
    <3>3. UNCHANGED <<mode, pin>>
      BY <3>1 DEF AskAgain, EnterPin, EnterScrap, Enter, fixed
    <3>4. CASE AskAgain(t)
      BY <3>3, <3>4 DEF AskAgain, receiver, PinTyped
    <3>5. CASE EnterPin(t)
      <4>1. typed' \in Pins
        BY <3>2, <3>5, NormalizedIsPin DEF EnterPin
      <4> QED BY <3>3, <4>1 DEF PinTyped
    <3>6. CASE EnterScrap(t)
      BY <3>3, <3>6 DEF EnterScrap, To, PinTyped, Looking, Busy
    <3> QED BY <3>1, <3>4, <3>5, <3>6
  <2>2. CASE EnterCode \/ EnterServerless
    BY <2>2 DEF EnterCode, EnterServerless, Enter, fixed, PinTyped
  <2> QED BY <1>4, <2>1, <2>2 DEF Typing
<1> QED BY <1>1, <1>2, <1>3, <1>4 DEF Next

(* One character misread or two neighbours exchanged never start a search, *)
(* but where Blind says that the weights cannot tell, for every alphabet   *)
(* and every length of a PIN.                                              *)
THEOREM SlipsAreCaught == Spec => []SlipCaught
<1>1. PinTyped => SlipCaught
  BY WeightsAreExact DEF WeightsTell, PinTyped, SlipCaught, Looking
<1>2. PinTyped /\ [Next]_vars => PinTyped'
  BY StepTyped
<1> QED BY <1>1, <1>2, InitTyped, PTL DEF Spec
=============================================================================
