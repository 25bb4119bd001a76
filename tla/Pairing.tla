------------------------------ MODULE Pairing ------------------------------
(***************************************************************************)
(* How a receiver finds its sender, up to the connection with which        *)
(* Session begins: the three pairing modes of send_file                    *)
(* (src/iroh/sender.rs), the prompt and the dispatch of src/main.rs, the   *)
(* PIN rendezvous over mDNS (src/auth/pin_record.rs, src/auth/lan.rs), the *)
(* lifetime of a beam code (src/core/beam.rs) and create_endpoint          *)
(* (src/iroh/common.rs).                                                   *)
(*                                                                         *)
(* now is the sender's clock; the receiver's is skew ahead of it.  A step  *)
(* that takes time has a bound, and the clock does not pass it before the  *)
(* step is over.  The record of a PIN is published under a name that only  *)
(* the PIN and the bucket determine, here that pair.                       *)
(***************************************************************************)
EXTENDS PinCode

CONSTANTS
    Generated, \* the PINs that generate_pin returns
    Life,      \* PIN_LIFETIME_SECS, and the length of a bucket (120)
    Derive,    \* bound on the time of a key derivation (Argon2id)
    Lookup,    \* LOOKUP_TIMEOUT (5)
    Ready,     \* ENDPOINT_READY_TIMEOUT (10)
    Hop,       \* bound on the time to connect to a sender that accepts
    Dialing,   \* how long iroh's connect keeps trying while nobody accepts
    Ttl,       \* SESSION_TTL_SECS (3600)
    Allow,     \* clock skew allowed by parse_code (60)
    Cap,       \* capacity of the lookup's channel (16)
    MaxSkew,   \* bound on the difference of the clocks
    Patience,  \* bound on how long after the display a user types something
    Nil

ASSUME PairingAssumption ==
    /\ Generated \subseteq Pins
    /\ Life \in Nat \ {0} /\ Cap \in Nat \ {0}
    /\ {Derive, Lookup, Ready, Hop, Dialing, Ttl, Allow, MaxSkew, Patience} \subseteq Nat
    /\ Nil \notin Int

VARIABLES
    mode,    \* how the sender was started
    pin,     \* its PIN
    skew,
    now,
    spc,     \* where the sender is
    stamp,   \* the time it read for its bucket, or for created_at
    shown,   \* when the code or the PIN was displayed
    due,     \* the sender's timer
    loop,    \* the accept loop: free, taken by a stranger, held for a while
    rpc,     \* where the receiver is
    typed,   \* the PIN its user entered, normalized
    entered, \* when an input was taken
    rdue,    \* the receiver's timer
    delayed, \* time that it dialled a sender that served a stranger
    chan,    \* the channel between the mDNS callback and the lookup
    heard,   \* the callback was called with the sender's record, and had room
    trouble  \* something outside the two programs' timing went wrong

fixed == <<mode, pin, skew>>
sender == <<spc, stamp, shown, due, loop>>
receiver == <<rpc, typed, entered, rdue, delayed, chan, heard>>
vars == <<fixed, now, sender, receiver, trouble>>

Start == 2 * Life + MaxSkew
Clock == now + skew
Bucket(t) == t \div Life
SenderEnd == {"paired", "expired", "stopped", "failed"}
ReceiverEnd == {"paired", "notfound", "invalid", "stale", "future", "failed"}
Busy == {"derive", "lookup", "endpoint", "connect"}

Init ==
    /\ mode \in {"pin", "code", "serverless"}
    /\ pin \in IF mode = "pin" THEN Generated ELSE {<<>>}
    /\ skew \in -MaxSkew..MaxSkew
    /\ now \in Start..(Start + Life - 1)
    /\ spc = "start" /\ stamp = Nil /\ shown = Nil /\ due = Nil /\ loop = "free"
    /\ rpc = "prompt" /\ typed = <<>> /\ entered = Nil /\ rdue = Nil /\ delayed = 0
    /\ chan = <<>> /\ heard = FALSE /\ trouble = FALSE
------------------------------------------------------------------------------
(* send_file                                                               *)

(* create_endpoint succeeds in time, or the program ends.                  *)
OpenEndpoint ==
    /\ spc = "start"
    /\ \/ spc' = "open" /\ UNCHANGED trouble
       \/ spc' = "failed" /\ trouble' = TRUE
    /\ UNCHANGED <<fixed, now, stamp, shown, due, loop, receiver>>

(* generate_code                                                           *)
ShowCode ==
    /\ spc = "open" /\ mode = "code"
    /\ spc' = "listening" /\ stamp' = now /\ shown' = now
    /\ UNCHANGED <<fixed, now, due, loop, receiver, trouble>>

(* wait_for_direct_address_hint: an address, or the code without one.      *)
ShowServerless ==
    /\ spc = "open" /\ mode = "serverless"
    /\ spc' = "listening" /\ shown' = now
    /\ UNCHANGED <<fixed, now, stamp, due, loop, receiver, trouble>>

(* generate_pin and current_bucket                                         *)
ReadClock ==
    /\ spc = "open" /\ mode = "pin"
    /\ spc' = "derive" /\ stamp' = now /\ due' = now + Derive
    /\ UNCHANGED <<fixed, now, shown, loop, receiver, trouble>>

(* Mutant: the lifetime counts from the bucket's clock, not the display.   *)
AdvertiseEarly ==
    /\ spc = "derive"
    /\ spc' = "listening" /\ shown' = now /\ due' = stamp + Life
    /\ UNCHANGED <<fixed, now, stamp, loop, receiver, trouble>>

(* The key is derived, the record published, the PIN displayed.            *)
Advertise ==
    /\ spc = "derive"
    /\ spc' = "listening" /\ shown' = now /\ due' = now + Life
    /\ UNCHANGED <<fixed, now, stamp, loop, receiver, trouble>>

(* A stranger connects.  The loop serves one connection at a time, so      *)
(* nobody else is accepted before this one is rejected.                    *)
TakeStranger ==
    /\ spc = "listening" /\ loop = "free"
    /\ loop' = "taken"
    /\ UNCHANGED <<fixed, now, spc, stamp, shown, due, receiver, trouble>>

(* It is rejected some time later: nothing bounds how long it may take to  *)
(* open its stream.  The loop goes on, until the same deadline.            *)
RejectStranger ==
    /\ spc = "listening" /\ loop = "held"
    /\ loop' = "free"
    /\ UNCHANGED <<fixed, now, spc, stamp, shown, due, receiver, trouble>>

(* Mutant: the deadline is looked at when somebody connects.               *)
ExpireOnConnect ==
    /\ spc = "listening" /\ mode = "pin"
    /\ now >= due /\ rpc = "connect"
    /\ spc' = "expired" /\ loop' = "free"
    /\ UNCHANGED <<fixed, now, stamp, shown, due, receiver, trouble>>

(* timeout_at, also while a stranger is served: the record is withdrawn,   *)
(* the sender ends.                                                        *)
Expire ==
    /\ spc = "listening" /\ mode = "pin"
    /\ now >= due
    /\ spc' = "expired" /\ loop' = "free"
    /\ UNCHANGED <<fixed, now, stamp, shown, due, receiver, trouble>>

SenderStops ==
    /\ spc \in {"open", "derive", "listening"}
    /\ spc' = "stopped" /\ loop' = "free" /\ trouble' = TRUE
    /\ UNCHANGED <<fixed, now, stamp, shown, due, receiver>>
------------------------------------------------------------------------------
(* prompt_pairing_input and run                                            *)

To(l) == rpc' = l
Enter ==
    /\ rpc = "prompt"
    /\ shown # Nil /\ now <= shown + Patience
    /\ UNCHANGED <<fixed, now, sender, delayed, chan, heard, trouble>>

(* Empty, or like a PIN but with a wrong check character: prompted again.  *)
AskAgain(t) ==
    /\ Enter
    /\ t = <<>> \/ (LooksLikePin(t) /\ ~Normalizes(t))
    /\ UNCHANGED receiver

(* resolve_pin begins: candidate_keys reads the clock.                     *)
EnterPin(t) ==
    /\ Enter
    /\ Normalizes(t)
    /\ typed' = Canonical(t)
    /\ To("derive") /\ entered' = now /\ rdue' = now + Derive

(* Not a PIN, and too short for a beam code.                               *)
EnterScrap(t) ==
    /\ Enter
    /\ t # <<>> /\ ~LooksLikePin(t)
    /\ To("invalid") /\ entered' = now
    /\ UNCHANGED <<typed, rdue>>

(* Mutant: the age is computed modulo 2^w.                                 *)
WrappedAge(created) == (Clock - created) % (16 * Ttl)

(* saturating_sub                                                          *)
Age(created) == IF Clock > created THEN Clock - created ELSE 0

(* parse_code, and receive.                                                *)
EnterCode ==
    /\ mode = "code"
    /\ Enter
    /\ entered' = now /\ UNCHANGED typed
    /\ CASE stamp > Clock + Allow -> To("future") /\ UNCHANGED rdue
         [] Age(stamp) > Ttl -> To("stale") /\ UNCHANGED rdue
         [] OTHER -> To("endpoint") /\ rdue' = now + Ready

(* serverless_code::decode, and receive_paired: no lifetime.               *)
EnterServerless ==
    /\ mode = "serverless"
    /\ Enter
    /\ entered' = now /\ UNCHANGED typed
    /\ To("endpoint") /\ rdue' = now + Ready
------------------------------------------------------------------------------
(* resolve_pin                                                             *)

Name(p, bucket) == <<p, bucket>>
Record == [name |-> Name(pin, Bucket(stamp)), opens |-> TRUE]
Noise == [name |-> Name(<<>>, 0), opens |-> TRUE]

(* A record under the name looked for that does not decrypt.               *)
Garbled == [name |-> Name(typed, Bucket(entered + skew)), opens |-> FALSE]

(* Mutant: the next bucket is not tried.                                   *)
PastBuckets == LET b == Bucket(entered + skew) IN {b, b - 1}

(* The current bucket when the PIN was entered, the one before, the next.  *)
Buckets == LET b == Bucket(entered + skew) IN {b, b - 1, b + 1}
Candidates == {Name(typed, b) : b \in Buckets}

StartLookup ==
    /\ rpc = "derive"
    /\ To("lookup") /\ rdue' = now + Lookup
    /\ UNCHANGED <<fixed, now, sender, typed, entered, delayed, chan, heard, trouble>>

(* Mutant: records of any name go to the channel.                          *)
SendAll(r) == chan' = IF Len(chan) < Cap THEN Append(chan, r) ELSE chan

(* The callback: a name that is no candidate is ignored, and try_send      *)
(* drops what finds the channel full.                                      *)
TrySend(r) == chan' = IF r.name \in Candidates /\ Len(chan) < Cap THEN Append(chan, r) ELSE chan

(* The sender's record, that of another sender or one that is not what its *)
(* name says is heard; announcements are repeated, and may be lost.        *)
Hear ==
    /\ rpc = "lookup"
    /\ \/ spc = "listening" /\ mode = "pin" /\ TrySend(Record)
          /\ heard' = (heard \/ Len(chan) < Cap)
       \/ (TrySend(Noise) \/ TrySend(Garbled)) /\ UNCHANGED heard
    /\ UNCHANGED <<fixed, now, sender, rpc, typed, entered, rdue, delayed, trouble>>

(* recv: what does not decrypt is skipped.                                 *)
Take ==
    /\ rpc = "lookup" /\ chan # <<>>
    /\ IF Head(chan).opens
       THEN To("endpoint") /\ rdue' = now + Ready /\ chan' = <<>>
       ELSE chan' = Tail(chan) /\ UNCHANGED <<rpc, rdue>>
    /\ UNCHANGED <<fixed, now, sender, typed, entered, delayed, heard, trouble>>

(* timeout_at gives up only when nothing is waiting.                       *)
LookupTimeout ==
    /\ rpc = "lookup"
    /\ now >= rdue /\ chan = <<>>
    /\ To("notfound")
    /\ UNCHANGED <<fixed, now, sender, typed, entered, rdue, delayed, chan, heard, trouble>>
------------------------------------------------------------------------------
(* receive_internal, up to the connection                                  *)

EndpointReady ==
    /\ rpc = "endpoint"
    /\ To("connect") /\ rdue' = now + Hop
    /\ UNCHANGED <<fixed, now, sender, typed, entered, delayed, chan, heard, trouble>>

EndpointFails ==
    /\ rpc = "endpoint" /\ now >= rdue
    /\ To("failed") /\ trouble' = TRUE
    /\ UNCHANGED <<fixed, now, sender, typed, entered, rdue, delayed, chan, heard>>

(* It dials a sender that serves somebody else.                            *)
Waits == rpc = "connect" /\ loop # "free"

Connect ==
    /\ rpc = "connect" /\ spc = "listening" /\ loop = "free"
    /\ To("paired") /\ spc' = "paired"
    /\ UNCHANGED <<fixed, now, stamp, shown, due, loop, typed, entered, rdue, delayed, chan, heard,
                   trouble>>

GivesUp ==
    /\ Waits /\ delayed >= Dialing
    /\ To("failed")
    /\ UNCHANGED <<fixed, now, sender, typed, entered, rdue, delayed, chan, heard, trouble>>

NobodyThere ==
    /\ rpc = "connect" /\ spc \in SenderEnd
    /\ To("failed")
    /\ UNCHANGED <<fixed, now, sender, typed, entered, rdue, delayed, chan, heard, trouble>>
------------------------------------------------------------------------------
Sender == OpenEndpoint \/ ShowCode \/ ShowServerless \/ ReadClock \/ Advertise \/ Expire
Typing == (mode = "pin" /\ \E t \in Typings(pin) \cup {<<>>} : AskAgain(t) \/ EnterPin(t) \/ EnterScrap(t))
          \/ EnterCode \/ EnterServerless
Receiver == StartLookup \/ Take \/ LookupTimeout \/ EndpointReady \/ EndpointFails
            \/ Connect \/ GivesUp \/ NobodyThere

(* The user no longer types anything.                                      *)
Gone == IF shown = Nil THEN spc \in SenderEnd ELSE now > shown + Patience

(* Nothing is left that time could bring about.  (A program starts at any  *)
(* time, so none has to pass before it reads the clock.)                   *)
Settled ==
    /\ spc \in SenderEnd \/ (spc = "listening" /\ mode # "pin")
    /\ rpc \in ReceiverEnd \/ (rpc = "prompt" /\ Gone)

Tick ==
    /\ ~Settled /\ spc \notin {"start", "open"}
    /\ spc = "derive" \/ (spc = "listening" /\ mode = "pin") => now < due
    /\ rpc \in Busy => IF Waits THEN delayed < Dialing ELSE now < rdue
    /\ now' = now + 1
    /\ loop' = IF loop = "free" THEN "free" ELSE "held"
    /\ IF Waits THEN delayed' = delayed + 1 /\ rdue' = rdue + 1
                ELSE UNCHANGED <<delayed, rdue>>
    /\ UNCHANGED <<fixed, spc, stamp, shown, due, rpc, typed, entered, chan, heard, trouble>>

Next ==
    \/ Sender \/ TakeStranger \/ RejectStranger \/ SenderStops
    \/ Typing \/ Receiver \/ Hear
    \/ Tick
    \/ Settled /\ UNCHANGED vars

Spec == Init /\ [][Next]_vars

(* Both programs run, and time passes.  The lookup's loop is faster than   *)
(* the network: it does not find one more record each time it has taken    *)
(* one, so it empties its channel and looks at the clock.  Nothing is      *)
(* assumed of what the user types, of which announcements arrive, or of    *)
(* strangers: one may be held for good.                                    *)
FairSpec ==
    /\ Spec
    /\ WF_vars(Sender) /\ WF_vars(Receiver) /\ WF_vars(Tick)
    /\ SF_vars(Take /\ chan' = <<>>) /\ SF_vars(LookupTimeout)
------------------------------------------------------------------------------
(* Type invariant; the lookup's channel holds candidates only.             *)
PairingTypeOK ==
    /\ pin \in Generated \cup {<<>>}
    /\ now \in Nat
    /\ spc \in {"start", "open", "derive", "listening"} \cup SenderEnd
    /\ rpc \in {"prompt"} \cup Busy \cup ReceiverEnd
    /\ {stamp, shown, due, entered, rdue} \subseteq Nat \cup {Nil}
    /\ loop \in {"free", "taken", "held"} /\ delayed \in 0..Dialing
    /\ Len(chan) <= Cap
    /\ \A i \in DOMAIN chan : chan[i].name \in Candidates
    /\ heard \in BOOLEAN /\ trouble \in BOOLEAN

(* A slip of the user's, one wrong character or two neighbours exchanged,  *)
(* never starts a search of the network, but for those few (Blind) that    *)
(* the weights of generate_pin's check character cannot tell.              *)
SlipCaught ==
    mode = "pin" /\ rpc \in Busy \cup {"notfound", "paired"} =>
        typed \notin Slips(pin)

(* "no sender found" is the truth: as long as the receiver's clock at the  *)
(* prompt is within one lifetime of the sender's when it chose its bucket, *)
(* a lookup that heard the record of the PIN does not miss it, whatever    *)
(* boundary of buckets lies between and whatever else was announced,       *)
(* records under its own name that do not decrypt among them.  (One that   *)
(* the callback dropped since the channel was full of those is not heard.) *)
LookupFinds ==
    rpc = "notfound" /\ typed = pin
    /\ entered + skew - stamp \in -Life..Life => ~heard

(* README.md: a PIN is valid for 120 seconds.  Who enters it early enough  *)
(* for its own derivation, lookup and endpoint is accepted, unless         *)
(* something else went wrong.  Every second that a stranger holds the      *)
(* sender's loop while it dials counts against it, and nothing else does:  *)
(* not the strangers before, nor the time of the sender's own derivation.  *)
(* (What the deadline does to a handshake that has begun is Session's.)    *)
InTimeConnects ==
    rpc = "failed" /\ mode = "pin" /\ ~trouble =>
        \/ delayed >= Dialing
        \/ entered + Derive + Lookup + Ready + Hop + delayed >= shown + Life

(* Two users whose clocks differ by no more than the allowance never see a *)
(* beam code rejected while it is that much younger than its TTL, and      *)
(* never accepted when it is that much older.                              *)
CodeWindow ==
    mode = "code" /\ entered # Nil /\ skew \in -Allow..Allow =>
        /\ entered - stamp <= Ttl - Allow => rpc \notin {"stale", "future"}
        /\ entered - stamp > Ttl + Allow => rpc = "stale"

(* A sender with a PIN does not stay, whoever keeps trying or holds it,    *)
(* and a receiver that was given something comes to an end.                *)
NobodyWaits ==
    /\ mode = "pin" => <>(spc \in SenderEnd)
    /\ rpc \in Busy ~> rpc \in ReceiverEnd
=============================================================================
