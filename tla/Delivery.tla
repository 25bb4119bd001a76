------------------------------ MODULE Delivery ------------------------------
(***************************************************************************)
(* What beam-rs promises of a transfer, without the temp file, the staging *)
(* file, the streams and the offsets: a file appears under its name whole  *)
(* and at once, in a place that was free, at most once per session; the    *)
(* sender is told so only after that; a file that was there goes only      *)
(* while a receiver that has not delivered is running.                     *)
(***************************************************************************)
EXTENDS Naturals

CONSTANTS Procs, Versions, Names, Nil

VARIABLES
    want,   \* the version each session is about
    name,   \* the name each receiver saves under
    dir,    \* the version under each name, Nil if there is none
    recv,   \* each receiver: running, delivered, or ended without
    send    \* each sender: running, success, aborted, failed

dvars == <<want, name, dir, recv, send>>

Init ==
    /\ want \in [Procs -> Versions]
    /\ name = [p \in Procs |-> 1]
    /\ \E v \in Versions \cup {Nil} : dir = [n \in Names |-> IF n = 1 THEN v ELSE Nil]
    /\ recv = [p \in Procs |-> "running"]
    /\ send = [p \in Procs |-> "running"]

(* The user has the file under the name in the header removed.             *)
Overwrite(p) ==
    /\ recv[p] = "running" /\ name[p] = 1
    /\ dir' = [dir EXCEPT ![1] = Nil]
    /\ UNCHANGED <<want, name, recv, send>>

(* The user has the file saved under another name, one that is free.       *)
Rename(p) ==
    /\ recv[p] = "running"
    /\ \E n \in Names : dir[n] = Nil /\ name' = [name EXCEPT ![p] = n]
    /\ UNCHANGED <<want, dir, recv, send>>

Publish(p) ==
    /\ recv[p] = "running"
    /\ dir[name[p]] = Nil
    /\ dir' = [dir EXCEPT ![name[p]] = want[p]]
    /\ recv' = [recv EXCEPT ![p] = "delivered"]
    /\ UNCHANGED <<want, name, send>>

(* A receiver may still fail after it delivered: its temp file could not   *)
(* be removed, or the ACK not be sent.                                     *)
End(p) ==
    /\ recv[p] # "ended"
    /\ recv' = [recv EXCEPT ![p] = "ended"]
    /\ UNCHANGED <<want, name, dir, send>>

Confirm(p) ==
    /\ send[p] = "running" /\ recv[p] = "delivered"
    /\ send' = [send EXCEPT ![p] = "success"]
    /\ UNCHANGED <<want, name, dir, recv>>

GiveUp(p) ==
    /\ send[p] = "running"
    /\ \E how \in {"aborted", "failed"} : send' = [send EXCEPT ![p] = how]
    /\ UNCHANGED <<want, name, dir, recv>>

Next == \E p \in Procs : Overwrite(p) \/ Rename(p) \/ Publish(p) \/ End(p)
                         \/ Confirm(p) \/ GiveUp(p)

Spec == Init /\ [][Next]_dvars
=============================================================================
