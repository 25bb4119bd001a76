----------------------------- MODULE MCPairing -----------------------------
(* Instances of Pairing for TLC: two PINs of three characters.           *)
EXTENDS Pairing

ASSUME \A n \in 0..(PinLen + 1) : ReadAsShown(n)

MCGenerated == {p \in Pins : <<p[1], p[2]>> \in {<<0, 1>>, <<3, 2>>}}
=============================================================================
