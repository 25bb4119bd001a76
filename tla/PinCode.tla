------------------------------ MODULE PinCode ------------------------------
(***************************************************************************)
(* The text of a PIN (src/auth/pin.rs): how the check character is         *)
(* computed, and what the receiver makes of what its user typed.  A        *)
(* character of the alphabet is its index; the typed text may also have    *)
(* separators, the lookalikes of 0 and 1, and other characters.            *)
(***************************************************************************)
EXTENDS Integers, Sequences, FiniteSets

CONSTANTS
    Base,       \* letters of the alphabet (32)
    DataLen,    \* random characters of a PIN (PIN_DATA_LEN, 9)
    Sep, LetterO, LetterI, Other

ASSUME CodeAssumption ==
    /\ Base \in Nat \ {0, 1}
    /\ DataLen \in Nat \ {0}
    /\ \A c \in {Sep, LetterO, LetterI, Other} : c \notin 0..(Base - 1)
    /\ Sep \notin {LetterO, LetterI, Other} /\ LetterO # LetterI

Alphabet == 0..(Base - 1)
PinLen == DataLen + 1

(* Mutant: every position has the same weight.                             *)
PlainSum(d) ==
    LET sum[i \in 0..Len(d)] == IF i = 0 THEN 0 ELSE sum[i - 1] + d[i]
    IN  sum[Len(d)] % Base

CheckChar(d) ==
    LET sum[i \in 0..Len(d)] == IF i = 0 THEN 0 ELSE sum[i - 1] + d[i] * i
    IN  sum[Len(d)] % Base

(* generate_pin                                                            *)
Pins == {Append(d, CheckChar(d)) : d \in [1..DataLen -> Alphabet]}

Mapped(c) == CASE c = LetterO -> 0 [] c = LetterI -> 1 [] OTHER -> c
Canonical(t) ==
    LET out[i \in 0..Len(t)] == IF i = 0 THEN <<>>
                                ELSE IF t[i] = Sep THEN out[i - 1]
                                ELSE Append(out[i - 1], Mapped(t[i]))
    IN  out[Len(t)]

LooksLikePin(t) ==
    /\ Len(Canonical(t)) = PinLen
    /\ \A i \in DOMAIN Canonical(t) : Canonical(t)[i] \in Alphabet

(* normalize_pin returns something.                                        *)
Normalizes(t) ==
    /\ LooksLikePin(t)
    /\ Canonical(t)[PinLen] = CheckChar(SubSeq(Canonical(t), 1, DataLen))
------------------------------------------------------------------------------
(* Ways to type PIN p: as it is shown (format_pin), with lookalikes, and   *)
(* with a mistake: one character misread, two neighbours exchanged, the    *)
(* check character among them.                                             *)
Grouped(p) == SubSeq(p, 1, PinLen \div 2) \o <<Sep>> \o SubSeq(p, PinLen \div 2 + 1, PinLen)
Lookalike(p) == [i \in DOMAIN p |-> CASE p[i] = 0 -> LetterO [] p[i] = 1 -> LetterI
                                      [] OTHER -> p[i]]
Misread(p) == {[p EXCEPT ![i] = c] : i \in 1..PinLen, c \in Alphabet} \ {p}
Exchanged(p) == {[p EXCEPT ![i] = p[i + 1], ![i + 1] = p[i]] : i \in 1..DataLen} \ {p}
Typings(p) == {p, Grouped(p), Lookalike(p), SubSeq(p, 1, DataLen), Append(p, 0),
               [p EXCEPT ![1] = Other]} \cup Misread(p) \cup Exchanged(p)

(* The mistakes that the weights do not tell: a character whose change is  *)
(* a multiple of Base once its weight has multiplied it, and the exchange  *)
(* of the last character with the check character when their difference is *)
(* one as the check character's position multiplies it.  With 32 letters   *)
(* and 9 characters: a step of 16 at an even position, of 8 or 24 at       *)
(* positions 4 and 8, of any multiple of 4 at position 8; and an exchange  *)
(* of the last two if they are 16 apart.                                   *)
Blind(p) ==
    {q \in Misread(p) : \E i \in 1..DataLen : q[i] # p[i] /\ ((p[i] - q[i]) * i) % Base = 0}
    \cup {q \in Exchanged(p) : /\ q[PinLen] # p[PinLen]
                              /\ ((p[PinLen] - p[DataLen]) * PinLen) % Base = 0}

(* The mistakes the check character is for.                                *)
Slips(p) == (Misread(p) \cup Exchanged(p)) \ Blind(p)

(* No slip makes another PIN, and each mistake that is not counted as one  *)
(* does.                                                                   *)
WeightsTell == \A p \in Pins : Slips(p) \cap Pins = {} /\ Blind(p) \subseteq Pins

(* Text t shows p: without its separators, it has the characters of p or   *)
(* letters that look like them.                                            *)
Char == Alphabet \cup {Sep, LetterO, LetterI, Other}
Place(t, i) == Cardinality({j \in 1..i : t[j] # Sep})
Resembles(c, a) == c = a \/ (c = LetterO /\ a = 0) \/ (c = LetterI /\ a = 1)
Shows(t, p) ==
    /\ Place(t, Len(t)) = Len(p)
    /\ \A i \in 1..Len(t) : t[i] # Sep => Resembles(t[i], p[Place(t, i)])

(* The tests generated_pins_normalize and normalization_accepts_grouping_  *)
(* case_and_lookalikes of pin.rs, for every PIN and every text of n        *)
(* characters that shows it.                                               *)
ReadAsShown(n) ==
    \A p \in Pins : \A t \in [1..n -> Char] :
        Shows(t, p) => Normalizes(t) /\ Canonical(t) = p
=============================================================================
