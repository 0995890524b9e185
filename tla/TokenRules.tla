------------------------------ MODULE TokenRules ------------------------------
(***************************************************************************)
(* The rules of scanner.l: which token is at the head of a text.           *)
(*                                                                         *)
(* Abstraction.  A byte is known by its class, the rules tell no others    *)
(* apart.                                                                  *)
(***************************************************************************)
EXTENDS Integers, Sequences

NUL     == 0
PLAIN   == 1
NEWLINE == 2
HASH    == 3
DOLLAR  == 4
PLUS    == 5
MINUS   == 6
HEX     == 7

Classes == 0..7

CONSTANTS
    Alphabet,       \* the classes of the bytes that may arrive
    MaxBytes        \* bound: the number of bytes that may arrive

ASSUME AlphabetAssumption == Alphabet \subseteq Classes /\ MaxBytes \in Nat

\* "$"[^$#]*"#"{HEX}{HEX}
IsPacket(s) ==
    /\ Len(s) >= 4
    /\ s[1] = DOLLAR
    /\ \A i \in 2..(Len(s) - 3) : s[i] \notin {DOLLAR, HASH}
    /\ s[Len(s) - 2] = HASH
    /\ s[Len(s) - 1] = HEX
    /\ s[Len(s)] = HEX

\* Bytes yet to come can make a packet of s.
MayBecomePacket(s) ==
    /\ s # <<>>
    /\ s[1] = DOLLAR
    /\ \E h \in 2..(Len(s) + 1) :
          /\ \A i \in 2..(h - 1) : s[i] \notin {DOLLAR, HASH}
          /\ h <= Len(s) => s[h] = HASH
          /\ Len(s) <= h + 1
          /\ Len(s) = h + 1 => s[h + 1] = HEX

Packets(s) == {n \in 1..Len(s) : IsPacket(SubSeq(s, 1, n))}

RuleOfByte(c) ==
    CASE c = PLUS    -> 1
      [] c = MINUS   -> 2
      [] c = NEWLINE -> 5
      [] OTHER   -> 4

\* The token at the head of s.  No packet is the beginning of another one.
HeadToken(s) ==
    IF Packets(s) # {}
    THEN [rule |-> 3, length |-> CHOOSE n \in Packets(s) : TRUE]
    ELSE [rule |-> RuleOfByte(s[1]), length |-> 1]

Decided(s) == s # <<>> /\ ~MayBecomePacket(s)
==============================================================================
