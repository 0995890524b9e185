------------------------------- MODULE ByteOrder -------------------------------
(***************************************************************************)
(* Words and their bytes, as the debugger and the memory show them: a word *)
(* has WordBytes bytes, the least or the most significant one first.       *)
(***************************************************************************)
EXTENDS ArmAlu, Sequences

ASSUME BytesAssumption == W % ByteBits = 0

WordBytes == W \div ByteBits        \* 4 in the code
Base      == 2 ^ ByteBits
Bytes     == 0 .. Base - 1

\* The weight of the byte number i, from 0.
Weight(i, big) == Base ^ (IF big THEN WordBytes - 1 - i ELSE i)

Number(s, big) == MapThenSumSet(LAMBDA i : s[i] * Weight(i - 1, big), 1 .. WordBytes)
Digits(w, big) == [i \in 1 .. WordBytes |-> (w \div Weight(i - 1, big)) % Base]
==============================================================================
