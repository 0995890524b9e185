--------------------------- MODULE MCDataProcessing ---------------------------
(***************************************************************************)
(* Values for TLC: words of four bits, bytes of three, so that an amount   *)
(* may be below, at and above the word size, and a byte may name a         *)
(* register or none.                                                       *)
(***************************************************************************)
EXTENDS DataProcessing

\* The least word and the greatest, 1, and the least signed word.
BoundaryValues == {0, 1, 8, 15}

\* Flags with every C and V.
CarryAndOverflow == [n : {0}, z : {0}, c : {0, 1}, v : {0, 1}]

\* With the flags above, one condition that holds and one that fails.
PassingAndFailing == {"AL", "EQ"}
===============================================================================
