------------------------------ MODULE MCAccesses ------------------------------
(***************************************************************************)
(* Values for TLC: words of four bits, two bytes each, so that all four    *)
(* orders of bytes differ and a shift amount may be anything; a memory     *)
(* that ends before the addresses do, and a packet shorter than it.        *)
(***************************************************************************)
EXTENDS Accesses

OneImage == {[a \in Addresses |-> (a + a \div 4) % Base]}
OneFile  == {[r \in Regs |-> IF r = PC THEN 6 ELSE 5 + 6 * r]}

FewRequests ==
    {[op |-> "m", a |-> a, n |-> n] : a \in {0, 12, 15}, n \in {0, 2, 13, 14}}
    \cup {[op |-> "X", a |-> a, data |-> data] :
             a \in {4, 13, 14}, data \in {<<3>>, <<1, 3, 2>>}}
    \cup {[op |-> "X", a |-> 0, data |-> <<>>]}
    \cup {[op |-> "p", r |-> r] : r \in {0, 2, 3, 5}}
    \cup {[op |-> "P", r |-> r, w |-> 7] : r \in 1 .. 3}
    \cup {[op |-> "g"]}
    \cup {[op |-> "G", regs |-> [r \in Regs |-> (1 + 3 * r) % Size], cpsr |-> c] :
             c \in {0, 6}}
================================================================================
