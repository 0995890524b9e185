----------------------------- MODULE TransferWords -----------------------------
(***************************************************************************)
(* Addresses, registers and lists of registers, as LDM and STM use them.   *)
(* Addresses and register values count words, and the arithmetic on them   *)
(* is modulo the size of the address space.  Operators only.               *)
(***************************************************************************)
EXTENDS Integers, FiniteSets

CONSTANTS
    NRegs,          \* number of registers: 16 in the code, the last one is r15
    Words           \* number of words of the address space

ASSUME TransferAssumption ==
    /\ NRegs \in Nat \ {0}
    /\ Words \in Nat
    /\ NRegs <= Words

Regs == 0 .. NRegs - 1
PC == NRegs - 1
Addr == 0 .. Words - 1

\* A slip: a sum leaves the address space at its end.
PlusNoWrap(a, n) == a + n

\* Sums and differences of an address and a number of at most Words.
Plus(a, n) == IF a + n < Words THEN a + n ELSE a + n - Words
Minus(a, n) == IF a >= n THEN a - n ELSE a + Words - n

\* arm_fetch moves the program counter to the next word.
Fetched(rs) == [rs EXCEPT ![PC] = Plus(rs[PC], 1)]

\* The program counter is read one word further than it is.
arm_read_register(rs, r) == IF r = PC THEN Plus(rs[PC], 1) ELSE rs[r]

number_set_bits_in(list) == Cardinality(list)

\* The registers of the list below r; their number is the place of r.
Below(list, r) == {q \in list : q < r}

Slot(list, start, r) == Plus(start, number_set_bits_in(Below(list, r)))

\* r15 is given the return code of the read, 0, and not the word.
Loaded(m, list, start, r) == IF r = PC THEN 0 ELSE m[Slot(list, start, r)]

\* The registers of the list that are stored at address a: one at most.
StoredAt(list, start, a) == {r \in list : Slot(list, start, r) = a}
==============================================================================
