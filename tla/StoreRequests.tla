----------------------------- MODULE StoreRequests -----------------------------
(***************************************************************************)
(* What the debugger asks of the memory and of the registers, and what it  *)
(* is answered: m and X with an address and bytes, p and P with the number *)
(* of a register, g and G with all of them.                                *)
(***************************************************************************)
EXTENDS ByteOrder, SequencesExt

CONSTANTS
    MemSize,        \* the bytes of the memory
    Decimal,        \* the numbers of registers of one decimal digit, 10
    FloatWords,     \* the words between the registers and cpsr in g and G, 25
    Requests        \* the requests of the debugger

Addresses == 0 .. MemSize - 1

NoRequest == [op |-> "none"]
NoAnswer  == [kind |-> "none", bytes |-> <<>>]

\* A byte of a floating point register, "xx".
NotImplemented == Base

\* The bytes of a dump of all registers: theirs, those of the gap, and of cpsr.
DumpLength == (NRegs + FloatWords + 1) * WordBytes

Dump(shown, status) ==
    [k \in 1 .. DumpLength |->
        LET r == (k - 1) \div WordBytes
            i == ((k - 1) % WordBytes) + 1
        IN  IF r \in Regs THEN shown[r][i]
            ELSE IF r < NRegs + FloatWords THEN NotImplemented
            ELSE status[i]]

\* The debugger writes the number of a register in hexadecimal, whose radix is
\* the number of registers; atoi reads the decimal digits at its beginning.
atoi(n) ==
    LET high == n \div NRegs
        low  == n % NRegs
    IN  IF high = 0 THEN (IF low < Decimal THEN low ELSE 0)
        ELSE IF high >= Decimal THEN 0
        ELSE IF low < Decimal THEN high * Decimal + low
        ELSE high

IsRequest(q) ==
    \/ q = NoRequest
    \/ q.op = "m" /\ q.a \in Word /\ q.n \in Nat
    \/ q.op = "X" /\ q.a \in Word /\ q.data \in Seq(Bytes)
    \/ q.op = "p" /\ q.r \in Nat
    \/ q.op = "P" /\ q.r \in Nat /\ q.w \in Word
    \/ q.op = "g"
    \/ q.op = "G" /\ q.regs \in [Regs -> Word] /\ q.cpsr \in Word

ASSUME RequestsAssumption ==
    /\ MemSize \in 1 .. Size - 1
    /\ Decimal \in 1 .. NRegs
    /\ FloatWords \in Nat
    /\ \A q \in Requests : q # NoRequest /\ IsRequest(q)
==============================================================================
