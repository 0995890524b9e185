-------------------------------- MODULE ArmAlu --------------------------------
(***************************************************************************)
(* The arithmetic of the data-processing instructions: shifts, shifter     *)
(* operand, the value of each operation and the carry and overflow flags.  *)
(* Words have W bits instead of 32 and the byte of a shift amount or of a  *)
(* register number has ByteBits instead of 8; the code's 32, 31 and 0xFF   *)
(* as a word become W, W - 1 and the word of ones.  Operators only.        *)
(***************************************************************************)
EXTENDS Integers, FiniteSetsExt

CONSTANTS
    W,              \* bits of a word: 32 in the code, a power of two
    ByteBits,       \* bits of a byte: 8 in the code
    NRegs           \* registers, the last one being r15

ASSUME AluAssumption ==
    /\ W \in {4, 8, 16, 32}
    /\ ByteBits \in 1 .. W
    /\ NRegs \in 2 .. 2 ^ ByteBits

Size == 2 ^ W
Word == 0 .. Size - 1
Ones == Size - 1
Wrap(n) == n % Size
Regs == 0 .. NRegs - 1
PC == NRegs - 1
Byte(x) == x % 2 ^ ByteBits

Bit(x, i) == (x \div 2 ^ i) % 2
BitsOf == [x \in Word |-> {i \in 0 .. W - 1 : Bit(x, i) = 1}]
WordOf == [s \in SUBSET (0 .. W - 1) |-> MapThenSumSet(LAMBDA i : 2 ^ i, s)]

And(x, y) == WordOf[BitsOf[x] \cap BitsOf[y]]
Or(x, y)  == WordOf[BitsOf[x] \cup BitsOf[y]]
Not(x)    == Ones - x
Eor(x, y) == Or(And(x, Not(y)), And(Not(x), y))
Top(x)    == Bit(x, W - 1)

lsl(x, n) == Wrap(x * 2 ^ n)
lsr(x, n) == x \div 2 ^ n
asr(x, n) == Or(lsr(x, n), IF Top(x) = 1 THEN Wrap(-(2 ^ (W - n))) ELSE 0)
ror(x, n) == Or(lsr(x, n), lsl(x, W - n))

-----------------------------------------------------------------------------
LSL == 0
LSR == 1
ASR == 2
ROR == 3
Shifts == LSL .. ROR

\* Every shift but LSL is given the number of the shift instead of the amount.
shift_operation(x, shift, amount) ==
    CASE shift = LSL -> lsl(x, amount)
      [] shift = LSR -> lsr(x, shift)
      [] shift = ASR -> asr(x, shift)
      [] shift = ROR -> ror(x, shift)

Out(value, carry) == [value |-> value, carry |-> carry]

Signs(x) == IF Top(x) = 1 THEN Ones ELSE 0

\* The shifter operand for a shift by an immediate amount; c is the C flag.
ShiftedByImmediate(x, shift, amount, c) ==
    CASE shift = LSL /\ amount = 0 -> Out(x, c)
      [] shift = LSL /\ amount > 0 -> Out(shift_operation(x, shift, amount),
                                          Bit(x, W - amount))
      [] shift = LSR /\ amount = 0 -> Out(0, Top(x))
      [] shift = ASR /\ amount = 0 -> Out(Signs(x), Top(x))
      [] shift = ROR /\ amount = 0 -> Out(Or(lsl(c, W - 1), lsr(x, 1)), Bit(x, 0))
      [] OTHER -> Out(shift_operation(x, shift, amount), Bit(x, amount - 1))

(***************************************************************************)
(* The shifter operands for a shift by the amount n of a register's low    *)
(* byte.  A rotation by a multiple of the word size reads the bit at the   *)
(* position -1, which is undefined: both carries are possible.             *)
(***************************************************************************)
ShiftedByRegister(x, shift, n, c) ==
    CASE n = 0 -> {Out(x, c)}
      [] n > 0 /\ shift = ROR ->
            {Out(shift_operation(x, shift, n % W), b) :
                b \in IF n % W = 0 THEN {0, 1} ELSE {Bit(x, (n % W) - 1)}}
      [] n \in 1 .. W - 1 /\ shift = LSL ->
            {Out(shift_operation(x, shift, n), Bit(x, W - n))}
      [] n \in 1 .. W - 1 /\ shift \in {LSR, ASR} ->
            {Out(shift_operation(x, shift, n), Bit(x, n - 1))}
      [] n >= W /\ shift = ASR -> {Out(Signs(x), Top(x))}
      [] n = W /\ shift = LSL -> {Out(0, Bit(x, 0))}
      [] n = W /\ shift = LSR -> {Out(0, Top(x))}
      [] OTHER -> {Out(0, 0)}

\* A slip: the carry of a rotated immediate is always that of the rotation.
RotatedNoFlag(immediate, rotate, c) ==
    LET x == ror(immediate, 2 * rotate) IN Out(x, Top(x))

\* A rotated immediate: rotate is half the rotation.
Rotated(immediate, rotate, c) ==
    LET x == ror(immediate, 2 * rotate)
    IN  Out(x, IF rotate = 0 THEN c ELSE Top(x))

-----------------------------------------------------------------------------
Logical   == {"and", "eor", "tst", "teq", "orr", "mov", "bic", "mvn"}
Compares  == {"tst", "teq", "cmp", "cmn"}
Ops == Logical \cup Compares
               \cup {"sub", "rsb", "add", "adc", "sbc", "rsc"}

\* ~get_flag_C(p), an int: -1 or -2.
NotC(c) == -1 - c

\* The value of the operation on x, the first operand, y, the shifter operand.
Value(op, x, y, c) ==
    CASE op \in {"and", "tst"} -> And(x, y)
      [] op \in {"eor", "teq"} -> Eor(x, y)
      [] op \in {"sub", "cmp"} -> Wrap(x - y)
      [] op = "rsb"            -> Wrap(y - x)
      [] op \in {"add", "cmn"} -> Wrap(x + y)
      [] op = "adc"            -> Wrap(x + y + c)
      [] op = "sbc"            -> Wrap(x - y - NotC(c))
      [] op = "rsc"            -> Wrap(y - x - NotC(c))
      [] op = "orr"            -> Or(x, y)
      [] op = "mov"            -> y
      [] op = "bic"            -> And(x, Not(y))
      [] op = "mvn"            -> Not(y)

UNAFFECTED == 255

ToBit(b) == IF b THEN 1 ELSE 0

\* ~ of a bit, kept in a byte: 255 (which is UNAFFECTED) or 254.
NotByte(b) == 255 - b

carryFrom(x, y) == ToBit(Ones < Wrap(x + y))

borrowFrom(x, y) == ToBit(x < y)

\* A slip: the overflow of a subtraction looks at the sign of the second operand.
overflowFromSecond(x, y, z, opcode) ==
    ToBit(IF opcode = 1 THEN Top(x) = Top(y) /\ Top(x) = Top(z)
                        ELSE Top(x) # Top(y) /\ Top(y) # Top(z))

overflowFrom(x, y, z, opcode) ==
    ToBit(IF opcode = 1 THEN Top(x) = Top(y) /\ Top(x) = Top(z)
                        ELSE Top(x) # Top(y) /\ Top(x) # Top(z))

(***************************************************************************)
(* The two flags an operation hands to write_flags.  x2 is the first       *)
(* operand as adc, sbc and rsc read it again, after they have written      *)
(* their result z in its register.                                         *)
(***************************************************************************)
FlagC(op, x, x2, y, c, carry) ==
    CASE op \in Logical        -> carry
      [] op \in {"sub", "cmp"} -> NotByte(borrowFrom(x, y))
      [] op = "rsb"            -> NotByte(borrowFrom(y, x))
      [] op \in {"add", "cmn"} -> carryFrom(x, y)
      [] op = "adc"            -> carryFrom(Wrap(x2 + y), c)
      [] op = "sbc"            -> NotByte(borrowFrom(x2, Wrap(y - NotC(c))))
      [] op = "rsc"            -> NotByte(borrowFrom(Wrap(y - NotC(c)), x2))

FlagV(op, x, x2, y, z, c) ==
    CASE op \in Logical               -> UNAFFECTED
      [] op \in {"sub", "add", "cmn"} -> overflowFrom(x, y, z, 1)
      [] op = "rsb"                   -> overflowFrom(y, x, z, 0)
      [] op = "cmp"                   -> overflowFrom(x, y, z, 0)
      [] op = "adc"                   -> overflowFrom(Wrap(x2 + y), c, z, 1)
      [] op = "sbc"                   -> overflowFrom(x2, Wrap(y - NotC(c)), z, 0)
      [] op = "rsc"                   -> overflowFrom(Wrap(y - NotC(c)), x2, z, 0)
==============================================================================
