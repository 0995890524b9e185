---------------------------- MODULE DataProcessing ----------------------------
(***************************************************************************)
(* The processor executing data-processing instructions: fetch, condition, *)
(* dispatch (arm_decode), shifter operand (write_shift_operand_sco),       *)
(* operation and flags (select_operation).                                 *)
(*                                                                         *)
(* Abstraction.  The bits of an instruction are chosen when the code first *)
(* looks at them.  cpsr is reduced to its four flags, which are the        *)
(* highest bits of the word MRS would read.  The mode is USR: it is set    *)
(* when the registers are created and no instruction changes it, so that   *)
(* reading spsr ends the process and an exception other than RESET does    *)
(* nothing.                                                                *)
(***************************************************************************)
EXTENDS ArmAlu

CONSTANTS
    Values,         \* what the general registers hold at first
    Flags,          \* what cpsr holds at first
    Conds           \* the conditions the instructions carry

ASSUME DataAssumption ==
    /\ Values \subseteq Word
    /\ Flags \subseteq [n : {0, 1}, z : {0, 1}, c : {0, 1}, v : {0, 1}]
    /\ Conds \subseteq {"EQ", "NE", "CS", "CC", "MI", "PL", "VS", "VC",
                        "HI", "LS", "GE", "LT", "GT", "LE", "AL", "UX"}

VARIABLES
    at,             \* where the code is in the instruction
    regs,           \* the registers
    cpsr,           \* the flags
    cond,           \* the condition of the instruction
    result,         \* what arm_decode is about to return
    operand         \* the class of the instruction and its shifter operand

vars == <<at, regs, cpsr, cond, result, operand>>

Status == [n : {0, 1}, z : {0, 1}, c : {0, 1}, v : {0, 1}]

NoOperand == [class |-> "shift", value |-> 0, carry |-> 0]

\* A slip: the program counter leaves the address space at its end.
ReadNoWrap(rs, r) == IF r = PC THEN rs[PC] + 4 ELSE rs[r]

\* The program counter is read as the address of the instruction plus 8.
arm_read_register(rs, r) ==
    IF r = PC THEN And(Wrap(rs[PC] + 4), Not(2)) ELSE rs[r]

\* cpsr as MRS reads it.
CpsrWord == 2 ^ (W - 4) * (8 * cpsr.n + 4 * cpsr.z + 2 * cpsr.c + cpsr.v)

Init ==
    /\ at = "fetch"
    /\ regs \in [Regs -> Values]
    /\ cpsr \in Flags
    /\ cond = "AL"
    /\ result = "none"
    /\ operand = NoOperand

condition_OK(cd, f) ==
    CASE cd = "EQ" -> f.z = 1
      [] cd = "NE" -> f.z = 0
      [] cd = "CS" -> f.c = 1
      [] cd = "CC" -> f.c = 0
      [] cd \in {"MI", "PL"} -> f.n = 0        \* MI falls through into PL
      [] cd = "VS" -> f.v = 1
      [] cd = "VC" -> f.v = 0
      [] cd = "HI" -> f.c = 1 /\ f.z = 0
      [] cd = "LS" -> f.c = 0 /\ f.z = 1
      [] cd = "GE" -> f.n = f.v
      [] cd = "LT" -> f.n # f.v
      [] cd = "GT" -> f.z = 0 /\ f.n = f.v
      [] cd = "LE" -> f.z = 1 /\ f.n # f.v
      [] cd \in {"AL", "UX"} -> TRUE

(***************************************************************************)
(* arm_fetch, then the beginning of arm_decode: a condition that fails     *)
(* only prepares the result; the dispatch below does not look at it.       *)
(***************************************************************************)
Fetch(cd) ==
    /\ at = "fetch"
    /\ at' = "parameters"
    /\ regs' = [regs EXCEPT ![PC] = arm_read_register(regs, PC)]
    /\ cond' = cd
    /\ result' = IF condition_OK(cd, cpsr) THEN "none" ELSE "undefined"
    /\ UNCHANGED <<cpsr, operand>>

Operand(class, out) ==
    /\ at = "parameters"
    /\ at' = "operate"
    /\ operand' = [class |-> class, value |-> out.value, carry |-> out.carry]
    /\ UNCHANGED <<regs, cpsr, cond, result>>

ShiftByImmediate(rm, shift, amount) ==
    Operand("shift", ShiftedByImmediate(arm_read_register(regs, rm), shift,
                                        amount, cpsr.c))

ShiftByRegister(rm, shift, rs) ==
    \E out \in ShiftedByRegister(arm_read_register(regs, rm), shift,
                                 Byte(arm_read_register(regs, rs)), cpsr.c) :
        Operand("shift", out)

\* Bits 4 and 7 both set: the operand and its carry keep their first value.
NoShift == Operand("none", Out(0, 0))

Rotate(immediate, rotate) ==
    Operand("immediate", Rotated(immediate, rotate, cpsr.c))

SetParameters ==
    \/ \E rm \in Regs, shift \in Shifts, amount \in 0 .. W - 1 :
          ShiftByImmediate(rm, shift, amount)
    \/ \E rm, rs \in Regs, shift \in Shifts : ShiftByRegister(rm, shift, rs)
    \/ NoShift
    \/ \E immediate \in 0 .. 2 ^ ByteBits - 1, rotate \in 0 .. (W \div 2) - 1 :
          Rotate(immediate, rotate)

-----------------------------------------------------------------------------
\* The flags after write_flags of register r, whose number fits the registers.
write_flags(rs, r, fc, fv) ==
    [n |-> Top(arm_read_register(rs, r)),
     z |-> ToBit(arm_read_register(rs, r) = 0),
     c |-> IF fc = UNAFFECTED THEN cpsr.c ELSE ToBit(fc = 1),
     v |-> IF fv = UNAFFECTED THEN cpsr.v ELSE ToBit(fv = 1)]

\* No spsr in USR mode: with r15 as destination, the flags stay.
update_flags(s, rs, rd, fc, fv) ==
    IF s = 0 \/ rd = PC THEN cpsr ELSE write_flags(rs, rd, fc, fv)

\* A slip: the result goes to the register of the first operand.
WrittenInOperand(op, s, rd, rn) ==
    LET z == Value(op, arm_read_register(regs, rn), operand.value, cpsr.c)
    IN  [regs |-> [regs EXCEPT ![rn] = z], cpsr |-> cpsr]

\* The registers and flags after an operation that writes its destination.
Written(op, s, rd, rn) ==
    LET x  == arm_read_register(regs, rn)
        y  == operand.value
        z  == Value(op, x, y, cpsr.c)
        rs == [regs EXCEPT ![rd] = z]
        x2 == arm_read_register(rs, rn)
    IN  [regs |-> rs,
         cpsr |-> update_flags(s, rs, rd,
                     FlagC(op, x, x2, y, cpsr.c, operand.carry),
                     FlagV(op, x, x2, y, z, cpsr.c))]

\* The register whose number is the result of a compare.
Compared(op, rn) ==
    Byte(Value(op, arm_read_register(regs, rn), operand.value, cpsr.c))

\* The flags after a compare: those of register Compared, not of the result.
ComparedFlags(op, rn) ==
    LET x == arm_read_register(regs, rn)
        y == operand.value
        z == Value(op, x, y, cpsr.c)
    IN  write_flags(regs, Compared(op, rn),
                    FlagC(op, x, x, y, cpsr.c, operand.carry),
                    FlagV(op, x, x, y, z, cpsr.c))

\* Opcodes of the compares with S clear, in the class of the shifts, are others.
IsMiscellaneous(op, s) == op \in Compares /\ s = 0 /\ operand.class # "immediate"

Finish(rs, f, res) ==
    /\ at' = "done"
    /\ regs' = rs
    /\ cpsr' = f
    /\ result' = res
    /\ UNCHANGED <<cond, operand>>

Operate(op, s, rd, rn) ==
    /\ at = "operate"
    /\ op \notin Compares
    /\ Finish(Written(op, s, rd, rn).regs, Written(op, s, rd, rn).cpsr, "none")

Compare(op, s, rn) ==
    /\ at = "operate"
    /\ op \in Compares
    /\ ~IsMiscellaneous(op, s)
    /\ Compared(op, rn) \in Regs
    /\ Finish(regs, ComparedFlags(op, rn), "none")

\* The end of the process, in read_usr_register or in read_spsr.
Exit ==
    /\ at' = "exit"
    /\ UNCHANGED <<regs, cpsr, cond, result, operand>>

CompareExits(op, s, rn) ==
    /\ at = "operate"
    /\ op \in Compares
    /\ ~IsMiscellaneous(op, s)
    /\ Compared(op, rn) \notin Regs
    /\ Exit

\* arm_miscellaneous, of cpsr (opcodes of tst and teq) or of spsr.
Miscellaneous(op, s, rd) ==
    /\ at = "operate"
    /\ IsMiscellaneous(op, s)
    /\ operand.class = "shift"
    /\ \/ /\ op \in {"tst", "teq"}
          /\ Finish([regs EXCEPT ![rd] = CpsrWord], cpsr, "undefined")
       \/ /\ op \in {"cmp", "cmn"}
          /\ Exit

\* Bits 4 and 7 set as well: no decoder is called, the prepared result stays.
NoDecoder(op, s) ==
    /\ at = "operate"
    /\ IsMiscellaneous(op, s)
    /\ operand.class = "none"
    /\ Finish(regs, cpsr, result)

SelectOperation ==
    \E op \in Ops, s \in {0, 1}, rn \in Regs :
        \/ \E rd \in Regs : Operate(op, s, rd, rn)
        \/ Compare(op, s, rn)
        \/ CompareExits(op, s, rn)
        \/ \E rd \in Regs : Miscellaneous(op, s, rd)
        \/ NoDecoder(op, s)

Terminating == at \in {"done", "exit"} /\ UNCHANGED vars

Next ==
    \/ \E cd \in Conds : Fetch(cd)
    \/ SetParameters
    \/ SelectOperation
    \/ Terminating

Spec == Init /\ [][Next]_vars

-----------------------------------------------------------------------------
\* Every variable stays in its type; registers and program counter are words.
TypeOK ==
    /\ at \in {"fetch", "parameters", "operate", "done", "exit"}
    /\ regs \in [Regs -> Word]
    /\ cpsr \in Status
    /\ cond \in Conds \cup {"AL"}
    /\ result \in {"none", "undefined"}
    /\ operand \in [class : {"shift", "none", "immediate"},
                    value : Word, carry : {0, 1}]

Signed(x) == IF Top(x) = 1 THEN x - Size ELSE x

\* The carry and the operand, read as one number of W + 1 bits, carry first.
CarryFirst(o) == o.carry * Size + o.value

\* The operand and the carry, read as one number of W + 1 bits, carry last.
CarryLast(o) == 2 * o.value + o.carry

\* x shifted left in W + 1 bits: nothing is left of it when n is above W.
ShiftedOut(x, n) == IF n > W THEN 0 ELSE (x * 2 ^ n) % (2 * Size)

(***************************************************************************)
(* The shifter operand and its carry are together the wide shift: a left   *)
(* shift by any amount, of an instruction or of a register, W and more     *)
(* included, keeps the last bit shifted out as carry (for a register that  *)
(* holds W the bit 0, where the comment names bit 31: see                  *)
(* LeftShiftByWordAsCommented); LSR #W, ASR #W and RRX, which are encoded  *)
(* as a shift by 0, do so on the other side; a rotated immediate is a      *)
(* multiplication modulo the word of ones.                                 *)
(***************************************************************************)
WideShifts ==
    at = "parameters" =>
        \A r \in Regs :
            LET x == arm_read_register(regs, r)
                c == cpsr.c
            IN  /\ \A n \in 1 .. W - 1 :
                      CarryFirst(ShiftedByImmediate(x, LSL, n, c)) = ShiftedOut(x, n)
                /\ \A n \in 1 .. 2 ^ ByteBits - 1 :
                      \A o \in ShiftedByRegister(x, LSL, n, c) :
                          CarryFirst(o) = ShiftedOut(x, n)
                /\ CarryLast(ShiftedByImmediate(x, LSR, 0, c)) = (2 * x) \div Size
                /\ CarryLast(ShiftedByImmediate(x, ASR, 0, c))
                      = ((2 * Signed(x)) \div Size) % (2 * Size)
                /\ CarryLast(ShiftedByImmediate(x, ROR, 0, c)) = c * Size + x
                /\ \A i \in 0 .. 2 ^ ByteBits - 1, n \in 0 .. (W \div 2) - 1 :
                      LET o == Rotated(i, n, c)
                      IN  /\ (o.value * 2 ^ (2 * n)) % Ones = i % Ones
                          /\ o.carry = IF n = 0 THEN c ELSE Top(o.value)

(***************************************************************************)
(* Every operation that writes its destination writes what the list of     *)
(* operations says (arm_data_processing.h:26-41), modulo the word, and no  *)
(* other register, also when the destination is an operand or r15.  Of sbc *)
(* and rsc, which do not do what the list says (SubtractWithCarry), it     *)
(* states what they compute: ~C, a negative number, is taken off, so that  *)
(* 1 + C is added.                                                         *)
(***************************************************************************)
Results ==
    at = "operate" =>
        \A op \in Ops \ Compares, s \in {0, 1}, rd, rn \in Regs :
            LET x == arm_read_register(regs, rn)
                y == operand.value
                w == Written(op, s, rd, rn).regs
                z == w[rd]
                Bitwise(F(_, _)) ==
                    \A i \in 0 .. W - 1 : Bit(z, i) = F(Bit(x, i), Bit(y, i))
            IN  /\ \A r \in Regs \ {rd} : w[r] = regs[r]
                /\ CASE op = "and" -> Bitwise(LAMBDA a, b : a * b)
                     [] op = "eor" -> Bitwise(LAMBDA a, b : (a + b) % 2)
                     [] op = "orr" -> Bitwise(LAMBDA a, b : a + b - a * b)
                     [] op = "bic" -> Bitwise(LAMBDA a, b : a * (1 - b))
                     [] op = "mov" -> z = y
                     [] op = "mvn" -> Bitwise(LAMBDA a, b : 1 - b)
                     [] op = "sub" -> Wrap(z + y) = x
                     [] op = "rsb" -> Wrap(z + x) = y
                     [] op = "add" -> z = Wrap(x + y)
                     [] op = "adc" -> z = Wrap(x + y + cpsr.c)
                     [] op = "sbc" -> Wrap(z + y) = Wrap(x + 1 + cpsr.c)
                     [] op = "rsc" -> Wrap(z + x) = Wrap(y + 1 + cpsr.c)

(***************************************************************************)
(* The flags follow the result: with S set, N and Z are those of the       *)
(* register that has just been written (write_flags reads it again), a     *)
(* logical operation moves the shifter's carry into C and keeps V; without *)
(* S, or with r15 as destination, no flag changes.                         *)
(***************************************************************************)
FlagsFollowResult ==
    at = "operate" =>
        \A op \in Ops \ Compares, s \in {0, 1}, rd, rn \in Regs :
            LET o == Written(op, s, rd, rn)
            IN  IF s = 0 \/ rd = PC
                THEN o.cpsr = cpsr
                ELSE /\ (o.cpsr.n = 1) <=> Signed(o.regs[rd]) < 0
                     /\ (o.cpsr.z = 1) <=> o.regs[rd] = 0
                     /\ op \in Logical => /\ o.cpsr.c = operand.carry
                                          /\ o.cpsr.v = cpsr.v

\* The two numbers whose sum or difference gives C and V to an operation on x
\* and y; sbc and rsc add to y what they have added to the result.
Terms(op, x, y, c) ==
    CASE op \in {"add", "cmn", "sub", "cmp"} -> <<x, y>>
      [] op = "rsb"                         -> <<y, x>>
      [] op = "adc"                         -> <<Wrap(x + y), c>>
      [] op = "sbc"                         -> <<x, Wrap(y + 1 + c)>>
      [] op = "rsc"                         -> <<Wrap(y + 1 + c), x>>

SameSign(a, b) == Signed(a) < 0 <=> Signed(b) < 0

Overflows(a, b) == Signed(a) - Signed(b) \notin -(Size \div 2) .. (Size \div 2) - 1

\* C and V in f, for the terms a and b and the result z: no operation sets C; a
\* difference clears it when it borrows and else leaves it; a sum clears it.
ArithmeticFlags(op, a, b, z, f) ==
    /\ op \in {"add", "adc", "cmn"} => f.c = 0
    /\ op \in {"sub", "rsb", "cmp", "sbc", "rsc"} => f.c = IF a < b THEN 0 ELSE cpsr.c
    /\ op \in {"rsb", "cmp"} => (f.v = 1 <=> Overflows(a, b))
    /\ op \in {"add", "adc", "cmn", "sub"} =>
          (f.v = 1 <=> SameSign(a, b) /\ SameSign(a, z))
    /\ op \in {"sbc", "rsc"} => (f.v = 1 <=> ~SameSign(a, b) /\ ~SameSign(a, z))

(***************************************************************************)
(* C and V after an arithmetic operation with S set, exactly as the code   *)
(* leaves them (arm_data_processing.c:63-89, 113-215).  Only the overflow  *)
(* of rsb and cmp is the one of the subtraction.  The complement of "no    *)
(* borrow" is 0xFF, which write_flags takes for UNAFFECTED, so that C is   *)
(* kept instead of set; carryFrom is never true; sub asks for the overflow *)
(* of a sum, and that test is inverted (the comments below tell of each).  *)
(* adc, sbc and rsc read their first operand again, from the register that *)
(* they may just have written.                                             *)
(***************************************************************************)
ArithmeticFlagsTell ==
    at = "operate" =>
        /\ \A op \in Ops \ (Logical \cup Compares), rd \in Regs \ {PC}, rn \in Regs :
              LET o  == Written(op, 1, rd, rn)
                  rs == IF op \in {"adc", "sbc", "rsc"} THEN o.regs ELSE regs
                  t  == Terms(op, arm_read_register(rs, rn), operand.value, cpsr.c)
              IN  ArithmeticFlags(op, t[1], t[2], o.regs[rd], o.cpsr)
        /\ \A op \in Compares \ Logical, rn \in Regs :
              LET x == arm_read_register(regs, rn)
                  y == operand.value
              IN  Compared(op, rn) \in Regs =>
                      ArithmeticFlags(op, x, y, Value(op, x, y, cpsr.c),
                                      ComparedFlags(op, rn))

(***************************************************************************)
(* The flags of an operation that writes its destination, and C and V of   *)
(* cmp and cmn, are what the two statements above say.                     *)
(***************************************************************************)
FlagsTell == FlagsFollowResult /\ ArithmeticFlagsTell

-----------------------------------------------------------------------------
(***************************************************************************)
(* What comments of the source state of a step that executes an            *)
(* instruction.                                                            *)
(***************************************************************************)

\* Minus: N set (arm_instruction.c:47).
MinusAsCommented == condition_OK("MI", cpsr) <=> cpsr.n = 1

\* Unsigned lower or same: C clear or Z set (arm_instruction.c:61).
LowerOrSameAsCommented == condition_OK("LS", cpsr) <=> cpsr.c = 0 \/ cpsr.z = 1

\* Signed less than or equal: Z set, or N differs from V (arm_instruction.c:73).
LessOrEqualAsCommented == condition_OK("LE", cpsr) <=> cpsr.z = 1 \/ cpsr.n # cpsr.v

\* An instruction whose condition fails has no effect but the next fetch
\* ("Condition of execution of the instruction", arm_instruction.c:101).
FailedConditionSkips == ~condition_OK(cond, cpsr) => regs' = regs /\ cpsr' = cpsr

\* Rd := Rn - shifter_operand - NOT(Carry Flag) for sbc, and the reverse for
\* rsc (arm_data_processing.c:296-299).
SubtractWithCarry ==
    \A rd, rn \in Regs :
        LET x == arm_read_register(regs, rn)
            y == operand.value
        IN  \/ Written("sbc", 0, rd, rn).regs[rd] = Wrap(x - y - (1 - cpsr.c))
            \/ Written("rsc", 0, rd, rn).regs[rd] = Wrap(y - x - (1 - cpsr.c))

\* A compare updates the flags after its result (arm_data_processing.c:302-312).
ComparesTestTheResult ==
    \A op \in Compares, rn \in Regs :
        LET z == Value(op, arm_read_register(regs, rn), operand.value, cpsr.c)
        IN  /\ Compared(op, rn) \in Regs
            /\ (ComparedFlags(op, rn).z = 1) <=> z = 0
            /\ (ComparedFlags(op, rn).n = 1) <=> Signed(z) < 0

\* carryFrom tells that the sum is too large for a word
\* (arm_data_processing.c:58-61).
CarryAsCommented ==
    \A rd, rn \in Regs \ {PC} :
        (Written("add", 1, rd, rn).cpsr.c = 1) <=> regs[rn] + operand.value > Ones

\* overflowFrom tells that a sum of two numbers of the same sign has the
\* opposite sign (arm_data_processing.c:77-79).
OverflowAsCommented ==
    \A rd, rn \in Regs \ {PC} :
        (Written("add", 1, rd, rn).cpsr.v = 1) <=>
            /\ Top(regs[rn]) = Top(operand.value)
            /\ Top(Wrap(regs[rn] + operand.value)) # Top(regs[rn])

\* flag_C of rsc is "NOT BorrowFrom(shifter_operand - Rn - NOT(C Flag))"
\* (arm_data_processing.c:173).
ReverseBorrowAsCommented ==
    \A rd, rn \in Regs \ {PC} :
        (Written("rsc", 1, rd, rn).cpsr.c = 1) <=>
            operand.value >= regs[rn] + (1 - cpsr.c)

\* For a subtraction, carryFrom sends to borrowFrom, which is 1 if the deduced
\* operand is the larger (arm_data_processing.c:58-61, 69-72), and C is NOT that.
BorrowAsCommented ==
    \A rd, rn \in Regs \ {PC} :
        (Written("sub", 1, rd, rn).cpsr.c = 1) <=> regs[rn] >= operand.value

\* overflowFrom tells that a sum of two numbers of the same sign has the
\* opposite sign (arm_data_processing.c:77-79): for sub, of Rn and of the
\* opposite of the shifter operand.
OverflowOfSubAsCommented ==
    \A rd, rn \in Regs \ {PC} :
        LET x == Signed(regs[rn])
            y == -Signed(operand.value)
        IN  (Written("sub", 1, rd, rn).cpsr.v = 1) <=>
                /\ x < 0 <=> y < 0
                /\ Signed(Wrap(x + y)) < 0 <=> ~(x < 0)

\* LSL by a register that holds the size of a word: the carry is Rm[31]
\* (arm_data_processing.c:450).
LeftShiftByWordAsCommented ==
    \A r \in Regs :
        \A o \in ShiftedByRegister(arm_read_register(regs, r), LSL, W, cpsr.c) :
            o.carry = Top(arm_read_register(regs, r))

\* LSR by a register shifts by that amount (arm_data_processing.c:462-464).
LogicalShiftByTheAmount ==
    \A r \in Regs, n \in 1 .. W - 1 :
        \A o \in ShiftedByRegister(arm_read_register(regs, r), LSR, n, cpsr.c) :
            o.value = arm_read_register(regs, r) \div 2 ^ n

\* And so does ASR (arm_data_processing.c:480-482).
ArithmeticShiftByTheAmount ==
    \A r \in Regs, n \in 1 .. W - 1 :
        \A o \in ShiftedByRegister(arm_read_register(regs, r), ASR, n, cpsr.c) :
            o.value = Wrap(Signed(arm_read_register(regs, r)) \div 2 ^ n)

\* Of these comments of arm_instruction.c and arm_data_processing.c, at least one
\* tells what a step that executes an instruction does: one step that violates
\* this refutes all of them.
SomeCommentHolds ==
    [][at = "operate" =>
          \/ MinusAsCommented
          \/ LowerOrSameAsCommented
          \/ LessOrEqualAsCommented
          \/ FailedConditionSkips
          \/ SubtractWithCarry
          \/ ComparesTestTheResult
          \/ CarryAsCommented
          \/ OverflowAsCommented
          \/ ReverseBorrowAsCommented
          \/ BorrowAsCommented
          \/ OverflowOfSubAsCommented
          \/ LeftShiftByWordAsCommented
          \/ LogicalShiftByTheAmount
          \/ ArithmeticShiftByTheAmount]_vars
==============================================================================
