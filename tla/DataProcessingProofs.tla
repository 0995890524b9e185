------------------------- MODULE DataProcessingProofs -------------------------
(***************************************************************************)
(* Theorems about the data-processing instructions, for words of 4 to 32   *)
(* bits and whatever the registers and the flags hold.                     *)
(***************************************************************************)
EXTENDS DataProcessing, ArmAluProofs

-----------------------------------------------------------------------------
(***************************************************************************)
(* Types.                                                                  *)
(***************************************************************************)
LEMMA ReadType ==
    ASSUME NEW rs \in [Regs -> Word], NEW r \in Regs
    PROVE  arm_read_register(rs, r) \in Word
<1>1. rs[PC] \in Word /\ rs[PC] + 4 \in Int
  BY RegsType, WordType
<1>2. Wrap(rs[PC] + 4) \in Word
  BY <1>1, WrapType
<1>3. Not(2) \in Word
  BY TwoIsWord, NotBits
<1>4. And(Wrap(rs[PC] + 4), Not(2)) \in Word
  BY <1>2, <1>3, AndBits
<1> QED BY <1>4 DEF arm_read_register

LEMMA CpsrWordType ==
    ASSUME cpsr \in Status
    PROVE  CpsrWord \in Word
<1> DEFINE p == 2 ^ (W - 4)
           f == 8 * cpsr.n + 4 * cpsr.z + 2 * cpsr.c + cpsr.v
<1>1. W - 4 \in Nat /\ (W - 4) + 4 = W /\ W - 4 \in 0 .. 32 /\ (W - 4) + 4 <= 32
  BY SizeType
<1>2. p \in Nat
  BY <1>1, PowerType
<1>3. 2 ^ ((W - 4) + 4) = p * 2 ^ 4
  BY <1>1, PowerSum
<1>4. Size = p * 16
  BY <1>1, <1>3, PowersOfTwo DEF Size
<1>5. f \in 0 .. 15
  BY DEF Status
<1> HIDE DEF p, f
<1>6. p * f \in 0 .. (p * 16) - 1 \/ p = 0
  BY <1>2, <1>5
<1> QED BY <1>2, <1>4, <1>5, <1>6, SizeType DEF CpsrWord, p, f, Word

LEMMA WriteFlagsType ==
    ASSUME cpsr \in Status, NEW rs \in [Regs -> Word], NEW r \in Regs,
           NEW fc, NEW fv
    PROVE  write_flags(rs, r, fc, fv) \in Status
<1>1. arm_read_register(rs, r) \in Word
  BY ReadType
<1>2. Top(arm_read_register(rs, r)) \in {0, 1}
  BY <1>1, WordType, TopType
<1>3. \A b \in BOOLEAN : ToBit(b) \in {0, 1}
  BY DEF ToBit
<1>4. /\ ToBit(arm_read_register(rs, r) = 0) \in {0, 1}
      /\ ToBit(fc = 1) \in {0, 1} /\ ToBit(fv = 1) \in {0, 1}
  BY DEF ToBit
<1> QED BY <1>2, <1>4 DEF write_flags, Status

LEMMA InitType == Init => TypeOK
<1>1. 0 \in Word
  BY NoBits
<1> QED BY <1>1, DataAssumption DEF Init, TypeOK, Status, NoOperand

LEMMA OperandType ==
    ASSUME TypeOK, NEW class \in {"shift", "none", "immediate"}, NEW out,
           IsOperand(out), Operand(class, out)
    PROVE  TypeOK'
  BY DEF Operand, TypeOK, IsOperand

LEMMA SetParametersType ==
    ASSUME TypeOK, SetParameters
    PROVE  TypeOK'
<1>1. regs \in [Regs -> Word] /\ cpsr.c \in {0, 1}
  BY DEF TypeOK, Status
<1>2. ASSUME NEW rm \in Regs, NEW shift \in Shifts, NEW amount \in 0 .. W - 1,
             ShiftByImmediate(rm, shift, amount)
      PROVE  TypeOK'
  <2>1. arm_read_register(regs, rm) \in Word
    BY <1>1, ReadType
  <2>2. IsOperand(ShiftedByImmediate(arm_read_register(regs, rm), shift, amount, cpsr.c))
    BY <1>1, <2>1, ByImmediateType
  <2> QED BY <1>2, <2>2, OperandType DEF ShiftByImmediate
<1>3. ASSUME NEW rm \in Regs, NEW rs \in Regs, NEW shift \in Shifts,
             ShiftByRegister(rm, shift, rs)
      PROVE  TypeOK'
  <2> DEFINE x == arm_read_register(regs, rm)
             n == Byte(arm_read_register(regs, rs))
  <2>1. x \in Word /\ arm_read_register(regs, rs) \in Int
    BY <1>1, ReadType, WordType
  <2>2. n \in Nat
    <3>1. n \in 0 .. 2 ^ ByteBits - 1
      BY <2>1, ByteType
    <3> QED BY <3>1
  <2>3. PICK out \in ShiftedByRegister(x, shift, n, cpsr.c) : Operand("shift", out)
    BY <1>3 DEF ShiftByRegister
  <2>4. IsOperand(out)
    <3> HIDE DEF x, n
    <3> QED BY <1>1, <2>1, <2>2, <2>3, ByRegisterType
  <2> QED BY <2>3, <2>4, OperandType
<1>4. CASE NoShift
  <2>1. IsOperand(Out(0, 0))
    BY NoBits DEF IsOperand, Out
  <2> QED BY <1>4, <2>1, OperandType DEF NoShift
<1>5. ASSUME NEW i \in 0 .. 2 ^ ByteBits - 1, NEW n \in 0 .. (W \div 2) - 1, Rotate(i, n)
      PROVE  TypeOK'
  BY <1>1, <1>5, RotatedType, OperandType DEF Rotate
<1> QED BY <1>2, <1>3, <1>4, <1>5 DEF SetParameters

\* What an operation writes is a word, and the flags are flags.
LEMMA WrittenType ==
    ASSUME TypeOK, NEW op \in Ops, NEW s \in {0, 1}, NEW rd \in Regs, NEW rn \in Regs
    PROVE  Written(op, s, rd, rn).regs \in [Regs -> Word]
           /\ Written(op, s, rd, rn).cpsr \in Status
<1> DEFINE z == Value(op, arm_read_register(regs, rn), operand.value, cpsr.c)
           rs == [regs EXCEPT ![rd] = z]
<1>1. regs \in [Regs -> Word] /\ cpsr \in Status /\ cpsr.c \in {0, 1} /\ operand.value \in Word
  BY DEF TypeOK, Status
<1>2. z \in Word
  BY <1>1, ReadType, ValueType
<1>3. rs \in [Regs -> Word]
  <2> HIDE DEF z
  <2> QED BY <1>1, <1>2
<1>4. \A fc, fv : update_flags(s, rs, rd, fc, fv) \in Status
  <2> HIDE DEF rs
  <2> QED BY <1>1, <1>3, WriteFlagsType DEF update_flags
<1> QED BY <1>3, <1>4 DEF Written

LEMMA FinishType ==
    ASSUME TypeOK, NEW rs \in [Regs -> Word], NEW f \in Status,
           NEW res \in {"none", "undefined"}, Finish(rs, f, res)
    PROVE  TypeOK'
  BY DEF Finish, TypeOK

LEMMA SelectOperationType ==
    ASSUME TypeOK, SelectOperation
    PROVE  TypeOK'
<1>1. regs \in [Regs -> Word] /\ cpsr \in Status /\ result \in {"none", "undefined"}
  BY DEF TypeOK
<1>2. PICK op \in Ops, s \in {0, 1}, rn \in Regs :
         \/ \E rd \in Regs : Operate(op, s, rd, rn)
         \/ Compare(op, s, rn)
         \/ CompareExits(op, s, rn)
         \/ \E rd \in Regs : Miscellaneous(op, s, rd)
         \/ NoDecoder(op, s)
  BY DEF SelectOperation
<1>3. ASSUME Exit PROVE TypeOK'
  BY <1>3 DEF Exit, TypeOK
<1>4. ASSUME NEW rd \in Regs, Operate(op, s, rd, rn) PROVE TypeOK'
  BY <1>4, WrittenType, FinishType DEF Operate
<1>5. CASE Compare(op, s, rn)
  <2>1. ComparedFlags(op, rn) \in Status
    BY <1>1, <1>5, WriteFlagsType DEF Compare, ComparedFlags
  <2> QED BY <1>1, <1>5, <2>1, FinishType DEF Compare
<1>6. CASE CompareExits(op, s, rn)
  BY <1>3, <1>6 DEF CompareExits
<1>7. ASSUME NEW rd \in Regs, Miscellaneous(op, s, rd) PROVE TypeOK'
  <2>1. [regs EXCEPT ![rd] = CpsrWord] \in [Regs -> Word]
    BY <1>1, CpsrWordType
  <2> QED BY <1>1, <1>3, <1>7, <2>1, FinishType DEF Miscellaneous
<1>8. CASE NoDecoder(op, s)
  BY <1>1, <1>8, FinishType DEF NoDecoder
<1> QED BY <1>2, <1>4, <1>5, <1>6, <1>7, <1>8

LEMMA NextType == TypeOK /\ [Next]_vars => TypeOK'
<1> SUFFICES ASSUME TypeOK, [Next]_vars PROVE TypeOK'
  OBVIOUS
<1>1. ASSUME NEW cd \in Conds, Fetch(cd) PROVE TypeOK'
  <2>1. arm_read_register(regs, PC) \in Word
    BY ReadType, RegsType DEF TypeOK
  <2> QED BY <1>1, <2>1 DEF Fetch, TypeOK
<1>2. CASE UNCHANGED vars
  BY <1>2 DEF vars, TypeOK
<1> QED BY <1>1, <1>2, SetParametersType, SelectOperationType DEF Next, Terminating

\* Registers, shifter operands and results stay words and the flags flags
\* (arm_data_processing.c:142-215), for every length of the words.
THEOREM TypeCorrect == Spec => []TypeOK
<1> QED BY InitType, NextType, PTL DEF Spec

-----------------------------------------------------------------------------
(***************************************************************************)
(* Results.                                                                *)
(***************************************************************************)
\* What z is for an operation that writes its destination.
IsValue(op, x, y, c, z) ==
    /\ op = "and" => \A i \in 0 .. W - 1 : Bit(z, i) = Bit(x, i) * Bit(y, i)
    /\ op = "eor" => \A i \in 0 .. W - 1 : Bit(z, i) = (Bit(x, i) + Bit(y, i)) % 2
    /\ op = "orr" => \A i \in 0 .. W - 1 :
                        Bit(z, i) = Bit(x, i) + Bit(y, i) - Bit(x, i) * Bit(y, i)
    /\ op = "bic" => \A i \in 0 .. W - 1 : Bit(z, i) = Bit(x, i) * (1 - Bit(y, i))
    /\ op = "mov" => z = y
    /\ op = "mvn" => \A i \in 0 .. W - 1 : Bit(z, i) = 1 - Bit(y, i)
    /\ op = "sub" => Wrap(z + y) = x
    /\ op = "rsb" => Wrap(z + x) = y
    /\ op = "add" => z = Wrap(x + y)
    /\ op = "adc" => z = Wrap(x + y + c)
    /\ op = "sbc" => Wrap(z + y) = Wrap(x + 1 + c)
    /\ op = "rsc" => Wrap(z + x) = Wrap(y + 1 + c)

\* ~C taken off a difference: the second number and the result make the first,
\* and 1 + C.
LEMMA WrapWithComplement ==
    ASSUME NEW x \in Word, NEW y \in Word, NEW c \in {0, 1}
    PROVE  Wrap(Wrap(x - y - NotC(c)) + y) = Wrap(x + 1 + c)
<1> DEFINE d == x - y - NotC(c)
<1>1. d \in Int /\ y \in Int /\ d + y = x + 1 + c
  <2>1. x \in Int /\ y \in Int
    BY WordType
  <2> QED BY <2>1 DEF NotC
<1> HIDE DEF d
<1>2. Wrap(Wrap(d) + y) = Wrap(x + 1 + c)
  BY <1>1, WrapSum
<1> QED BY <1>2 DEF d

\* The value of an operation is what the list of operations says.
LEMMA ValueOf ==
    ASSUME NEW x \in Word, NEW y \in Word, NEW c \in {0, 1},
           NEW op \in Ops, NEW z, z = Value(op, x, y, c)
    PROVE  IsValue(op, x, y, c, z)
<1> USE DEF IsValue
<1>1. CASE op = "and"
  <2>1. z = And(x, y)
    BY <1>1 DEF Value
  <2> QED BY <1>1, <2>1, AndBits
<1>2. CASE op = "eor"
  <2>1. z = Eor(x, y)
    BY <1>2 DEF Value
  <2> QED BY <1>2, <2>1, EorBits
<1>3. CASE op = "orr"
  <2>1. z = Or(x, y)
    BY <1>3 DEF Value
  <2> QED BY <1>3, <2>1, OrBits
<1>4. CASE op = "bic"
  <2>1. z = And(x, Not(y))
    BY <1>4 DEF Value
  <2>2. Not(y) \in Word
    BY NotBits
  <2>3. \A i \in 0 .. W - 1 : Bit(z, i) = Bit(x, i) * Bit(Not(y), i)
    BY <2>1, <2>2, AndBits
  <2>4. \A i \in 0 .. W - 1 : Bit(Not(y), i) = 1 - Bit(y, i)
    BY NotBits
  <2>5. \A i \in 0 .. W - 1 : Bit(z, i) = Bit(x, i) * (1 - Bit(y, i))
    BY <2>3, <2>4
  <2> QED BY <1>4, <2>5
<1>5. CASE op = "mov"
  BY <1>5 DEF Value
<1>6. CASE op = "mvn"
  <2>1. z = Not(y)
    BY <1>6 DEF Value
  <2> QED BY <1>6, <2>1, NotBits
<1>7. CASE op = "sub"
  <2>1. z = Wrap(x - y)
    BY <1>7 DEF Value
  <2> QED BY <1>7, <2>1, WrapDifference
<1>8. CASE op = "rsb"
  <2>1. z = Wrap(y - x)
    BY <1>8 DEF Value
  <2> QED BY <1>8, <2>1, WrapDifference
<1>9. CASE op \in {"add", "adc"}
  BY <1>9 DEF Value
<1>10. CASE op = "sbc"
  <2>1. z = Wrap(x - y - NotC(c))
    BY <1>10 DEF Value
  <2> QED BY <1>10, <2>1, WrapWithComplement
<1>11. CASE op = "rsc"
  <2>1. z = Wrap(y - x - NotC(c))
    BY <1>11 DEF Value
  <2> QED BY <1>11, <2>1, WrapWithComplement
<1>12. CASE op \notin {"and", "eor", "orr", "bic", "mov", "mvn", "sub", "rsb", "add",
                      "adc", "sbc", "rsc"}
  BY <1>12
<1> QED BY <1>1, <1>2, <1>3, <1>4, <1>5, <1>6, <1>7, <1>8, <1>9, <1>10, <1>11, <1>12

LEMMA ResultsHold == TypeOK => Results
<1> SUFFICES ASSUME TypeOK,
                    NEW op \in Ops \ Compares,
                    NEW s \in {0, 1}, NEW rd \in Regs, NEW rn \in Regs
             PROVE  LET x == arm_read_register(regs, rn)
                        y == operand.value
                        w == Written(op, s, rd, rn).regs
                        z == w[rd]
                        Bitwise(F(_, _)) ==
                            \A i \in 0 .. W - 1 : Bit(z, i) = F(Bit(x, i), Bit(y, i))
                    IN  /\ \A r \in Regs \ {rd} : w[r] = regs[r]
                        /\ CASE op = "and" -> Bitwise(LAMBDA a, b : a * b)
                             [] op = "eor" -> Bitwise(LAMBDA a, b : (a + b) % 2)
                             [] op = "orr" -> Bitwise(LAMBDA a, b : a + b - a * b)
                             [] op = "bic" -> Bitwise(LAMBDA a, b : a * (1 - b))
                             [] op = "mov" -> z = y
                             [] op = "mvn" -> Bitwise(LAMBDA a, b : 1 - b)
                             [] op = "sub" -> Wrap(z + y) = x
                             [] op = "rsb" -> Wrap(z + x) = y
                             [] op = "add" -> z = Wrap(x + y)
                             [] op = "adc" -> z = Wrap(x + y + cpsr.c)
                             [] op = "sbc" -> Wrap(z + y) = Wrap(x + 1 + cpsr.c)
                             [] op = "rsc" -> Wrap(z + x) = Wrap(y + 1 + cpsr.c)
  BY DEF Results
<1> DEFINE x == arm_read_register(regs, rn)
           y == operand.value
           w == Written(op, s, rd, rn).regs
           z == w[rd]
<1>1. regs \in [Regs -> Word] /\ cpsr.c \in {0, 1} /\ y \in Word
  BY DEF TypeOK, Status
<1>2. x \in Word
  BY <1>1, ReadType
<1>3. w = [regs EXCEPT ![rd] = Value(op, x, y, cpsr.c)]
  BY DEF Written
<1>4. z = Value(op, x, y, cpsr.c)
  BY <1>1, <1>3
<1>5. \A r \in Regs \ {rd} : w[r] = regs[r]
  BY <1>1, <1>3
<1>6. IsValue(op, x, y, cpsr.c, z)
  <2> HIDE DEF x, y, w, z
  <2> QED BY <1>1, <1>2, <1>4, ValueOf
<1>7. op \in {"and", "eor", "orr", "bic", "mov", "mvn", "sub", "rsb", "add", "adc",
              "sbc", "rsc"}
  BY DEF Ops, Logical, Compares
<1> HIDE DEF x, y, w, z
<1>8. CASE op \in {"and", "eor", "orr"}
  BY <1>5, <1>6, <1>8, ZenonT(30) DEF IsValue, x, y, w, z
<1>9. CASE op \in {"bic", "mov", "mvn"}
  BY <1>5, <1>6, <1>9, ZenonT(30) DEF IsValue, x, y, w, z
<1>10. CASE op \in {"sub", "rsb", "add"}
  BY <1>5, <1>6, <1>10, ZenonT(30) DEF IsValue, x, y, w, z
<1>11. CASE op \in {"adc", "sbc", "rsc"}
  BY <1>5, <1>6, <1>11, ZenonT(30) DEF IsValue, x, y, w, z
<1> QED BY <1>7, <1>8, <1>9, <1>10, <1>11

-----------------------------------------------------------------------------
(***************************************************************************)
(* Flags.                                                                  *)
(***************************************************************************)
LEMMA SignOf ==
    ASSUME NEW x \in Word
    PROVE  Top(x) = 1 <=> Signed(x) < 0
<1>1. x \in Int /\ x >= 0 /\ x < Size /\ Size \in Int
  BY WordType, SizeType
<1> QED BY <1>1 DEF Signed

\* What write_flags makes of a register that is not r15.
LEMMA FlagsOfRegister ==
    ASSUME TypeOK, NEW rs \in [Regs -> Word], NEW rd \in Regs, rd # PC,
           NEW fc, NEW fv
    PROVE  LET f == write_flags(rs, rd, fc, fv)
           IN  /\ f.n = 1 <=> Signed(rs[rd]) < 0
               /\ f.z = 1 <=> rs[rd] = 0
               /\ f.c = IF fc = UNAFFECTED THEN cpsr.c ELSE ToBit(fc = 1)
               /\ f.v = IF fv = UNAFFECTED THEN cpsr.v ELSE ToBit(fv = 1)
<1>1. arm_read_register(rs, rd) = rs[rd] /\ rs[rd] \in Word
  BY DEF arm_read_register
<1>2. Top(rs[rd]) = 1 <=> Signed(rs[rd]) < 0
  BY <1>1, SignOf
<1>3. ToBit(rs[rd] = 0) = 1 <=> rs[rd] = 0
  BY DEF ToBit
<1> QED BY <1>1, <1>2, <1>3 DEF write_flags

LEMMA FlagsFollow == TypeOK => FlagsFollowResult
<1> SUFFICES ASSUME TypeOK, NEW op \in Ops \ Compares, NEW s \in {0, 1},
                    NEW rd \in Regs, NEW rn \in Regs
             PROVE  LET o == Written(op, s, rd, rn)
                    IN  IF s = 0 \/ rd = PC
                        THEN o.cpsr = cpsr
                        ELSE /\ (o.cpsr.n = 1) <=> Signed(o.regs[rd]) < 0
                             /\ (o.cpsr.z = 1) <=> o.regs[rd] = 0
                             /\ op \in Logical => /\ o.cpsr.c = operand.carry
                                                  /\ o.cpsr.v = cpsr.v
  BY DEF FlagsFollowResult
<1> DEFINE x  == arm_read_register(regs, rn)
           y  == operand.value
           z  == Value(op, x, y, cpsr.c)
           rs == [regs EXCEPT ![rd] = z]
           x2 == arm_read_register(rs, rn)
           fc == FlagC(op, x, x2, y, cpsr.c, operand.carry)
           fv == FlagV(op, x, x2, y, z, cpsr.c)
           o  == Written(op, s, rd, rn)
<1>1. o.regs = rs /\ o.cpsr = update_flags(s, rs, rd, fc, fv)
  BY DEF Written
<1>2. CASE s = 0 \/ rd = PC
  <2>1. o.cpsr = cpsr
    BY <1>1, <1>2 DEF update_flags
  <2> QED BY <1>2, <2>1
<1>3. CASE ~ (s = 0 \/ rd = PC)
  <2> DEFINE f == write_flags(rs, rd, fc, fv)
  <2>1. o.cpsr = f
    BY <1>1, <1>3 DEF update_flags
  <2>2. rs \in [Regs -> Word]
    <3>1. op \in Ops
      OBVIOUS
    <3>2. Written(op, s, rd, rn).regs \in [Regs -> Word]
      BY <3>1, WrittenType
    <3> HIDE DEF rs
    <3> QED BY <1>1, <3>2
  <2>3. op \in Logical => fc = operand.carry /\ fv = UNAFFECTED
    BY DEF FlagC, FlagV, Logical
  <2> HIDE DEF fc, fv, rs, o
  <2>4. /\ f.n = 1 <=> Signed(rs[rd]) < 0
        /\ f.z = 1 <=> rs[rd] = 0
        /\ f.c = IF fc = UNAFFECTED THEN cpsr.c ELSE ToBit(fc = 1)
        /\ f.v = IF fv = UNAFFECTED THEN cpsr.v ELSE ToBit(fv = 1)
    BY <1>3, <2>2, FlagsOfRegister
  <2>5. operand.carry \in {0, 1}
    BY DEF TypeOK
  <2>6. op \in Logical => f.c = operand.carry /\ f.v = cpsr.v
    BY <2>3, <2>4, <2>5 DEF UNAFFECTED, ToBit
  <2> HIDE DEF f
  <2>7. /\ o.cpsr.n = 1 <=> Signed(o.regs[rd]) < 0
        /\ o.cpsr.z = 1 <=> o.regs[rd] = 0
        /\ op \in Logical => o.cpsr.c = operand.carry /\ o.cpsr.v = cpsr.v
    BY <1>1, <2>1, <2>4, <2>6
  <2> QED BY <1>3, <2>7 DEF o
<1> QED BY <1>2, <1>3

\* Signed overflow of a subtraction.
LEMMA OverflowOf ==
    ASSUME NEW x \in Word, NEW y \in Word, NEW z, z = Wrap(x - y)
    PROVE  overflowFrom(x, y, z, 0) \in {0, 1}
           /\ (overflowFrom(x, y, z, 0) = 1 <=>
                  Signed(x) - Signed(y) \notin -(Size \div 2) .. (Size \div 2) - 1)
<1>1. PICK h \in Nat \ {0} :
         /\ Size = 2 * h /\ Size \div 2 = h
         /\ \A a \in Word : Top(a) = IF a >= h THEN 1 ELSE 0
  BY TopHalf
<1>2. x - y \in Int
  BY WordType
<1>3. z \in Word
  BY <1>2, WrapType
<1>4. /\ Top(x) = IF x >= h THEN 1 ELSE 0
      /\ Top(y) = IF y >= h THEN 1 ELSE 0
      /\ Top(z) = IF z >= h THEN 1 ELSE 0
  BY <1>1, <1>3
<1>5. /\ Signed(x) = IF x >= h THEN x - 2 * h ELSE x
      /\ Signed(y) = IF y >= h THEN y - 2 * h ELSE y
  BY <1>1, <1>4 DEF Signed
<1>6. x \in 0 .. 2 * h - 1 /\ y \in 0 .. 2 * h - 1
  BY <1>1 DEF Word
<1>7. z = IF x >= y THEN x - y ELSE x - y + 2 * h
  BY <1>1, WrapOfDifference
<1> DEFINE differ == Top(x) # Top(y) /\ Top(x) # Top(z)
<1>8. differ <=> Signed(x) - Signed(y) \notin -h .. h - 1
  BY <1>4, <1>5, <1>6, <1>7
<1>9. overflowFrom(x, y, z, 0) = IF differ THEN 1 ELSE 0
  BY DEF overflowFrom, ToBit
<1> HIDE DEF differ
<1> QED BY <1>1, <1>8, <1>9

LEMMA BitsAreWords == {0, 1} \subseteq Word
  BY TwoIsWord, SizeType DEF Word

\* The carry of a difference: cleared by a borrow, the old one without.
LEMMA BorrowFlag ==
    ASSUME NEW a \in Word, NEW b \in Word, NEW c,
           NEW fc, fc = NotByte(borrowFrom(a, b))
    PROVE  (IF fc = UNAFFECTED THEN c ELSE ToBit(fc = 1)) = IF a < b THEN 0 ELSE c
<1>1. CASE a < b
  <2>1. fc = 254
    BY <1>1 DEF NotByte, borrowFrom, ToBit
  <2> QED BY <1>1, <2>1 DEF UNAFFECTED, ToBit
<1>2. CASE ~ (a < b)
  <2>1. fc = 255
    BY <1>2 DEF NotByte, borrowFrom, ToBit
  <2> QED BY <1>2, <2>1 DEF UNAFFECTED
<1> QED BY <1>1, <1>2

\* The carry of a sum: a sum of words, kept in a word, is never above the greatest.
LEMMA CarryFlag ==
    ASSUME NEW a \in Word, NEW b \in Word, NEW c,
           NEW fc, fc = carryFrom(a, b)
    PROVE  (IF fc = UNAFFECTED THEN c ELSE ToBit(fc = 1)) = 0
<1>1. a + b \in Int /\ Size \in Int
  BY WordType, SizeType
<1>2. Wrap(a + b) \in 0 .. Size - 1
  BY <1>1, WrapType DEF Word
<1>3. ~ (Ones < Wrap(a + b))
  BY <1>1, <1>2 DEF Ones
<1>4. fc = 0
  BY <1>3 DEF carryFrom, ToBit
<1> QED BY <1>4 DEF UNAFFECTED, ToBit

\* The two tests of overflowFrom, as tests of signs.
LEMMA OverflowSigns ==
    ASSUME NEW a \in Word, NEW b \in Word, NEW z \in Word
    PROVE  /\ overflowFrom(a, b, z, 1) \in {0, 1} /\ overflowFrom(a, b, z, 0) \in {0, 1}
           /\ overflowFrom(a, b, z, 1) = 1 <=> SameSign(a, b) /\ SameSign(a, z)
           /\ overflowFrom(a, b, z, 0) = 1 <=> ~SameSign(a, b) /\ ~SameSign(a, z)
<1>1. \A x \in Word : Top(x) \in {0, 1} /\ (Top(x) = 1 <=> Signed(x) < 0)
  BY WordType, TopType, SignOf
<1>2. \A x, y \in Word : Top(x) = Top(y) <=> SameSign(x, y)
  BY <1>1 DEF SameSign
<1> QED BY <1>2 DEF overflowFrom, ToBit

LEMMA OverflowFlag ==
    ASSUME NEW fv \in {0, 1}, NEW v
    PROVE  (IF fv = UNAFFECTED THEN v ELSE ToBit(fv = 1)) = fv
  BY DEF UNAFFECTED, ToBit

\* C and V as write_flags leaves them, for the terms of the operation.
LEMMA FlagsOfTerms ==
    ASSUME TypeOK, NEW op \in Ops \ Logical, NEW x \in Word, NEW x2 \in Word,
           NEW y \in Word, NEW carry, NEW z, z = Value(op, x, y, cpsr.c),
           NEW f,
           f.c = LET fc == FlagC(op, x, x2, y, cpsr.c, carry)
                 IN  IF fc = UNAFFECTED THEN cpsr.c ELSE ToBit(fc = 1),
           f.v = LET fv == FlagV(op, x, x2, y, z, cpsr.c)
                 IN  IF fv = UNAFFECTED THEN cpsr.v ELSE ToBit(fv = 1),
           NEW t, t = Terms(op, IF op \in {"adc", "sbc", "rsc"} THEN x2 ELSE x, y, cpsr.c)
    PROVE  ArithmeticFlags(op, t[1], t[2], z, f)
<1>1. cpsr.c \in {0, 1} /\ cpsr.c \in Word
  BY BitsAreWords DEF TypeOK, Status
<1>2. z \in Word
  BY <1>1, ValueType
<1>3. CASE op \in {"add", "cmn"}
  <2>1. t[1] = x /\ t[2] = y
    BY <1>3 DEF Terms
  <2>2. FlagC(op, x, x2, y, cpsr.c, carry) = carryFrom(x, y)
    BY <1>3 DEF FlagC, Logical
  <2>3. FlagV(op, x, x2, y, z, cpsr.c) = overflowFrom(x, y, z, 1)
    BY <1>3 DEF FlagV, Logical
  <2>4. f.c = 0
    BY <2>2, CarryFlag
  <2>5. f.v = 1 <=> SameSign(x, y) /\ SameSign(x, z)
    BY <1>2, <2>3, OverflowSigns, OverflowFlag
  <2> QED BY <1>3, <2>1, <2>4, <2>5 DEF ArithmeticFlags
<1>4. CASE op = "adc"
  <2> DEFINE a == Wrap(x2 + y)
  <2>1. t[1] = a /\ t[2] = cpsr.c
    BY <1>4 DEF Terms
  <2>2. a \in Word
    BY WordType, WrapType
  <2>3. FlagC(op, x, x2, y, cpsr.c, carry) = carryFrom(a, cpsr.c)
    BY <1>4 DEF FlagC, Logical
  <2>4. FlagV(op, x, x2, y, z, cpsr.c) = overflowFrom(a, cpsr.c, z, 1)
    BY <1>4 DEF FlagV, Logical
  <2> HIDE DEF a
  <2>5. f.c = 0
    BY <1>1, <2>2, <2>3, CarryFlag
  <2>6. f.v = 1 <=> SameSign(a, cpsr.c) /\ SameSign(a, z)
    BY <1>1, <1>2, <2>2, <2>4, OverflowSigns, OverflowFlag
  <2> QED BY <1>4, <2>1, <2>5, <2>6 DEF ArithmeticFlags
<1>5. CASE op = "sub"
  <2>1. t[1] = x /\ t[2] = y
    BY <1>5 DEF Terms
  <2>2. FlagC(op, x, x2, y, cpsr.c, carry) = NotByte(borrowFrom(x, y))
    BY <1>5 DEF FlagC, Logical
  <2>3. FlagV(op, x, x2, y, z, cpsr.c) = overflowFrom(x, y, z, 1)
    BY <1>5 DEF FlagV, Logical
  <2>4. f.c = IF x < y THEN 0 ELSE cpsr.c
    BY <2>2, BorrowFlag
  <2>5. f.v = 1 <=> SameSign(x, y) /\ SameSign(x, z)
    BY <1>2, <2>3, OverflowSigns, OverflowFlag
  <2> QED BY <1>5, <2>1, <2>4, <2>5 DEF ArithmeticFlags
\* rsb and cmp: a difference of words, and its overflow.
<1>6. ASSUME NEW a \in Word, NEW b \in Word, op \in {"rsb", "cmp"},
             t[1] = a, t[2] = b, z = Wrap(a - b),
             FlagC(op, x, x2, y, cpsr.c, carry) = NotByte(borrowFrom(a, b)),
             FlagV(op, x, x2, y, z, cpsr.c) = overflowFrom(a, b, z, 0)
      PROVE  ArithmeticFlags(op, t[1], t[2], z, f)
  <2>1. f.c = IF a < b THEN 0 ELSE cpsr.c
    BY <1>6, BorrowFlag
  <2> DEFINE fv == FlagV(op, x, x2, y, z, cpsr.c)
  <2>2. fv \in {0, 1} /\ (fv = 1 <=> Overflows(a, b))
    BY <1>6, OverflowOf DEF Overflows
  <2>3. f.v = fv
    <3> HIDE DEF fv
    <3> QED BY <2>2, OverflowFlag DEF fv
  <2>4. f.v = 1 <=> Overflows(a, b)
    BY <2>2, <2>3
  <2> HIDE DEF fv
  <2> QED BY <1>6, <2>1, <2>4 DEF ArithmeticFlags
<1>7. CASE op = "rsb"
  <2>1. /\ t[1] = y /\ t[2] = x /\ z = Wrap(y - x)
        /\ FlagC(op, x, x2, y, cpsr.c, carry) = NotByte(borrowFrom(y, x))
        /\ FlagV(op, x, x2, y, z, cpsr.c) = overflowFrom(y, x, z, 0)
    BY <1>7 DEF Terms, Value, FlagC, FlagV, Logical
  <2> QED BY <1>6, <1>7, <2>1
<1>8. CASE op = "cmp"
  <2>1. /\ t[1] = x /\ t[2] = y /\ z = Wrap(x - y)
        /\ FlagC(op, x, x2, y, cpsr.c, carry) = NotByte(borrowFrom(x, y))
        /\ FlagV(op, x, x2, y, z, cpsr.c) = overflowFrom(x, y, z, 0)
    BY <1>8 DEF Terms, Value, FlagC, FlagV, Logical
  <2> QED BY <1>6, <1>8, <2>1
\* sbc and rsc: y with 1 + C, and the first operand as it is read again.
<1>9. ASSUME NEW a \in Word, NEW b \in Word, op \in {"sbc", "rsc"},
             t[1] = a, t[2] = b,
             FlagC(op, x, x2, y, cpsr.c, carry) = NotByte(borrowFrom(a, b)),
             FlagV(op, x, x2, y, z, cpsr.c) = overflowFrom(a, b, z, 0)
      PROVE  ArithmeticFlags(op, t[1], t[2], z, f)
  <2>1. f.c = IF a < b THEN 0 ELSE cpsr.c
    BY <1>9, BorrowFlag
  <2>2. f.v = 1 <=> ~SameSign(a, b) /\ ~SameSign(a, z)
    BY <1>2, <1>9, OverflowSigns, OverflowFlag
  <2> QED BY <1>9, <2>1, <2>2 DEF ArithmeticFlags
<1>10. /\ Wrap(y - NotC(cpsr.c)) = Wrap(y + 1 + cpsr.c)
       /\ Wrap(y + 1 + cpsr.c) \in Word
  <2>1. y \in Int /\ y - NotC(cpsr.c) = y + 1 + cpsr.c /\ y + 1 + cpsr.c \in Int
    BY <1>1, WordType DEF NotC
  <2> QED BY <2>1, WrapType
<1>11. CASE op = "sbc"
  <2>1. /\ t[1] = x2 /\ t[2] = Wrap(y + 1 + cpsr.c)
        /\ FlagC(op, x, x2, y, cpsr.c, carry)
              = NotByte(borrowFrom(x2, Wrap(y - NotC(cpsr.c))))
        /\ FlagV(op, x, x2, y, z, cpsr.c)
              = overflowFrom(x2, Wrap(y - NotC(cpsr.c)), z, 0)
    BY <1>11 DEF Terms, FlagC, FlagV, Logical
  <2> QED BY <1>9, <1>10, <1>11, <2>1
<1>12. CASE op = "rsc"
  <2>1. /\ t[1] = Wrap(y + 1 + cpsr.c) /\ t[2] = x2
        /\ FlagC(op, x, x2, y, cpsr.c, carry)
              = NotByte(borrowFrom(Wrap(y - NotC(cpsr.c)), x2))
        /\ FlagV(op, x, x2, y, z, cpsr.c)
              = overflowFrom(Wrap(y - NotC(cpsr.c)), x2, z, 0)
    BY <1>12 DEF Terms, FlagC, FlagV, Logical
  <2> QED BY <1>9, <1>10, <1>12, <2>1
<1> QED BY <1>3, <1>4, <1>5, <1>7, <1>8, <1>11, <1>12 DEF Ops, Logical, Compares

LEMMA WrittenFlags ==
    ASSUME TypeOK, NEW op \in Ops \ (Logical \cup Compares),
           NEW rd \in Regs \ {PC}, NEW rn \in Regs
    PROVE  LET o  == Written(op, 1, rd, rn)
               rs == IF op \in {"adc", "sbc", "rsc"} THEN o.regs ELSE regs
               t  == Terms(op, arm_read_register(rs, rn), operand.value, cpsr.c)
           IN  ArithmeticFlags(op, t[1], t[2], o.regs[rd], o.cpsr)
<1> DEFINE x  == arm_read_register(regs, rn)
           y  == operand.value
           z  == Value(op, x, y, cpsr.c)
           w  == [regs EXCEPT ![rd] = z]
           x2 == arm_read_register(w, rn)
           fc == FlagC(op, x, x2, y, cpsr.c, operand.carry)
           fv == FlagV(op, x, x2, y, z, cpsr.c)
           o  == Written(op, 1, rd, rn)
           a  == IF op \in {"adc", "sbc", "rsc"} THEN x2 ELSE x
           t  == Terms(op, a, y, cpsr.c)
<1>1. o.regs = w /\ o.cpsr = write_flags(w, rd, fc, fv)
  BY DEF Written, update_flags
<1>2. regs \in [Regs -> Word] /\ y \in Word /\ x \in Word /\ cpsr.c \in {0, 1}
  BY ReadType DEF TypeOK, Status
<1>3. z \in Word
  <2> HIDE DEF x, y
  <2> QED BY <1>2, ValueType
<1>4. w \in [Regs -> Word] /\ w[rd] = z
  <2> HIDE DEF z
  <2> QED BY <1>2, <1>3
<1>5. x2 \in Word
  <2> HIDE DEF w
  <2> QED BY <1>4, ReadType
<1>6. /\ o.cpsr.c = IF fc = UNAFFECTED THEN cpsr.c ELSE ToBit(fc = 1)
      /\ o.cpsr.v = IF fv = UNAFFECTED THEN cpsr.v ELSE ToBit(fv = 1)
  <2> HIDE DEF fc, fv, w, o
  <2> QED BY <1>1 DEF write_flags
<1>7. ArithmeticFlags(op, t[1], t[2], z, o.cpsr)
  <2> HIDE DEF x, y, x2, z, o
  <2> QED BY <1>2, <1>5, <1>6, FlagsOfTerms DEF z
<1>8. a = arm_read_register(IF op \in {"adc", "sbc", "rsc"} THEN o.regs ELSE regs, rn)
  <2> HIDE DEF w, o
  <2> QED BY <1>1
<1>9. o.regs[rd] = z
  <2> HIDE DEF w, z, o
  <2> QED BY <1>1, <1>4
<1> QED
  <2> HIDE DEF a, z
  <2> QED BY <1>7, <1>8, <1>9

LEMMA ComparedFlagsTell ==
    ASSUME TypeOK, NEW op \in Compares \ Logical, NEW rn \in Regs
    PROVE  LET x == arm_read_register(regs, rn)
               y == operand.value
           IN  ArithmeticFlags(op, x, y, Value(op, x, y, cpsr.c), ComparedFlags(op, rn))
<1> DEFINE x  == arm_read_register(regs, rn)
           y  == operand.value
           z  == Value(op, x, y, cpsr.c)
           fc == FlagC(op, x, x, y, cpsr.c, operand.carry)
           fv == FlagV(op, x, x, y, z, cpsr.c)
           f  == ComparedFlags(op, rn)
           t  == Terms(op, x, y, cpsr.c)
<1>1. /\ f.c = IF fc = UNAFFECTED THEN cpsr.c ELSE ToBit(fc = 1)
      /\ f.v = IF fv = UNAFFECTED THEN cpsr.v ELSE ToBit(fv = 1)
  BY DEF ComparedFlags, write_flags
<1>2. x \in Word /\ y \in Word
  BY ReadType DEF TypeOK
<1>3. op \in Ops \ Logical /\ op \in {"cmp", "cmn"}
  BY DEF Ops, Compares, Logical
<1>4. t[1] = x /\ t[2] = y
  BY <1>3 DEF Terms
<1>5. ArithmeticFlags(op, t[1], t[2], z, f)
  <2> HIDE DEF x, y, z, f
  <2> QED BY <1>1, <1>2, <1>3, FlagsOfTerms DEF z
<1> HIDE DEF x, y, z, f, t
<1>6. ArithmeticFlags(op, x, y, z, f)
  BY <1>4, <1>5
<1> QED BY <1>6 DEF x, y, z, f

LEMMA ArithmeticFlagsHold == TypeOK => ArithmeticFlagsTell
  BY WrittenFlags, ComparedFlagsTell, Zenon DEF ArithmeticFlagsTell

-----------------------------------------------------------------------------
(***************************************************************************)
(* Shifts.                                                                 *)
(***************************************************************************)
\* The bits shifted out and the word that is left of a left shift.
LEMMA LeftShift ==
    ASSUME NEW x \in Word, NEW n \in 1 .. W
    PROVE  Bit(x, W - n) * Size + lsl(x, n) = (x * 2 ^ n) % (2 * Size)
<1>1. PICK p, q \in Nat \ {0} : p = 2 ^ n /\ q = 2 ^ (W - n) /\ Size = p * q
  <2>1. n \in 0 .. W
    BY SizeType
  <2> QED BY <2>1, SplitSize
<1>2. x \in Nat /\ Size \in Nat \ {0}
  BY WordType, SizeType
<1> DEFINE a == x \div q
           b == x % q
           h == a \div 2
           t == a % 2
<1>3. a \in Nat /\ b \in 0 .. q - 1 /\ x = q * a + b
  BY <1>1, <1>2, NatDivided, Zenon
<1>4. t = Bit(x, W - n)
  BY <1>1 DEF Bit
<1> HIDE DEF a, b
<1>5. h \in Nat /\ t \in {0, 1} /\ a = 2 * h + t
  BY <1>3
<1> HIDE DEF h, t
<1>6. x * p = Size * a + b * p /\ b * p \in 0 .. Size - 1
  <2>1. x * p = (p * q) * a + b * p
    BY <1>1, <1>3
  <2>2. b * p \in Nat /\ b * p <= (q - 1) * p /\ (q - 1) * p = p * q - p
    BY <1>1, <1>3
  <2> DEFINE u == b * p
             v == p * q
  <2>3. u \in Nat /\ u <= v - p /\ v \in Nat
    BY <1>1, <2>2
  <2>4. u \in 0 .. v - 1
    <3> HIDE DEF u, v
    <3> QED BY <1>1, <2>3
  <2> QED BY <1>1, <2>1, <2>4
<1> DEFINE u == b * p
<1>7. u \in 0 .. Size - 1 /\ x * p = Size * a + u
  BY <1>6
<1> HIDE DEF u
<1>8. (x * p) % Size = u
  BY <1>2, <1>3, <1>7, Quotient
<1>9. x * p = (2 * Size) * h + (t * Size + u)
  BY <1>2, <1>5, <1>7
<1>10. t * Size + u \in 0 .. (2 * Size) - 1 /\ 2 * Size \in Nat \ {0}
  BY <1>2, <1>5, <1>7
<1>11. (x * p) % (2 * Size) = t * Size + u
  <2>1. h \in Int
    BY <1>5
  <2>2. ((2 * Size) * h + (t * Size + u)) % (2 * Size) = t * Size + u
    BY <1>10, <2>1, Quotient, Zenon
  <2> QED BY <1>9, <2>2
<1> QED BY <1>1, <1>4, <1>8, <1>11 DEF lsl, Wrap

\* A left shift by a register, of any amount but 0.
LEMMA LeftShiftByRegister ==
    ASSUME NEW x \in Word, NEW c \in {0, 1}, NEW n \in Nat \ {0},
           NEW o \in ShiftedByRegister(x, LSL, n, c)
    PROVE  CarryFirst(o) = ShiftedOut(x, n)
<1>1. W \in Nat /\ n # 0 /\ LSL \notin {LSR, ASR, ROR}
  BY SizeType DEF LSL, LSR, ASR, ROR
<1>2. CASE n \in 1 .. W - 1
  <2>1. ~ (n >= W) /\ n # W /\ ~ (n > W) /\ n \in 1 .. W
    BY <1>1, <1>2
  <2>2. ShiftedByRegister(x, LSL, n, c)
           = {Out(shift_operation(x, LSL, n), Bit(x, W - n))}
    BY <1>1, <1>2, <2>1, Zenon DEF ShiftedByRegister
  <2>3. shift_operation(x, LSL, n) = lsl(x, n)
    BY DEF shift_operation, LSL, LSR, ASR, ROR
  <2>4. CarryFirst(o) = Bit(x, W - n) * Size + lsl(x, n)
    BY <2>2, <2>3 DEF CarryFirst, Out
  <2>5. Bit(x, W - n) * Size + lsl(x, n) = (x * 2 ^ n) % (2 * Size)
    BY <2>1, LeftShift
  <2> QED BY <2>1, <2>4, <2>5 DEF ShiftedOut
<1>3. CASE n = W
  <2>1. n \notin 1 .. W - 1 /\ W \notin 1 .. W - 1 /\ W # 0
    BY <1>1, <1>3
  <2>2. ShiftedByRegister(x, LSL, n, c) = {Out(0, Bit(x, 0))}
    BY <1>1, <1>3, <2>1, Zenon DEF ShiftedByRegister
  <2>3. CarryFirst(o) = Bit(x, 0) * Size + 0
    BY <2>2 DEF CarryFirst, Out
  <2>4. Bit(x, W - n) * Size + lsl(x, n) = (x * 2 ^ n) % (2 * Size)
    <3>1. n \in 1 .. W
      BY <1>1, <1>3, <2>1
    <3> QED BY <3>1, LeftShift
  <2>5. W - n = 0 /\ ~ (n > W)
    BY <1>1, <1>3
  <2> QED BY <1>3, <2>3, <2>4, <2>5, LeftShiftOfWord DEF ShiftedOut
<1>4. CASE n > W
  <2>1. n \notin 1 .. W - 1 /\ n # W
    BY <1>1, <1>4
  <2>2. ShiftedByRegister(x, LSL, n, c) = {Out(0, 0)}
    BY <1>1, <1>4, <2>1, Zenon DEF ShiftedByRegister
  <2>3. CarryFirst(o) = 0 * Size + 0
    BY <2>2 DEF CarryFirst, Out
  <2> QED BY <1>4, <2>3, SizeType DEF ShiftedOut
<1> QED BY <1>1, <1>2, <1>3, <1>4

LEMMA LeftShiftByImmediate ==
    ASSUME NEW x \in Word, NEW c \in {0, 1}, NEW n \in 1 .. W - 1
    PROVE  CarryFirst(ShiftedByImmediate(x, LSL, n, c)) = ShiftedOut(x, n)
<1>1. n \in 1 .. W /\ ~ (n > W) /\ n > 0 /\ n # 0
  BY SizeType
<1>2. ShiftedByImmediate(x, LSL, n, c) = Out(lsl(x, n), Bit(x, W - n))
  BY <1>1 DEF ShiftedByImmediate, shift_operation, LSL, LSR, ASR, ROR
<1>3. Bit(x, W - n) * Size + lsl(x, n) = (x * 2 ^ n) % (2 * Size)
  BY <1>1, LeftShift
<1> QED BY <1>1, <1>2, <1>3 DEF CarryFirst, Out, ShiftedOut

\* LSR #W, ASR #W and RRX.
LEMMA RightShiftByWord ==
    ASSUME NEW x \in Word, NEW c \in {0, 1}
    PROVE  /\ CarryLast(ShiftedByImmediate(x, LSR, 0, c)) = (2 * x) \div Size
           /\ CarryLast(ShiftedByImmediate(x, ASR, 0, c))
                 = ((2 * Signed(x)) \div Size) % (2 * Size)
<1>1. PICK h \in Nat \ {0} :
         /\ Size = 2 * h /\ Size \div 2 = h
         /\ \A a \in Word : Top(a) = IF a >= h THEN 1 ELSE 0
  BY TopHalf
<1>2. x \in 0 .. 2 * h - 1 /\ Top(x) = IF x >= h THEN 1 ELSE 0
  BY <1>1 DEF Word
<1>a. \A m \in Int, r \in 0 .. Size - 1 : (Size * m + r) \div Size = m
  BY SizeType, Quotient
<1>3. ShiftedByImmediate(x, LSR, 0, c) = Out(0, Top(x))
  BY DEF ShiftedByImmediate, LSL, LSR, ASR, ROR
<1>4. ShiftedByImmediate(x, ASR, 0, c) = Out(Signs(x), Top(x))
  BY DEF ShiftedByImmediate, LSL, LSR, ASR, ROR
<1>5. CASE x >= h
  <2>1. (2 * x) \div Size = 1
    <3>1. 2 * x = Size * 1 + (2 * x - Size) /\ 2 * x - Size \in 0 .. Size - 1
      BY <1>1, <1>2, <1>5
    <3>2. (Size * 1 + (2 * x - Size)) \div Size = 1
      BY <1>a, <3>1
    <3> QED BY <3>1, <3>2
  <2>2. (2 * Signed(x)) \div Size = -1
    <3> DEFINE r == 2 * x - Size
    <3>1. 2 * Signed(x) = Size * (-1) + r /\ r \in 0 .. Size - 1 /\ -1 \in Int
      BY <1>1, <1>2, <1>5 DEF Signed
    <3>2. (Size * (-1) + r) \div Size = -1
      <4> HIDE DEF r
      <4> QED BY <1>a, <3>1
    <3> QED BY <3>1, <3>2
  <2>3. (-1) % (2 * Size) = 2 * Size - 1
    <3>1. -1 = (2 * Size) * (-1) + (2 * Size - 1) /\ 2 * Size - 1 \in 0 .. (2 * Size) - 1
      BY <1>1
    <3>2. 2 * Size \in Nat \ {0} /\ -1 \in Int
      BY <1>1
    <3>3. ((2 * Size) * (-1) + (2 * Size - 1)) % (2 * Size) = 2 * Size - 1
      BY <3>1, <3>2, Quotient, Zenon
    <3> QED BY <3>1, <3>3
  <2>4. Signs(x) = Ones /\ Top(x) = 1
    BY <1>2, <1>5 DEF Signs
  <2> QED BY <1>1, <1>3, <1>4, <2>1, <2>2, <2>3, <2>4 DEF CarryLast, Out, Ones
<1>6. CASE ~ (x >= h)
  <2>1. (2 * x) \div Size = 0
    <3>1. 2 * x = Size * 0 + 2 * x /\ 2 * x \in 0 .. Size - 1
      BY <1>1, <1>2, <1>6
    <3>2. (Size * 0 + 2 * x) \div Size = 0
      BY <1>a, <3>1
    <3> QED BY <3>1, <3>2
  <2>2. Signed(x) = x /\ Signs(x) = 0 /\ Top(x) = 0
    BY <1>2, <1>6 DEF Signed, Signs
  <2>3. 0 % (2 * Size) = 0
    BY <1>1
  <2> QED BY <1>1, <1>3, <1>4, <2>1, <2>2, <2>3 DEF CarryLast, Out
<1> QED BY <1>1, <1>2, <1>5, <1>6

LEMMA RotateThroughCarry ==
    ASSUME NEW x \in Word, NEW c \in {0, 1}
    PROVE  CarryLast(ShiftedByImmediate(x, ROR, 0, c)) = c * Size + x
<1>1. ShiftedByImmediate(x, ROR, 0, c) = Out(Or(lsl(c, W - 1), lsr(x, 1)), Bit(x, 0))
  BY DEF ShiftedByImmediate, LSL, LSR, ASR, ROR
<1> QED BY <1>1, CarryIntoTop DEF CarryLast, Out

LEMMA RotatedImmediate ==
    ASSUME NEW i \in 0 .. 2 ^ ByteBits - 1, NEW n \in 0 .. (W \div 2) - 1, NEW c \in {0, 1}
    PROVE  LET o == Rotated(i, n, c)
           IN  /\ (o.value * 2 ^ (2 * n)) % Ones = i % Ones
               /\ o.carry = IF n = 0 THEN c ELSE Top(o.value)
<1>1. i \in Word /\ 2 * n \in 0 .. W - 1
  BY ImmediateType, HalfWord
<1>2. (ror(i, 2 * n) * 2 ^ (2 * n)) % Ones = i % Ones
  BY <1>1, Rotation
<1> QED BY <1>2 DEF Rotated, Out

LEMMA WideShiftsHold == TypeOK => WideShifts
<1> SUFFICES ASSUME TypeOK, NEW r \in Regs
             PROVE  LET x == arm_read_register(regs, r)
                        c == cpsr.c
                    IN  /\ \A n \in 1 .. W - 1 :
                              CarryFirst(ShiftedByImmediate(x, LSL, n, c)) = ShiftedOut(x, n)
                        /\ \A n \in 1 .. 2 ^ ByteBits - 1 :
                              \A o \in ShiftedByRegister(x, LSL, n, c) :
                                  CarryFirst(o) = ShiftedOut(x, n)
                        /\ CarryLast(ShiftedByImmediate(x, LSR, 0, c)) = (2 * x) \div Size
                        /\ CarryLast(ShiftedByImmediate(x, ASR, 0, c))
                              = ((2 * Signed(x)) \div Size) % (2 * Size)
                        /\ CarryLast(ShiftedByImmediate(x, ROR, 0, c)) = c * Size + x
                        /\ \A i \in 0 .. 2 ^ ByteBits - 1, n \in 0 .. (W \div 2) - 1 :
                              LET o == Rotated(i, n, c)
                              IN  /\ (o.value * 2 ^ (2 * n)) % Ones = i % Ones
                                  /\ o.carry = IF n = 0 THEN c ELSE Top(o.value)
  BY DEF WideShifts
<1> DEFINE x == arm_read_register(regs, r)
           c == cpsr.c
<1>1. x \in Word /\ c \in {0, 1}
  BY ReadType DEF TypeOK, Status
<1> HIDE DEF x, c
<1>2. \A n \in 1 .. W - 1 :
         CarryFirst(ShiftedByImmediate(x, LSL, n, c)) = ShiftedOut(x, n)
  BY <1>1, LeftShiftByImmediate
<1>3. \A n \in 1 .. 2 ^ ByteBits - 1 : n \in Nat \ {0}
  BY BytesAreWords
<1>4. \A n \in 1 .. 2 ^ ByteBits - 1 : \A o \in ShiftedByRegister(x, LSL, n, c) :
         CarryFirst(o) = ShiftedOut(x, n)
  BY <1>1, <1>3, LeftShiftByRegister
<1>5. /\ CarryLast(ShiftedByImmediate(x, LSR, 0, c)) = (2 * x) \div Size
      /\ CarryLast(ShiftedByImmediate(x, ASR, 0, c))
            = ((2 * Signed(x)) \div Size) % (2 * Size)
  BY <1>1, RightShiftByWord
<1>6. CarryLast(ShiftedByImmediate(x, ROR, 0, c)) = c * Size + x
  BY <1>1, RotateThroughCarry
<1>7. \A i \in 0 .. 2 ^ ByteBits - 1, n \in 0 .. (W \div 2) - 1 :
         LET o == Rotated(i, n, c)
         IN  /\ (o.value * 2 ^ (2 * n)) % Ones = i % Ones
             /\ o.carry = IF n = 0 THEN c ELSE Top(o.value)
  BY <1>1, RotatedImmediate
<1> USE DEF x, c
<1> QED BY <1>2, <1>4, <1>5, <1>6, <1>7, Zenon

-----------------------------------------------------------------------------
(***************************************************************************)
(* The theorems.                                                           *)
(***************************************************************************)

\* The shifter operand and its carry are the wide shift of the register, for
\* every amount, or the rotation of the immediate (arm_data_processing.c:399-532).
THEOREM ShiftsAreWide == Spec => []WideShifts
<1> QED BY TypeCorrect, WideShiftsHold, PTL

\* Each of the twelve operations that write a register writes there what the list
\* of operations says, bit by bit or modulo the word (arm_data_processing.h:26-41);
\* sbc and rsc, which do not, write the difference and 1 + C.  No other register
\* changes.
THEOREM OperationsCompute == Spec => []Results
<1> QED BY TypeCorrect, ResultsHold, PTL

\* N and Z follow the register that is written, C and V of a logical operation
\* are the shifter's and the old one.  C and V of sums, differences and compares are
\* those the code computes, in both directions (arm_data_processing.c:63-89, 113-215):
\* no sum and no difference ever sets C, a borrow clears it, the overflow of rsb and
\* cmp is that of signed words, that of sums and of sub means three equal signs.
THEOREM FlagsAreTold == Spec => []FlagsTell
<1>1. TypeOK => FlagsTell
  BY FlagsFollow, ArithmeticFlagsHold DEF FlagsTell
<1> QED BY TypeCorrect, <1>1, PTL
===============================================================================
