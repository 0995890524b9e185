------------------------ MODULE LoadStoreMultipleProofs ------------------------
(***************************************************************************)
(* Theorems about LDM and STM, for every number of registers and every     *)
(* size of the address space that has room for them.                       *)
(***************************************************************************)
EXTENDS LoadStoreMultiple, FiniteSetTheorems, TLAPS

-----------------------------------------------------------------------------
(***************************************************************************)
(* The places of the registers in a list.                                  *)
(***************************************************************************)
LEMMA RegsFinite == IsFiniteSet(Regs) /\ Cardinality(Regs) = NRegs
<1>1. Regs = 0 .. NRegs - 1 /\ NRegs - 1 \in Int /\ 0 \in Int
  BY TransferAssumption DEF Regs
<1>2. IsFiniteSet(Regs) /\ Cardinality(Regs) = NRegs - 1 - 0 + 1
  BY <1>1, TransferAssumption, FS_Interval
<1> QED
  BY <1>2, TransferAssumption

\* What it is to be below a register, and registers are numbers.
LEMMA BelowMember ==
    ASSUME NEW list \in SUBSET Regs, NEW r \in Int
    PROVE  /\ Below(list, r) \in SUBSET Regs
           /\ \A q : q \in Below(list, r) <=> q \in list /\ q < r
           /\ \A q \in list : q \in Int /\ 0 <= q /\ q <= PC
           /\ PC \in Int /\ PC = NRegs - 1 /\ PC \in Regs
<1>1. Below(list, r) \subseteq list /\ \A q : q \in Below(list, r) <=> q \in list /\ q < r
  BY DEF Below
<1>2. \A q \in Regs : q \in Int /\ 0 <= q /\ q <= PC
  BY TransferAssumption DEF Regs, PC
<1>3. PC \in Int /\ PC = NRegs - 1 /\ PC \in Regs
  BY TransferAssumption DEF Regs, PC
<1> QED
  BY <1>1, <1>2, <1>3

\* A list has at most NRegs registers, and so has each of its parts.
LEMMA BitsBounded ==
    ASSUME NEW list \in SUBSET Regs
    PROVE  /\ IsFiniteSet(list)
           /\ number_set_bits_in(list) \in Nat
           /\ number_set_bits_in(list) <= NRegs
  BY RegsFinite, FS_Subset, FS_CardinalityType, TransferAssumption DEF number_set_bits_in

\* One more register to look at is one more place, if it is in the list.
LEMMA BelowNext ==
    ASSUME NEW list \in SUBSET Regs, NEW r \in Regs
    PROVE  number_set_bits_in(Below(list, r + 1)) =
             number_set_bits_in(Below(list, r)) + IF r \in list THEN 1 ELSE 0
<1>0. r \in Int /\ r + 1 \in Int
  BY TransferAssumption DEF Regs
<1>1. Below(list, r) \in SUBSET Regs /\ r \notin Below(list, r)
  BY <1>0, BelowMember
<1>2. IsFiniteSet(Below(list, r)) /\ number_set_bits_in(Below(list, r)) \in Nat
  BY <1>1, BitsBounded
<1>3. \A q \in list : q \in Int
  BY <1>0, BelowMember
<1>4. \A q : q \in Below(list, r + 1) <=> q \in Below(list, r) \/ (q \in list /\ q = r)
  <2>1. \A q : q \in Below(list, r) <=> q \in list /\ q < r
    BY <1>0, BelowMember
  <2>2. \A q : q \in Below(list, r + 1) <=> q \in list /\ q < r + 1
    BY <1>0, BelowMember
  <2>3. \A q \in list : q < r + 1 <=> q < r \/ q = r
    BY <1>0, <1>3
  <2> QED
    BY <2>1, <2>2, <2>3
<1>5. CASE r \in list
  <2>1. Below(list, r + 1) = Below(list, r) \cup {r}
    BY <1>4, <1>5
  <2> QED
    BY <1>1, <1>2, <1>5, <2>1, FS_AddElement DEF number_set_bits_in
<1>6. CASE r \notin list
  <2>1. Below(list, r + 1) = Below(list, r)
    BY <1>4, <1>6
  <2> QED
    BY <1>2, <1>6, <2>1
<1> QED
  BY <1>5, <1>6

\* Nothing is below the first register, and the whole list below the last one.
LEMMA BelowEnds ==
    ASSUME NEW list \in SUBSET Regs
    PROVE  /\ number_set_bits_in(Below(list, 0)) = 0
           /\ Below(list, PC + 1) = list
<1>1. \A q \in list : q \in Int /\ 0 <= q /\ q <= PC /\ PC \in Int
  BY BelowMember
<1>2. \A q : q \in Below(list, 0) <=> q \in list /\ q < 0
  BY BelowMember
<1>3. \A q : q \in Below(list, PC + 1) <=> q \in list /\ q < PC + 1
  BY BelowMember, PC + 1 \in Int
<1>4. Below(list, 0) = {}
  BY <1>1, <1>2
<1>5. Below(list, PC + 1) = list
  BY <1>1, <1>3
<1> QED
  BY <1>4, <1>5, FS_EmptySet DEF number_set_bits_in

\* Two registers of a list have two places, in their order.
LEMMA PlacesOrdered ==
    ASSUME NEW list \in SUBSET Regs, NEW q \in list, NEW r \in list, q < r
    PROVE  number_set_bits_in(Below(list, q)) < number_set_bits_in(Below(list, r))
<1>0. q \in Int /\ r \in Int /\ q + 1 \in Int /\ \A x \in list : x \in Int
  BY BelowMember
<1>1. /\ Below(list, r) \in SUBSET Regs
      /\ Below(list, q) \in SUBSET Regs
      /\ Below(list, q + 1) \in SUBSET Regs
  BY <1>0, BelowMember
<1>2. Below(list, q + 1) \subseteq Below(list, r)
  <2>1. \A x : x \in Below(list, q + 1) <=> x \in list /\ x < q + 1
    BY <1>0, BelowMember
  <2>2. \A x : x \in Below(list, r) <=> x \in list /\ x < r
    BY <1>0, BelowMember
  <2>3. \A x \in list : x < q + 1 => x < r
    BY <1>0
  <2> QED
    BY <2>1, <2>2, <2>3
<1>3. number_set_bits_in(Below(list, q + 1)) <= number_set_bits_in(Below(list, r))
  BY <1>1, <1>2, BitsBounded, FS_Subset DEF number_set_bits_in
<1>4. number_set_bits_in(Below(list, q + 1)) = number_set_bits_in(Below(list, q)) + 1
  BY BelowNext
<1> QED
  BY <1>1, <1>3, <1>4, BitsBounded

\* A register of a list has a place below the number of registers.
LEMMA PlaceBounded ==
    ASSUME NEW list \in SUBSET Regs, NEW r \in Regs
    PROVE  /\ number_set_bits_in(Below(list, r)) \in Nat
           /\ number_set_bits_in(Below(list, r)) < NRegs
<1>0. r \in Int /\ r <= PC /\ PC \in Int /\ PC \in Regs /\ PC = NRegs - 1 /\ NRegs \in Int
  BY TransferAssumption DEF Regs, PC
<1>1. Below(list, r) \in SUBSET Regs
  BY <1>0, BelowMember
<1>2. Below(list, r) \subseteq Regs \ {PC}
  <2>1. \A q : q \in Below(list, r) <=> q \in list /\ q < r
    BY <1>0, BelowMember
  <2>2. PC \notin Below(list, r)
    BY <2>1, <1>0
  <2> QED
    BY <1>1, <2>2
<1>3. Cardinality(Regs \ {PC}) = NRegs - 1 /\ IsFiniteSet(Regs \ {PC})
  BY <1>0, RegsFinite, FS_RemoveElement
<1>4. number_set_bits_in(Below(list, r)) <= NRegs - 1
  BY <1>2, <1>3, FS_Subset DEF number_set_bits_in
<1> QED
  BY <1>0, <1>1, <1>4, BitsBounded

-----------------------------------------------------------------------------
(***************************************************************************)
(* Arithmetic modulo the address space.                                    *)
(***************************************************************************)
LEMMA PlusMinusType ==
    ASSUME NEW a \in Addr, NEW n \in 0 .. Words
    PROVE  Plus(a, n) \in Addr /\ Minus(a, n) \in Addr
  BY TransferAssumption DEF Plus, Minus, Addr

LEMMA PlusNext ==
    ASSUME NEW a \in Addr, NEW n \in 0 .. Words, n + 1 <= Words
    PROVE  Plus(Plus(a, n), 1) = Plus(a, n + 1)
  BY TransferAssumption DEF Plus, Addr

LEMMA PlusInjective ==
    ASSUME NEW a \in Addr, NEW n \in 0 .. Words - 1, NEW m \in 0 .. Words - 1,
           Plus(a, n) = Plus(a, m)
    PROVE  n = m
  BY TransferAssumption DEF Plus, Addr

\* The end address, computed from the base, is where n words from the start
\* address end, in each of the four modes.
LEMMA EndOfWalk ==
    ASSUME NEW p \in BOOLEAN, NEW u \in BOOLEAN, NEW rn \in Addr, NEW n \in 0 .. Words
    PROVE  /\ StartAddress(p, u, rn, n) \in Addr
           /\ EndAddress(p, u, rn, n) \in Addr
           /\ EndAddress(p, u, rn, n) = Minus(Plus(StartAddress(p, u, rn, n), n), 1)
<1> USE TransferAssumption DEF Addr
<1>1. CASE ~p /\ u
  BY <1>1 DEF StartAddress, EndAddress, Plus, Minus
<1>2. CASE p /\ u
  BY <1>2 DEF StartAddress, EndAddress, Plus, Minus
<1>3. CASE ~p /\ ~u
  BY <1>3 DEF StartAddress, EndAddress, Plus, Minus
<1>4. CASE p /\ ~u
  BY <1>4 DEF StartAddress, EndAddress, Plus, Minus
<1> QED
  BY <1>1, <1>2, <1>3, <1>4

LEMMA SlotType ==
    ASSUME NEW list \in SUBSET Regs, NEW start \in Addr, NEW r \in Regs
    PROVE  Slot(list, start, r) \in Addr
<1>1. number_set_bits_in(Below(list, r)) \in 0 .. Words
  BY PlaceBounded, TransferAssumption
<1> QED
  BY <1>1, PlusMinusType DEF Slot

\* Two registers of a list never share a word.
LEMMA SlotInjective ==
    ASSUME NEW list \in SUBSET Regs, NEW start \in Addr,
           NEW q \in list, NEW r \in list, Slot(list, start, q) = Slot(list, start, r)
    PROVE  q = r
<1>1. /\ number_set_bits_in(Below(list, q)) \in 0 .. Words - 1
      /\ number_set_bits_in(Below(list, r)) \in 0 .. Words - 1
  BY PlaceBounded, TransferAssumption
<1>2. number_set_bits_in(Below(list, q)) = number_set_bits_in(Below(list, r))
  BY <1>1, PlusInjective DEF Slot
<1>3. q \in Int /\ r \in Int
  BY BelowMember
<1>4. ~(q < r) /\ ~(r < q)
  BY <1>1, <1>2, PlacesOrdered
<1> QED
  BY <1>3, <1>4

\* From a register of the list to the next one, the word moves by one; at a
\* register that is not in the list it stays.
LEMMA SlotNext ==
    ASSUME NEW list \in SUBSET Regs, NEW start \in Addr, NEW r \in Regs
    PROVE  Slot(list, start, r + 1) =
             IF r \in list THEN Plus(Slot(list, start, r), 1) ELSE Slot(list, start, r)
<1>1. /\ number_set_bits_in(Below(list, r)) \in 0 .. Words
      /\ number_set_bits_in(Below(list, r)) + 1 <= Words
  BY PlaceBounded, TransferAssumption
<1>2. number_set_bits_in(Below(list, r)) + 0 = number_set_bits_in(Below(list, r))
  BY <1>1
<1> QED
  BY <1>1, <1>2, BelowNext, PlusNext DEF Slot

-----------------------------------------------------------------------------
(***************************************************************************)
(* The inductive invariant: the types, and where the walk is.              *)
(***************************************************************************)
Walk ==
    /\ at = "loop" => address = Slot(ins.list, ins.start, i)
    /\ at = "assert" => address = Plus(ins.start, number_set_bits_in(ins.list))
    /\ at \in {"loop", "assert"} =>
          ins.end = Minus(Plus(ins.start, number_set_bits_in(ins.list)), 1)

IInv == TypeOK /\ Walk /\ AssertionsHold

LEMMA FetchType ==
    ASSUME NEW rs \in [Regs -> Addr], NEW r \in Regs
    PROVE  /\ Fetched(rs) \in [Regs -> Addr]
           /\ arm_read_register(rs, r) \in Addr
<1>1. PC \in Regs /\ 1 \in 0 .. Words
  BY TransferAssumption DEF Regs, PC
<1>2. Plus(rs[PC], 1) \in Addr
  BY <1>1, PlusMinusType
<1> QED
  BY <1>1, <1>2 DEF Fetched, arm_read_register

LEMMA Constants == PC \in Regs /\ 0 \in Regs /\ 0 \in Addr /\ 1 \in 0 .. Words
  BY TransferAssumption DEF Regs, PC, Addr

LEMMA InitIInv == Init => IInv
  BY Constants DEF Init, IInv, TypeOK, Walk, AssertionsHold, NoInstr, Instr

LEMMA StartIInv ==
    ASSUME IInv, NEW load \in BOOLEAN, NEW list \in SUBSET Regs, NEW base \in Regs,
           NEW w \in BOOLEAN, NEW p \in BOOLEAN, NEW u \in BOOLEAN,
           Start(load, list, base, w, p, u)
    PROVE  IInv'
<1> DEFINE rn == arm_read_register(Fetched(regs), base)
           n  == number_set_bits_in(list)
<1>1. Fetched(regs) \in [Regs -> Addr] /\ rn \in Addr /\ n \in 0 .. Words
  <2>1. Fetched(regs) \in [Regs -> Addr]
    BY FetchType, base \in Regs DEF IInv, TypeOK
  <2>2. rn \in Addr
    BY <2>1, FetchType
  <2>3. n \in 0 .. Words
    BY BitsBounded, TransferAssumption
  <2> QED
    BY <2>1, <2>2, <2>3
<1>2. /\ StartAddress(p, u, rn, n) \in Addr
      /\ EndAddress(p, u, rn, n) \in Addr
      /\ EndAddress(p, u, rn, n) = Minus(Plus(StartAddress(p, u, rn, n), n), 1)
  BY <1>1, EndOfWalk
<1>3. (IF u THEN Plus(rn, n) ELSE Minus(rn, n)) \in Addr
  BY <1>1, PlusMinusType
<1>4. Slot(list, StartAddress(p, u, rn, n), 0) = StartAddress(p, u, rn, n)
  BY <1>2, BelowEnds, TransferAssumption DEF Slot, Plus, Addr
<1>5. /\ at' = "loop" /\ i' = 0 /\ mem' = mem /\ regs' = Fetched(regs)
      /\ address' = StartAddress(p, u, rn, n)
      /\ ins' = [load |-> load, list |-> list, base |-> base, w |-> w,
                 after |-> IF u THEN Plus(rn, n) ELSE Minus(rn, n),
                 start |-> StartAddress(p, u, rn, n),
                 end |-> EndAddress(p, u, rn, n)]
  BY DEF Start
<1> HIDE DEF rn, n
<1>6. ins' \in Instr
  BY <1>2, <1>3, <1>5 DEF Instr
<1>7. ins'.list = list /\ ins'.start = address' /\ ins'.end = EndAddress(p, u, rn, n)
  BY <1>5
<1>8. TypeOK'
  BY <1>1, <1>2, <1>5, <1>6, Constants DEF TypeOK, IInv
<1>9. Walk'
  BY <1>2, <1>4, <1>5, <1>7 DEF Walk, n
<1> QED
  BY <1>5, <1>8, <1>9 DEF IInv, AssertionsHold

\* Where a turn leaves the walk: at the next register, or past the last one.
LEMMA TurnIInv ==
    ASSUME IInv, Turn, regs' \in [Regs -> Addr], mem' \in [Addr -> Addr],
           address' = IF i \in ins.list THEN Plus(address, 1) ELSE address
    PROVE  IInv'
<1>1. /\ ins' = ins /\ at = "loop" /\ ins \in Instr /\ i \in Regs
      /\ ins.list \in SUBSET Regs /\ ins.start \in Addr
      /\ address = Slot(ins.list, ins.start, i) /\ address \in Addr
      /\ ins.end = Minus(Plus(ins.start, number_set_bits_in(ins.list)), 1)
  BY DEF IInv, TypeOK, Walk, Turn, Instr
<1>2. address' = Slot(ins.list, ins.start, i + 1) /\ address' \in Addr
  BY <1>1, SlotNext, PlusMinusType, Constants
<1>3. CASE i = PC
  <2>1. at' = "assert" /\ i' = 0
    BY <1>3 DEF Turn
  <2>2. address' = Plus(ins.start, number_set_bits_in(ins.list))
    BY <1>1, <1>2, <1>3, BelowEnds DEF Slot
  <2> QED
    BY <1>1, <1>2, <2>1, <2>2, Constants DEF IInv, TypeOK, Walk, AssertionsHold
<1>4. CASE i # PC
  <2>1. at' = "loop" /\ i' = i + 1 /\ i + 1 \in Regs
    BY <1>1, <1>4, TransferAssumption DEF Turn, Regs, PC
  <2> QED
    BY <1>1, <1>2, <2>1 DEF IInv, TypeOK, Walk, AssertionsHold
<1> QED
  BY <1>3, <1>4

LEMMA NextIInv == IInv /\ [Next]_vars => IInv'
<1> SUFFICES ASSUME IInv, [Next]_vars PROVE IInv'
  OBVIOUS
<1>1. CASE Skip
  BY <1>1, FetchType, Constants DEF Skip, IInv, TypeOK, Walk, AssertionsHold
<1>2. CASE \E load, w, p, u \in BOOLEAN, list \in SUBSET Regs, base \in Regs :
              Start(load, list, base, w, p, u)
  BY <1>2, StartIInv
<1>3. CASE NotInList
  BY <1>3, TurnIInv DEF NotInList, IInv, TypeOK
<1>4. CASE Load
  <2>1. (IF i = PC THEN 0 ELSE mem[address]) \in Addr
    BY Constants DEF IInv, TypeOK
  <2>2. regs' \in [Regs -> Addr]
    BY <1>4, <2>1 DEF Load, IInv, TypeOK
  <2> QED
    BY <1>4, <2>2, TurnIInv DEF Load, IInv, TypeOK
<1>5. CASE Store
  <2>1. mem' \in [Addr -> Addr]
    BY <1>5, FetchType DEF Store, IInv, TypeOK
  <2> QED
    BY <1>5, <2>1, TurnIInv DEF Store, IInv, TypeOK
<1>6. CASE Assert
  <2>1. ins.end = Minus(address, 1)
    BY <1>6 DEF Assert, IInv, Walk
  <2> QED
    BY <1>6, <2>1, Constants
    DEF Assert, IInv, TypeOK, Walk, AssertionsHold, NoInstr, Instr
<1>7. CASE UNCHANGED vars
  BY <1>7 DEF vars, IInv, TypeOK, Walk, AssertionsHold
<1> QED
  BY <1>1, <1>2, <1>3, <1>4, <1>5, <1>6, <1>7 DEF Next

LEMMA Invariance == Spec => []IInv
  BY InitIInv, NextIInv, PTL DEF Spec

\* The registers, the memory and every address computed stay in their types,
\* in each addressing mode and across the end of the address space.
THEOREM TypeCorrect == Spec => []TypeOK
<1>1. IInv => TypeOK
  BY DEF IInv
<1> QED
  BY <1>1, Invariance, PTL

\* The assertions of arm_load_store_multiple never stop the simulator.
THEOREM AssertionsNeverFail == Spec => []AssertionsHold
<1>1. IInv => AssertionsHold
  BY DEF IInv
<1> QED
  BY <1>1, Invariance, PTL

-----------------------------------------------------------------------------
(***************************************************************************)
(* Refinement.                                                             *)
(***************************************************************************)

\* The two modules mean the same words.
LEMMA SameWords ==
    /\ Transfer!Regs = Regs /\ Transfer!Addr = Addr /\ Transfer!PC = PC
    /\ \A rs : Transfer!Fetched(rs) = Fetched(rs)
    /\ \A rs, r : Transfer!arm_read_register(rs, r) = arm_read_register(rs, r)
    /\ \A list, start, r : Transfer!Slot(list, start, r) = Slot(list, start, r)
    /\ \A list, start, a : Transfer!StoredAt(list, start, a) = StoredAt(list, start, a)
    /\ \A m, list, start, r :
          Transfer!Loaded(m, list, start, r) = Loaded(m, list, start, r)
<1>1. Transfer!Regs = Regs /\ Transfer!Addr = Addr /\ Transfer!PC = PC
  BY DEF Transfer!Regs, Transfer!Addr, Transfer!PC, Regs, Addr, PC
<1>2. \A a, n : Transfer!Plus(a, n) = Plus(a, n)
  BY DEF Transfer!Plus, Plus
<1>3. \A rs : Transfer!Fetched(rs) = Fetched(rs)
  BY <1>1, <1>2 DEF Transfer!Fetched, Fetched
<1>4. \A rs, r : Transfer!arm_read_register(rs, r) = arm_read_register(rs, r)
  BY <1>1, <1>2 DEF Transfer!arm_read_register, arm_read_register
<1>5. /\ \A list, r : Transfer!Below(list, r) = Below(list, r)
      /\ \A list : Transfer!number_set_bits_in(list) = number_set_bits_in(list)
  <2>1. \A list, r : Transfer!Below(list, r) = Below(list, r)
    BY DEF Transfer!Below, Below
  <2>2. \A list : Transfer!number_set_bits_in(list) = number_set_bits_in(list)
    BY DEF Transfer!number_set_bits_in, number_set_bits_in, Transfer!Cardinality, Cardinality
  <2> QED
    BY <2>1, <2>2
<1>6. \A list, start, r : Transfer!Slot(list, start, r) = Slot(list, start, r)
  BY <1>2, <1>5 DEF Transfer!Slot, Slot
<1>7. \A list, start, a : Transfer!StoredAt(list, start, a) = StoredAt(list, start, a)
  BY <1>6 DEF Transfer!StoredAt, StoredAt
<1>8. \A m, list, start, r :
          Transfer!Loaded(m, list, start, r) = Loaded(m, list, start, r)
  BY <1>1, <1>6 DEF Transfer!Loaded, Loaded
<1> QED
  BY <1>1, <1>3, <1>4, <1>6, <1>7, <1>8

\* Outside the loop, what is seen is what there is.
LEMMA SeenIdle ==
    ASSUME TypeOK, at # "loop"
    PROVE  SeenRegs = regs /\ SeenMem = mem
<1>1. Left = {}
  BY DEF Left
<1> QED
  BY <1>1 DEF SeenRegs, SeenMem, TypeOK

\* The word of a register of the list is its own.
LEMMA StoredAlone ==
    ASSUME NEW list \in SUBSET Regs, NEW start \in Addr, NEW r \in list
    PROVE  /\ Slot(list, start, r) \in Addr
           /\ StoredAt(list, start, Slot(list, start, r)) = {r}
<1>1. Slot(list, start, r) \in Addr
  BY SlotType
<1>2. \A q \in list : Slot(list, start, q) = Slot(list, start, r) => q = r
  BY SlotInjective
<1> QED
  BY <1>1, <1>2 DEF StoredAt

LEMMA InitRefines == Init => Transfer!Init
<1> SUFFICES ASSUME Init PROVE Transfer!Init
  OBVIOUS
<1>1. TypeOK /\ at # "loop"
  BY InitIInv DEF IInv, Init
<1> QED
  BY <1>1, SeenIdle, SameWords DEF Transfer!Init, Init

\* What is left of the list after a turn.
LEMMA TurnLeft ==
    ASSUME IInv, Turn
    PROVE  /\ Left' = Left \ {i}
           /\ ins.list \in SUBSET Regs /\ ins.start \in Addr /\ ins' = ins
           /\ Left \subseteq ins.list
           /\ i \in ins.list => i \in Left
<1>1. /\ ins' = ins /\ at = "loop" /\ i \in Regs
      /\ ins.list \in SUBSET Regs /\ ins.start \in Addr
  BY DEF IInv, TypeOK, Turn, Instr
<1>2. i \in Int /\ \A r \in ins.list : r \in Int /\ r <= PC /\ PC \in Int
  <2>1. PC \in Int
    BY TransferAssumption DEF PC
  <2>2. \A r \in Regs : r \in Int /\ r <= PC
    BY TransferAssumption DEF Regs, PC
  <2> QED
    BY <1>1, <2>1, <2>2
<1>3. Left = {r \in ins.list : r >= i}
  BY <1>1 DEF Left
<1>4. CASE i = PC
  <2>1. Left' = {}
    BY <1>4 DEF Turn, Left
  <2>2. \A r \in ins.list : r >= i => r = i
    BY <1>2, <1>4
  <2> QED
    BY <1>1, <1>2, <1>3, <2>1, <2>2
<1>5. CASE i # PC
  <2>1. Left' = {r \in ins.list : r >= i + 1}
    BY <1>1, <1>5 DEF Turn, Left
  <2>2. \A r \in ins.list : r >= i + 1 <=> r >= i /\ r # i
    BY <1>2
  <2> QED
    BY <1>1, <1>2, <1>3, <2>1, <2>2
<1> QED
  BY <1>4, <1>5

LEMMA StartRefines ==
    ASSUME IInv, NEW load \in BOOLEAN, NEW list \in SUBSET Regs, NEW base \in Regs,
           NEW w \in BOOLEAN, NEW p \in BOOLEAN, NEW u \in BOOLEAN,
           Start(load, list, base, w, p, u)
    PROVE  Transfer!Next
<1>1. /\ at # "loop" /\ at' = "loop" /\ i' = 0 /\ mem' = mem /\ regs' = Fetched(regs)
      /\ ins'.load = load /\ ins'.list = list /\ ins'.start = address'
  BY DEF Start
<1>2. TypeOK /\ TypeOK'
  BY StartIInv DEF IInv
<1>3. SeenRegs = regs /\ SeenMem = mem
  BY <1>1, <1>2, SeenIdle
<1>4. Left' = list
  <2>1. \A r \in list : r >= 0
    BY BelowMember
  <2> QED
    BY <1>1, <2>1 DEF Left
<1>5. address' \in Addr /\ regs' \in [Regs -> Addr] /\ mem' \in [Addr -> Addr]
  BY <1>2 DEF TypeOK
<1>6. CASE load
  <2>1. SeenMem' = mem'
    BY <1>1, <1>5, <1>6 DEF SeenMem
  <2>2. SeenRegs' = [r \in Regs |-> IF r \in list THEN Loaded(mem, list, address', r)
                                    ELSE Fetched(regs)[r]]
    BY <1>1, <1>4, <1>6 DEF SeenRegs
  <2>3. Transfer!Load(list, address')
    BY <1>1, <1>3, <2>1, <2>2, SameWords DEF Transfer!Load
  <2> QED
    BY <1>5, <2>3, SameWords DEF Transfer!Next
<1>7. CASE ~load
  <2>1. SeenRegs' = Fetched(regs)
    BY <1>1, <1>5, <1>7 DEF SeenRegs
  <2>2. \A a : StoredAt(list, address', a) \cap list = StoredAt(list, address', a)
    BY DEF StoredAt
  <2>3. SeenMem' =
          [a \in Addr |->
             IF StoredAt(list, address', a) \cap list # {}
             THEN arm_read_register(Fetched(regs),
                    CHOOSE r \in StoredAt(list, address', a) \cap list : TRUE)
             ELSE mem[a]]
    BY <1>1, <1>4, <1>7 DEF SeenMem
  <2>4. ASSUME NEW r \in list
        PROVE  SeenMem'[Slot(list, address', r)] = arm_read_register(Fetched(regs), r)
    <3>1. /\ Slot(list, address', r) \in Addr
          /\ StoredAt(list, address', Slot(list, address', r)) = {r}
      BY <1>5, StoredAlone
    <3>2. (CHOOSE q \in {r} : TRUE) = r
      OBVIOUS
    <3> QED
      BY <2>2, <2>3, <3>1, <3>2
  <2>5. \A a \in Addr : StoredAt(list, address', a) = {} => SeenMem'[a] = mem[a]
    BY <2>2, <2>3
  <2>6. SeenMem' \in [Addr -> Addr]
    <3>1. ASSUME NEW a \in Addr, StoredAt(list, address', a) \cap list # {}
          PROVE  arm_read_register(Fetched(regs),
                    CHOOSE r \in StoredAt(list, address', a) \cap list : TRUE) \in Addr
      <4>1. (CHOOSE r \in StoredAt(list, address', a) \cap list : TRUE) \in Regs
        BY <3>1
      <4> QED
        BY <1>1, <1>5, <4>1, FetchType
    <3>2. \A a \in Addr : mem[a] \in Addr
      BY <1>2 DEF TypeOK
    <3> QED
      BY <2>3, <3>1, <3>2
  <2>7. Transfer!Store(list, address')
    BY <1>1, <1>3, <2>1, <2>4, <2>5, <2>6, SameWords DEF Transfer!Store
  <2> QED
    BY <1>5, <2>7, SameWords DEF Transfer!Next
<1> QED
  BY <1>6, <1>7

LEMMA LoadRefines ==
    ASSUME IInv, Load
    PROVE  SeenRegs' = SeenRegs /\ SeenMem' = SeenMem
<1>1. /\ Turn /\ ins.load /\ i \in ins.list /\ mem' = mem /\ at = "loop"
      /\ regs' = [regs EXCEPT ![i] = IF i = PC THEN 0 ELSE mem[address]]
  BY DEF Load, Turn
<1>2. /\ Left' = Left \ {i} /\ ins' = ins /\ i \in Left
      /\ ins.list \in SUBSET Regs /\ ins.start \in Addr /\ Left \subseteq ins.list
  BY <1>1, TurnLeft
<1>3. address = Slot(ins.list, ins.start, i)
  BY <1>1 DEF IInv, Walk
<1>4. regs \in [Regs -> Addr] /\ mem \in [Addr -> Addr]
  BY DEF IInv, TypeOK
<1>5. SeenMem' = SeenMem
  BY <1>1, <1>2 DEF SeenMem
<1>6. ASSUME NEW r \in Regs
      PROVE  (IF ins.load /\ r \in Left THEN Loaded(mem, ins.list, ins.start, r) ELSE regs[r]) =
             (IF ins.load /\ r \in Left \ {i} THEN Loaded(mem, ins.list, ins.start, r)
                                              ELSE regs'[r])
  <2>1. CASE r = i
    BY <1>1, <1>2, <1>3, <1>4, <2>1 DEF Loaded
  <2>2. CASE r # i
    BY <1>1, <1>2, <1>4, <2>2
  <2> QED
    BY <2>1, <2>2
<1>7. SeenRegs' = [r \in Regs |-> IF ins.load /\ r \in Left \ {i}
                                  THEN Loaded(mem, ins.list, ins.start, r) ELSE regs'[r]]
  BY <1>1, <1>2 DEF SeenRegs
<1> QED
  BY <1>5, <1>6, <1>7 DEF SeenRegs

LEMMA StoreRefines ==
    ASSUME IInv, Store
    PROVE  SeenRegs' = SeenRegs /\ SeenMem' = SeenMem
<1>1. /\ Turn /\ ~ins.load /\ i \in ins.list /\ regs' = regs /\ at = "loop"
      /\ mem' = [mem EXCEPT ![address] = arm_read_register(regs, i)]
  BY DEF Store, Turn
<1>2. /\ Left' = Left \ {i} /\ ins' = ins /\ i \in Left
      /\ ins.list \in SUBSET Regs /\ ins.start \in Addr /\ Left \subseteq ins.list
  BY <1>1, TurnLeft
<1>3. /\ address = Slot(ins.list, ins.start, i)
      /\ address \in Addr /\ mem \in [Addr -> Addr]
  BY <1>1 DEF IInv, Walk, TypeOK
<1>4. SeenRegs' = SeenRegs
  BY <1>1, <1>2 DEF SeenRegs
<1> DEFINE S(a) == StoredAt(ins.list, ins.start, a)
           Get(T, m) == IF ~ins.load /\ T # {}
                        THEN arm_read_register(regs, CHOOSE r \in T : TRUE)
                        ELSE m
<1>5. ASSUME NEW a \in Addr
      PROVE  Get(S(a) \cap Left, mem[a]) = Get(S(a) \cap (Left \ {i}), mem'[a])
  <2>1. CASE a = address
    <3>1. S(a) = {i}
      BY <1>1, <1>2, <1>3, <2>1, StoredAlone
    <3>2. S(a) \cap Left = {i} /\ S(a) \cap (Left \ {i}) = {}
      BY <1>2, <3>1
    <3>3. (CHOOSE r \in {i} : TRUE) = i
      OBVIOUS
    <3>4. mem'[a] = arm_read_register(regs, i)
      BY <1>1, <1>3, <2>1
    <3> QED
      BY <1>1, <3>2, <3>3, <3>4
  <2>2. CASE a # address
    <3>1. i \notin S(a)
      BY <1>3, <2>2 DEF StoredAt
    <3>2. S(a) \cap Left = S(a) \cap (Left \ {i})
      BY <3>1
    <3>3. mem'[a] = mem[a]
      BY <1>1, <1>3, <2>2
    <3> HIDE DEF S, Get
    <3> QED
      BY <3>2, <3>3
  <2> QED
    BY <2>1, <2>2
<1>6. SeenMem' = [a \in Addr |-> Get(S(a) \cap (Left \ {i}), mem'[a])]
  BY <1>1, <1>2 DEF SeenMem
<1>7. SeenMem = [a \in Addr |-> Get(S(a) \cap Left, mem[a])]
  BY DEF SeenMem
<1> HIDE DEF S, Get
<1>8. SeenMem' = SeenMem
  BY <1>5, <1>6, <1>7
<1> QED
  BY <1>4, <1>8

LEMMA NotInListRefines ==
    ASSUME IInv, NotInList
    PROVE  SeenRegs' = SeenRegs /\ SeenMem' = SeenMem
<1>1. Turn /\ i \notin ins.list /\ regs' = regs /\ mem' = mem
  BY DEF NotInList
<1>2. Left' = Left /\ ins' = ins
  BY <1>1, TurnLeft
<1> QED
  BY <1>1, <1>2 DEF SeenRegs, SeenMem

LEMMA NextRefines ==
    ASSUME IInv, [Next]_vars
    PROVE  [Transfer!Next]_<<SeenRegs, SeenMem>>
<1>1. CASE Skip
  <2>1. at # "loop" /\ at' # "loop" /\ TypeOK /\ TypeOK'
    BY <1>1, NextIInv DEF Skip, IInv
  <2>2. SeenRegs' = Fetched(SeenRegs) /\ SeenMem' = SeenMem
    <3>1. SeenRegs = regs /\ SeenMem = mem
      BY <2>1, SeenIdle
    <3>2. (SeenRegs = regs /\ SeenMem = mem)'
      BY <2>1 DEF SeenRegs, SeenMem, Left, TypeOK
    <3> QED
      BY <1>1, <3>1, <3>2 DEF Skip
  <2> QED
    BY <2>2, SameWords DEF Transfer!Next, Transfer!Skip
<1>2. CASE \E load, w, p, u \in BOOLEAN, list \in SUBSET Regs, base \in Regs :
              Start(load, list, base, w, p, u)
  BY <1>2, StartRefines
<1>3. CASE NotInList
  BY <1>3, NotInListRefines
<1>4. CASE Load
  BY <1>4, LoadRefines
<1>5. CASE Store
  BY <1>5, StoreRefines
<1>6. CASE Assert
  <2>1. at # "loop" /\ at' # "loop" /\ TypeOK /\ TypeOK' /\ regs' = regs /\ mem' = mem
    BY <1>6, NextIInv DEF Assert, IInv
  <2>2. (SeenRegs = regs /\ SeenMem = mem)'
    BY <2>1 DEF SeenRegs, SeenMem, Left, TypeOK
  <2> QED
    BY <2>1, <2>2, SeenIdle
<1>7. CASE UNCHANGED vars
  BY <1>7 DEF vars, SeenRegs, SeenMem, Left
<1> QED
  BY <1>1, <1>2, <1>3, <1>4, <1>5, <1>6, <1>7 DEF Next

\* LDM and STM, one register after the other, implement the indivisible
\* transfer, whatever the list, the base, the mode and the address.
THEOREM TransfersIndivisible == Spec => Indivisible
<1>1. Init => Transfer!Init
  BY InitRefines
<1>2. IInv /\ [Next]_vars => [Transfer!Next]_<<SeenRegs, SeenMem>>
  BY NextRefines
<1> QED
  BY <1>1, <1>2, Invariance, PTL DEF Spec, Indivisible, Transfer!Spec
==============================================================================
