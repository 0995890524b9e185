--------------------------- MODULE LoadStoreMultiple ---------------------------
(***************************************************************************)
(* arm_load_store_multiple: LDM and STM, one register after the other, in  *)
(* the four addressing modes.                                              *)
(*                                                                         *)
(* Abstraction.  The words of a transfer are all at a multiple of four     *)
(* from the base, so that addresses count words; the memory fills the      *)
(* address space.  rn, the local copy of the base register that W asks to  *)
(* move, is not used after it has been moved: the base register itself     *)
(* never is, which ins.base and ins.w are there to tell.                   *)
(***************************************************************************)
EXTENDS TransferWords

VARIABLES
    regs,           \* the registers
    mem,            \* the words of memory
    at,             \* where the code is: "fetch", "loop", "assert", "aborted"
    ins,            \* the instruction, and the addresses computed from it
    i,              \* the register the loop is at
    address         \* the word the loop is at

vars == <<regs, mem, at, ins, i, address>>

Instr == [load : BOOLEAN, list : SUBSET Regs, base : Regs, w : BOOLEAN,
          after : Addr, start : Addr, end : Addr]

NoInstr == [load |-> FALSE, list |-> {}, base |-> 0, w |-> FALSE,
            after |-> 0, start |-> 0, end |-> 0]

Init ==
    /\ regs \in [Regs -> Addr]
    /\ mem \in [Addr -> Addr]
    /\ at = "fetch"
    /\ ins = NoInstr
    /\ i = 0
    /\ address = 0

\* The four addressing modes: P, before or after; U, up or down; n words.
StartAddress(p, u, rn, n) ==
    CASE ~p /\ u  -> rn
      [] p /\ u   -> Plus(rn, 1)
      [] ~p /\ ~u -> Plus(Minus(rn, n), 1)
      [] p /\ ~u  -> Minus(rn, n)

\* A slip: a decrement before ends at the base, as a decrement after does.
EndAddressOff(p, u, rn, n) ==
    CASE u /\ ~p -> Minus(Plus(rn, n), 1)
      [] u /\ p  -> Plus(rn, n)
      [] ~u      -> rn

EndAddress(p, u, rn, n) ==
    CASE ~p /\ u  -> Minus(Plus(rn, n), 1)
      [] p /\ u   -> Plus(rn, n)
      [] ~p /\ ~u -> rn
      [] p /\ ~u  -> Minus(rn, 1)

\* The condition failed: the instruction does nothing but its fetch.
Skip ==
    /\ at = "fetch"
    /\ regs' = Fetched(regs)
    /\ UNCHANGED <<mem, at, ins, i, address>>

Start(load, list, base, w, p, u) ==
    LET rn == arm_read_register(Fetched(regs), base)
        n  == number_set_bits_in(list)
    IN  /\ at = "fetch"
        /\ at' = "loop"
        /\ regs' = Fetched(regs)
        /\ ins' = [load |-> load, list |-> list, base |-> base, w |-> w,
                   after |-> IF u THEN Plus(rn, n) ELSE Minus(rn, n),
                   start |-> StartAddress(p, u, rn, n),
                   end |-> EndAddress(p, u, rn, n)]
        /\ address' = StartAddress(p, u, rn, n)
        /\ i' = 0
        /\ UNCHANGED mem

\* One turn of the loop of the registers, the last one of which is r15.
Turn ==
    /\ at = "loop"
    /\ IF i = PC THEN at' = "assert" /\ i' = 0 ELSE at' = at /\ i' = i + 1
    /\ UNCHANGED ins

NotInList ==
    /\ i \notin ins.list
    /\ Turn
    /\ UNCHANGED <<regs, mem, address>>

Load ==
    /\ ins.load /\ i \in ins.list
    /\ Turn
    /\ regs' = [regs EXCEPT ![i] = IF i = PC THEN 0 ELSE mem[address]]
    /\ address' = Plus(address, 1)
    /\ UNCHANGED mem

\* A slip: the loop of STM stops before r15, as that of LDM does.
StoreNotLast ==
    /\ ~ins.load /\ i \in ins.list
    /\ Turn
    /\ mem' = IF i = PC THEN mem
              ELSE [mem EXCEPT ![address] = arm_read_register(regs, i)]
    /\ address' = Plus(address, 1)
    /\ UNCHANGED regs

Store ==
    /\ ~ins.load /\ i \in ins.list
    /\ Turn
    /\ mem' = [mem EXCEPT ![address] = arm_read_register(regs, i)]
    /\ address' = Plus(address, 1)
    /\ UNCHANGED regs

\* assert(end_address == (address - 4))
Assert ==
    /\ at = "assert"
    /\ at' = IF ins.end = Minus(address, 1) THEN "fetch" ELSE "aborted"
    /\ ins' = NoInstr
    /\ address' = 0
    /\ UNCHANGED <<regs, mem, i>>

Next ==
    \/ Skip
    \/ \E load, w, p, u \in BOOLEAN, list \in SUBSET Regs, base \in Regs :
          Start(load, list, base, w, p, u)
    \/ NotInList
    \/ Load
    \/ Store
    \/ Assert

Spec == Init /\ [][Next]_vars

-----------------------------------------------------------------------------
\* Every variable stays in its type; in particular every address computed
\* from the base, in the four modes, stays a word of the address space.
TypeOK ==
    /\ regs \in [Regs -> Addr]
    /\ mem \in [Addr -> Addr]
    /\ at \in {"fetch", "loop", "assert", "aborted"}
    /\ ins \in Instr
    /\ i \in Regs
    /\ address \in Addr

\* The assertions at the end of LDM and STM hold (arm_load_store.c:331 and
\* 345): the walk over the list stops at the end address, which is computed
\* on its own from the base and the number of registers, in every mode, for
\* every list, the empty one included, and across the end of the memory.
AssertionsHold == at # "aborted"

(***************************************************************************)
(* The state as if the transfers left were done: the abstraction that      *)
(* makes the first step the indivisible transfer and the others silent.    *)
(***************************************************************************)
Left == IF at = "loop" THEN {r \in ins.list : r >= i} ELSE {}

SeenRegs ==
    [r \in Regs |-> IF ins.load /\ r \in Left
                    THEN Loaded(mem, ins.list, ins.start, r)
                    ELSE regs[r]]

SeenMem ==
    [a \in Addr |->
        IF ~ins.load /\ StoredAt(ins.list, ins.start, a) \cap Left # {}
        THEN arm_read_register(regs,
                CHOOSE r \in StoredAt(ins.list, ins.start, a) \cap Left : TRUE)
        ELSE mem[a]]

Transfer == INSTANCE BlockTransfer WITH regs <- SeenRegs, mem <- SeenMem

\* LDM and STM are indivisible transfers: a register of the list that is the
\* base or r15, and a transfer that wraps around the end of the memory, are
\* no exceptions; no other register and no other word changes.
Indivisible == Transfer!Spec

\* The base register of "ldmia r1!, {r6, r7}" (Examples/example4.s:9) is
\* moved by the words transferred, as the W bit asks.
WritesBack ==
    [][at = "assert" /\ ins.w /\ ins.base \notin ins.list /\ ins.base # PC =>
          regs'[ins.base] = ins.after]_vars
==============================================================================
