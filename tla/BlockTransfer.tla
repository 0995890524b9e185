----------------------------- MODULE BlockTransfer -----------------------------
(***************************************************************************)
(* What LDM and STM promise: an indivisible transfer between the registers *)
(* of a list and consecutive words of memory, the lowest register at the   *)
(* lowest address.                                                         *)
(***************************************************************************)
EXTENDS TransferWords

VARIABLES regs, mem

Init == regs \in [Regs -> Addr] /\ mem \in [Addr -> Addr]

\* An instruction whose condition fails.
Skip == regs' = Fetched(regs) /\ UNCHANGED mem

Load(list, start) ==
    /\ regs' = [r \in Regs |-> IF r \in list THEN Loaded(mem, list, start, r)
                                             ELSE Fetched(regs)[r]]
    /\ UNCHANGED mem

\* Each register of the list in its own word, and no other word.
Store(list, start) ==
    /\ regs' = Fetched(regs)
    /\ mem' \in [Addr -> Addr]
    /\ \A r \in list :
          mem'[Slot(list, start, r)] = arm_read_register(Fetched(regs), r)
    /\ \A a \in Addr : StoredAt(list, start, a) = {} => mem'[a] = mem[a]

Next ==
    \/ Skip
    \/ \E list \in SUBSET Regs, start \in Addr :
          Load(list, start) \/ Store(list, start)

Spec == Init /\ [][Next]_<<regs, mem>>
==============================================================================
