------------------------------- MODULE ArmStep -------------------------------
(***************************************************************************)
(* One instruction of the simulated processor, as the threads of the       *)
(* simulator see it: what arm_fetch and the decoders do to the program     *)
(* counter and to the status register, what arm_step returns to its        *)
(* caller, and what the RESET exception leaves behind.                     *)
(*                                                                         *)
(* Abstraction.  An instruction is named by what it does to the control of *)
(* the simulator: its class and, for a branch, its target.  Addresses      *)
(* count words.  The general registers and the bits of cpsr other than the *)
(* supervisor mode and the Z flag are left out: no thread of the simulator *)
(* takes a decision on them.  The memory fills the address space, so that  *)
(* the program counter wraps around at its end (accesses out of bounds are *)
(* the business of the memory component).                                  *)
(***************************************************************************)
EXTENDS Naturals

CONSTANT MemWords      \* number of words of the simulated memory

ASSUME MemWordsAssumption == MemWords \in Nat \ {0}

Addr == 0 .. MemWords - 1

(***************************************************************************)
(* "data"    an instruction that only writes general registers             *)
(* "store"   STR or STM: writes a data word at address to                  *)
(* "flags"   a data-processing instruction that updates cpsr (S bit)       *)
(* "branch"  B, or a write of r15 by any other instruction                 *)
(* "coproc"  a coprocessor access or MRS of cpsr to a register but r15:    *)
(*           returns UNDEFINED_INSTRUCTION                                 *)
(* "swi"     SWI: SOFTWARE_INTERRUPT                                       *)
(* "halt"    SWI 0x123456, the end of the simulation, and what else ends   *)
(*           the process: a compare that names no register, MRS of spsr    *)
(* "bkpt"    the undefined instruction gdb plants as a breakpoint          *)
(***************************************************************************)
Ops == {"data", "store", "flags", "branch", "coproc", "swi", "halt", "bkpt"}

Instr == [op : Ops, to : Addr]

Cpsr == [svc : BOOLEAN, z : BOOLEAN]

Core == [pc : Addr, cpsr : Cpsr]

\* cpsr after RESET is 0x1d3: supervisor mode, all the flags clear.
ResetCpsr == [svc |-> TRUE, z |-> FALSE]

ResetCore == [pc |-> 0, cpsr |-> ResetCpsr]

\* A slip: the program counter leaves the address space at its end.
FetchedNoWrap(c) == [c EXCEPT !.pc = c.pc + 1]

\* The program counter moves to the next word when the instruction is fetched.
Fetched(c) == [c EXCEPT !.pc = (c.pc + 1) % MemWords]

\* The processor after the decoder of instruction i has run on it.
Executed(i, c) ==
    CASE i.op = "flags"  -> [c EXCEPT !.cpsr.z = TRUE]
      [] i.op = "branch" -> [c EXCEPT !.pc = i.to]
      [] OTHER           -> c

\* The memory after it.
DataWord == [op |-> "data", to |-> 0]

Stored(i, m) == IF i.op = "store" THEN [m EXCEPT ![i.to] = DataWord] ELSE m

\* What arm_step returns: 0, or the exception the instruction raised.
Exceptions == {"none", "undefined", "swi"}

Result(i) ==
    CASE i.op = "coproc" -> "undefined"
      [] i.op = "swi"    -> "swi"
      [] OTHER           -> "none"

\* The signal gdb_send_stop_reason tells the debugger for an exception.
StopSignal(e) == IF e = "undefined" THEN "S04" ELSE "S05"
==============================================================================
