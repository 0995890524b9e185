------------------------------ MODULE ArmTarget ------------------------------
(***************************************************************************)
(* What the simulator promises to the two clients of the processor, the    *)
(* debugger and the sender of interrupts: every instruction, every RESET   *)
(* and every command of the debugger is one indivisible step on the        *)
(* processor, answered in that same step, so that an answer describes the  *)
(* processor of one moment.  Threads, locks and the parts of an operation  *)
(* do not exist at this level; module Simulator implements it.             *)
(***************************************************************************)
EXTENDS ArmStep

CONSTANTS Image,       \* the words of the memory when the session starts
          Commands     \* the commands of the debugger

VARIABLES core,        \* the processor
          mem,         \* the memory
          stop,        \* the exception of the last instruction executed
          request,     \* what the debugger asks for
          answer       \* the last answer to the debugger

vars == <<core, mem, stop, request, answer>>

NoRequest == [op |-> "none"]
NoAnswer  == [op |-> "none"]

Init == /\ core = ResetCore
        /\ mem = Image
        /\ stop = "none"
        /\ request = NoRequest
        /\ answer = NoAnswer

\* The RESET exception.
Reset == /\ core' = ResetCore
         /\ UNCHANGED <<mem, stop, request, answer>>

Ask == /\ request = NoRequest
       /\ request' \in Commands
       /\ UNCHANGED <<core, mem, stop, answer>>

-----------------------------------------------------------------------------
\* A stop reply tells the exception of the last instruction executed, whichever
\* command executed it.
Stopped(e) == [op |-> "stop", signal |-> StopSignal(e)]
Text == [op |-> "text"]

Answered(packet) == /\ request' = NoRequest
                    /\ answer' = packet

\* One instruction, from its fetch to its last write.
Instruction == /\ core' = Executed(mem[core.pc], Fetched(core))
               /\ mem' = Stored(mem[core.pc], mem)
               /\ stop' = Result(mem[core.pc])

\* 's' executes one instruction, whatever it is.
Step == /\ request.op = "s"
        /\ Instruction
        /\ Answered(Stopped(stop'))

\* 'c' executes instructions up to a breakpoint, the one at its start included.
Continue == /\ request.op = "c"
            /\ mem[core.pc].op # "bkpt"
            /\ Instruction
            /\ UNCHANGED <<request, answer>>

Breakpoint == /\ request.op = "c"
              /\ mem[core.pc].op = "bkpt"
              /\ Answered(Stopped(stop))
              /\ UNCHANGED <<core, mem, stop>>

\* The commands that change nothing.
Read == /\ \/ request.op = "?" /\ Answered(Stopped(stop))
           \/ request.op = "g" /\ Answered([op |-> "core", core |-> core])
           \/ /\ request.op = "p" /\ request.reg = "pc"
              /\ Answered([op |-> "pc", pc |-> core.pc])
           \/ request.op = "p" /\ request.reg # "pc" /\ Answered(Text)
           \/ /\ request.op = "m"
              /\ Answered([op |-> "word", word |-> mem[request.addr]])
           \/ request.op \in {"q", "u"} /\ Answered(Text)
        /\ UNCHANGED <<core, mem, stop>>

\* The debugger writes all registers, one, or one word of memory.
Write == /\ \/ /\ request.op = "G"
               /\ core' = request.regs
               /\ UNCHANGED mem
            \/ /\ request.op = "P"
               /\ core' = IF request.reg = "pc" THEN [core EXCEPT !.pc = request.value]
                                                ELSE core
               /\ UNCHANGED mem
            \/ /\ request.op = "X"
               /\ mem' = [mem EXCEPT ![request.addr] = request.word]
               /\ UNCHANGED core
         /\ Answered(Text)
         /\ UNCHANGED stop

\* 'k' has no answer.
Kill == /\ request.op = "k"
        /\ request' = NoRequest
        /\ UNCHANGED <<core, mem, stop, answer>>

Next == \/ Reset \/ Ask
        \/ Step \/ Continue \/ Breakpoint \/ Read \/ Write \/ Kill

Spec == Init /\ [][Next]_vars
==============================================================================
