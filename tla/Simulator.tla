------------------------------ MODULE Simulator ------------------------------
(***************************************************************************)
(* The process of arm_simulator.c: the main thread, the thread that serves *)
(* the debugger and the thread that receives interrupts share one          *)
(* processor and one mutex.  The debugger's side holds the commands of     *)
(* gdb_protocol.c; the framing of packets and their retransmission are the *)
(* business of module GdbLink.                                             *)
(*                                                                         *)
(* An operation on the processor that the mutex must make indivisible is   *)
(* split into the steps another thread could fall between: the peek of     *)
(* cont (trace off, pc, word, trace on), the fetch and the execution of an *)
(* instruction, the two reads of a register dump, the two writes of 'G'    *)
(* and the two writes of RESET.                                            *)
(*                                                                         *)
(* Bounds: MaxCommands commands of the debugger, MaxIrqs interrupts.       *)
(***************************************************************************)
EXTENDS ArmStep, Sequences

CONSTANTS Image,         \* the words of the memory when the session starts
          Commands,      \* the commands the debugger may send
          MaxCommands, MaxIrqs

Threads == {"main", "gdb", "irq"}
Free == "free"
Irqs == {"reset", "other"}

(***************************************************************************)
(* "c" "s" "?" "g" "k" as in the protocol; "q" stands for 'q' and 'H',     *)
(* which only answer a text; "u" is a letter without a handler.  'p' and   *)
(* 'P' name the pc or a general register ("r"); how their numbers are read *)
(* is left to the registers' module.  'm' and 'X' access one word.         *)
(***************************************************************************)
Command == [op : {"c", "s", "?", "g", "k", "q", "u"}]
             \cup [op : {"G"}, regs : Core]
             \cup [op : {"p"}, reg : {"pc", "r"}]
             \cup [op : {"P"}, reg : {"pc", "r"}, value : Addr]
             \cup [op : {"m"}, addr : Addr]
             \cup [op : {"X"}, addr : Addr, word : Instr]

NoCommand == [op |-> "none"]

Packet == [op : {"none", "text"}]
            \cup [op : {"core"}, core : Core]
            \cup [op : {"pc"}, pc : Addr]
            \cup [op : {"word"}, word : Instr]
            \cup [op : {"stop"}, signal : {"S04", "S05"}]

NoPacket == [op |-> "none"]
Text == [op |-> "text"]

ASSUME ImageAssumption == Image \in [Addr -> Instr]
ASSUME CommandsAssumption == Commands \subseteq Command
ASSUME BoundsAssumption == MaxCommands \in Nat /\ MaxIrqs \in Nat

VARIABLES
    status,     \* the process: "running" or "exited"
    at,         \* at[t]: the next step of thread t
    lock,       \* the owner of shared.lock, or Free
    core, mem,  \* shared.arm and shared.mem
    armLive,    \* FALSE once main has called arm_destroy
    traceOn,    \* enabled, of trace.c
    exc,        \* gdb->target_exception
    packet,     \* gdb->packet, the last packet built
    snap, ins,  \* locals of the gdb thread: an address read, a word read
    shut,       \* TRUE once 'k' has shut the sending side of the connection
    client,     \* the debugger: "away", "here" or "gone"
    command,    \* its command, from the sending to the end of its handling
    wire,       \* connections of send_irq not accepted yet: a byte each
    irq,        \* local of the irq thread: the byte read
    sent, raised

target == <<core, mem>>
gdbLocals == <<exc, packet, snap, ins, shut>>
debugger == <<client, command, sent>>
irqs == <<wire, irq, raised>>
vars == <<status, at, lock, target, armLive, traceOn, gdbLocals, debugger, irqs>>

Init == /\ status = "running"
        /\ at = [t \in Threads |-> IF t = "main" THEN "join" ELSE "accept"]
        /\ lock = Free
        /\ core = ResetCore /\ mem = Image
        /\ armLive = TRUE /\ traceOn = TRUE
        /\ exc = "none" /\ packet = NoPacket
        /\ snap = 0 /\ ins = DataWord /\ shut = FALSE
        /\ client = "away" /\ command = NoCommand /\ sent = 0
        /\ wire = <<>> /\ irq = "other" /\ raised = 0

\* Thread t of the running process moves from step a to step b.
Move(t, a, b) == /\ status = "running"
                 /\ at[t] = a
                 /\ at' = [at EXCEPT ![t] = b]
                 /\ UNCHANGED status

\* The whole process ends at once, whatever its other threads do.
Exit == /\ status = "running"
        /\ status' = "exited"
        /\ UNCHANGED <<at, lock, target, armLive, traceOn, gdbLocals,
                       debugger, irqs>>

\* A slip: a mutex that does not wait.
LockNoWait(t) == lock' = t

\* pthread_mutex_lock waits; pthread_mutex_unlock does not look at the owner.
Lock(t) == lock = Free /\ lock' = t
Unlock == lock' = Free
------------------------------------------------------------------------------
(* The debugger and the senders of interrupts, outside the process. *)

Connects == /\ status = "running"
            /\ client = "away"
            /\ client' = "here"
            /\ UNCHANGED <<status, at, lock, target, armLive, traceOn,
                           gdbLocals, command, sent, irqs>>

\* gdb sends a command when it has the answer to the one before.
Sends == /\ status = "running"
         /\ client = "here" /\ command = NoCommand
         /\ sent < MaxCommands
         /\ command' \in Commands
         /\ sent' = sent + 1
         /\ UNCHANGED <<status, at, lock, target, armLive, traceOn, gdbLocals,
                        client, irqs>>

Leaves == /\ status = "running"
          /\ client = "here"
          /\ client' = "gone"
          /\ UNCHANGED <<status, at, lock, target, armLive, traceOn, gdbLocals,
                         command, sent, irqs>>

\* send_irq connects, writes one byte and closes.
SendsIrq == /\ status = "running"
            /\ raised < MaxIrqs
            /\ \E i \in Irqs : wire' = Append(wire, i)
            /\ raised' = raised + 1
            /\ UNCHANGED <<status, at, lock, target, armLive, traceOn,
                           gdbLocals, debugger, irq>>
------------------------------------------------------------------------------
(* The gdb thread: connection, packets, lock. *)

GdbAccept == /\ client # "away"
             /\ Move("gdb", "accept", "scan")
             /\ UNCHANGED <<lock, target, armLive, traceOn, gdbLocals,
                            debugger, irqs>>

\* gdb_packet_analysis: the acknowledgement, then the mutex if the letter
\* has a handler, then the handler.
Analysis == /\ command # NoCommand /\ ~shut
            /\ Move("gdb", "scan", IF command.op = "u" THEN "empty" ELSE "lock")
            /\ UNCHANGED <<lock, target, armLive, traceOn, gdbLocals,
                           debugger, irqs>>

GdbLock == /\ Move("gdb", "lock", "handle")
           /\ Lock("gdb")
           /\ UNCHANGED <<target, armLive, traceOn, gdbLocals, debugger, irqs>>

\* A slip: an early return that keeps the mutex.
GdbKeepsLock == /\ Move("gdb", "unlock", "scan")
                /\ UNCHANGED <<lock, target, armLive, traceOn, gdbLocals,
                               debugger, irqs>>

GdbUnlock == /\ Move("gdb", "unlock", "scan")
             /\ Unlock
             /\ UNCHANGED <<target, armLive, traceOn, gdbLocals, debugger, irqs>>

\* A slip: the end of the connection is seen before the last command.
EndOfFileEarly == /\ client = "gone"
                  /\ Move("gdb", "scan", "done")
                  /\ UNCHANGED <<lock, target, armLive, traceOn, gdbLocals,
                                 debugger, irqs>>

\* The end of the connection, then shutdown, close and pthread_exit.
EndOfFile == /\ client = "gone" /\ command = NoCommand
             /\ Move("gdb", "scan", "done")
             /\ UNCHANGED <<lock, target, armLive, traceOn, gdbLocals,
                            debugger, irqs>>

\* gdb_transmit_packet.  A debugger that has gone gets nothing.
Transmit == /\ ~shut
            /\ command' = NoCommand
            /\ UNCHANGED <<lock, target, armLive, traceOn, exc, snap, ins, shut,
                           client, sent, irqs>>

Send == /\ Move("gdb", "send", "unlock")
        /\ Transmit
        /\ UNCHANGED packet

\* No handler: an empty answer, without the mutex.
SendEmpty == /\ Move("gdb", "empty", "scan")
             /\ Transmit
             /\ packet' = Text

\* Rio_writen on a connection whose sending side is shut, or whose peer has
\* gone: SIGPIPE, which nothing handles.
SigPipe == /\ \/ at["gdb"] \in {"send", "empty"}
              \/ at["gdb"] = "scan" /\ command # NoCommand
           /\ shut \/ client = "gone"
           /\ Exit
------------------------------------------------------------------------------
(* The gdb thread: the handlers, under the mutex. *)

\* A handler whose effect no step divides; it leaves a packet to transmit.
Answer(p) == /\ Move("gdb", "handle", "send")
             /\ packet' = p
             /\ UNCHANGED <<lock, armLive, traceOn, exc, snap, ins, shut,
                            debugger, irqs>>

StopPacket == [op |-> "stop", signal |-> StopSignal(exc)]

Reason == command.op = "?" /\ Answer(StopPacket) /\ UNCHANGED target

Query == command.op = "q" /\ Answer(Text) /\ UNCHANGED target

ReadRegister == /\ command.op = "p"
                /\ Answer(IF command.reg = "pc"
                            THEN [op |-> "pc", pc |-> core.pc] ELSE Text)
                /\ UNCHANGED target

WriteRegister == /\ command.op = "P"
                 /\ Answer(Text)
                 /\ core' = IF command.reg = "pc"
                              THEN [core EXCEPT !.pc = command.value] ELSE core
                 /\ UNCHANGED mem

ReadMemory == /\ command.op = "m"
              /\ Answer([op |-> "word", word |-> mem[command.addr]])
              /\ UNCHANGED target

WriteMemoryBinary == /\ command.op = "X"
                     /\ Answer(Text)
                     /\ mem' = [mem EXCEPT ![command.addr] = command.word]
                     /\ UNCHANGED core

\* 'k' shuts the sending side; the debugger then expects no answer.
KillRequest == /\ command.op = "k"
               /\ Move("gdb", "handle", "unlock")
               /\ shut' = TRUE
               /\ command' = NoCommand
               /\ UNCHANGED <<lock, target, armLive, traceOn, exc, packet,
                              snap, ins, client, sent, irqs>>

\* 'g': r0 .. r15, then cpsr; the trace is off in between.
ReadGeneralRegisters == /\ command.op = "g"
                        /\ Move("gdb", "handle", "readCpsr")
                        /\ traceOn' = FALSE
                        /\ snap' = core.pc
                        /\ UNCHANGED <<lock, target, armLive, exc, packet, ins,
                                       shut, debugger, irqs>>

ReadCpsr == /\ Move("gdb", "readCpsr", "send")
            /\ traceOn' = TRUE
            /\ packet' = [op |-> "core", core |-> [pc |-> snap, cpsr |-> core.cpsr]]
            /\ UNCHANGED <<lock, target, armLive, exc, snap, ins, shut,
                           debugger, irqs>>

\* 'G': r0 .. r15, then cpsr.
WriteGeneralRegisters == /\ command.op = "G"
                         /\ Move("gdb", "handle", "writeCpsr")
                         /\ traceOn' = FALSE
                         /\ core' = [core EXCEPT !.pc = command.regs.pc]
                         /\ UNCHANGED <<lock, mem, armLive, exc, packet, snap,
                                        ins, shut, debugger, irqs>>

WriteCpsr == /\ Move("gdb", "writeCpsr", "send")
             /\ traceOn' = TRUE
             /\ core' = [core EXCEPT !.cpsr = command.regs.cpsr]
             /\ packet' = Text
             /\ UNCHANGED <<lock, mem, armLive, exc, snap, ins, shut,
                            debugger, irqs>>

\* 's' and the default branch of cont: arm_step, in two steps.
Step == /\ command.op = "s"
        /\ Move("gdb", "handle", "fetch")
        /\ UNCHANGED <<lock, target, armLive, traceOn, gdbLocals, debugger, irqs>>

Fetch == /\ Move("gdb", "fetch", "execute")
         /\ snap' = core.pc
         /\ ins' = mem[core.pc]
         /\ core' = Fetched(core)
         /\ UNCHANGED <<lock, mem, armLive, traceOn, exc, packet, shut,
                        debugger, irqs>>

Execute == /\ ins.op # "halt"
           /\ Move("gdb", "execute",
                   IF command.op = "c" THEN "peek" ELSE "report")
           /\ core' = Executed(ins, core)
           /\ mem' = Stored(ins, mem)
           /\ exc' = Result(ins)
           /\ UNCHANGED <<lock, armLive, traceOn, packet, snap, ins, shut,
                          debugger, irqs>>

\* SWI 0x123456 calls exit.  The breakpoint's word is decoded as a load from
\* an address that was never assigned: it loads something or crashes.
ExecuteExits == /\ at["gdb"] = "execute"
                /\ ins.op \in {"halt", "bkpt"}
                /\ Exit

\* cont: look at the word at the pc, stop on a breakpoint, else step.
Cont == /\ command.op = "c"
        /\ Move("gdb", "handle", "peek")
        /\ UNCHANGED <<lock, target, armLive, traceOn, gdbLocals, debugger, irqs>>

\* A slip: r15 as the instructions read it, one word ahead.
PeekAhead == /\ Move("gdb", "peek", "look")
             /\ traceOn' = FALSE
             /\ snap' = (core.pc + 1) % MemWords
             /\ UNCHANGED <<lock, target, armLive, exc, packet, ins, shut,
                            debugger, irqs>>

Peek == /\ Move("gdb", "peek", "look")
        /\ traceOn' = FALSE
        /\ snap' = core.pc
        /\ UNCHANGED <<lock, target, armLive, exc, packet, ins, shut,
                       debugger, irqs>>

\* Slips: the trace stays off; every undefined word is taken for a breakpoint.
LookNoTrace == /\ Move("gdb", "look",
                       IF mem[snap].op = "bkpt" THEN "report" ELSE "fetch")
               /\ UNCHANGED <<lock, target, armLive, traceOn, gdbLocals,
                              debugger, irqs>>

LookUndefined == /\ Move("gdb", "look",
                         IF mem[snap].op \in {"bkpt", "coproc"} THEN "report"
                                                               ELSE "fetch")
                 /\ traceOn' = TRUE
                 /\ UNCHANGED <<lock, target, armLive, gdbLocals, debugger, irqs>>

Look == /\ Move("gdb", "look",
                IF mem[snap].op = "bkpt" THEN "report" ELSE "fetch")
        /\ traceOn' = TRUE
        /\ UNCHANGED <<lock, target, armLive, gdbLocals, debugger, irqs>>

\* gdb_send_stop_reason, at the end of cont and step.
Report == /\ Move("gdb", "report", "send")
          /\ packet' = StopPacket
          /\ UNCHANGED <<lock, target, armLive, traceOn, exc, snap, ins, shut,
                         debugger, irqs>>

Handle == \/ Reason \/ Query \/ ReadRegister \/ WriteRegister \/ ReadMemory
          \/ WriteMemoryBinary \/ KillRequest
          \/ ReadGeneralRegisters \/ ReadCpsr
          \/ WriteGeneralRegisters \/ WriteCpsr
          \/ Step \/ Fetch \/ Execute \/ ExecuteExits
          \/ Cont \/ Peek \/ Look \/ Report

Gdb == \/ GdbAccept \/ Analysis \/ GdbLock \/ Handle \/ GdbUnlock
       \/ Send \/ SendEmpty \/ SigPipe \/ EndOfFile
------------------------------------------------------------------------------
(* The irq thread. *)

IrqAccept == /\ wire # <<>>
             /\ Move("irq", "accept", "read")
             /\ UNCHANGED <<lock, target, armLive, traceOn, gdbLocals,
                            debugger, irqs>>

IrqRead == /\ Move("irq", "read", "lock")
           /\ irq' = Head(wire)
           /\ UNCHANGED <<lock, target, armLive, traceOn, gdbLocals, debugger,
                          wire, raised>>

\* A slip: arm_exception called before the mutex is taken.
IrqNoLock == /\ Move("irq", "lock", IF irq = "reset" THEN "raiseCpsr" ELSE "unlock")
             /\ UNCHANGED <<lock, target, armLive, traceOn, gdbLocals, debugger, irqs>>

IrqLock == /\ Move("irq", "lock", IF irq = "reset" THEN "raiseCpsr" ELSE "unlock")
           /\ Lock("irq")
           /\ UNCHANGED <<target, armLive, traceOn, gdbLocals, debugger, irqs>>

\* arm_exception: cpsr, then r15.  Once main has freed the processor the write
\* is undefined behaviour: it lands in the freed memory, which nothing reads any
\* more, or the process crashes.
RaiseCpsr == /\ Move("irq", "raiseCpsr", "raisePc")
             /\ core' = [core EXCEPT !.cpsr = ResetCpsr]
             /\ UNCHANGED <<lock, mem, armLive, traceOn, gdbLocals, debugger, irqs>>

\* A slip: RESET leaves r15 where it was.
RaiseNoPc == /\ Move("irq", "raisePc", "unlock")
             /\ UNCHANGED <<lock, target, armLive, traceOn, gdbLocals, debugger, irqs>>

RaisePc == /\ Move("irq", "raisePc", "unlock")
           /\ core' = [core EXCEPT !.pc = 0]
           /\ UNCHANGED <<lock, mem, armLive, traceOn, gdbLocals, debugger, irqs>>

RaiseCrashes == /\ at["irq"] \in {"raiseCpsr", "raisePc"}
                /\ ~armLive
                /\ Exit

\* A slip: the mutex is not released.
IrqKeepsLock == /\ Move("irq", "unlock", "eof")
                /\ UNCHANGED <<lock, target, armLive, traceOn, gdbLocals,
                               debugger, irqs>>

IrqUnlock == /\ Move("irq", "unlock", "eof")
             /\ Unlock
             /\ UNCHANGED <<target, armLive, traceOn, gdbLocals, debugger, irqs>>

\* The sender has closed its connection: back to Accept.
IrqEndOfFile == /\ Move("irq", "eof", "accept")
                /\ wire' = Tail(wire)
                /\ UNCHANGED <<lock, target, armLive, traceOn, gdbLocals,
                               debugger, irq, raised>>

Irq == \/ IrqAccept \/ IrqRead \/ IrqLock \/ RaiseCpsr \/ RaisePc
       \/ RaiseCrashes \/ IrqUnlock \/ IrqEndOfFile
------------------------------------------------------------------------------
(* The main thread, after it has started the others. *)

Join == /\ at["gdb"] = "done"
        /\ Move("main", "join", "destroy")
        /\ UNCHANGED <<lock, target, armLive, traceOn, gdbLocals, debugger, irqs>>

\* arm_destroy and memory_destroy.
Destroy == /\ Move("main", "destroy", "return")
           /\ armLive' = FALSE
           /\ UNCHANGED <<lock, target, traceOn, gdbLocals, debugger, irqs>>

Return == at["main"] = "return" /\ Exit

Main == Join \/ Destroy \/ Return

Terminating == status = "exited" /\ UNCHANGED vars

Next == \/ Connects \/ Sends \/ Leaves \/ SendsIrq
        \/ Gdb \/ Irq \/ Main \/ Terminating

Spec == Init /\ [][Next]_vars

\* The scheduler runs every thread that can run; the mutex needs no more, for
\* the two threads that share it use it a bounded number of times.
FairSpec == Spec /\ WF_vars(Gdb) /\ WF_vars(Irq) /\ WF_vars(Main)
------------------------------------------------------------------------------
(* Properties. *)

MainLabels == {"join", "destroy", "return"}
GdbLabels == {"accept", "scan", "empty", "lock", "handle", "readCpsr",
              "writeCpsr", "peek", "look", "fetch", "execute", "report",
              "send", "unlock", "done"}
IrqLabels == {"accept", "read", "lock", "raiseCpsr", "raisePc", "unlock", "eof"}

\* Every variable keeps its type: the threads are at a step of their code, the
\* processor, the packet and the command are well formed.
TypeOK == /\ status \in {"running", "exited"}
          /\ at \in [Threads -> MainLabels \cup GdbLabels \cup IrqLabels]
          /\ at["main"] \in MainLabels
          /\ at["gdb"] \in GdbLabels
          /\ at["irq"] \in IrqLabels
          /\ lock \in {Free, "gdb", "irq"}
          /\ core \in Core /\ mem \in [Addr -> Instr]
          /\ armLive \in BOOLEAN /\ traceOn \in BOOLEAN /\ shut \in BOOLEAN
          /\ exc \in Exceptions /\ packet \in Packet
          /\ snap \in Addr /\ ins \in Instr
          /\ client \in {"away", "here", "gone"}
          /\ command \in Command \cup {NoCommand}
          /\ wire \in Seq(Irqs) /\ irq \in Irqs
          /\ sent \in 0 .. MaxCommands /\ raised \in 0 .. MaxIrqs

GdbCritical == GdbLabels \ {"accept", "scan", "empty", "lock", "done"}
IrqCritical == {"raiseCpsr", "raisePc", "unlock"}

\* A thread inside a handler or arm_exception owns the mutex, whatever the path
\* that led there: no other thread is inside at the same time.
Exclusive == /\ at["gdb"] \in GdbCritical => lock = "gdb"
             /\ at["irq"] \in IrqCritical => lock = "irq"

\* A trace line is lost, and the stack of trace.c loses an entry, if the trace
\* is off when an instruction or RESET accesses the processor: the thread that
\* switches it off always switches it on again before another access.
TraceCovers == \/ at["gdb"] \in {"fetch", "execute"}
               \/ at["irq"] \in {"raiseCpsr", "raisePc"}
               => traceOn

\* cont looks at a word and arm_step fetches it again: between the two the
\* word and the pc stay the same, so that no breakpoint is ever executed.
NoBreakpointExecuted == at["gdb"] = "execute" /\ command.op = "c"
                          => ins.op # "bkpt"

\* When cont reports, the pc is still on the breakpoint: gdb finds the word it
\* planted at the pc, replaces it and can resume.
StopsAtBreakpoint == at["gdb"] = "report" /\ command.op = "c"
                       => mem[core.pc].op = "bkpt"

\* When the irq thread releases the mutex after RESET, the whole processor is as
\* RESET leaves it.
ResetComplete == at["irq"] = "unlock" /\ irq = "reset" => core = ResetCore

\* Main destroys the processor after the debugger's session: no command is
\* left to handle, and the debugger's thread does not hold the mutex.
EndsAfterSession == at["main"] # "join"
                      => command = NoCommand /\ lock # "gdb"

\* The processor as its clients see it: in the middle of an operation, as
\* before it (execution) or as after it (the writes of RESET and of 'G').
SeenCore == CASE at["gdb"] = "execute"   -> [core EXCEPT !.pc = snap]
              [] at["gdb"] = "writeCpsr" -> command.regs
              [] at["irq"] = "raisePc"    -> ResetCore
              [] OTHER -> core

\* A command is over for them when its answer is settled: when its packet is
\* built, after the first write of 'G', after the instruction of 's'.
Settled == \/ at["gdb"] \in {"send", "writeCpsr"}
           \/ at["gdb"] = "report" /\ command.op = "s"

SeenCommand == IF Settled THEN NoCommand ELSE command

SeenAnswer == CASE at["gdb"] = "writeCpsr"                   -> Text
                [] at["gdb"] = "report" /\ command.op = "s" -> StopPacket
                [] OTHER -> packet

Target == INSTANCE ArmTarget WITH core <- SeenCore, stop <- exc,
                                  request <- SeenCommand, answer <- SeenAnswer

\* The threads implement the processor of indivisible operations: an answer
\* never mixes the moments before and after a RESET, an instruction or a 'G'
\* never merges with a RESET, 's' executes one instruction and 'c' those up to a
\* breakpoint, a stop reply tells the last instruction executed.
Atomic == Target!Spec

\* Every command is answered, unless the process exits.
Answered == command # NoCommand
              ~> command = NoCommand \/ status = "exited"

\* Every interrupt received is raised, unless the process exits.
IrqServed == at["irq"] = "lock" ~> at["irq"] = "unlock" \/ status = "exited"

\* Once the debugger has left, the process ends.
SessionEnds == client = "gone" ~> status = "exited"
==============================================================================
