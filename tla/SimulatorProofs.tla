--------------------------- MODULE SimulatorProofs ---------------------------
(***************************************************************************)
(* Proofs about module Simulator, for every program, every set of commands *)
(* and every bound.                                                        *)
(***************************************************************************)
EXTENDS Simulator, TLAPS

\* What types the locals of a step: 'G' is the command whose cpsr is written,
\* and the connection being served is the first of wire.
Shape == /\ at["gdb"] = "writeCpsr" => command.op = "G"
         /\ at["irq"] # "accept" => wire # <<>>

Typed == TypeOK /\ Shape

LEMMA CoreSteps ==
    ASSUME NEW c \in Core, NEW i \in Instr, NEW m \in [Addr -> Instr]
    PROVE  /\ Fetched(c) \in Core
           /\ Executed(i, c) \in Core
           /\ Stored(i, m) \in [Addr -> Instr]
           /\ Result(i) \in Exceptions
           /\ ResetCore \in Core /\ 0 \in Addr /\ DataWord \in Instr
<1>1. Addr # {} /\ 0 \in Addr /\ \A a \in Addr : (a + 1) % MemWords \in Addr
  BY MemWordsAssumption DEF Addr
<1>2. Fetched(c) \in Core
  BY <1>1 DEF Fetched, Core
<1>3. Executed(i, c) \in Core
  BY DEF Executed, Core, Cpsr, Instr
<1>4. DataWord \in Instr
  BY <1>1 DEF DataWord, Instr, Ops
<1>5. Stored(i, m) \in [Addr -> Instr]
  BY <1>4 DEF Stored
<1>6. Result(i) \in Exceptions
  BY DEF Result, Exceptions
<1>7. ResetCore \in Core
  BY <1>1 DEF ResetCore, ResetCpsr, Core, Cpsr
<1> QED BY <1>1, <1>2, <1>3, <1>4, <1>5, <1>6, <1>7

LEMMA CommandFields ==
    ASSUME NEW c \in Command \cup {NoCommand}
    PROVE  /\ c.op = "G" => c.regs \in Core
           /\ c.op = "p" => c.reg \in {"pc", "r"}
           /\ c.op = "P" => c.value \in Addr
           /\ c.op = "m" => c.addr \in Addr
           /\ c.op = "X" => c.addr \in Addr /\ c.word \in Instr
BY DEF Command, NoCommand

LEMMA Packets ==
    ASSUME NEW c \in Core, NEW i \in Instr, NEW e \in Exceptions
    PROVE  /\ NoPacket \in Packet /\ Text \in Packet
           /\ [op |-> "core", core |-> c] \in Packet
           /\ [op |-> "pc", pc |-> c.pc] \in Packet
           /\ [op |-> "word", word |-> i] \in Packet
           /\ [op |-> "stop", signal |-> StopSignal(e)] \in Packet
BY DEF NoPacket, Text, Packet, StopSignal, Core

LEMMA TypedInit == Init => Typed
<1> SUFFICES ASSUME Init PROVE Typed
  OBVIOUS
<1>1. 0 \in Addr /\ ResetCore \in Core /\ DataWord \in Instr
  BY MemWordsAssumption DEF Addr, ResetCore, ResetCpsr, Core, Cpsr, DataWord, Instr, Ops
<1>2. NoPacket \in Packet
  BY DEF NoPacket, Packet
<1>3. /\ at \in [Threads -> MainLabels \cup GdbLabels \cup IrqLabels]
      /\ at["main"] = "join" /\ at["gdb"] = "accept" /\ at["irq"] = "accept"
  BY DEF Init, Threads, MainLabels, GdbLabels, IrqLabels
<1>4. wire \in Seq(Irqs) /\ irq \in Irqs
  BY DEF Init, Irqs
<1>5. sent \in 0 .. MaxCommands /\ raised \in 0 .. MaxIrqs
  BY BoundsAssumption DEF Init
<1>6. TypeOK
  BY <1>1, <1>2, <1>3, <1>4, <1>5, ImageAssumption
     DEF Init, TypeOK, MainLabels, GdbLabels, IrqLabels, Exceptions, Free
<1> QED BY <1>3, <1>6 DEF Typed, Shape

LEMMA TypedStep == Typed /\ [Next]_vars => Typed'
<1> SUFFICES ASSUME Typed, [Next]_vars PROVE Typed'
  OBVIOUS
<1> USE DEF Typed, TypeOK, Shape, Threads, MainLabels, GdbLabels, IrqLabels,
            target, gdbLocals, debugger, irqs
<1>1. CASE Connects \/ Leaves
  BY <1>1 DEF Connects, Leaves
<1>2. CASE Sends
  BY <1>2, CommandsAssumption, BoundsAssumption DEF Sends, NoCommand
<1>3. CASE SendsIrq
  BY <1>3, BoundsAssumption DEF SendsIrq
<1>4. CASE GdbAccept \/ Analysis \/ EndOfFile
  BY <1>4 DEF GdbAccept, Analysis, EndOfFile, Move
<1>5. CASE GdbLock \/ GdbUnlock
  BY <1>5 DEF GdbLock, GdbUnlock, Lock, Unlock, Move, Free
<1>6. CASE Send \/ SendEmpty
  <2>1. CASE Send
    BY <2>1, Packets DEF Send, Transmit, Move
  <2>2. CASE SendEmpty
    BY <2>2, Packets DEF SendEmpty, Transmit, Move
  <2> QED BY <1>6, <2>1, <2>2
<1>7. CASE Reason \/ Query
  <2>1. CASE Reason
    BY ZenonT(60), <2>1, Packets DEF Reason, Answer, StopPacket, Move
  <2>2. CASE Query
    BY ZenonT(60), <2>2, Packets DEF Query, Answer, StopPacket, Move
  <2> QED BY <1>7, <2>1, <2>2
<1>8. CASE ReadRegister
  BY ZenonT(60), <1>8, Packets DEF ReadRegister, Answer, Move
<1>9. CASE WriteRegister
  BY ZenonT(60), <1>9, Packets, CommandFields DEF WriteRegister, Answer, Move, Core
<1>10. CASE ReadMemory
  BY ZenonT(60), <1>10, Packets, CommandFields DEF ReadMemory, Answer, Move
<1>11. CASE WriteMemoryBinary
  BY ZenonT(60), <1>11, Packets, CommandFields DEF WriteMemoryBinary, Answer, Move
<1>12. CASE KillRequest
  BY <1>12 DEF KillRequest, Move
<1>13. CASE ReadGeneralRegisters
  BY <1>13 DEF ReadGeneralRegisters, Move, Core
<1>14. CASE ReadCpsr
  <2>1. [pc |-> snap, cpsr |-> core.cpsr] \in Core
    BY DEF Core
  <2> QED BY <1>14, <2>1, Packets DEF ReadCpsr, Move
<1>15. CASE WriteGeneralRegisters
  BY <1>15, CommandFields DEF WriteGeneralRegisters, Move, Core
<1>16. CASE WriteCpsr
  BY <1>16, Packets, CommandFields DEF WriteCpsr, Move, Core
<1>17. CASE Step \/ Cont
  BY <1>17 DEF Step, Cont, Move
<1>18. CASE Fetch
  BY <1>18, CoreSteps DEF Fetch, Move, Core
<1>19. CASE Execute
  BY ZenonT(60), <1>19, CoreSteps DEF Execute, Move
<1>20. CASE Peek \/ Look
  <2>1. CASE Peek
    BY <2>1 DEF Peek, Move, Core
  <2>2. CASE Look
    BY <2>2 DEF Look, Move, Core
  <2> QED BY <1>20, <2>1, <2>2
<1>21. CASE Report
  BY ZenonT(60), <1>21, Packets DEF Report, StopPacket, Move
<1>22. CASE IrqAccept \/ IrqRead
  BY <1>22 DEF IrqAccept, IrqRead, Move
<1>23. CASE IrqLock \/ IrqUnlock
  BY <1>23 DEF IrqLock, IrqUnlock, Lock, Unlock, Move, Free
<1>24. CASE RaiseCpsr \/ RaisePc
  <2>1. CASE RaiseCpsr
    BY <2>1, CoreSteps DEF RaiseCpsr, Move, Core, Cpsr, ResetCpsr
  <2>2. CASE RaisePc
    BY <2>2, CoreSteps DEF RaisePc, Move, Core, Cpsr, ResetCpsr
  <2> QED BY <1>24, <2>1, <2>2
<1>25. CASE IrqEndOfFile
  BY <1>25 DEF IrqEndOfFile, Move
<1>26. CASE Join \/ Destroy
  <2>1. CASE Join
    BY <2>1 DEF Join, Move
  <2>2. CASE Destroy
    BY <2>2 DEF Destroy, Move
  <2> QED BY <1>26, <2>1, <2>2
<1>27. CASE ExecuteExits \/ SigPipe \/ RaiseCrashes \/ Return
  BY <1>27 DEF ExecuteExits, SigPipe, RaiseCrashes, Return, Exit
<1>28. CASE UNCHANGED vars
  BY <1>28 DEF vars
<1> QED
  BY <1>1, <1>2, <1>3, <1>4, <1>5, <1>6, <1>7, <1>8, <1>9, <1>10, <1>11,
     <1>12, <1>13, <1>14, <1>15, <1>16, <1>17, <1>18, <1>19, <1>20, <1>21,
     <1>22, <1>23, <1>24, <1>25, <1>26, <1>27, <1>28
  DEF Next, Gdb, Handle, Irq, Main, Terminating

\* Every variable keeps its type (TypeOK), in every execution.
THEOREM TypeCorrect == Spec => []TypeOK
<1>1. Typed => TypeOK
  BY DEF Typed
<1> QED BY <1>1, TypedInit, TypedStep, PTL DEF Spec
------------------------------------------------------------------------------
(***************************************************************************)
(* The mutex.  Exclusive is inductive once its converse is added: who owns *)
(* the mutex is inside its critical section.                               *)
(***************************************************************************)
Mutex == /\ Exclusive
         /\ lock = "gdb" => at["gdb"] \in GdbCritical
         /\ lock = "irq" => at["irq"] \in IrqCritical

\* The steps of the handlers after the mutex is taken and before the reply.
Inside == \/ Reason \/ Query \/ ReadRegister \/ WriteRegister \/ ReadMemory
          \/ WriteMemoryBinary \/ KillRequest
          \/ ReadGeneralRegisters \/ ReadCpsr
          \/ WriteGeneralRegisters \/ WriteCpsr
          \/ Step \/ Fetch \/ Execute
          \/ Cont \/ Peek \/ Look \/ Report

LEMMA InsideMoves ==
    ASSUME Typed, Inside
    PROVE  /\ at["gdb"] \in GdbCritical /\ at'["gdb"] \in GdbCritical
           /\ at' = [at EXCEPT !["gdb"] = at'["gdb"]]
           /\ lock' = lock /\ armLive' = armLive /\ client' = client
           /\ irq' = irq /\ wire' = wire
           /\ command' \in {command, NoCommand}
<1> USE DEF Typed, TypeOK, Threads, GdbCritical, GdbLabels, Move, Answer,
            target, gdbLocals, debugger, irqs
<1>1. CASE Reason \/ Query \/ ReadRegister \/ WriteRegister \/ ReadMemory
             \/ WriteMemoryBinary \/ KillRequest
  BY <1>1 DEF Reason, Query, ReadRegister, WriteRegister, ReadMemory,
              WriteMemoryBinary, KillRequest
<1>2. CASE ReadGeneralRegisters \/ ReadCpsr \/ WriteGeneralRegisters \/ WriteCpsr
  BY <1>2 DEF ReadGeneralRegisters, ReadCpsr, WriteGeneralRegisters, WriteCpsr
<1>3. CASE Step \/ Fetch
  BY <1>3 DEF Step, Fetch
<1>4. CASE Execute
  BY <1>4 DEF Execute
<1>5. CASE Cont \/ Peek \/ Report
  BY <1>5 DEF Cont, Peek, Report
<1>6. CASE Look
  BY <1>6 DEF Look
<1> QED BY <1>1, <1>2, <1>3, <1>4, <1>5, <1>6 DEF Inside

\* The steps that move no thread.
Outside == \/ Connects \/ Sends \/ Leaves \/ SendsIrq
           \/ ExecuteExits \/ SigPipe \/ RaiseCrashes \/ Return
           \/ UNCHANGED vars

LEMMA OutsideMoves ==
    ASSUME Outside
    PROVE  UNCHANGED <<at, lock, target, armLive, traceOn, gdbLocals, irq>>
BY DEF Outside, Connects, Sends, Leaves, SendsIrq, ExecuteExits, SigPipe,
       RaiseCrashes, Return, Exit, vars, target, gdbLocals, irqs

LEMMA NextCases ==
    ASSUME [Next]_vars
    PROVE  \/ Inside \/ Outside
           \/ GdbAccept \/ Analysis \/ GdbLock \/ GdbUnlock
           \/ Send \/ SendEmpty \/ EndOfFile
           \/ IrqAccept \/ IrqRead \/ IrqLock \/ RaiseCpsr \/ RaisePc
           \/ IrqUnlock \/ IrqEndOfFile
           \/ Join \/ Destroy
BY DEF Next, Gdb, Handle, Irq, Main, Terminating, Inside, Outside

LEMMA MutexStep == Typed /\ Mutex /\ [Next]_vars => Mutex'
<1> SUFFICES ASSUME Typed, Mutex, [Next]_vars PROVE Mutex'
  OBVIOUS
<1> USE DEF Mutex, Exclusive, GdbCritical, IrqCritical, GdbLabels
<1>1. CASE Inside
  BY <1>1, InsideMoves DEF Typed, TypeOK, Threads
<1>2. CASE Outside
  BY <1>2, OutsideMoves
<1> USE DEF Typed, TypeOK, Threads, Move
<1>3. CASE GdbAccept \/ Analysis \/ EndOfFile
  BY <1>3 DEF GdbAccept, Analysis, EndOfFile
<1>4. CASE GdbLock
  BY <1>4 DEF GdbLock, Lock, Free
<1>5. CASE GdbUnlock
  BY <1>5 DEF GdbUnlock, Unlock, Free
<1>6. CASE Send \/ SendEmpty
  BY <1>6 DEF Send, SendEmpty, Transmit
<1>7. CASE IrqAccept \/ IrqRead \/ IrqEndOfFile
  BY <1>7 DEF IrqAccept, IrqRead, IrqEndOfFile
<1>8. CASE IrqLock
  BY <1>8 DEF IrqLock, Lock, Free
<1>9. CASE RaiseCpsr \/ RaisePc
  BY <1>9 DEF RaiseCpsr, RaisePc
<1>10. CASE IrqUnlock
  BY <1>10 DEF IrqUnlock, Unlock, Free
<1>11. CASE Join \/ Destroy
  BY <1>11 DEF Join, Destroy
<1> QED BY <1>1, <1>2, <1>3, <1>4, <1>5, <1>6, <1>7, <1>8, <1>9, <1>10,
           <1>11, NextCases

LEMMA MutexInit == Init => Mutex
BY DEF Init, Mutex, Exclusive, GdbCritical, IrqCritical, GdbLabels, Threads, Free

\* A thread inside a handler or arm_exception owns the mutex.
THEOREM MutualExclusion == Spec => []Exclusive
<1>1. Mutex => Exclusive
  BY DEF Mutex
<1> QED BY <1>1, TypedInit, TypedStep, MutexInit, MutexStep, PTL DEF Spec
------------------------------------------------------------------------------
(***************************************************************************)
(* The end of the session: main leaves pthread_join after the gdb thread,  *)
(* and that one ends when the debugger has left and is answered.           *)
(***************************************************************************)
Session == /\ at["main"] # "join" => at["gdb"] = "done"
           /\ at["gdb"] = "done" => client = "gone" /\ command = NoCommand

LEMMA SessionStep == Typed /\ Session /\ [Next]_vars => Session'
<1> SUFFICES ASSUME Typed, Session, [Next]_vars PROVE Session'
  OBVIOUS
<1> USE DEF Session
<1>1. CASE Inside
  BY <1>1, InsideMoves DEF GdbCritical, Typed, TypeOK, Threads
<1>2. CASE Connects \/ Sends \/ Leaves \/ SendsIrq
  BY <1>2 DEF Connects, Sends, Leaves, SendsIrq, debugger
<1>3. CASE ExecuteExits \/ SigPipe \/ RaiseCrashes \/ Return \/ UNCHANGED vars
  BY <1>3 DEF ExecuteExits, SigPipe, RaiseCrashes, Return, Exit, vars, debugger
<1> USE DEF Typed, TypeOK, Threads, Move, debugger
<1>4. CASE GdbAccept \/ Analysis \/ EndOfFile
  BY <1>4 DEF GdbAccept, Analysis, EndOfFile
<1>5. CASE GdbLock \/ GdbUnlock
  BY <1>5 DEF GdbLock, GdbUnlock
<1>6. CASE Send \/ SendEmpty
  BY <1>6 DEF Send, SendEmpty, Transmit
<1>7. CASE IrqAccept \/ IrqRead \/ IrqLock \/ RaiseCpsr \/ RaisePc
             \/ IrqUnlock \/ IrqEndOfFile
  BY <1>7 DEF IrqAccept, IrqRead, IrqLock, RaiseCpsr, RaisePc, IrqUnlock,
              IrqEndOfFile
<1>8. CASE Join \/ Destroy
  BY <1>8 DEF Join, Destroy
<1> QED BY <1>1, <1>2, <1>3, <1>4, <1>5, <1>6, <1>7, <1>8, NextCases DEF Outside

\* Main destroys the processor when no command is left and the gdb thread does
\* not hold the mutex.
THEOREM DestroyedLast == Spec => []EndsAfterSession
<1>1. Init => Session
  BY DEF Init, Session, Threads
<1>2. Mutex /\ Session => EndsAfterSession
  BY DEF Mutex, Session, EndsAfterSession, GdbCritical
<1> QED BY <1>1, <1>2, TypedInit, TypedStep, MutexInit, MutexStep,
           SessionStep, PTL DEF Spec
------------------------------------------------------------------------------
(* The trace is off in three steps of the gdb thread only, all of them under *)
(* the mutex.                                                              *)
Traced == ~traceOn => at["gdb"] \in {"look", "readCpsr", "writeCpsr"}

LEMMA TracedStep == Typed /\ Traced /\ [Next]_vars => Traced'
<1> SUFFICES ASSUME Typed, Traced, [Next]_vars PROVE Traced'
  OBVIOUS
<1> USE DEF Traced
<1>1. CASE Outside
  BY <1>1, OutsideMoves
<1> USE DEF Typed, TypeOK, Threads, Move
<1>2. CASE Reason \/ Query \/ ReadRegister \/ WriteRegister \/ ReadMemory
             \/ WriteMemoryBinary \/ KillRequest \/ Step \/ Cont \/ Report
  BY <1>2 DEF Reason, Query, ReadRegister, WriteRegister, ReadMemory,
              WriteMemoryBinary, KillRequest, Step, Cont, Report, Answer
<1>3. CASE ReadGeneralRegisters \/ ReadCpsr \/ WriteGeneralRegisters \/ WriteCpsr
  BY <1>3 DEF ReadGeneralRegisters, ReadCpsr, WriteGeneralRegisters, WriteCpsr
<1>4. CASE Fetch \/ Execute
  BY <1>4 DEF Fetch, Execute
<1>5. CASE Peek \/ Look
  BY <1>5 DEF Peek, Look
<1>6. CASE GdbAccept \/ Analysis \/ GdbLock \/ GdbUnlock \/ EndOfFile
  BY <1>6 DEF GdbAccept, Analysis, GdbLock, GdbUnlock, EndOfFile
<1>7. CASE Send \/ SendEmpty
  BY <1>7 DEF Send, SendEmpty, Transmit
<1>8. CASE IrqAccept \/ IrqRead \/ IrqLock \/ RaiseCpsr \/ RaisePc
             \/ IrqUnlock \/ IrqEndOfFile
  BY <1>8 DEF IrqAccept, IrqRead, IrqLock, RaiseCpsr, RaisePc, IrqUnlock,
              IrqEndOfFile
<1>9. CASE Join \/ Destroy
  BY <1>9 DEF Join, Destroy
<1> QED BY <1>1, <1>2, <1>3, <1>4, <1>5, <1>6, <1>7, <1>8, <1>9, NextCases
        DEF Inside

\* No access of an instruction or of RESET is missing from the trace.
THEOREM TraceComplete == Spec => []TraceCovers
<1>1. Init => Traced
  BY DEF Init, Traced
<1>2. Mutex /\ Traced => TraceCovers
  BY DEF Mutex, Exclusive, Traced, TraceCovers, GdbCritical, GdbLabels, IrqCritical
<1> QED BY <1>1, <1>2, TypedInit, TypedStep, MutexInit, MutexStep,
           TracedStep, PTL DEF Spec
------------------------------------------------------------------------------
(***************************************************************************)
(* What the gdb thread knows of the processor between two of its steps: no *)
(* other thread has written it since.                                      *)
(***************************************************************************)
Busy == {"readCpsr", "writeCpsr", "peek", "look", "fetch", "execute", "report", "send"}

Known == /\ at["gdb"] \in Busy => command # NoCommand
         /\ at["gdb"] \in {"peek", "look"} => command.op = "c"
         /\ at["gdb"] \in {"fetch", "execute", "report"} => command.op \in {"c", "s"}
         /\ at["gdb"] = "readCpsr" => command.op = "g"
         /\ at["gdb"] = "empty" => command.op = "u"
         /\ at["gdb"] \in {"look", "readCpsr"} => snap = core.pc
         /\ at["gdb"] = "writeCpsr" => core.pc = command.regs.pc
         /\ at["gdb"] = "execute" => /\ ins = mem[snap]
                                     /\ core.pc = (snap + 1) % MemWords
         /\ at["gdb"] = "fetch" /\ command.op = "c"
              => mem[core.pc].op # "bkpt"
         /\ NoBreakpointExecuted
         /\ StopsAtBreakpoint

LEMMA KnownStep == Typed /\ Mutex /\ Known /\ [Next]_vars => Known'
<1> SUFFICES ASSUME Typed, Mutex, Known, [Next]_vars PROVE Known'
  OBVIOUS
<1> USE DEF Known, NoBreakpointExecuted, StopsAtBreakpoint, Busy
<1>1. CASE Outside
  <2>1. CASE Sends
    BY <2>1 DEF Sends, target, gdbLocals, NoCommand
  <2>2. CASE ~Sends
    <3>1. command' = command
      BY <1>1, <2>2 DEF Outside, Connects, Leaves, SendsIrq, ExecuteExits,
            SigPipe, RaiseCrashes, Return, Exit, vars, debugger
    <3> QED BY <1>1, <3>1, OutsideMoves DEF target, gdbLocals
  <2> QED BY <2>1, <2>2
<1> USE DEF Typed, TypeOK, Threads, Move, target, gdbLocals, debugger, irqs
<1>2. CASE Reason \/ Query \/ ReadRegister \/ WriteRegister \/ ReadMemory
             \/ WriteMemoryBinary \/ KillRequest
  BY <1>2 DEF Reason, Query, ReadRegister, WriteRegister, ReadMemory,
              WriteMemoryBinary, KillRequest, Answer, NoCommand
<1>3. CASE ReadGeneralRegisters \/ ReadCpsr \/ WriteCpsr
  BY <1>3 DEF ReadGeneralRegisters, ReadCpsr, WriteCpsr, NoCommand
<1>15. CASE WriteGeneralRegisters
  <2>1. command.regs \in Core /\ core'.pc = command.regs.pc
    BY <1>15, CommandFields DEF WriteGeneralRegisters, Core
  <2> QED BY <1>15, <2>1 DEF WriteGeneralRegisters, NoCommand
<1>4. CASE Step \/ Cont
  BY <1>4 DEF Step, Cont, NoCommand
<1>5. CASE Fetch
  BY <1>5 DEF Fetch, Fetched, Core
<1>6. CASE Execute
  BY <1>6 DEF Execute
<1>7. CASE Peek
  BY <1>7 DEF Peek
<1>8. CASE Look
  BY <1>8 DEF Look
<1>9. CASE Report
  BY <1>9 DEF Report
<1>10. CASE GdbAccept \/ Analysis \/ GdbLock \/ GdbUnlock \/ EndOfFile
  BY <1>10 DEF GdbAccept, Analysis, GdbLock, GdbUnlock, EndOfFile
<1>11. CASE Send \/ SendEmpty
  BY <1>11 DEF Send, SendEmpty, Transmit
<1>12. CASE RaiseCpsr \/ RaisePc
  BY <1>12 DEF RaiseCpsr, RaisePc, Mutex, Exclusive, GdbCritical, GdbLabels,
               IrqCritical
<1>13. CASE IrqAccept \/ IrqRead \/ IrqLock \/ IrqUnlock \/ IrqEndOfFile
  BY <1>13 DEF IrqAccept, IrqRead, IrqLock, IrqUnlock, IrqEndOfFile
<1>14. CASE Join \/ Destroy
  BY <1>14 DEF Join, Destroy
<1> QED BY <1>1, <1>2, <1>3, <1>4, <1>5, <1>6, <1>7, <1>8, <1>9, <1>10, <1>11,
           <1>12, <1>13, <1>14, <1>15, NextCases
        DEF Inside

LEMMA KnownInit == Init => Known
BY DEF Init, Known, NoBreakpointExecuted, StopsAtBreakpoint, Busy, Threads

\* cont never executes the word of a breakpoint.
THEOREM BreakpointNotExecuted == Spec => []NoBreakpointExecuted
<1>1. Known => NoBreakpointExecuted
  BY DEF Known
<1> QED BY <1>1, TypedInit, TypedStep, MutexInit, MutexStep, KnownInit,
           KnownStep, PTL DEF Spec

\* cont reports with the pc on the breakpoint.
THEOREM StopsOnBreakpoint == Spec => []StopsAtBreakpoint
<1>1. Known => StopsAtBreakpoint
  BY DEF Known
<1> QED BY <1>1, TypedInit, TypedStep, MutexInit, MutexStep, KnownInit,
           KnownStep, PTL DEF Spec
------------------------------------------------------------------------------
(* RESET, between the write of cpsr and the release of the mutex. *)

Resetting == /\ at["irq"] \in {"raiseCpsr", "raisePc"} => irq = "reset"
             /\ at["irq"] = "raisePc" => core.cpsr = ResetCpsr
             /\ ResetComplete

LEMMA ResettingStep == Typed /\ Mutex /\ Resetting /\ [Next]_vars => Resetting'
<1> SUFFICES ASSUME Typed, Mutex, Resetting, [Next]_vars PROVE Resetting'
  OBVIOUS
<1> USE DEF Resetting, ResetComplete
<1>1. CASE Outside
  BY <1>1, OutsideMoves DEF target
<1>2. CASE Inside
  <2>1. lock = "gdb" /\ at["irq"] \notin IrqCritical
    BY <1>2, InsideMoves DEF Mutex, Exclusive
  <2>2. at'["irq"] = at["irq"]
    BY <1>2, InsideMoves DEF Typed, TypeOK, Threads
  <2> QED BY <2>1, <2>2 DEF IrqCritical
<1> USE DEF Typed, TypeOK, Threads, Move, target, irqs
<1>3. CASE GdbAccept \/ Analysis \/ GdbLock \/ GdbUnlock \/ EndOfFile
  BY <1>3 DEF GdbAccept, Analysis, GdbLock, GdbUnlock, EndOfFile
<1>4. CASE Send \/ SendEmpty
  BY <1>4 DEF Send, SendEmpty, Transmit
<1>5. CASE RaiseCpsr
  BY <1>5 DEF RaiseCpsr, Core
<1>6. CASE RaisePc
  BY <1>6 DEF RaisePc, Core, ResetCore
<1>7. CASE IrqAccept \/ IrqRead \/ IrqLock \/ IrqUnlock \/ IrqEndOfFile
  BY <1>7 DEF IrqAccept, IrqRead, IrqLock, IrqUnlock, IrqEndOfFile
<1>8. CASE Join \/ Destroy
  BY <1>8 DEF Join, Destroy
<1> QED BY <1>1, <1>2, <1>3, <1>4, <1>5, <1>6, <1>7, <1>8, NextCases

LEMMA ResettingInit == Init => Resetting
BY DEF Init, Resetting, ResetComplete, Threads

\* RESET leaves the whole processor reset when it releases the mutex.
THEOREM ResetIsComplete == Spec => []ResetComplete
<1>1. Resetting => ResetComplete
  BY DEF Resetting
<1> QED BY <1>1, TypedInit, TypedStep, MutexInit, MutexStep, ResettingInit,
           ResettingStep, PTL DEF Spec
------------------------------------------------------------------------------
(***************************************************************************)
(* Refinement.  Every step of a thread is a step of ArmTarget on the       *)
(* processor its clients see, or leaves it unchanged.                      *)
(***************************************************************************)
Strong == Typed /\ Mutex /\ Known /\ Resetting

Visible == <<SeenCore, mem, exc, SeenCommand, SeenAnswer>>

\* The instance of ArmTarget has its own copy of the operators of ArmStep.
LEMMA SameSteps ==
    /\ Target!ResetCore = ResetCore /\ Target!Text = Text
    /\ Target!NoRequest = NoCommand /\ Target!NoAnswer = NoPacket
    /\ \A c : Target!Fetched(c) = Fetched(c)
    /\ \A i, c : Target!Executed(i, c) = Executed(i, c)
    /\ \A i, m : Target!Stored(i, m) = Stored(i, m)
    /\ \A i : Target!Result(i) = Result(i)
    /\ \A e : Target!Stopped(e) = [op |-> "stop", signal |-> StopSignal(e)]
BY DEF Target!Addr, Addr, Target!ResetCore, ResetCore,
       Target!ResetCpsr, ResetCpsr, Target!Text, Text, Target!Fetched,
       Fetched, Target!Executed, Executed, Target!Stored, Stored,
       Target!DataWord, DataWord, Target!Result, Result,
       Target!StopSignal, StopSignal, Target!Stopped,
       Target!NoRequest, NoCommand, Target!NoAnswer, NoPacket

LEMMA RefinesInit == Init => Target!Init
<1> SUFFICES ASSUME Init PROVE Target!Init
  OBVIOUS
<1>1. at["gdb"] = "accept" /\ at["irq"] = "accept"
  BY DEF Init, Threads
<1>2. SeenCore = ResetCore /\ SeenCommand = NoCommand /\ SeenAnswer = NoPacket
  BY <1>1 DEF SeenCore, SeenCommand, SeenAnswer, Settled, Init
<1> QED BY <1>2, SameSteps DEF Init, Target!Init

\* Outside the operations that are divided, a client sees the processor.
Plain == /\ at["gdb"] \notin {"execute", "writeCpsr"}
         /\ at["irq"] # "raisePc"

LEMMA SeenPlain == /\ Plain => SeenCore = core
                   /\ Plain' => SeenCore' = core'
BY DEF Plain, SeenCore

\* While its answer is not settled, a client sees the command and the packet.
Open == at["gdb"] \notin {"send", "writeCpsr", "report"}

LEMMA SeenOpen == /\ Open => SeenCommand = command /\ SeenAnswer = packet
                  /\ Open' => SeenCommand' = command' /\ SeenAnswer' = packet'
BY DEF Open, SeenCommand, SeenAnswer, Settled

\* With its packet built, a command is answered.
LEMMA SeenSent ==
    ASSUME at'["gdb"] = "send"
    PROVE  Target!Answered(packet')
<1>1. SeenCommand' = NoCommand
  BY DEF SeenCommand, Settled
<1>2. SeenAnswer' = packet'
  BY DEF SeenAnswer
<1> QED BY <1>1, <1>2, SameSteps DEF Target!Answered

\* What a client sees of its command changes with the gdb thread's steps only.
LEMMA SeenStays ==
    ASSUME at'["gdb"] = at["gdb"], UNCHANGED <<command, packet, exc>>
    PROVE  UNCHANGED <<SeenCommand, SeenAnswer>>
BY DEF SeenCommand, SeenAnswer, Settled, StopPacket

\* The irq thread is not in the middle of RESET when the gdb thread is inside.
LEMMA GdbAlone ==
    ASSUME Strong, at["gdb"] \in GdbCritical
    PROVE  at["irq"] # "raisePc"
BY DEF Strong, Mutex, Exclusive, IrqCritical

LEMMA RefinesStep == Strong /\ Strong' /\ [Next]_vars => [Target!Next]_Target!vars
<1> SUFFICES ASSUME Strong, Strong', [Next]_vars
             PROVE  Target!Next \/ UNCHANGED Visible
  BY DEF Target!vars, Visible
<1> USE DEF Strong, Typed, TypeOK, Threads
<1>1. CASE Outside
  <2>1. CASE Sends
    <3>1. command = NoCommand /\ command' \in Commands
      BY <2>1 DEF Sends
    <3>2. UNCHANGED <<at, core, mem, exc, packet, snap>>
      BY <2>1 DEF Sends, target, gdbLocals
    <3>3. at["gdb"] \notin Busy
      BY <3>1 DEF Known
    <3>4. Open /\ Open'
      BY <3>2, <3>3 DEF Open, Busy
    <3>5. SeenCommand = NoCommand /\ SeenCommand' \in Commands
          /\ UNCHANGED SeenAnswer
      BY <3>1, <3>2, <3>4, SeenOpen
    <3>6. UNCHANGED SeenCore
      BY <3>2, <3>3 DEF SeenCore, Busy
    <3> QED BY <3>2, <3>5, <3>6, SameSteps DEF Target!Next, Target!Ask
  <2>2. CASE ~Sends
    <3>1. command' = command
      BY <1>1, <2>2 DEF Outside, Connects, Leaves, SendsIrq,
           ExecuteExits, SigPipe, RaiseCrashes, Return, Exit, vars, debugger
    <3>2. UNCHANGED <<at, core, mem, exc, packet, snap>>
      BY <1>1, OutsideMoves DEF target, gdbLocals
    <3>3. UNCHANGED SeenCore
      BY <3>1, <3>2 DEF SeenCore
    <3> QED BY <3>1, <3>2, <3>3, SeenStays DEF Visible
  <2> QED BY <2>1, <2>2
<1> USE DEF Move, target, gdbLocals, debugger, irqs
<1>2. CASE Execute
  <2>1. at["gdb"] = "execute" /\ at["irq"] # "raisePc" /\ Plain' /\ Open
        /\ command' = command /\ packet' = packet /\ exc' = Result(ins)
        /\ core' = Executed(ins, core) /\ mem' = Stored(ins, mem)
    BY <1>2, GdbAlone DEF Execute, GdbCritical, GdbLabels, Plain, Open
  <2>2. SeenCore = [core EXCEPT !.pc = snap] /\ SeenCore' = core'
    BY <2>1, SeenPlain DEF SeenCore
  <2>3. SeenCore.pc = snap /\ ins = mem[snap] /\ Fetched(SeenCore) = core
    BY <2>1, <2>2 DEF Known, Core, Fetched
  <2>4. Target!Instruction
    BY <2>1, <2>2, <2>3, SameSteps DEF Target!Instruction
  <2>5. SeenCommand = command /\ SeenAnswer = packet
    BY <2>1, SeenOpen
  <2>6. CASE command.op = "c"
    <3>1. Open' /\ ins.op # "bkpt"
      BY <1>2, <2>1, <2>6 DEF Execute, Open, Known, NoBreakpointExecuted
    <3>2. UNCHANGED <<SeenCommand, SeenAnswer>>
      BY <2>1, <2>5, <3>1, SeenOpen
    <3>3. Target!Continue
      BY <2>3, <2>4, <2>5, <2>6, <3>1, <3>2 DEF Target!Continue
    <3> QED BY <3>3 DEF Target!Next
  <2>7. CASE command.op = "s"
    <3>1. at'["gdb"] = "report"
      BY <1>2, <2>1, <2>7 DEF Execute
    <3>2. SeenCommand' = NoCommand /\ SeenAnswer' = StopPacket'
      BY <2>1, <2>7, <3>1 DEF SeenCommand, SeenAnswer, Settled
    <3>3. Target!Answered(Target!Stopped(exc'))
      BY <3>2, SameSteps DEF Target!Answered, StopPacket
    <3>4. Target!Step
      BY <2>4, <2>5, <2>7, <3>3 DEF Target!Step
    <3> QED BY <3>4 DEF Target!Next
  <2> QED BY <2>1, <2>6, <2>7 DEF Known
<1>3. CASE Fetch
  <2>1. at'["gdb"] = "execute" /\ at'["irq"] # "raisePc" /\ Plain /\ Open /\ Open'
    BY <1>3, GdbAlone DEF Fetch, GdbCritical, GdbLabels, Plain, Open
  <2>2. SeenCore = core /\ SeenCore' = [core' EXCEPT !.pc = snap']
    BY <2>1, SeenPlain DEF SeenCore
  <2>3. SeenCore' = SeenCore
    BY <1>3, <2>2 DEF Fetch, Fetched, Core
  <2> QED BY <1>3, <2>1, <2>3, SeenOpen DEF Fetch, Visible
<1>4. CASE WriteGeneralRegisters
  <2>1. Plain /\ Open /\ at'["gdb"] = "writeCpsr" /\ at'["irq"] # "raisePc"
    BY <1>4, GdbAlone DEF WriteGeneralRegisters, GdbCritical, GdbLabels, Plain, Open
  <2>2. SeenCore' = command.regs /\ SeenCommand = command
    BY <1>4, <2>1, SeenOpen DEF SeenCore, WriteGeneralRegisters
  <2>3. SeenCommand' = NoCommand /\ SeenAnswer' = Text
    BY <2>1 DEF SeenCommand, SeenAnswer, Settled
  <2>4. Target!Write
    BY <1>4, <2>2, <2>3, SameSteps
       DEF WriteGeneralRegisters, Target!Write, Target!Answered
  <2> QED BY <2>4 DEF Target!Next
<1>5. CASE WriteCpsr
  <2>1. at["gdb"] = "writeCpsr" /\ at'["gdb"] = "send" /\ at["irq"] # "raisePc" /\ Plain'
    BY <1>5, GdbAlone DEF WriteCpsr, GdbCritical, GdbLabels, Plain
  <2>2. SeenCore = command.regs /\ SeenCore' = core'
    BY <2>1, SeenPlain DEF SeenCore
  <2>3. command.regs \in Core /\ core.pc = command.regs.pc
    BY <2>1, CommandFields DEF Known, Shape
  <2>4. SeenCore' = SeenCore
    BY <1>5, <2>2, <2>3 DEF WriteCpsr, Core
  <2>5. packet' = Text /\ UNCHANGED <<mem, exc>>
    BY <1>5 DEF WriteCpsr
  <2>6. UNCHANGED <<SeenCommand, SeenAnswer>>
    BY <2>1, <2>5 DEF SeenCommand, SeenAnswer, Settled
  <2> QED BY <2>4, <2>5, <2>6 DEF Visible
<1>6. CASE WriteRegister \/ WriteMemoryBinary
  <2>1. Plain /\ Plain' /\ Open /\ at'["gdb"] = "send"
    BY <1>6, GdbAlone DEF WriteRegister, WriteMemoryBinary, Answer, GdbCritical,
                          GdbLabels, Plain, Open
  <2>2. /\ SeenCore = core /\ SeenCore' = core' /\ SeenCommand = command
        /\ packet' = Text /\ UNCHANGED exc
    BY <1>6, <2>1, SeenPlain, SeenOpen DEF WriteRegister, WriteMemoryBinary, Answer
  <2>3. Target!Answered(Target!Text)
    BY <2>1, <2>2, SeenSent, SameSteps
  <2>4. CASE WriteRegister
    BY <2>2, <2>3, <2>4 DEF WriteRegister, Target!Write, Target!Next
  <2>5. CASE WriteMemoryBinary
    BY <2>2, <2>3, <2>5 DEF WriteMemoryBinary, Target!Write, Target!Next
  <2> QED BY <1>6, <2>4, <2>5
<1>7. CASE Report
  <2>1. Plain /\ Plain' /\ at["gdb"] = "report" /\ at'["gdb"] = "send"
        /\ packet' = StopPacket /\ UNCHANGED <<core, mem, exc, command>>
    BY <1>7, GdbAlone DEF Report, GdbCritical, GdbLabels, Plain
  <2>2. SeenCore = core /\ SeenCore' = SeenCore
    BY <2>1, SeenPlain
  <2>3. CASE command.op = "c"
    <3>1. SeenCommand = command
      BY <2>1, <2>3 DEF SeenCommand, Settled
    <3>2. mem[core.pc].op = "bkpt"
      BY <2>1, <2>3 DEF Known, StopsAtBreakpoint
    <3>3. Target!Answered(Target!Stopped(exc))
      BY <2>1, SeenSent, SameSteps DEF StopPacket
    <3>4. Target!Breakpoint
      BY <2>1, <2>2, <2>3, <3>1, <3>2, <3>3 DEF Target!Breakpoint
    <3> QED BY <3>4 DEF Target!Next
  <2>4. CASE command.op = "s"
    <3>1. UNCHANGED <<SeenCommand, SeenAnswer>>
      BY <2>1, <2>4 DEF SeenCommand, SeenAnswer, Settled
    <3> QED BY <2>1, <2>2, <3>1 DEF Visible
  <2> QED BY <2>1, <2>3, <2>4 DEF Known
<1>8. CASE Reason \/ Query \/ ReadRegister \/ ReadMemory
  <2>1. Plain /\ Plain' /\ Open /\ at'["gdb"] = "send"
    BY <1>8, GdbAlone DEF Reason, Query, ReadRegister, ReadMemory, Answer,
                          GdbCritical, GdbLabels, Plain, Open
  <2>2. UNCHANGED <<core, mem, exc>>
    BY <1>8 DEF Reason, Query, ReadRegister, ReadMemory, Answer
  <2>3. SeenCore = core /\ SeenCore' = SeenCore /\ SeenCommand = command
    BY <2>1, <2>2, SeenPlain, SeenOpen
  <2>4. Target!Answered(packet')
    BY <2>1, SeenSent
  <2>5. CASE Reason
    <3>1. packet' = Target!Stopped(exc)
      BY <2>5, SameSteps DEF Reason, Answer, StopPacket
    <3> QED BY <2>2, <2>3, <2>4, <2>5, <3>1 DEF Reason, Target!Read, Target!Next
  <2>6. CASE Query
    <3>1. packet' = Target!Text
      BY <2>6, SameSteps DEF Query, Answer
    <3> QED BY <2>2, <2>3, <2>4, <2>6, <3>1 DEF Query, Target!Read, Target!Next
  <2>7. CASE ReadRegister
    <3>1. packet' = IF command.reg = "pc" THEN [op |-> "pc", pc |-> core.pc]
                                          ELSE Target!Text
      BY <2>7, SameSteps DEF ReadRegister, Answer
    <3> QED BY <2>2, <2>3, <2>4, <2>7, <3>1 DEF ReadRegister, Target!Read, Target!Next
  <2>8. CASE ReadMemory
    <3>1. packet' = [op |-> "word", word |-> mem[command.addr]]
      BY <2>8 DEF ReadMemory, Answer
    <3> QED BY <2>2, <2>3, <2>4, <2>8, <3>1 DEF ReadMemory, Target!Read, Target!Next
  <2> QED BY <1>8, <2>5, <2>6, <2>7, <2>8
<1>9. CASE KillRequest
  <2>1. Plain /\ Plain' /\ Open /\ Open'
    BY <1>9, GdbAlone DEF KillRequest, GdbCritical, GdbLabels, Plain, Open
  <2>2. UNCHANGED <<core, mem, exc, packet>> /\ command' = NoCommand
    BY <1>9 DEF KillRequest
  <2>3. /\ SeenCommand = command /\ SeenCommand' = NoCommand
        /\ UNCHANGED <<SeenCore, SeenAnswer>>
    BY <2>1, <2>2, SeenPlain, SeenOpen
  <2>4. Target!Kill
    BY <1>9, <2>2, <2>3, SameSteps DEF KillRequest, Target!Kill
  <2> QED BY <2>4 DEF Target!Next
<1>10. CASE ReadCpsr
  <2>1. Plain /\ Plain' /\ Open /\ at["gdb"] = "readCpsr" /\ at'["gdb"] = "send"
    BY <1>10, GdbAlone DEF ReadCpsr, GdbCritical, GdbLabels, Plain, Open
  <2>2. UNCHANGED <<core, mem, exc>> /\ packet' = [op |-> "core", core |-> core]
    BY <1>10 DEF ReadCpsr, Known, Core
  <2>3. SeenCore = core /\ SeenCore' = SeenCore /\ SeenCommand = command
    BY <2>1, <2>2, SeenPlain, SeenOpen
  <2>4. Target!Answered(packet') /\ command.op = "g"
    BY <2>1, SeenSent DEF Known
  <2> QED BY <2>2, <2>3, <2>4 DEF Target!Read, Target!Next
<1>11. CASE ReadGeneralRegisters \/ Step \/ Cont \/ Peek
  <2>1. Plain /\ Plain' /\ Open /\ Open'
    BY <1>11, GdbAlone DEF ReadGeneralRegisters, Step, Cont, Peek,
          GdbCritical, GdbLabels, Plain, Open
  <2>2. UNCHANGED <<core, mem, exc, packet, command>>
    BY <1>11 DEF ReadGeneralRegisters, Step, Cont, Peek
  <2> QED BY <2>1, <2>2, SeenPlain, SeenOpen DEF Visible
<1>12. CASE Look
  <2>1. Plain /\ Plain' /\ Open /\ command.op = "c"
        /\ at'["gdb"] \in {"report", "fetch"}
    BY <1>12, GdbAlone DEF Look, GdbCritical, GdbLabels, Plain, Open, Known
  <2>2. UNCHANGED <<core, mem, exc, packet, command>>
    BY <1>12 DEF Look
  <2>3. SeenCommand' = command' /\ SeenAnswer' = packet'
    BY <2>1, <2>2 DEF SeenCommand, SeenAnswer, Settled
  <2> QED BY <2>1, <2>2, <2>3, SeenPlain, SeenOpen DEF Visible
<1>13. CASE RaiseCpsr
  <2>1. Plain /\ at'["irq"] = "raisePc" /\ at'["gdb"] = at["gdb"]
    BY <1>13 DEF RaiseCpsr, Mutex, Exclusive, GdbCritical, GdbLabels,
                 IrqCritical, Plain
  <2>2. SeenCore' = ResetCore
    BY <2>1 DEF SeenCore, Plain
  <2>3. UNCHANGED <<mem, exc, command, packet>>
    BY <1>13 DEF RaiseCpsr
  <2> QED BY <2>1, <2>2, <2>3, SeenStays, SameSteps DEF Target!Next, Target!Reset
<1>14. CASE RaisePc
  <2>1. Plain' /\ at["irq"] = "raisePc" /\ at'["gdb"] = at["gdb"]
        /\ at["gdb"] \notin {"execute", "writeCpsr"}
    BY <1>14 DEF RaisePc, Mutex, Exclusive, GdbCritical, GdbLabels,
                 IrqCritical, Plain
  <2>2. SeenCore = ResetCore /\ SeenCore' = core'
    BY <2>1, SeenPlain DEF SeenCore
  <2>3. core' = ResetCore
    BY <1>14 DEF RaisePc, Resetting, Core, ResetCore
  <2>4. UNCHANGED <<mem, exc, command, packet>>
    BY <1>14 DEF RaisePc
  <2> QED BY <2>1, <2>2, <2>3, <2>4, SeenStays DEF Visible
<1>15. CASE SendEmpty
  <2>1. Open /\ Open' /\ command.op = "u" /\ command' = NoCommand /\ packet' = Text
    BY <1>15 DEF SendEmpty, Transmit, Open, Known
  <2>2. UNCHANGED <<SeenCore, mem, exc>>
    BY <1>15 DEF SendEmpty, Transmit, SeenCore
  <2>3. SeenCommand = command /\ Target!Answered(Target!Text)
    BY <2>1, SeenOpen, SameSteps DEF Target!Answered
  <2> QED BY <2>1, <2>2, <2>3 DEF Target!Read, Target!Next
<1>16. CASE Send
  <2>1. at["gdb"] = "send" /\ Open' /\ command' = NoCommand
        /\ UNCHANGED <<core, mem, exc, packet>> /\ at'["irq"] = at["irq"]
        /\ at'["gdb"] = "unlock"
    BY <1>16 DEF Send, Transmit, Open
  <2>2. UNCHANGED <<SeenCommand, SeenAnswer>>
    BY <2>1, SeenOpen DEF SeenCommand, SeenAnswer, Settled
  <2>3. UNCHANGED SeenCore
    BY <2>1 DEF SeenCore
  <2> QED BY <2>1, <2>2, <2>3 DEF Visible
<1>17. CASE GdbAccept \/ Analysis \/ GdbLock \/ GdbUnlock \/ EndOfFile
  <2>1. UNCHANGED <<core, mem, exc, packet, command>> /\ at'["irq"] = at["irq"]
    BY <1>17 DEF GdbAccept, Analysis, GdbLock, GdbUnlock, EndOfFile
  <2>2. {at["gdb"], at'["gdb"]} \cap {"execute", "writeCpsr", "send", "report"} = {}
    BY <1>17 DEF GdbAccept, Analysis, GdbLock, GdbUnlock, EndOfFile
  <2>3. Open /\ Open' /\ UNCHANGED SeenCore
    BY <2>1, <2>2 DEF SeenCore, Open
  <2> QED BY <2>1, <2>3, SeenOpen DEF Visible
<1>18. CASE IrqAccept \/ IrqRead \/ IrqLock \/ IrqUnlock \/ IrqEndOfFile
  <2>1. UNCHANGED <<core, mem, exc, packet, snap, command>> /\ at'["gdb"] = at["gdb"]
    BY <1>18 DEF IrqAccept, IrqRead, IrqLock, IrqUnlock, IrqEndOfFile
  <2>2. at["irq"] # "raisePc" /\ at'["irq"] # "raisePc"
    BY <1>18 DEF IrqAccept, IrqRead, IrqLock, IrqUnlock, IrqEndOfFile
  <2> QED BY <2>1, <2>2, SeenStays DEF SeenCore, Visible
<1>19. CASE Join \/ Destroy
  <2>1. UNCHANGED <<core, mem, exc, packet, snap, command>> /\ at'["gdb"] = at["gdb"]
        /\ at'["irq"] = at["irq"]
    BY <1>19 DEF Join, Destroy
  <2> QED BY <2>1, SeenStays DEF SeenCore, Visible
<1> QED BY <1>1, <1>2, <1>3, <1>4, <1>5, <1>6, <1>7, <1>8, <1>9, <1>10, <1>11,
           <1>12, <1>13, <1>14, <1>15, <1>16, <1>17, <1>18, <1>19, NextCases
        DEF Inside

\* The simulator's threads implement the processor of indivisible operations.
THEOREM Refines == Spec => Atomic
<1>1. Init => Strong
  BY TypedInit, MutexInit, KnownInit, ResettingInit DEF Strong
<1>2. Strong /\ [Next]_vars => Strong'
  BY TypedStep, MutexStep, KnownStep, ResettingStep DEF Strong
<1> QED BY <1>1, <1>2, RefinesInit, RefinesStep, PTL
        DEF Spec, Atomic, Target!Spec
==============================================================================
