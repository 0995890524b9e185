----------------------------- MODULE Diagnostics -----------------------------
(***************************************************************************)
(* What the simulator reports, from its options to its running: main of    *)
(* arm_simulator.c up to the threads, with the table of the names to debug *)
(* (DebugFiles) and the trace (Trace) that it sets up, and then the debug  *)
(* messages and the traced accesses of the threads.                        *)
(*                                                                         *)
(* Abstraction.  The port numbers are left out, no line depends on them.   *)
(* The threads trace under the lock, one access at a time; a debug message *)
(* shares nothing with the trace and is looked up between two accesses.    *)
(***************************************************************************)
EXTENDS DebugFiles, Trace

CONSTANT MaxOptions     \* bound: the number of options given

ASSUME DiagnosticsAssumption == MaxOptions \in Nat

VARIABLES
    phase,          \* "options", "reset", "running" or "exited"
    options,        \* the number of options read
    trace_file,     \* main's variable
    resets          \* the writes that the reset has still to do

vars == <<phase, options, trace_file, resets, filesVars, traceVars>>

Init ==
    /\ FilesInit
    /\ TraceInit
    /\ phase = "options"
    /\ options = 0
    /\ trace_file = "stdout"
    /\ resets = 2

\* One more option in the loop on getopt_long.
Option ==
    /\ phase = "options"
    /\ options < MaxOptions
    /\ options' = options + 1
    /\ UNCHANGED resets

OptionTrace ==
    /\ Option
    /\ \E flag \in Flags : trace_add(flag)
    /\ UNCHANGED <<phase, trace_file, filesVars>>

OptionDebug ==
    /\ Option
    /\ \E name \in Names : add_debug_to(name)
    /\ UNCHANGED <<phase, trace_file, traceVars>>

\* The file of the trace, which perhaps cannot be opened.
OptionTraceFile ==
    /\ Option
    /\ \/ \E file \in TraceFiles : trace_file' = file /\ UNCHANGED phase
       \/ phase' = "exited" /\ UNCHANGED trace_file
    /\ UNCHANGED <<filesVars, traceVars>>

\* Help, or an option that is not known.
OptionExits ==
    /\ Option
    /\ phase' = "exited"
    /\ UNCHANGED <<trace_file, filesVars, traceVars>>

\* A slip: the processor is created before the file of the trace is set.
StartTooEarly ==
    /\ phase = "options"
    /\ phase' = "reset"
    /\ UNCHANGED <<options, trace_file, resets, filesVars, traceVars>>

\* After the options: gdb_init, arm_init, set_trace_file, memory_create, and
\* arm_create, whose reset writes cpsr and pc.
Start ==
    /\ phase = "options"
    /\ phase' = "reset"
    /\ set_trace_file(trace_file)
    /\ UNCHANGED <<options, trace_file, resets, filesVars>>

Reset ==
    /\ phase = "reset"
    /\ resets > 0
    /\ resets' = resets - 1
    /\ \E line \in Locations : Locate("write", line)
    /\ UNCHANGED <<phase, options, trace_file, filesVars>>

CreateThreads ==
    /\ phase = "reset"
    /\ resets = 0
    /\ Idle
    /\ phase' = "running"
    /\ UNCHANGED <<options, trace_file, resets, filesVars, traceVars>>

-----------------------------------------------------------------------------
\* The threads: an access, a command of the debugger, the state of the
\* processor after an instruction, or a debug message.
Running(action) ==
    /\ phase = "running"
    /\ search = NoSearch
    /\ action
    /\ UNCHANGED <<phase, options, trace_file, resets, filesVars>>

LocateAccess  == \E kind \in Kinds, line \in Locations : Running(Locate(kind, line))
TraceDisable  == Running(trace_disable)
TraceEnable   == Running(trace_enable)
TraceArmState == Running(trace_arm_state)

EvaluateAccess ==
    /\ phase \in {"reset", "running"}
    /\ Evaluate
    /\ UNCHANGED <<phase, options, trace_file, resets, filesVars>>

Debug ==
    /\ phase = "running"
    /\ Idle
    /\ \E name \in Names : StartSearch(name)
    /\ UNCHANGED <<phase, options, trace_file, resets, traceVars>>

Search ==
    /\ Searching
    /\ UNCHANGED <<phase, options, trace_file, resets, traceVars>>

Exited == phase = "exited" /\ UNCHANGED vars

Next ==
    \/ OptionTrace \/ OptionDebug \/ OptionTraceFile \/ OptionExits
    \/ Start \/ Reset \/ CreateThreads
    \/ LocateAccess \/ EvaluateAccess
    \/ TraceDisable \/ TraceEnable \/ TraceArmState
    \/ Debug \/ Search
    \/ Exited

\* A thread in a search goes on with it: there is nothing to wait for in it.
Spec == Init /\ [][Next]_vars /\ WF_vars(Search)

-----------------------------------------------------------------------------
TypeOK ==
    /\ FilesTypeOK
    /\ TraceTypeOK
    /\ phase \in {"options", "reset", "running", "exited"}
    /\ options \in 0..MaxOptions
    /\ trace_file \in {"stdout"} \cup TraceFiles
    /\ resets \in 0..2

\* Every line goes to the file of the last --trace-file, or to stdout when there
\* is none (arm_simulator.c:123), even the first ones, which the reset of the new
\* processor prints: the file is set before arm_create (arm_simulator.c:201).
LinesGoToTheFile ==
    \A line \in {lines.memory, lines.register} : line # NoLine => line.to = trace_file
==============================================================================
