--------------------------------- MODULE Trace ---------------------------------
(***************************************************************************)
(* trace.c under the macros of trace_location.h: each access to a register *)
(* or to memory is wrapped so that its file and line are on a stack while  *)
(* it prints its lines, and the commands of the debugger switch the trace  *)
(* off around their own accesses.                                          *)
(*                                                                         *)
(* A write to a register is (LOCATION, f(...), END_LOCATION), which fixes  *)
(* the order.  All the rest is (LOCATION, f(...) + END_LOCATION): C may    *)
(* evaluate END_LOCATION before the access, and even between the steps of  *)
(* an access that is an argument of f.                                     *)
(*                                                                         *)
(* Abstraction.  A location is a number.  Of the lines, the last of each   *)
(* kind is kept, with what the properties ask of it.                       *)
(***************************************************************************)
EXTENDS Integers, Sequences

CONSTANTS
    Locations,      \* the places of the source where accesses are made
    Addresses,      \* the addresses of words
    WordSize,       \* 4
    StackSize,      \* the entries of the stack of locations, 128
    TraceFiles      \* the files an option may send the trace to

ASSUME TraceAssumption ==
    /\ Locations \subseteq Nat
    /\ Addresses \subseteq Nat
    /\ WordSize \in Nat
    /\ StackSize \in Nat /\ StackSize >= 2
    /\ TraceFiles \cap {"none", "stdout"} = {}

VARIABLES
    enabled,        \* the switch
    trace_flags,    \* which kinds of lines are asked for
    stack,          \* the stack of locations, its top last
    last_address,   \* the address of the last traced access to memory
    output,         \* the file the lines go to, "none" before it is set
    lines,          \* the last line about memory, and about a register
    outer,          \* the access being evaluated
    inner           \* the access being evaluated as an argument of outer

traceVars == <<enabled, trace_flags, stack, last_address, output, lines,
               outer, inner>>

Flags == {"memory", "registers", "state", "position"}
Kinds == {"read", "write", "memory", "fetch"}
Call  == [kind : Kinds, line : Locations, called : BOOLEAN, ended : BOOLEAN]

NoCall == [kind |-> "none", line |-> 0, called |-> TRUE, ended |-> TRUE]
NoLine == [kind |-> "none", address |-> 0, sequential |-> FALSE,
           located |-> TRUE, to |-> "none"]

Idle == outer = NoCall /\ inner = NoCall

TraceInit ==
    /\ enabled = TRUE
    /\ trace_flags = {}
    /\ stack = <<>>
    /\ last_address = -1
    /\ output = "none"
    /\ lines = [memory |-> NoLine, register |-> NoLine]
    /\ outer = NoCall
    /\ inner = NoCall

trace_add(flag) ==
    /\ trace_flags' = trace_flags \cup {flag}
    /\ UNCHANGED <<enabled, stack, last_address, output, lines, outer, inner>>

set_trace_file(f) ==
    /\ output' = f
    /\ UNCHANGED <<enabled, trace_flags, stack, last_address, lines, outer, inner>>

\* The handlers of the debugger's commands switch the trace between accesses.
Switched(on) ==
    /\ Idle
    /\ enabled' = on
    /\ UNCHANGED <<trace_flags, stack, last_address, output, lines, outer, inner>>

trace_disable == Switched(FALSE)
trace_enable  == Switched(TRUE)

\* A slip: the location is pushed with the trace off, too.
PushedAlways(line) == Append(stack, line)

\* trace_start_location and trace_end_location
Pushed(line) == IF enabled THEN Append(stack, line) ELSE stack
Popped == IF enabled THEN SubSeq(stack, 1, Len(stack) - 1) ELSE stack

Located(kind, line) == [kind |-> kind, line |-> line, called |-> FALSE, ended |-> FALSE]

\* LOCATION, of an access on its own.
Locate(kind, line) ==
    /\ Idle
    /\ stack' = Pushed(line)
    /\ outer' = Located(kind, line)
    /\ UNCHANGED <<enabled, trace_flags, last_address, output, lines, inner>>

\* LOCATION, of a read of a register that is the value to be written.
LocateArgument(line) ==
    /\ outer.kind \in {"write", "memory"}
    /\ ~outer.called
    /\ inner = NoCall
    /\ stack' = Pushed(line)
    /\ inner' = Located("read", line)
    /\ UNCHANGED <<enabled, trace_flags, last_address, output, lines, outer>>

\* trace_print_location: what is printed, if anything, is the access's own line.
PrintsOwn(call) ==
    "position" \in trace_flags /\ stack # <<>> => stack[Len(stack)] = call.line

\* trace_memory and trace_register: the line, when it is asked for.
MemoryTraced   == enabled /\ "memory" \in trace_flags
RegisterTraced == enabled /\ "registers" \in trace_flags

MemoryLine(call, address) ==
    IF ~MemoryTraced THEN lines.memory
    ELSE [kind |-> call.kind, address |-> address,
          sequential |-> address = last_address + WordSize,
          located |-> PrintsOwn(call), to |-> output]

RegisterLine(call) ==
    IF ~RegisterTraced THEN lines.register
    ELSE [NoLine EXCEPT !.kind = call.kind, !.located = PrintsOwn(call), !.to = output]

\* A slip: the address is kept even when nothing is traced.
NotedAlways(address) == address

Noted(address) == IF MemoryTraced THEN address ELSE last_address

\* The access itself and what it prints; a fetch reads pc and writes it, too.
Traced(call, address) ==
    LET memory   == call.kind \in {"memory", "fetch"}
        register == call.kind \in {"read", "write", "fetch"}
    IN  /\ lines' = [memory   |-> IF memory THEN MemoryLine(call, address) ELSE lines.memory,
                     register |-> IF register THEN RegisterLine(call) ELSE lines.register]
        /\ last_address' = IF memory THEN Noted(address) ELSE last_address
        /\ UNCHANGED <<enabled, trace_flags, stack, output>>

PerformArgument ==
    /\ ~inner.called
    /\ \E address \in Addresses : Traced(inner, address)
    /\ inner' = [inner EXCEPT !.called = TRUE]
    /\ UNCHANGED outer

Perform ==
    /\ ~outer.called
    /\ inner = NoCall
    /\ \E address \in Addresses : Traced(outer, address)
    /\ outer' = [outer EXCEPT !.called = TRUE]
    /\ UNCHANGED inner

\* A slip: the macro of a read leaves its location on the stack.
EndArgumentLost ==
    /\ ~inner.ended
    /\ inner' = [inner EXCEPT !.ended = TRUE]
    /\ UNCHANGED <<enabled, trace_flags, stack, last_address, output, lines, outer>>

\* END_LOCATION: after the access, or at any time if C may evaluate it first.
EndArgument ==
    /\ ~inner.ended
    /\ stack' = Popped
    /\ inner' = [inner EXCEPT !.ended = TRUE]
    /\ UNCHANGED <<enabled, trace_flags, last_address, output, lines, outer>>

EndLocation ==
    /\ ~outer.ended
    /\ outer.kind = "write" => outer.called
    /\ stack' = Popped
    /\ outer' = [outer EXCEPT !.ended = TRUE]
    /\ UNCHANGED <<enabled, trace_flags, last_address, output, lines, inner>>

\* Both are done: the value is there.
ArgumentValue ==
    /\ inner # NoCall /\ inner.called /\ inner.ended
    /\ inner' = NoCall
    /\ UNCHANGED <<enabled, trace_flags, stack, last_address, output, lines, outer>>

Value ==
    /\ outer # NoCall /\ outer.called /\ outer.ended
    /\ outer' = NoCall
    /\ UNCHANGED <<enabled, trace_flags, stack, last_address, output, lines, inner>>

\* What follows the LOCATION of an access, to its value.
Evaluate ==
    \/ \E line \in Locations : LocateArgument(line)
    \/ PerformArgument \/ EndArgument \/ ArgumentValue
    \/ Perform \/ EndLocation \/ Value

\* trace_arm_state: arm_print_state reads the registers without the macros.
trace_arm_state ==
    /\ Idle
    /\ enabled /\ "state" \in trace_flags
    /\ lines' = [lines EXCEPT !.register =
                   RegisterLine([NoCall EXCEPT !.kind = "read"])]
    /\ UNCHANGED <<enabled, trace_flags, stack, last_address, output, outer, inner>>

-----------------------------------------------------------------------------
Outputs == {"none", "stdout"} \cup TraceFiles

Line == [kind : Kinds \cup {"none"}, address : Nat, sequential : BOOLEAN,
         located : BOOLEAN, to : Outputs]

TraceTypeOK ==
    /\ enabled \in BOOLEAN
    /\ trace_flags \subseteq Flags
    /\ stack \in Seq(Locations)
    /\ last_address \in Int
    /\ output \in Outputs
    /\ lines \in [memory : Line, register : Line]
    /\ outer \in Call \cup {NoCall}
    /\ inner \in Call \cup {NoCall}

\* Every location pushed is taken off the stack once, whatever the order of
\* evaluation and wherever the debugger's commands switch the trace off and on
\* in between: the stack has one entry per access in hand whose end is not
\* evaluated yet, so that it neither overflows nor goes below its bottom
\* (trace.c:57, trace.c:65).
Open(call) == IF call.ended THEN 0 ELSE 1
Balanced ==
    /\ Len(stack) = IF enabled THEN Open(outer) + Open(inner) ELSE 0
    /\ Len(stack) <= StackSize

\* With --trace-position, the line of a write to a register has the location of
\* that write, "the file and line at which the access has been performed"
\* (arm_simulator.c:128), even when the value written is itself read by a traced
\* access on another line.
WritesLocated == lines.register.kind = "write" => lines.register.located

\* A line reports its access as sequential exactly when it follows the address
\* of the line about memory before: what is accessed in between with the trace
\* off, by the debugger's commands, does not count (trace.c:86).
SequentialLines ==
    [][lines'.memory # lines.memory /\ lines.memory # NoLine =>
          (lines'.memory.sequential <=>
              lines'.memory.address = lines.memory.address + WordSize)]_traceVars
==============================================================================
