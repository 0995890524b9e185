# Verification of the ARM simulator

TLA+ models, TLC configurations and TLAPS proofs for the ARMv5 instruction set
simulator of this repository (`arm_simulator-1.4/`).  The simulator is one
process that gdb drives through its remote protocol and that a small program,
`send_irq`, interrupts.

## 1. The system

### Components, their state, their operations

| Component | Source | State | Operations |
| --- | --- | --- | --- |
| Process, threads, lock | `arm_simulator.c` | `shared_data` (memory, processor, mutex, ports) | main creates two threads, joins one, frees the processor; `gdb_listener` accepts one debugger; `irq_listener` accepts interrupt senders for ever |
| Commands of the debugger | `gdb_protocol.c` | `target_exception`, last packet, handler table | the twelve handlers `c k q g m p ? H s G X P`, checksum, acknowledgement, transmission |
| Packet scanner | `scanner.l`, `scanner.c` | buffer of invalid bytes; buffer and position of the generated automaton | five rules: `+`, `-`, packet, any other byte, end of file; match, back up, read more, grow, end |
| Instruction cycle | `arm_instruction.c`, `arm_exception.c`, `arm_core.c` | cycle count | fetch, condition, dispatch, exception |
| Branch, SWI, status moves | `arm_branch_other.c` | none | `arm_branch`, `arm_coprocessor_others_swi`, `arm_miscellaneous` |
| Data processing | `arm_data_processing.c`, `util.c` | none | sixteen operations, shifter operand, flags |
| Loads and stores | `arm_load_store.c` | none | LDR/STR, LDM/STM, LDRH/STRH |
| Register file | `registers.c` | 37 registers, mode | read, write, by mode |
| Memory | `memory.c` | bytes, size, byte order | create, destroy, read and write of 1, 2, 4 bytes |
| Trace | `trace.c`, `trace_location.h` | switch, location stack, last address | enable, disable, locations, lines |
| Interrupt sender | `send_irq.c` | none | connect, one byte, close |
| Debug messages | `debug.c` | sorted table of file names | add, search |
| Names, start-up | `arm_constants.c`, `arm.c` | tables | none |
| Wrapper library, memory test, build, examples | `csapp.c`, `memory_test.c`, ... | none of the simulator's own | none |

### How they interact

    gdb  <--- bytes --->  scanner --> packet analysis --> [lock] handler [unlock]
                                                              |
                                                    processor, memory, trace
                                                              |
    send_irq --- byte --->  irq thread  -----------> [lock] arm_exception [unlock]
    main: create threads; join(gdb); destroy processor and memory; return

The debugger's thread and the interrupt thread share the processor, the memory,
the trace switch and one mutex.  Main shares the processor's lifetime with both
and synchronises with the first only.  The scanner and the debugger exchange
packets and unnumbered acknowledgements in both directions.

### What is hard

* **Interleaving.**  `RESET` is two writes, a register dump many reads, `cont`
  looks at a word that `arm_step` fetches again; all rely on one mutex.
* **Liveness.**  The mutex is held during the whole handler, and `cont` is a
  loop that ends at a breakpoint.
* **Lifetime.**  Main frees the processor while the interrupt thread lives.
* **Unreliable delivery.**  Packets may be damaged, acknowledgements carry no
  number, and a `-` may be sent for bytes of no packet.
* **Pieces.**  `read()` cuts packets anywhere; the scanner must neither lose a
  byte nor wait for one that the debugger will not send.
* **Boundaries.**  Modular addresses, the buffer of invalid bytes, the packet
  buffer, the end of the memory, the byte orders of the target and of the host,
  the table of names, word arithmetic, flags.
* **Order of evaluation.**  The trace pushes and pops locations inside one C
  expression whose operands C may evaluate in any order.

`PROJECT.json` lists each hazard at its line, with the properties that watch it.

### What makes each component correct

* Process and commands: mutual exclusion; operations of the debugger, of
  instructions and of interrupts are indivisible; breakpoints stop the program
  and are never executed; the trace is complete; every command is answered and
  the process ends after the debugger.
* Link: each command executed once, in order, with its own reply, as far as the
  protocol can promise it, and bounded trouble beyond.
* Scanner: the tokens are those of the rules, however the bytes arrive; the
  automaton stays in its buffer, and waits only for what it needs.
* Accesses: the program and the debugger see one store of bytes and registers;
  only a request for what is not there leaves the memory or the packet buffer.
* Diagnostics: the search finds the names given; each line of the trace has its
  place, its mark and its file; the stack of locations is balanced.
* Interpreter: results, shifter operand, flags and conditions as the comments of
  the source state them (`comments` shows fourteen that it does not meet); LDM and STM as indivisible transfers that respect their
  own assertions.

## 2. The modules

| Module | Role |
| --- | --- |
| `ArmStep` | one instruction as the threads see it: pc, status, memory word, exception (operators only) |
| `ArmTarget` | abstract specification: a processor with indivisible operations |
| `Simulator` | the process: three threads, the lock, the handlers, in the steps that may interleave |
| `MCSimulator` | programs and command sets for TLC |
| `SimulatorProofs` | theorems about `Simulator` |
| `GdbSession` | abstract specification: commands executed exactly once, each with its reply |
| `GdbLink` | scanner, acknowledgements and retransmission, with an external debugger and a bad line |
| `GdbLinkProofs` | types and buffer of `GdbLink`, what noise can do to it, and that it implements `GdbSession` without noise |
| `ArmAlu` | words, shifts, shifter operand, values and flags of the data-processing operations (operators only) |
| `DataProcessing` | the execution of one such instruction: fetch, condition, dispatch, operand, operation, flags |
| `ArmAluProofs` | lemmas about `ArmAlu`: powers of two, bits of words, shifts |
| `MCDataProcessing` | register values, flags and conditions for TLC |
| `DataProcessingProofs` | theorems about `DataProcessing` |
| `TransferWords` | addresses and register lists of LDM and STM (operators only) |
| `BlockTransfer` | abstract specification: an indivisible transfer |
| `LoadStoreMultiple` | LDM and STM, one register after the other; implements `BlockTransfer` |
| `LoadStoreMultipleProofs` | theorems about `LoadStoreMultiple` |
| `TokenRules` | the rules of `scanner.l` over classes of bytes (operators only) |
| `Tokens` | abstract specification: a text cut into the longest tokens the rules match |
| `Scanner` | the scanner flex generates, with its tables and its buffer; implements `Tokens` |
| `ScannerProofs` | theorems about `Scanner` |
| `ByteOrder` | words as bytes, in both orders (operators only) |
| `StoreRequests` | what the debugger asks of memory and registers (operators only) |
| `ByteStore` | abstract specification: one store of bytes and registers, with indivisible accesses |
| `Accesses` | LDR, LDRB, STR, STRB and the commands `m X p P g G`, byte by byte; implements `ByteStore` |
| `MCAccesses` | memory, registers and requests for TLC |
| `AccessesProofs` | theorems about `Accesses` |
| `DebugFiles` | the table of names of `debug.c` and its binary search |
| `Trace` | `trace.c` and the macros of `trace_location.h` |
| `Diagnostics` | `main` from its options to the threads, with `DebugFiles` and `Trace` |
| `DiagnosticsProofs` | theorems about `Diagnostics` |

`GdbLink` treats a command as one action, `Handle`; `Simulator` opens that action
and shows it indivisible; `ArmStep` gives `Simulator` the instructions by class;
`DataProcessing`, `LoadStoreMultiple` and `Accesses` open three of these classes.
`Scanner` opens the choice of a rule, which `GdbLink` takes as done, and `Accesses`
opens the handlers that `Simulator` shows to run alone.  `Diagnostics` covers what
comes before `Simulator`: its last phase is the threads, seen as their traced
accesses.

### `Simulator` and the code

`at[t]` is the program counter of thread `t`; a label is a place of the code
where another thread can fall.

| Code | Actions |
| --- | --- |
| `gdb_listener` | `GdbAccept`, then the scanner, `EndOfFile` |
| `gdb_packet_analysis` | `Analysis` (letter, handler or not), `GdbLock`, a handler, `GdbUnlock`; `SendEmpty` without a handler |
| `cont` | `Cont`, then per turn `Peek`, `Look`, `Fetch`, `Execute`; `Report` |
| `step` | `Step`, `Fetch`, `Execute`, `Report` |
| `read_general_registers` | `ReadGeneralRegisters`, `ReadCpsr` |
| `write_general_registers` | `WriteGeneralRegisters`, `WriteCpsr` |
| other handlers | one action each; `query` and `set_thread` are `Query` |
| `gdb_send_buffer`, `gdb_transmit_packet` | `Send` |
| `Rio_writen` on a closed side | `SigPipe` (the signal ends the process) |
| `irq_listener`, `arm_exception` | `IrqAccept`, `IrqRead`, `IrqLock`, `RaiseCpsr`, `RaisePc`, `IrqUnlock`, `IrqEndOfFile` |
| `main` from the joins on | `Join`, `Destroy`, `Return` |
| `exit(0)` of the end of the simulation | `ExecuteExits` |

`ArmTarget` has no threads: a command is asked (`Ask`) and done in one step that also
answers it, with the `G`, `P` or `X` exactly as asked; `s` executes one instruction,
and `c` one per step until the pc is on a breakpoint.  A stop reply tells the
exception of the last instruction executed, whichever command executed it, as the code
does.

After `Destroy`, an interrupt writes to freed memory: `RaiseCpsr`/`RaisePc` (the
write is lost on nobody, since nothing reads the processor any more) or
`RaiseCrashes`, a choice over what undefined behaviour can produce.  In the same
way the breakpoint's word, when `s` executes it, is a load from an address that
was never assigned: `Execute` or `ExecuteExits`.

### `GdbLink` and the code

A packet is known by the number of the command it carries or answers; the code
has no such numbers, they are there to state the properties.  `ok` tells whether
the packet fits its checksum.  The rules of `scanner.l` are `ReceiveAck`,
`Retransmit`, `PacketAnalysis` and `AddCharacterToError`; `handle_error` is part
of each, before anything else is sent.  `Handle` is the locked part, refined by
`Simulator`.  The debugger (`Send`, `AwaitAck`, `AwaitReply`, `Timeout`) is not
in the repository: it is the peer the simulator's code expects.  `Damage` changes
a byte inside a packet, `Garble` destroys the frame of a command (what remains is
invalid bytes and perhaps a `+` or `-`), `Interrupt` is the byte gdb sends to stop
a program, which no rule of the scanner knows.

### `DataProcessing` and the code

| Code | Definitions |
| --- | --- |
| `arm_fetch`, condition in `arm_decode` | `Fetch`, `condition_OK` |
| `write_shift_operand_sco` | `ShiftByImmediate`, `ShiftByRegister`, `NoShift`, `Rotate` |
| `lsl` ... `ror`, `shift_operation` | the same names |
| `and` ... `mvn` | `Value`, `FlagC`, `FlagV`; `Written` for those with a destination, `Compared` and `ComparedFlags` for the others |
| `update_flags`, `write_flags`, `carryFrom`, `borrowFrom`, `overflowFrom` | the same names |
| `select_operation` | `Operate`, `Compare`, `CompareExits` |
| `arm_miscellaneous`, and the case of `arm_decode` without a decoder | `Miscellaneous`, `NoDecoder` |

The bits of an instruction are chosen where the code looks at them, so that every
instruction of the class is covered.  The model follows the code where it
surprises: a shift other than LSL is given the number of the shift; `~` of a flag is
that of an int, or, kept in a byte, the value that means "unaffected"; a compare
hands its result to `write_flags` as a register number; `adc`, `sbc` and `rsc` read
their first operand again after the destination was written; a rotation by a
register whose low byte is a multiple of 32 (and not 0) tests the bit -1, which is
undefined, so that both carries are possible.  `arm_decode` never calls
`arm_load_store_miscellaneous`: LDRH, STRH and their like arrive here with bits 4
and 7 set and run as data processing with the operand 0 (`NoShift`).

### `LoadStoreMultiple` and the code

`Start` computes the two addresses, one action per turn of the loop follows
(`NotInList`, `Load`, `Store`), then `Assert`.  `Skip` is an instruction whose
condition fails.  LDM of r15 receives the return code of the read instead of the
word (`arm_load_store.c:326`): `Loaded` says so, and `BlockTransfer` with it.

### `Scanner` and the code

A byte is its class (`yy_ec`); the seven tables of `scanner.c` are copied as numbers.

| Code | Definitions |
| --- | --- |
| the loop of `yy_match`, with the note of the last accepting state | `Match`, `Transition`, `Note` |
| `yy_find_action`, the switch of the rules | `Found`, `Act` |
| the case of `YY_END_OF_BUFFER` | `Inside`, `DataNul`, `EndOfBuffer` |
| `yy_get_previous_state`, one turn of its loop a step | `ScanAgain`, `Rescan`, `Rescanned` |
| `yy_try_NUL_trans` | `NulTransition` |
| `yy_get_next_buffer` | `Grow`, `Read`, `LastMatch`, `EndOfFile`, `ReadFails` |
| `yyrestart`, `yy_flush_buffer` | `yy_flush_buffer` |

The two zeros that end the buffer are what `CharAt` returns past the last byte; a zero
of the input is told from them by its position alone, as in the code.  `Tokens` has no
buffer and no automaton: bytes arrive, and the longest token is cut once it is decided
or the connection has ended.

### `Accesses` and the code

An instruction is `Fetch`, then its offset (`Immediate`, `Register`,
`ScaledRegister`, or `NoClass` when bit 4 is set), its `Address`, and `TransferWord`
or `TransferByte`.  The handlers of `gdb_protocol.c` keep their names; the loops of
`read_memory` and `write_memory_binary` are one action per byte (`ReadByte`,
`WriteByte`).  `Send` holds the length of the packet against the packet buffer.

The model follows the code where it surprises: `memory.c` tests addresses with a
condition that is always true, so that an access past the end is undefined (`at` is
"undefined"); post-indexed addresses with W leave the address without a value
(`Effective` is then any word); `p` reads with `atoi` a number that gdb writes in
hexadecimal (`atoi`: `a` to `f` are 0, so that gdb is shown r0 for r10 to r15, and
`ByteStore` answers the same, since no text says otherwise); `p` and `P` of a register
above 15 end the process by an assertion; `X`
compares its first address alone with the size of the memory.  `Decimal` and the
number of registers stand for ten and sixteen.

### `Diagnostics` and the code

| Code | Definitions |
| --- | --- |
| `main`, options | `OptionTrace`, `OptionDebug`, `OptionTraceFile`, `OptionExits` |
| `main`, from `gdb_init` to the threads | `Start`, `Reset`, `CreateThreads` |
| `add_debug_to`, `__is_debugged` | `add_debug_to`; `StartSearch`, `Probe`, `LastProbe`, `EndSearch` |
| `LOCATION` before an access, `f(...)` itself, `END_LOCATION` after it | `Locate`, `Perform`, `EndLocation` |
| the same for a traced access that is an argument of `f` | `LocateArgument`, `PerformArgument`, `EndArgument` |
| `trace_memory`, `trace_register` | `MemoryLine`, `RegisterLine`, `Noted` |
| `trace_disable`, `trace_enable`, `trace_add`, `set_trace_file` | the same names |

The macro `f(...)+END_LOCATION` adds two operands: C does not say which of them is
evaluated first, so that a location may be popped before the access prints its line,
and an argument's location while the outer access is not yet called.  `Evaluate`
offers every such order.  A read may therefore print without its own location; a
write, whose macro separates by a comma, never.  `overrun` records that
`add_debug_to` wrote past its table, after which no search starts.

## 3. The runs

| Run | Question | Bounds |
| --- | --- | --- |
| `simulator` | is each command, instruction and RESET one step, answered in that step, the lock exclusive, the trace complete, breakpoints respected? | 5 words, 3 commands out of 18, 2 interrupts |
| `simulator_live` | is every command answered, every interrupt raised, does the process end? | 5 words, 3 commands out of 7, 2 interrupts; the program always reaches a breakpoint |
| `simulator_endless` | is the interrupt of a running program raised? No | 2 words, 2 commands, 1 interrupt |
| `link_quiet` | exactly once under damage | 5 commands, 4 damaged packets |
| `link_noisy` | what remains true with noise | 4 commands, 2 damaged packets, 2 bursts of up to 4 bytes, a buffer of 3 |
| `data_processing` | are shifts, results, N and Z right, and what exactly are C and V? | words of 4 bits, bytes of 3, 3 registers, values 0, 1, 8, 15 |
| `comments` | does one step of an instruction do what any of fourteen comments says? No | as `data_processing` |
| `block_transfer` | are LDM and STM indivisible, and do their assertions hold? | 3 registers, 3 words, every list, base, mode and content |
| `write_back` | does LDM or STM with W move its base? No | the same |
| `scanner` | are the tokens those of the rules, inside the buffer, and as soon as they are decided? | 6 bytes of 8 classes, a buffer of 3, reads of up to 2 |
| `accesses` | do program and debugger share one store, and what leaves it? | words of 4 bits and 2 bytes, 3 registers, 14 bytes of memory out of 16 addresses, packets of 13 bytes, 2 operations |
| `diagnostics` | names, search, lines and stack of the reports | 4 options, 4 names for a table of 3, 2 locations, 3 addresses |

Why the bounds are enough.  Two commands and one interrupt already produce each
race of two operations; the third command looks at the state they leave, and the
second interrupt meets an interrupt thread that has come back to its accept.  The
five words hold one instruction of each class that matters on the paths of
`cont`; `X` replaces any of three of them.  In the link, one noise shifts a reply
and two shift it twice; the buffer of 3 is filled and flushed by a burst of 4.

In `DataProcessing` the code depends on the width of a word through the constants
32, 31 and the word of ones only, which become `W`, `W - 1` and `Ones`.  With 4 bits
for a word and 3 for a byte, an amount in a register may be 0, below, at and above
the word size, and a compare may name a register or none; with 3 registers an
instruction may have its two operands and its destination all different, or any of
them equal or r15.  The register values are the least, the greatest and the least
signed word, and 1; operands take every value of a word.  In `LoadStoreMultiple`,
3 words for 3 registers let the full list cover the whole address space, and every
shorter list wrap around.

In `Scanner`, six bytes hold a whole packet with two bytes around or inside it, and
the buffer of 3 grows while a packet is in hand and is refilled in every position.  In
`Accesses`, two bytes per word tell the four orders apart, the memory is two bytes
shorter than the addresses, and one request reads more than a packet holds; the second
operation looks at what the first one left.  In `Diagnostics`, the fourth name overruns
the table of 3, the same name may come twice, `--trace-file` may name two files
(`TraceFiles`), of which the last must win, and no evaluation has more than the two
locations of the stack in hand.

Fairness.  `FairSpec` of `Simulator` asks weak fairness of each thread: the
scheduler of the system runs every thread that can run.  The mutex asks no more:
each thread takes it a bounded number of times.  Nothing is asked of the debugger
or of the senders.  `FairSpec` of `GdbLink` asks weak fairness of the simulator
and of the debugger, none of the troubles, which are bounded.  `Spec` of `Scanner` asks
that the thread computes (`Scan`), and goes on to the end once `read()` has returned 0;
it asks nothing of `read()` itself.  `Spec` of `Diagnostics` asks that a search that has
begun goes on, a loop of one thread.

Deadlock is checked in every run; the end of the process and the end of the
session are the explicit stuttering steps `Terminating`.

### Findings

Each is a run that TLC must find violated, because the code does not do what a
text of the repository says of it.

* `simulator_endless`: README:64 calls `send_irq` a "small command to send exception
to a running simulator", and the usage text (`arm_simulator.c:118`) says that the
simulator "can receive interrupts"; a program that runs under `cont` keeps the
lock, so that the interrupt waits until the program stops by itself
(`gdb_protocol.c:437`, `164`).
* `comments`: fourteen comments of the interpreter, each a definition of
  `DataProcessing`.  `SomeCommentHolds` says only that a step that executes an
  instruction keeps at least one of them; the step that refutes it refutes each of the
  fourteen.
  - `MinusAsCommented`, `LowerOrSameAsCommented`, `LessOrEqualAsCommented`: MI has no
    `break` and becomes PL, LS and LE join by `&&` what their comments join by "or"
    (`arm_instruction.c:47`, 61, 73);
  - `FailedConditionSkips`: a failed condition only prepares a result, which the
    dispatch overwrites (`arm_instruction.c:111`);
  - `ComparesTestTheResult`: `write_flags(p, alu_out, ...)` takes a result for a
    register number (`arm_data_processing.c:185`, 194, 204, 212);
  - `OverflowAsCommented`: for a sum, the test of the sign of the result is inverted
    (`arm_data_processing.c:84`);
  - `CarryAsCommented`: `max < x + y` is never true (line 66);
  - `BorrowAsCommented`, `ReverseBorrowAsCommented`: "no borrow", `~0`, is 0xFF in a
    byte, which is `UNAFFECTED` (line 48): sub, rsb, sbc, rsc and cmp clear C but never
    set it (lines 117, 128, 162, 173, 202), where lines 58-71 and 173 say that C is NOT
    the borrow;
  - `OverflowOfSubAsCommented`: sub asks for the overflow of a sum of its operands (line
    118), so that V tells three equal signs;
  - `LeftShiftByWordAsCommented`: LSL by a register that holds 32 puts bit 0 of Rm in
    the carry, where the comment of line 450 says Rm[31].  Here the code agrees with the
    instruction set and with `WideShifts`, and the comment is the one to correct;
  - `SubtractWithCarry`: sbc and rsc subtract `~C`, -1 or -2, where the comments say
    NOT(C) (lines 160 and 171);
  - `LogicalShiftByTheAmount`, `ArithmeticShiftByTheAmount`: `lsr(value, shift)` for
    `lsr(value, shift_amount)`, and the same for asr and ror (line 377).
* `write_back`: the moved base stays in a local variable (`arm_load_store.c:288`),
  although `Examples/example4.s:9` uses `ldmia r1!, {r6, r7}`.

Facts met while modelling and kept in the model: `cont` that stops at once reports
the exception of an older instruction; the two acknowledgement characters may come
in the wrong order, and then a command that is not a question is executed twice
(`link_noisy` bounds how often); a read of the memory of 510 bytes or more writes past
the packet buffer, and a read or write past the end of the memory past its allocation;
post-indexed LDR and STR with W use an address that was never assigned; a zero byte
outside of a packet is only cut when one more byte has come; the 65th name of
`--debug` is written past the table.

## 4. The proofs

All theorems hold for every value of the constants that satisfies the named
assumptions (`FilesAssumption`, `TraceAssumption`, `DiagnosticsAssumption`,
`AluAssumption`, `DataAssumption`, `BytesAssumption`, `RequestsAssumption`,
`AccessesAssumption`, `AlphabetAssumption`, `BufferAssumption`,
`MemWordsAssumption`, `ImageAssumption`, `CommandsAssumption`,
`BoundsAssumption`, `SizeAssumption`, `TransferAssumption`: sizes are naturals, the
image and the commands are well formed, there are at least as many words of
memory as registers, and the memory of `Accesses` is smaller than the addresses).

* `SimulatorProofs`.  `TypeCorrect` is proved first.  `MutualExclusion` is
  inductive as it stands, with the types.  The other invariants need more: what a
  thread knows at each label because the other is out (the word it looked at is
  still at the pc, the trace is off exactly between two labels, cpsr is already
  reset before r15, the command handled is of the label's kind).  That conjunction
  is the inductive invariant, and `TraceComplete`, `BreakpointNotExecuted`,
  `StopsOnBreakpoint`, `ResetIsComplete` and `DestroyedLast` follow from it.
  `Refines` shows that each step is a step of `ArmTarget` or none.  The mapping
  (`SeenCore`, `SeenCommand`, `SeenAnswer`) says when an operation takes effect: an
  instruction when it is executed, `RESET` and `G` at their first write, and the answer
  with the effect of the command, before its packet is sent.  A command is seen as open
  until it is settled (`Settled`); the lemmas `SeenOpen`, `SeenSent` and `SeenStays`
  say what is seen of it before, at and between those moments, and the invariant (`Known`)
  which command each label belongs to.
* `GdbLinkProofs`.  `TypeCorrect`, and `BufferSafe` for every size of the buffer.
  Under noise, `ExtraExecutionsBounded` counts what travels: the executions done, the
  commands on their way and the `-` on their way are together no more than the commands
  the debugger has begun and the reports.  That sum alone is not inductive: a timeout
  repeats the command, and one must know that the first one was not executed.  It was
  not, because the acknowledgements sent, less those still travelling, are between what
  the debugger has counted and that plus the reports (`Budget`, `Awaited`).
  `RepliesLagBounded` needs the order of what travels as well: a command on its way lags
  behind its rank by at most the reports (`Pipeline`), each reply on its way answers the
  command whose acknowledgement left just before it (`InOrder`), and the replies taken
  do the same (`Delivered`).
  Without noise the link is always in one of six phases
  (`Idle`, `Asked`, `Refused`, `Accepted`, `Answered`, `AskedAgain`), each of which
  fixes what travels; one lemma per phase shows that each step leads to a phase
  and is a step of the session or none.  `CommandsExactlyOnce` follows.
* `ScannerProofs`.  The tables are read into the transitions they stand for
  (`TransitionTable`, which the recursive definition is shown to have as its only value).
  `Live` gives, for the states that decide nothing, the text they have read; it holds
  for a text read by `yylex` and for one read again by `yy_get_previous_state`, so that
  a scan broken off by the end of the buffer or by a zero goes on where it was.  The
  invariant (`Scanned`) says it for each place of the code, with the accepting state
  kept since the `$`, which the backing up relies on.  From it follow `NeverOutOfBuffer`
  and `NeverWaits`, and the token found is the one of the rules (`TokenFound`): a text
  on which the automaton jams can become no packet (`StuckBecause`, `DecidedStuck`).
  `ScannerTokenises` maps the bytes not yet cut to the pending text of `Tokens`: a rule
  cuts, `read()` receives, its end closes, and nothing else is seen.
* `ArmAluProofs`.  The prover does not compute with `2 ^ i` for a variable `i`, and
  what a fold computes is not within its reach by induction.  The first is met by a
  table of the powers up to `2 ^ 32`, which is why words have at most 32 bits
  (`AluAssumption`); the second by the least element of a set of naturals, or by the
  least one of the sets of bits for which a statement fails (`LeastElement`,
  `LeastSubset`).  From them: a word is determined by its bits (`SameBits`), `WordOf` of
  a set of bits is the word that has them (`WordOfBits`), and hence what `And`, `Or`,
  `Eor` and `Not` do bit by bit, and that `Or` of words without a common bit is their
  sum (`OrIsSum`), on which rotations and arithmetic shifts rest.
* `DataProcessingProofs`.  The types are inductive, with `ValueType` and the lemmas on
  shifts for the results.  The other three invariants say of a state what the code
  would do in it, so that they follow from the types: `ShiftsAreWide` and
  `OperationsCompute` from the arithmetic of the lemmas above.  `OperationsCompute`
  covers the twelve operations that write a register; of sbc and rsc it states what the
  code computes (1 + C is added), which is not what the list of operations says.
  `FlagsAreTold` states C and V in both directions: no sum ever sets C (`CarryFlag`), a
  difference clears it on a borrow and else keeps it (`BorrowFlag`), and V is the sign of a
  signed difference out of range for rsb and cmp (`OverflowSigns`), and for the others
  the comparison of signs the code makes (`OverflowFlag`).  It does not claim that these
  are the flags of the instruction set: the run `comments` shows where they are not.
* `LoadStoreMultipleProofs`.  The invariant `Walk` says where the loop is: the
  address is the place of register i in the list, that is, the start plus the number
  of registers of the list below i, and the end address is one word before the place
  after the last.  It is what the assertion compares, which neither the types nor the
  assertion alone can carry from turn to turn.  `AssertionsNeverFail` follows, for
  every number of registers and words.  `TransfersIndivisible` maps a state inside
  the loop to the state with the transfers left done (`SeenRegs`, `SeenMem`): `Start`
  is the transfer, each turn changes nothing that is seen, because different
  registers of the list have different places, even when the addresses wrap around.
* `DiagnosticsProofs`.  The table is in order (`TableSorted`); the search keeps the
  name, if it was given, between `from` and `to`, and `SearchCorrect` is what remains
  when the two meet.  The names of the table are exactly those given as long as it was
  not overrun.  `StackBalanced` needs what may be in hand together (`Nested`): an argument
  only in an access not called yet, and a write whose own location is at the bottom of
  the stack until it has been called.  `WritesAtTheirPlace` uses it where a write
  prints: its argument is done, so that the bottom is also the top.
  `SequentialReported` needs that the last address is that of the last line.
* `AccessesProofs`.  A word and its bytes are compared as sets of bits: a byte times the
  power of its place has the bits of its place (`PlacedByte`), and a sum over places
  the bits of all its bytes, in whichever order the sum is taken (`SumOfBytes`).  So the
  sum of `memory_read_word` and the four loops of `read_uint32` are the number of the
  bytes in the order of the target (`MemoryNumber`, `ReadNumber`), and `ReadsBack` and
  `WritesInTargetOrder` follow for every number of bytes.  The escaped data of X
  hold their bytes one after the other (`Coded`), one of which is taken at each turn
  (`OneDecoded`).  The invariant says how far a command is: `Reading`, that the packet
  is the bytes of memory up to the address; `Writing`, that memory is what it was
  before with the bytes done put in it, and that the content is the code of the
  others.  `OnlyWhenAsked` and `TypeCorrect` are parts of it.  `AccessesIndivisible`
  shows the memory as it was before X until X ends; the last byte of X is the step of
  `ByteStore`, and every access past the end a stutter.  `OffsetsAsEncoded` needs that the
  offset is that of its encoding (`Computed`), and the arithmetic of shifts of
  `ArmAluProofs`.  The packet of all registers fits by an assumption on the
  sizes, which those of the code meet (341 of 1024).

The proof of `AccessesIndivisible` needs a memory smaller than the address space
(`MemSize \in 1 .. Size - 1` in `RequestsAssumption`): with a memory of all 2^32 bytes
an X past the last one would go on at address 0, and a read would return those
bytes.  The memory of the program has 0x20000 bytes (`arm_simulator.c:204`).

Every invariant, action property and refinement of the passing runs is a theorem.  Only
model-checked: liveness (`Answered`, `IrqServed`, `SessionEnds`, `Replied`,
`SearchEnds`, `Drains`), which is out of the prover's reach.

## 5. Not modelled

* The sockets: ports, listening, and the descriptors that `irq_listener` never closes
  (`arm_simulator.c:106`).  How many interrupts exhaust them depends on the limit of the
  system and on descriptors that no code of the simulator counts.
* The bits of an instruction that select its class, the offset of a branch and the link
  register: an instruction of the model comes with its class, its fields are chosen.
* What no run of the program reaches: modes other than the user mode, which the mode
  never leaves (`registers.c:78`), with their banked registers;
  `arm_load_store_miscellaneous` and the half words it would access; the functions
  of `scanner.c` for several buffers, `yyless` and `unput`.
* `memory_test.c`, a program of its own; `csapp.c`, a library of wrappers around
  system calls; the tables of names of `arm_constants.c`; the wording of messages; build
  files and examples.
* The composition of `Scanner`, `GdbLink`, `Simulator` and `Accesses` in one module.
  Each opens one action of the one before, which that one takes as indivisible; the
  lock and the single thread per connection, which `Simulator` checks, are what makes
  this sound.
