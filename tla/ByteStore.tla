------------------------------- MODULE ByteStore -------------------------------
(***************************************************************************)
(* What the loads, the stores and the commands of the debugger promise:    *)
(* one store of bytes and one file of registers, which the program and the *)
(* debugger see alike, a word being its bytes in the order of the target,  *)
(* and every access to them indivisible.                                   *)
(***************************************************************************)
EXTENDS StoreRequests

VARIABLES
    target,         \* the target is big endian
    mem,            \* the bytes
    reg,            \* the registers
    cpsr,           \* the status
    request,        \* what the debugger asks for
    answer          \* the last answer to it

storeVars == <<target, mem, reg, cpsr, request, answer>>

Init ==
    /\ target \in BOOLEAN
    /\ mem \in [Addresses -> Bytes]
    /\ reg \in [Regs -> Word]
    /\ cpsr \in Word
    /\ request = NoRequest
    /\ answer = NoAnswer

Cells(a, n)  == [i \in 1 .. n |-> mem[a + i - 1]]
Put(a, data) == [x \in Addresses |->
                    IF x >= a /\ x < a + Len(data) THEN data[x - a + 1] ELSE mem[x]]

-----------------------------------------------------------------------------
\* Only pc changes when an instruction is fetched.
Fetch ==
    /\ reg' \in [Regs -> Word]
    /\ \A r \in Regs \ {PC} : reg'[r] = reg[r]
    /\ UNCHANGED <<target, mem, cpsr, request, answer>>

\* A load, of a word or of a byte.
Load(rd, a) ==
    /\ \/ reg' = [reg EXCEPT ![rd] = mem[a]]
       \/ /\ a + WordBytes <= MemSize
          /\ reg' = [reg EXCEPT ![rd] = Number(Cells(a, WordBytes), target)]
    /\ UNCHANGED <<target, mem, cpsr, request, answer>>

\* A store of a register, or of pc as an instruction reads it.
Store(rd, a) ==
    /\ \E w \in Word :
          /\ rd # PC => w = reg[rd]
          /\ \/ mem' = Put(a, <<Byte(w)>>)
             \/ a + WordBytes <= MemSize /\ mem' = Put(a, Digits(w, target))
    /\ UNCHANGED <<target, reg, cpsr, request, answer>>

Ask ==
    /\ request = NoRequest
    /\ request' \in Requests
    /\ UNCHANGED <<target, mem, reg, cpsr, answer>>

Answered(kind, bytes) ==
    /\ answer' = [kind |-> kind, bytes |-> bytes]
    /\ request' = NoRequest
    /\ UNCHANGED target

-----------------------------------------------------------------------------
ReadMemory ==
    /\ request.op = "m"
    /\ request.n > 0 => request.a + request.n <= MemSize
    /\ Answered("bytes", Cells(request.a, request.n))
    /\ UNCHANGED <<mem, reg, cpsr>>

WriteMemory ==
    /\ request.op = "X"
    /\ IF request.a \in Addresses
       THEN /\ request.a + Len(request.data) <= MemSize
            /\ mem' = Put(request.a, request.data)
            /\ Answered("OK", <<>>)
       ELSE /\ Answered("E02", <<>>)
            /\ UNCHANGED mem
    /\ UNCHANGED <<reg, cpsr>>

\* A register as the debugger sees it: pc without its bit 1.
Shown(r) == Digits(IF r = PC THEN reg[PC] - 2 * Bit(reg[PC], 1) ELSE reg[r], target)

\* Not the register asked for, when its number is 10 or more: the decimal digits
\* of a number in hexadecimal are another one, r0 for each of r10 to r15.
ReadRegister ==
    /\ request.op = "p"
    /\ atoi(request.r) \in Regs
    /\ Answered("bytes", Shown(atoi(request.r)))
    /\ UNCHANGED <<mem, reg, cpsr>>

WriteRegister ==
    /\ request.op = "P"
    /\ request.r \in Regs
    /\ reg' = [reg EXCEPT ![request.r] = request.w]
    /\ Answered("OK", <<>>)
    /\ UNCHANGED <<mem, cpsr>>

ReadRegisters ==
    /\ request.op = "g"
    /\ Answered("bytes", Dump([r \in Regs |-> Shown(r)], Digits(cpsr, target)))
    /\ UNCHANGED <<mem, reg, cpsr>>

WriteRegisters ==
    /\ request.op = "G"
    /\ reg' = request.regs
    /\ cpsr' = request.cpsr
    /\ Answered("OK", <<>>)
    /\ UNCHANGED mem

Next ==
    \/ Fetch
    \/ \E rd \in Regs, a \in Addresses : Load(rd, a) \/ Store(rd, a)
    \/ Ask
    \/ ReadMemory \/ WriteMemory
    \/ ReadRegister \/ WriteRegister \/ ReadRegisters \/ WriteRegisters

Spec == Init /\ [][Next]_storeVars
==============================================================================
