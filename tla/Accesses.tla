------------------------------- MODULE Accesses -------------------------------
(***************************************************************************)
(* The accesses to registers and memory: LDR, LDRB, STR and STRB of the    *)
(* program (arm_load_store), and the commands m, X, p, P, g and G of the   *)
(* debugger (gdb_protocol.c), one at a time under the lock, over the bytes *)
(* of memory.c in the order of the target.                                 *)
(*                                                                         *)
(* Abstraction.  The bits of an instruction are chosen when the code first *)
(* looks at them; its condition is not among them, as nothing depends on   *)
(* it.  A pair of hexadecimal digits is a byte.  The mode is USR.          *)
(***************************************************************************)
EXTENDS StoreRequests

CONSTANTS
    Images,         \* what memory holds at first
    Files,          \* what the registers hold at first
    Offsets,        \* the immediate offsets
    Escape, Flip,   \* the escape of binary data, 0x7d, and what follows it
                    \* is combined with, 0x20
    Escaped,        \* the bytes that the debugger escapes
    MaxPacket,      \* MAX_PACKET_SIZE
    MaxOps          \* bound: the number of instructions and commands

ASSUME AccessesAssumption ==
    /\ Images \subseteq [Addresses -> Bytes]
    /\ Files \subseteq [Regs -> Word]
    /\ Offsets \subseteq Word
    /\ Escape \in Escaped /\ Escaped \subseteq Bytes /\ Flip \in Bytes
    /\ MaxPacket \in Nat /\ MaxOps \in Nat
    /\ 2 * DumpLength + 5 <= MaxPacket

VARIABLES
    target,         \* the simulator is built big endian
    host,           \* it runs on a big endian machine
    octets,         \* mem->octets
    before,         \* octets when the command in hand began
    regs,           \* the registers
    cpsr,           \* the status
    at,             \* where the code is
    base,           \* the value of the base register
    index,          \* the offset: its class, what it is made of, its value
    address,        \* the address of the access in hand
    request,        \* the command in hand
    content,        \* the binary data that is left
    size,           \* the bytes that are left to read or write
    packet,         \* the bytes in the packet buffer
    reply,          \* the last packet sent
    ops             \* the number of instructions and commands

vars == <<target, host, octets, before, regs, cpsr, at, base, index, address,
          request, content, size, packet, reply, ops>>
machine == <<target, host>>
command == <<request, content, size, packet, before>>
instruction == <<base, index>>

NoIndex == [class |-> "none", x |-> 0, shift |-> LSL, amount |-> 0, value |-> 0]

Init ==
    /\ target \in BOOLEAN /\ host \in BOOLEAN
    /\ octets \in Images
    /\ before = octets
    /\ regs \in Files
    /\ cpsr \in {0, 2 ^ (W - 3)}
    /\ at = "idle"
    /\ base = 0
    /\ index = NoIndex
    /\ address = 0
    /\ request = NoRequest
    /\ content = <<>>
    /\ size = 0
    /\ packet = <<>>
    /\ reply = NoAnswer
    /\ ops = 0

\* Bit 29 of cpsr.
CarryFlag == Bit(cpsr, W - 3)

arm_read_register(r) == IF r = PC THEN And(Wrap(regs[PC] + 4), Not(2)) ELSE regs[r]

-----------------------------------------------------------------------------
(* memory.c: the test of the address is always true, and an access past the *)
(* end of the allocated bytes is undefined.                                 *)

Allocated(a, n) == a + n <= MemSize

memory_read_word(a) ==
    IF target
    THEN MapThenSumSet(LAMBDA i : octets[a + i] * Base ^ (WordBytes - 1 - i),
                       0 .. WordBytes - 1)
    ELSE MapThenSumSet(LAMBDA i : octets[a + i] * Base ^ i, 0 .. WordBytes - 1)

memory_write_byte(a, v) == [octets EXCEPT ![a] = Byte(v)]

memory_write_word(a, v) ==
    [x \in Addresses |->
        IF x \notin a .. a + WordBytes - 1 THEN octets[x]
        ELSE IF target THEN Byte(v \div Base ^ (a + WordBytes - 1 - x))
        ELSE Byte(v \div Base ^ (x - a))]

-----------------------------------------------------------------------------
(* The program. *)

\* arm_fetch, and the reading of the base register.
Fetch(rn) ==
    /\ at = "idle" /\ request = NoRequest
    /\ ops < MaxOps
    /\ ops' = ops + 1
    /\ at' = "index"
    /\ regs' = [regs EXCEPT ![PC] = arm_read_register(PC)]
    /\ base' = IF rn = PC THEN And(Wrap(regs'[PC] + 4), Not(2)) ELSE regs[rn]
    /\ UNCHANGED <<machine, octets, cpsr, index, address, command, reply>>

Indexed(class, x, shift, amount, value) ==
    /\ at = "index"
    /\ at' = "address"
    /\ index' = [class |-> class, x |-> x, shift |-> shift, amount |-> amount,
                 value |-> value]
    /\ UNCHANGED <<machine, octets, regs, cpsr, base, address, command, reply, ops>>

Immediate(offset) == Indexed("immediate", offset, LSL, 0, offset)

Register(rm) ==
    Indexed("register", arm_read_register(rm), LSL, 0, arm_read_register(rm))

\* A slip: RRX, which is encoded as a rotation by 0, is taken for one.
ScaledNoRRX(x, shift, amount) ==
    CASE shift = LSL -> lsl(x, amount)
      [] shift = LSR -> IF amount = 0 THEN 0 ELSE lsr(x, amount)
      [] shift = ASR -> IF amount = 0 THEN Signs(x) ELSE asr(x, amount)
      [] shift = ROR -> ror(x, amount)

Scaled(x, shift, amount) ==
    CASE shift = LSL -> lsl(x, amount)
      [] shift = LSR -> IF amount = 0 THEN 0 ELSE lsr(x, amount)
      [] shift = ASR -> IF amount = 0 THEN Signs(x) ELSE asr(x, amount)
      [] shift = ROR -> IF amount = 0 THEN Or(lsl(CarryFlag, W - 1), lsr(x, 1))
                                      ELSE ror(x, amount)

\* A shift by 0 of LSL is the class of the register offset.
ScaledRegister(rm, shift, amount) ==
    /\ shift # LSL \/ amount # 0
    /\ Indexed("scaled", arm_read_register(rm), shift, amount,
               Scaled(arm_read_register(rm), shift, amount))

\* Bit 4 of a register class set: no branch of the code computes an address.
NoClass == Indexed("none", 0, LSL, 0, 0)

\* The address for P, W and U, the bits 24, 21 and 23; it is not assigned, and
\* has any value, when P is clear and W set, or without a class.
Effective(p, wb, u) ==
    IF index.class = "none" \/ (p = 0 /\ wb = 1) THEN Word
    ELSE IF p = 0 THEN {base}
    ELSE IF u = 1 THEN {Wrap(base + index.value)}
    ELSE {Wrap(base - index.value)}

\* The base moved by the offset is only a local variable.
Address(p, wb, u) ==
    /\ at = "address"
    /\ at' = "transfer"
    /\ address' \in Effective(p, wb, u)
    /\ base' = 0 /\ index' = NoIndex
    /\ UNCHANGED <<machine, octets, regs, cpsr, command, reply, ops>>

Undefined ==
    /\ at' = "undefined"
    /\ UNCHANGED <<machine, octets, regs, cpsr, instruction, address, command, reply, ops>>

Load(rd, value) ==
    /\ regs' = [regs EXCEPT ![rd] = value]
    /\ at' = "idle" /\ address' = 0
    /\ UNCHANGED <<machine, octets, cpsr, instruction, command, reply, ops>>

Store(m) ==
    /\ octets' = m /\ before' = m
    /\ at' = "idle" /\ address' = 0
    /\ UNCHANGED <<machine, regs, cpsr, instruction, request, content, size, packet,
                   reply, ops>>

TransferWord(l, rd) ==
    /\ at = "transfer"
    /\ IF ~Allocated(address, WordBytes) THEN Undefined
       ELSE IF l = 1 THEN Load(rd, memory_read_word(address))
       ELSE Store(memory_write_word(address, arm_read_register(rd)))

TransferByte(l, rd) ==
    /\ at = "transfer"
    /\ IF ~Allocated(address, 1) THEN Undefined
       ELSE IF l = 1 THEN Load(rd, octets[address])
       ELSE Store(memory_write_byte(address, arm_read_register(rd)))

Program ==
    \/ \E rn \in Regs : Fetch(rn)
    \/ \E offset \in Offsets : Immediate(offset)
    \/ \E rm \in Regs : Register(rm)
    \/ \E rm \in Regs, shift \in Shifts, amount \in 0 .. W - 1 :
          ScaledRegister(rm, shift, amount)
    \/ NoClass
    \/ \E p, wb, u \in {0, 1} : Address(p, wb, u)
    \/ \E l \in {0, 1}, rd \in Regs : TransferWord(l, rd) \/ TransferByte(l, rd)

-----------------------------------------------------------------------------
(* The debugger: what it sends, and the handlers. *)

\* The bytes of X as the debugger encodes them.
Xor(x, y) == WordOf[(BitsOf[x] \cup BitsOf[y]) \ (BitsOf[x] \cap BitsOf[y])]
Encoded(data) ==
    FlattenSeq([i \in 1 .. Len(data) |->
        IF data[i] \in Escaped THEN <<Escape, Xor(data[i], Flip)>> ELSE <<data[i]>>])

Ask ==
    /\ at = "idle" /\ request = NoRequest
    /\ ops < MaxOps
    /\ ops' = ops + 1
    /\ request' \in Requests
    /\ UNCHANGED <<machine, octets, before, regs, cpsr, at, instruction, address,
                   content, size, packet, reply>>

\* The pair of digits that the loops of read_uint32 and write_uint32 put at the
\* place i of a word in the memory of the host, from 0.
Pair(i) == IF host = target THEN i + 1 ELSE WordBytes - i

HostWeight(i) == Base ^ (IF host THEN WordBytes - 1 - i ELSE i)

read_uint32(data) ==
    MapThenSumSet(LAMBDA i : data[Pair(i)] * HostWeight(i), 0 .. WordBytes - 1)

\* A slip: the bytes of the host are sent as they are.
write_as_is(v) == [k \in 1 .. WordBytes |-> Byte(v \div HostWeight(k - 1))]

write_uint32(v) ==
    [k \in 1 .. WordBytes |->
        LET i == CHOOSE j \in 0 .. WordBytes - 1 : Pair(j) = k
        IN  Byte(v \div HostWeight(i))]

\* gdb_send_buffer: the packet is one byte, '$', two per byte of the reply, '#',
\* the two digits of the checksum and a zero.
Send(kind, bytes) ==
    IF 2 * Len(bytes) + 5 > MaxPacket THEN Undefined
    ELSE /\ reply' = [kind |-> kind, bytes |-> bytes]
         /\ request' = NoRequest
         /\ at' = "idle" /\ address' = 0
         /\ content' = <<>> /\ size' = 0 /\ packet' = <<>>
         /\ before' = octets'
         /\ UNCHANGED <<machine, instruction, ops>>

\* The pc is one instruction in advance.
ForDebugger(r) == Wrap(arm_read_register(r) - (IF r = PC THEN 4 ELSE 0))

read_general_registers ==
    /\ at = "idle" /\ request.op = "g"
    /\ UNCHANGED <<octets, regs, cpsr>>
    /\ Send("bytes", Dump([r \in Regs |-> write_uint32(ForDebugger(r))],
                          write_uint32(cpsr)))

\* The word number i of the packet of G.
WordAt(data, i) == read_uint32(SubSeq(data, i * WordBytes + 1, (i + 1) * WordBytes))

write_general_registers ==
    /\ at = "idle" /\ request.op = "G"
    /\ LET data == Dump([r \in Regs |-> Digits(request.regs[r], target)],
                        Digits(request.cpsr, target))
       IN  /\ regs' = [r \in Regs |-> WordAt(data, r)]
           /\ cpsr' = WordAt(data, NRegs + FloatWords)
    /\ UNCHANGED octets
    /\ Send("OK", <<>>)

\* The assertion on the number of a register ends the process.
Abort ==
    /\ at' = "aborted"
    /\ UNCHANGED <<machine, octets, regs, cpsr, instruction, address, command, reply, ops>>

read_register ==
    /\ at = "idle" /\ request.op = "p"
    /\ IF atoi(request.r) \notin Regs THEN Abort
       ELSE /\ UNCHANGED <<octets, regs, cpsr>>
            /\ Send("bytes", write_uint32(ForDebugger(atoi(request.r))))

write_register ==
    /\ at = "idle" /\ request.op = "P"
    /\ IF request.r \notin Regs THEN Abort
       ELSE /\ regs' = [regs EXCEPT ![request.r] =
                           read_uint32(Digits(request.w, target))]
            /\ UNCHANGED <<octets, cpsr>>
            /\ Send("OK", <<>>)

read_memory ==
    /\ at = "idle" /\ request.op = "m"
    /\ at' = "read"
    /\ address' = request.a /\ size' = request.n
    /\ UNCHANGED <<machine, octets, before, regs, cpsr, instruction, request, content,
                   packet, reply, ops>>

\* A slip: one byte more than the size is read.
ReadByteTooFar ==
    /\ at = "read"
    /\ size >= 0
    /\ IF ~Allocated(address, 1) THEN Undefined
       ELSE /\ packet' = Append(packet, octets[address])
            /\ address' = Wrap(address + 1) /\ size' = size - 1
            /\ UNCHANGED <<machine, octets, before, regs, cpsr, at, instruction,
                           request, content, reply, ops>>

ReadByte ==
    /\ at = "read"
    /\ size > 0
    /\ IF ~Allocated(address, 1) THEN Undefined
       ELSE /\ packet' = Append(packet, octets[address])
            /\ address' = Wrap(address + 1) /\ size' = size - 1
            /\ UNCHANGED <<machine, octets, before, regs, cpsr, at, instruction,
                           request, content, reply, ops>>

ReadEnds ==
    /\ at = "read"
    /\ size <= 0
    /\ UNCHANGED <<octets, regs, cpsr>>
    /\ Send("bytes", packet)

\* Only the first address is compared with the size of the memory.
write_memory_binary ==
    /\ at = "idle" /\ request.op = "X"
    /\ IF request.a < MemSize
       THEN /\ at' = "write"
            /\ address' = request.a /\ size' = Len(request.data)
            /\ content' = Encoded(request.data)
            /\ UNCHANGED <<machine, octets, before, regs, cpsr, instruction, request,
                           packet, reply, ops>>
       ELSE /\ UNCHANGED <<octets, regs, cpsr>>
            /\ Send("E02", <<>>)

WriteByte ==
    /\ at = "write"
    /\ size > 0
    /\ LET escaped == content[1] = Escape
           value   == IF escaped THEN Xor(content[2], Flip) ELSE content[1]
       IN  IF ~Allocated(address, 1) THEN Undefined
           ELSE /\ octets' = memory_write_byte(address, value)
                /\ content' = SubSeq(content, IF escaped THEN 3 ELSE 2, Len(content))
                /\ address' = Wrap(address + 1) /\ size' = size - 1
                /\ UNCHANGED <<machine, before, regs, cpsr, at, instruction, request,
                               packet, reply, ops>>

WriteEnds ==
    /\ at = "write"
    /\ size = 0
    /\ UNCHANGED <<octets, regs, cpsr>>
    /\ Send("OK", <<>>)

Debugger ==
    \/ Ask
    \/ read_general_registers \/ write_general_registers
    \/ read_register \/ write_register
    \/ read_memory \/ ReadByte \/ ReadEnds
    \/ write_memory_binary \/ WriteByte \/ WriteEnds

\* The bound is reached, or the process is lost.
Terminating ==
    /\ at \in {"undefined", "aborted"} \/ (at = "idle" /\ request = NoRequest /\ ops = MaxOps)
    /\ UNCHANGED vars

Next == Program \/ Debugger \/ Terminating

Spec == Init /\ [][Next]_vars

-----------------------------------------------------------------------------
TypeOK ==
    /\ target \in BOOLEAN /\ host \in BOOLEAN
    /\ octets \in [Addresses -> Bytes] /\ before \in [Addresses -> Bytes]
    /\ regs \in [Regs -> Word] /\ cpsr \in Word
    /\ at \in {"idle", "index", "address", "transfer", "read", "write",
               "undefined", "aborted"}
    /\ base \in Word /\ address \in Word
    /\ index \in [class : {"none", "immediate", "register", "scaled"}, x : Word,
                  shift : Shifts, amount : 0 .. W - 1, value : Word]
    /\ IsRequest(request)
    /\ content \in Seq(Bytes) /\ packet \in Seq(Bytes)
    /\ size \in Nat
    /\ reply \in [kind : {"none", "bytes", "OK", "E02"}, bytes : Seq(0 .. Base)]
    /\ ops \in 0 .. MaxOps

Signed(x) == IF Top(x) = 1 THEN x - Size ELSE x

\* The scaled offset is what its encoding stands for, read as numbers: amounts of
\* 0 are LSR #32, ASR #32 and RRX (arm_load_store.c:134-157, and twice more), and
\* pre- and post-indexed addresses are the base with and without the offset.
OffsetAsEncoded ==
    at = "address" /\ index.class # "none" =>
        LET x == index.x
            n == index.amount
            z == index.value
        IN  /\ CASE index.shift = LSL -> z = (x * 2 ^ n) % Size
                 [] index.shift = LSR -> z = IF n = 0 THEN 0 ELSE x \div 2 ^ n
                 [] index.shift = ASR -> Signed(z) = Signed(x) \div 2 ^ (IF n = 0 THEN W ELSE n)
                 [] index.shift = ROR /\ n = 0 -> z = (CarryFlag * Size + x) \div 2
                 [] index.shift = ROR /\ n > 0 -> (z * 2 ^ n) % Ones = x % Ones
            /\ \A u \in {0, 1}, a \in Word :
                  /\ a \in Effective(1, 0, u) <=>
                        (IF u = 1 THEN a - z ELSE a + z) % Size = base
                  /\ Effective(1, 0, u) = Effective(1, 1, u)
                  /\ a \in Effective(0, 0, u) <=> a = base

\* The program stays defined, and keeps within the memory and the packet buffer,
\* unless it is asked for what is not there: the debugger names bytes past the
\* end of the memory (memory.c:48), or more of them than a packet has room for
\* (gdb_protocol.c:248), or the address of an instruction is.  And only a number
\* of a register that does not exist ends it (gdb_protocol.c:258, :363).
StopsOnlyWhenAsked ==
    /\ at = "undefined" =>
          \/ request.op = "m" /\ (request.a + request.n > MemSize
                                  \/ 2 * request.n + 5 > MaxPacket)
          \/ request.op = "X" /\ request.a < MemSize
                              /\ request.a + Len(request.data) > MemSize
          \/ request = NoRequest /\ \E n \in {1, WordBytes} : ~Allocated(address, n)
    /\ at = "aborted" => request.op \in {"p", "P"} /\ request.r >= NRegs

\* Every load, store and command is an indivisible access to one store of bytes,
\* whatever the order of bytes of the simulator and of its host: the debugger and
\* the program see the same words.
seen == IF at \in {"write", "undefined"} THEN before ELSE octets
Shared == INSTANCE ByteStore WITH mem <- seen, reg <- regs, answer <- reply
OneStore == Shared!Spec
==============================================================================
