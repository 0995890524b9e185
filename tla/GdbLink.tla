------------------------------- MODULE GdbLink -------------------------------
(***************************************************************************)
(* The packets of the gdb remote protocol between the debugger and the     *)
(* simulator: the rules of scanner.l and the acknowledgements of           *)
(* gdb_protocol.c.  A command is known by its number and a reply by the    *)
(* number of the command it answers; what a command does to the processor  *)
(* is the business of module Simulator.                                    *)
(*                                                                         *)
(* The debugger is not part of the repository: it is modelled from what    *)
(* the simulator expects of it, and keeps to the protocol (one command at  *)
(* a time, a resend on '-', a '-' for a damaged reply).                    *)
(*                                                                         *)
(* Bounds: MaxCommands commands, MaxDamage packets damaged, MaxNoise       *)
(* bursts of bytes that belong to no packet.                               *)
(***************************************************************************)
EXTENDS Integers, Sequences

CONSTANTS MaxErrorSize,    \* MAX_ERROR_SIZE, the buffer of invalid bytes
          Burst,           \* the longest burst of invalid bytes
          MaxCommands, MaxDamage, MaxNoise

ASSUME SizeAssumption == MaxErrorSize \in Nat /\ MaxErrorSize >= 2
ASSUME BoundsAssumption == /\ Burst \in Nat /\ MaxCommands \in Nat
                           /\ MaxDamage \in Nat /\ MaxNoise \in Nat

\* What travels: acknowledgements, invalid bytes and packets.  ok tells whether
\* a packet fits its checksum.
Ack   == [kind |-> "+", number |-> 0, ok |-> TRUE]
Nak   == [kind |-> "-", number |-> 0, ok |-> TRUE]
Noise == [kind |-> ".", number |-> 0, ok |-> TRUE]
Packet(n) == [kind |-> "$", number |-> n, ok |-> TRUE]

Number == 1 .. MaxCommands
Token == {Ack, Nak, Noise} \cup [kind : {"$"}, number : Number, ok : BOOLEAN]

VARIABLES
    toStub,    \* from the debugger to the simulator, in order
    toClient,  \* from the simulator to the debugger, in order
    len,       \* parser_data.len: invalid bytes not reported yet
    stub,      \* the simulator: "scan", or "handle" after an acknowledgement
    current,   \* the command being handled
    last,      \* gdb->packet: the command of the last reply, 0 before it
    executed,  \* the commands executed, in order
    client,    \* the debugger: "idle", "awaitAck" or "awaitReply"
    command,   \* the number of its command
    replies,   \* the replies it has taken, in order
    damage,    \* packets damaged so far
    noise,     \* bursts of invalid bytes so far
    reports    \* '-' sent by handle_error so far

link == <<toStub, toClient>>
stubVars == <<len, stub, current, last, executed, reports>>
clientVars == <<client, command, replies>>
troubles == <<damage, noise>>
vars == <<link, stubVars, clientVars, troubles>>

Init == /\ toStub = <<>> /\ toClient = <<>>
        /\ len = 0 /\ stub = "scan" /\ current = 0 /\ last = 0
        /\ executed = <<>> /\ reports = 0
        /\ client = "idle" /\ command = 0 /\ replies = <<>>
        /\ damage = 0 /\ noise = 0
------------------------------------------------------------------------------
(* The simulator. *)

\* The scanner consumes its next token, of kind k.
Scan(k) == /\ stub = "scan"
           /\ toStub # <<>> /\ Head(toStub).kind = k
           /\ toStub' = Tail(toStub)

\* handle_error, before another token is handled: the invalid bytes are reported
\* by one '-', sent before what the handling of that token sends.
Report == IF len > 0 THEN <<Nak>> ELSE <<>>

HandleError == /\ reports' = IF len > 0 THEN reports + 1 ELSE reports
               /\ len' = 0

\* A slip: the bound of the buffer is off by one.
AddCharacterLate ==
    /\ Scan(".")
    /\ IF len > MaxErrorSize - 1
         THEN /\ toClient' = Append(toClient, Nak)
              /\ reports' = reports + 1
              /\ len' = 1
         ELSE /\ len' = len + 1
              /\ UNCHANGED <<toClient, reports>>
    /\ UNCHANGED <<stub, current, last, executed, clientVars, troubles>>

\* add_character_to_error: one more invalid byte; a full buffer is reported first.
AddCharacterToError ==
    /\ Scan(".")
    /\ IF len > MaxErrorSize - 2
         THEN /\ toClient' = Append(toClient, Nak)
              /\ reports' = reports + 1
              /\ len' = 1
         ELSE /\ len' = len + 1
              /\ UNCHANGED <<toClient, reports>>
    /\ UNCHANGED <<stub, current, last, executed, clientVars, troubles>>

\* "+"
ReceiveAck == /\ Scan("+")
              /\ HandleError /\ toClient' = toClient \o Report
              /\ UNCHANGED <<stub, current, last, executed, clientVars, troubles>>

\* A slip: a '-' is taken for the loss of the command.
RetransmitNothing ==
    /\ Scan("-")
    /\ HandleError /\ toClient' = toClient \o Report
    /\ UNCHANGED <<stub, current, last, executed, clientVars, troubles>>

\* "-": gdb_transmit_packet sends the last packet again, if there is one.
Retransmit == /\ Scan("-")
              /\ HandleError
              /\ toClient' = toClient \o Report
                              \o (IF last = 0 THEN <<>> ELSE <<Packet(last)>>)
              /\ UNCHANGED <<stub, current, last, executed, clientVars, troubles>>

\* A slip: the checksum is not looked at before the answer to a packet.
AnalysisNoChecksum ==
    /\ Scan("$")
    /\ HandleError /\ toClient' = toClient \o Report \o <<IF Head(toStub).ok THEN Ack ELSE Nak>>
    /\ stub' = "handle"
    /\ current' = Head(toStub).number
    /\ UNCHANGED <<last, executed, clientVars, troubles>>

\* gdb_packet_analysis: '+' and then the handler, or '-' for a wrong checksum.
PacketAnalysis ==
    /\ Scan("$")
    /\ \/ /\ Head(toStub).ok
          /\ HandleError /\ toClient' = toClient \o Report \o <<Ack>>
          /\ stub' = "handle"
          /\ current' = Head(toStub).number
       \/ /\ ~Head(toStub).ok
          /\ HandleError /\ toClient' = toClient \o Report \o <<Nak>>
          /\ UNCHANGED <<stub, current>>
    /\ UNCHANGED <<last, executed, clientVars, troubles>>

\* A slip: the buffer of the reply is read for the command.
HandleOldPacket == /\ stub = "handle"
                   /\ stub' = "scan"
                   /\ executed' = Append(executed, last)
                   /\ last' = current
                   /\ toClient' = Append(toClient, Packet(last))
                   /\ UNCHANGED <<toStub, len, current, reports, clientVars,
                                  troubles>>

\* The handler: the command is executed, its reply is built and transmitted.
Handle == /\ stub = "handle"
          /\ stub' = "scan"
          /\ executed' = Append(executed, current)
          /\ last' = current
          /\ toClient' = Append(toClient, Packet(current))
          /\ UNCHANGED <<toStub, len, current, reports, clientVars, troubles>>

Stub == \/ AddCharacterToError \/ ReceiveAck \/ Retransmit \/ PacketAnalysis
        \/ Handle
------------------------------------------------------------------------------
(* The debugger. *)

\* The next command, when the reply to the one before has been taken.
Send == /\ client = "idle" /\ command < MaxCommands
        /\ client' = "awaitAck"
        /\ command' = command + 1
        /\ toStub' = Append(toStub, Packet(command + 1))
        /\ UNCHANGED <<toClient, stubVars, replies, troubles>>

Resend == /\ toStub' = Append(toStub, Packet(command))
          /\ UNCHANGED <<stubVars, clientVars, troubles>>

Receive == toClient # <<>> /\ toClient' = Tail(toClient)

\* The acknowledgement; '-' asks for the command again; a packet that comes
\* instead is taken for an old reply, acknowledged and dropped.
AwaitAck ==
    /\ client = "awaitAck" /\ Receive
    /\ \/ /\ Head(toClient).kind = "+"
          /\ client' = "awaitReply"
          /\ UNCHANGED <<toStub, stubVars, command, replies, troubles>>
       \/ /\ Head(toClient).kind = "-"
          /\ Resend
       \/ /\ Head(toClient).kind = "$"
          /\ toStub' = Append(toStub, Ack)
          /\ UNCHANGED <<stubVars, clientVars, troubles>>

\* The reply; a damaged one is asked for again; anything else is skipped.
AwaitReply ==
    /\ client = "awaitReply" /\ Receive
    /\ \/ /\ Head(toClient).kind = "$" /\ Head(toClient).ok
          /\ client' = "idle"
          /\ replies' = Append(replies, Head(toClient).number)
          /\ toStub' = Append(toStub, Ack)
          /\ UNCHANGED <<stubVars, command, troubles>>
       \/ /\ Head(toClient).kind = "$" /\ ~Head(toClient).ok
          /\ toStub' = Append(toStub, Nak)
          /\ UNCHANGED <<stubVars, clientVars, troubles>>
       \/ /\ Head(toClient).kind # "$"
          /\ UNCHANGED <<toStub, stubVars, clientVars, troubles>>

\* No acknowledgement comes.  The simulator acknowledges before it waits for
\* anything, so the debugger's delay is over only when the link is silent.
Timeout == /\ client = "awaitAck"
           /\ toStub = <<>> /\ toClient = <<>> /\ stub = "scan"
           /\ Resend
           /\ UNCHANGED toClient

Client == Send \/ AwaitAck \/ AwaitReply \/ Timeout
------------------------------------------------------------------------------
(* The troubles. *)

Damaged(s, i) == [s EXCEPT ![i].ok = FALSE]

\* A packet on its way, in either direction, no longer fits its checksum.
Damage ==
    /\ damage < MaxDamage
    /\ \/ \E i \in 1 .. Len(toStub) :
            /\ toStub[i].kind = "$" /\ toStub' = Damaged(toStub, i)
            /\ UNCHANGED toClient
       \/ \E i \in 1 .. Len(toClient) :
            /\ toClient[i].kind = "$" /\ toClient' = Damaged(toClient, i)
            /\ UNCHANGED toStub
    /\ damage' = damage + 1
    /\ UNCHANGED <<stubVars, clientVars, noise>>

\* What the scanner sees of a packet without its frame: invalid bytes, among them
\* perhaps a '+' or a '-' of its contents, at position k.
Remains == {[i \in 1 .. n |-> IF i = k THEN t ELSE Noise] :
              n \in 1 .. Burst, k \in 0 .. Burst, t \in {Ack, Nak}}

\* A command loses its '$' or its '#'.
Garble == /\ noise < MaxNoise
          /\ toStub # <<>> /\ Head(toStub).kind = "$"
          /\ \E s \in Remains : toStub' = s \o Tail(toStub)
          /\ noise' = noise + 1
          /\ UNCHANGED <<toClient, stubVars, clientVars, damage>>

\* The user interrupts a command that runs: gdb sends a byte out of any packet.
Interrupt == /\ noise < MaxNoise
             /\ client = "awaitReply"
             /\ toStub' = Append(toStub, Noise)
             /\ noise' = noise + 1
             /\ UNCHANGED <<toClient, stubVars, clientVars, damage>>

Trouble == Damage \/ Garble \/ Interrupt

\* The end of the session: nothing travels and the debugger has no more to ask.
Terminating == /\ client = "idle" /\ command = MaxCommands
               /\ toStub = <<>> /\ stub = "scan"
               /\ UNCHANGED vars

Next == Stub \/ Client \/ Trouble \/ Terminating

Spec == Init /\ [][Next]_vars

FairSpec == Spec /\ WF_vars(Stub) /\ WF_vars(Client)
------------------------------------------------------------------------------
(* Properties. *)

\* Every variable keeps its type.
TypeOK == /\ toStub \in Seq(Token) /\ toClient \in Seq(Token)
          /\ len \in Nat /\ stub \in {"scan", "handle"}
          /\ current \in 0 .. MaxCommands /\ last \in 0 .. MaxCommands
          /\ executed \in Seq(Number) /\ reports \in Nat
          /\ client \in {"idle", "awaitAck", "awaitReply"}
          /\ command \in 0 .. MaxCommands
          /\ replies \in Seq(Number)
          /\ damage \in 0 .. MaxDamage /\ noise \in 0 .. MaxNoise

\* However many invalid bytes come, the buffer has room for them and for the
\* final zero handle_error writes at index len.
BufferInBounds == len <= MaxErrorSize - 1

\* A '-' of handle_error reaches the debugger after a later packet, which the
\* debugger sends again: every such report costs at most one more execution.
ExtraExecutions == Len(executed) <= command + reports

\* The extra replies shift the ones that follow: the debugger may take the reply
\* of an earlier command for the reply of this one, earlier by no more commands
\* than there were reports, and never the reply of a later one.
RepliesLag == \A i \in 1 .. Len(replies) : i - replies[i] \in 0 .. reports

Session == INSTANCE GdbSession

\* As long as every invalid byte is inside a packet that keeps its frame, each
\* command is executed once, in order, and gets its own reply.
ExactlyOnce == Session!Spec

\* Damage and noise end; the debugger then gets a reply to its command.
Replied == client # "idle" ~> client = "idle"
==============================================================================
