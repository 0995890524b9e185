---------------------------- MODULE GdbLinkProofs ----------------------------
(***************************************************************************)
(* Proofs about module GdbLink, for every size of the buffer of invalid    *)
(* bytes and every number of commands and of troubles.                     *)
(***************************************************************************)
EXTENDS GdbLink, FiniteSets, FiniteSetTheorems, TLAPS

LEMMA Tokens ==
    /\ Ack \in Token /\ Nak \in Token /\ Noise \in Token
    /\ \A n \in Number : Packet(n) \in Token
    /\ \A t \in Token : t.kind \in {"+", "-", ".", "$"}
BY DEF Ack, Nak, Noise, Packet, Token

LEMMA PacketFields ==
    ASSUME NEW t \in Token, t.kind = "$"
    PROVE  /\ t.number \in Number
           /\ [t EXCEPT !.ok = FALSE] \in Token
<1>1. t \in [kind : {"$"}, number : Number, ok : BOOLEAN]
  BY DEF Token, Ack, Nak, Noise
<1> QED BY <1>1 DEF Token

LEMMA Sequences ==
    ASSUME NEW S, NEW s \in Seq(S), NEW t \in Seq(S), NEW e \in S
    PROVE  /\ s \o t \in Seq(S) /\ Append(s, e) \in Seq(S) /\ <<e>> \in Seq(S)
           /\ s # <<>> => Tail(s) \in Seq(S) /\ Head(s) \in S
           /\ \A i \in 1 .. Len(s) : s[i] \in S /\ [s EXCEPT ![i] = e] \in Seq(S)
OBVIOUS

LEMMA ReportTyped == Report \in Seq(Token)
BY Tokens DEF Report

LEMMA RemainsTyped == Remains \subseteq Seq(Token)
<1> SUFFICES ASSUME NEW n \in 1 .. Burst, NEW k \in 0 .. Burst, NEW t \in {Ack, Nak}
             PROVE  [i \in 1 .. n |-> IF i = k THEN t ELSE Noise] \in Seq(Token)
  BY DEF Remains
<1>1. n \in Nat
  BY BoundsAssumption
<1>2. \A i \in 1 .. n : (IF i = k THEN t ELSE Noise) \in Token
  BY Tokens
<1> QED BY <1>1, <1>2

\* The numbers at work are those of packets.
Numbered == /\ client # "idle" => command \in Number
            /\ stub = "handle" => current \in Number

Typed == TypeOK /\ Numbered

LEMMA TypedInit == Init => Typed
BY BoundsAssumption DEF Init, Typed, TypeOK, Numbered

\* What travels towards the simulator stays well formed, and so do the tokens.
LEMMA ToStubTyped == Typed /\ [Next]_vars => toStub' \in Seq(Token)
<1> SUFFICES ASSUME Typed, [Next]_vars PROVE toStub' \in Seq(Token)
  OBVIOUS
<1>1. toStub \in Seq(Token) /\ (client # "idle" => Packet(command) \in Token)
  BY Tokens DEF Typed, TypeOK, Numbered
<1>2. CASE toStub' = toStub
  BY <1>1, <1>2
<1>3. CASE Stub
  <2>1. CASE Handle
    BY <2>1, <1>1 DEF Handle
  <2>2. CASE \E k \in {"+", "-", ".", "$"} : Scan(k)
    BY <2>2, <1>1, Sequences DEF Scan
  <2> QED BY <1>3, <2>1, <2>2 DEF Stub, AddCharacterToError, ReceiveAck,
                                  Retransmit, PacketAnalysis
<1>4. CASE Send
  <2>1. command + 1 \in Number
    BY <1>4, BoundsAssumption DEF Send, Typed, TypeOK, Number
  <2> QED BY <1>1, <1>4, <2>1, Tokens, Sequences DEF Send
<1>5. CASE AwaitAck \/ AwaitReply \/ Timeout \/ Interrupt
  <2>1. \/ toStub' = toStub
        \/ \E t \in {Ack, Nak, Noise} : toStub' = Append(toStub, t)
        \/ client # "idle" /\ toStub' = Append(toStub, Packet(command))
    BY <1>5 DEF AwaitAck, AwaitReply, Timeout, Interrupt, Resend
  <2> QED BY <1>1, <2>1, Tokens, Sequences
<1>6. CASE Damage
  <2>1. \/ toStub' = toStub
        \/ \E i \in 1 .. Len(toStub) :
             toStub[i].kind = "$" /\ toStub' = Damaged(toStub, i)
    BY <1>6 DEF Damage
  <2>2. ASSUME NEW i \in 1 .. Len(toStub), toStub[i].kind = "$"
        PROVE  Damaged(toStub, i) \in Seq(Token)
    <3>1. [toStub[i] EXCEPT !.ok = FALSE] \in Token
      BY <1>1, <2>2, PacketFields, Sequences
    <3> QED BY <1>1, <3>1, Sequences DEF Damaged
  <2> QED BY <1>1, <2>1, <2>2
<1>7. CASE Garble
  <2>1. PICK s \in Remains : toStub # <<>> /\ toStub' = s \o Tail(toStub)
    BY <1>7 DEF Garble
  <2> QED BY <1>1, <2>1, RemainsTyped, Sequences
<1>8. CASE UNCHANGED vars
  BY <1>1, <1>8 DEF vars, link
<1> QED BY <1>3, <1>4, <1>5, <1>6, <1>7, <1>8
        DEF Next, Client, Trouble, Terminating

LEMMA ToClientTyped == Typed /\ [Next]_vars => toClient' \in Seq(Token)
<1> SUFFICES ASSUME Typed, [Next]_vars PROVE toClient' \in Seq(Token)
  OBVIOUS
<1>1. toClient \in Seq(Token) /\ Report \in Seq(Token)
      /\ (last # 0 => Packet(last) \in Token)
      /\ (stub = "handle" => Packet(current) \in Token)
  BY Tokens, ReportTyped, BoundsAssumption DEF Typed, TypeOK, Numbered, Number
<1>2. CASE toClient' = toClient
  BY <1>1, <1>2
<1>3. CASE AddCharacterToError
  BY <1>1, <1>3, Tokens, Sequences DEF AddCharacterToError
<1>4. CASE ReceiveAck
  BY <1>1, <1>4, Sequences, Tokens DEF ReceiveAck
<1>5. CASE Retransmit
  <2>1. (IF last = 0 THEN <<>> ELSE <<Packet(last)>>) \in Seq(Token)
    BY <1>1
  <2> DEFINE again == IF last = 0 THEN <<>> ELSE <<Packet(last)>>
  <2> HIDE DEF again
  <2>2. toClient \o Report \in Seq(Token)
    BY <1>1, Sequences, Tokens
  <2>3. (toClient \o Report) \o again \in Seq(Token)
    BY <2>1, <2>2, Sequences, Tokens DEF again
  <2> QED BY <1>5, <2>3 DEF Retransmit, again
<1>6. CASE PacketAnalysis
  <2>1. toClient \o Report \in Seq(Token)
    BY <1>1, Sequences, Tokens
  <2>2. \A t \in Token : (toClient \o Report) \o <<t>> \in Seq(Token)
    BY <2>1, Sequences
  <2> QED BY <1>6, <2>2, Tokens DEF PacketAnalysis
<1>7. CASE Handle
  BY <1>1, <1>7, Sequences DEF Handle
<1>8. CASE AwaitAck \/ AwaitReply
  BY <1>1, <1>8, Sequences, Tokens DEF AwaitAck, AwaitReply, Receive
<1>9. CASE Damage
  <2>1. \/ toClient' = toClient
        \/ \E i \in 1 .. Len(toClient) :
             toClient[i].kind = "$" /\ toClient' = Damaged(toClient, i)
    BY <1>9 DEF Damage
  <2>2. ASSUME NEW i \in 1 .. Len(toClient), toClient[i].kind = "$"
        PROVE  Damaged(toClient, i) \in Seq(Token)
    <3>1. [toClient[i] EXCEPT !.ok = FALSE] \in Token
      BY <1>1, <2>2, PacketFields, Sequences
    <3> QED BY <1>1, <3>1, Sequences DEF Damaged
  <2> QED BY <1>1, <2>1, <2>2
<1>10. CASE Send \/ Timeout \/ Garble \/ Interrupt \/ UNCHANGED vars
  BY <1>2, <1>10 DEF Send, Timeout, Garble, Interrupt, vars, link
<1> QED BY <1>3, <1>4, <1>5, <1>6, <1>7, <1>8, <1>9, <1>10
        DEF Next, Stub, Client, Trouble, Terminating

LEMMA TypedStep == Typed /\ [Next]_vars => Typed'
<1> SUFFICES ASSUME Typed, [Next]_vars PROVE Typed'
  OBVIOUS
<1>0. toStub' \in Seq(Token) /\ toClient' \in Seq(Token)
  BY ToStubTyped, ToClientTyped
<1> USE <1>0 DEF Typed, TypeOK, Numbered, stubVars, clientVars, troubles
<1>1. CASE AddCharacterToError
  <2>1. UNCHANGED <<stub, current, last, executed, client, command, replies,
                    damage, noise>>
    BY <1>1 DEF AddCharacterToError
  <2>2. \/ len' = 1 /\ reports' = reports + 1
        \/ len' = len + 1 /\ reports' = reports
    BY <1>1 DEF AddCharacterToError
  <2> QED BY SMTT(30), <2>1, <2>2
<1>2. CASE ReceiveAck \/ Retransmit
  <2>1. len' \in Nat /\ reports' \in Nat
    BY SMTT(30), <1>2 DEF ReceiveAck, Retransmit, HandleError
  <2> QED BY <1>2, <2>1 DEF ReceiveAck, Retransmit
<1>3. CASE PacketAnalysis
  <2>1. toStub # <<>> /\ Head(toStub) \in Token /\ Head(toStub).kind = "$"
    BY <1>3, Sequences, Tokens DEF PacketAnalysis, Scan
  <2>2. Head(toStub).number \in Number
    BY <2>1, PacketFields
  <2> QED BY SMTT(30), <1>3, <2>2, BoundsAssumption
          DEF PacketAnalysis, HandleError, Number
<1>4. CASE Handle
  BY <1>4, BoundsAssumption, Sequences DEF Handle, Number
<1>5. CASE Send
  BY <1>5, BoundsAssumption DEF Send, Number
<1>6. CASE AwaitAck
  BY <1>6 DEF AwaitAck, Resend
<1>7. CASE AwaitReply
  <2>1. CASE replies' = replies /\ client' = client
    BY <1>7, <2>1 DEF AwaitReply
  <2>2. CASE Head(toClient).kind = "$" /\ client' = "idle"
             /\ replies' = Append(replies, Head(toClient).number)
    <3>1. Head(toClient) \in Token
      BY <1>7, Sequences, Tokens DEF AwaitReply, Receive
    <3>2. Head(toClient).number \in Number
      BY <2>2, <3>1, PacketFields
    <3>3. replies' \in Seq(Number)
      BY <2>2, <3>2
    <3> QED BY <1>7, <2>2, <3>3 DEF AwaitReply
  <2> QED BY <1>7, <2>1, <2>2 DEF AwaitReply
<1>8. CASE Timeout
  BY <1>8 DEF Timeout, Resend
<1>9. CASE Damage
  BY <1>9, BoundsAssumption DEF Damage
<1>11. CASE Garble
  BY <1>11, BoundsAssumption DEF Garble
<1>12. CASE Interrupt
  BY <1>12, BoundsAssumption DEF Interrupt
<1>10. CASE UNCHANGED vars
  BY <1>10 DEF vars, link
<1> QED BY <1>1, <1>2, <1>3, <1>4, <1>5, <1>6, <1>7, <1>8, <1>9, <1>10,
           <1>11, <1>12
        DEF Next, Stub, Client, Trouble, Terminating

\* Every variable keeps its type (TypeOK), in every execution.
THEOREM TypeCorrect == Spec => []TypeOK
<1>1. Typed => TypeOK
  BY DEF Typed
<1> QED BY <1>1, TypedInit, TypedStep, PTL DEF Spec

\* The buffer of invalid bytes never overflows, whatever its size.
THEOREM BufferSafe == Spec => []BufferInBounds
<1>1. Init => BufferInBounds
  BY SizeAssumption DEF Init, BufferInBounds
<1>2. Typed /\ BufferInBounds /\ [Next]_vars => BufferInBounds'
  <2> SUFFICES ASSUME Typed, BufferInBounds, [Next]_vars PROVE BufferInBounds'
    OBVIOUS
  <2> USE SizeAssumption DEF BufferInBounds, Typed, TypeOK, stubVars
  <2>1. CASE AddCharacterToError
    BY <2>1 DEF AddCharacterToError
  <2>2. CASE ReceiveAck \/ Retransmit \/ PacketAnalysis
    BY <2>2 DEF ReceiveAck, Retransmit, PacketAnalysis, HandleError
  <2>3. CASE Handle \/ Client \/ Trouble \/ UNCHANGED vars
    BY <2>3 DEF Handle, Client, Send, AwaitAck, AwaitReply, Timeout, Resend,
                Trouble, Damage, Garble, Interrupt, vars
  <2> QED BY <2>1, <2>2, <2>3 DEF Next, Stub, Terminating
<1> QED BY <1>1, <1>2, TypedInit, TypedStep, PTL DEF Spec
------------------------------------------------------------------------------
(* Counting: how many elements of s, from position a to position b, are in T. *)

Count(s, a, b, T) == Cardinality({j \in a .. b : s[j] \in T})

LEMMA CountFinite ==
    ASSUME NEW s, NEW T, NEW a \in Int, NEW b \in Int
    PROVE  IsFiniteSet({j \in a .. b : s[j] \in T})
BY FS_Interval, FS_Subset

LEMMA CountNat ==
    ASSUME NEW s, NEW T, NEW a \in Int, NEW b \in Int
    PROVE  Count(s, a, b, T) \in Nat
BY CountFinite, FS_CardinalityType DEF Count

LEMMA CountNone ==
    ASSUME NEW s, NEW T, NEW a \in Int, NEW b \in Int,
           \A j \in a .. b : s[j] \notin T
    PROVE  Count(s, a, b, T) = 0
<1>1. {j \in a .. b : s[j] \in T} = {}
  OBVIOUS
<1> QED BY <1>1, FS_EmptySet DEF Count

LEMMA CountOne ==
    ASSUME NEW s, NEW T, NEW a \in Int
    PROVE  Count(s, a, a, T) = IF s[a] \in T THEN 1 ELSE 0
<1>1. CASE s[a] \in T
  <2>1. {j \in a .. a : s[j] \in T} = {a}
    BY <1>1
  <2> QED BY <1>1, <2>1, FS_Singleton DEF Count
<1>2. CASE s[a] \notin T
  BY <1>2, CountNone
<1> QED BY <1>1, <1>2

LEMMA CountJoin ==
    ASSUME NEW s, NEW T, NEW a \in Int, NEW b \in Int, NEW c \in Int,
           a <= b + 1, b <= c
    PROVE  Count(s, a, c, T) = Count(s, a, b, T) + Count(s, b + 1, c, T)
<1> DEFINE A == {j \in a .. b : s[j] \in T}
           B == {j \in b + 1 .. c : s[j] \in T}
<1>1. A \cup B = {j \in a .. c : s[j] \in T} /\ A \cap B = {}
  OBVIOUS
<1>2. IsFiniteSet(A) /\ Cardinality(A) \in Nat
  BY CountFinite, CountNat DEF Count
<1>a. IsFiniteSet(B) /\ Cardinality(B) \in Nat
  <2>1. b + 1 \in Int
    OBVIOUS
  <2> QED BY <2>1, CountFinite, CountNat DEF Count
<1> HIDE DEF A, B
<1>3. Cardinality(A \cup B) = Cardinality(A) + Cardinality(B) - Cardinality(A \cap B)
  BY <1>2, <1>a, FS_Union
<1>4. Cardinality(A \cup B) = Cardinality(A) + Cardinality(B)
  BY SMTT(30), <1>1, <1>2, <1>a, <1>3, FS_EmptySet
<1> QED BY <1>1, <1>4 DEF Count, A, B

LEMMA CountShift ==
    ASSUME NEW s, NEW T, NEW a \in Int, NEW b \in Int,
           NEW t, NEW c \in Int, NEW d \in Int, c - a = d - b,
           \A j \in a .. b : s[j] \in T <=> t[j + (c - a)] \in T
    PROVE  Count(t, c, d, T) = Count(s, a, b, T)
<1> DEFINE A == {j \in a .. b : s[j] \in T}
           B == {j \in c .. d : t[j] \in T}
           f == [j \in A |-> j + (c - a)]
<1>1. f \in [A -> B]
  OBVIOUS
<1>2. \A k \in B : k - (c - a) \in A /\ f[k - (c - a)] = k
  OBVIOUS
<1>3. \A j, k \in A : f[j] = f[k] => j = k
  OBVIOUS
<1>4. IsFiniteSet(A)
  BY CountFinite
<1> HIDE DEF f, A, B
<1>5. f \in Bijection(A, B)
  <2>1. f \in Injection(A, B)
    BY <1>1, <1>3 DEF Injection, IsInjective
  <2>2. f \in Surjection(A, B)
    BY <1>1, <1>2 DEF Surjection
  <2> QED BY <2>1, <2>2 DEF Bijection
<1>6. ExistsBijection(A, B)
  BY <1>5 DEF ExistsBijection
<1> QED BY <1>4, <1>6, FS_Bijection DEF Count, A, B

LEMMA CountNext ==
    ASSUME NEW s, NEW T, NEW a \in Int, NEW b \in Int, NEW t,
           \A j \in a .. b : s[j] \in T <=> t[j + 1] \in T
    PROVE  \A c, d : c = a + 1 /\ d = b + 1 => Count(t, c, d, T) = Count(s, a, b, T)
<1> SUFFICES ASSUME NEW c, NEW d, c = a + 1, d = b + 1
             PROVE  Count(t, c, d, T) = Count(s, a, b, T)
  OBVIOUS
<1>1. a \in Int /\ b \in Int /\ c \in Int /\ d \in Int /\ c - a = d - b
  OBVIOUS
<1>2. \A j \in a .. b : s[j] \in T <=> t[j + (c - a)] \in T
  OBVIOUS
<1> QED BY ONLY <1>1, <1>2, CountShift

LEMMA CountSame ==
    ASSUME NEW s, NEW t, NEW T, NEW a \in Int, NEW b \in Int,
           \A j \in a .. b : s[j] \in T <=> t[j] \in T
    PROVE  Count(t, a, b, T) = Count(s, a, b, T)
<1>1. {j \in a .. b : t[j] \in T} = {j \in a .. b : s[j] \in T}
  OBVIOUS
<1> QED BY <1>1 DEF Count

\* The commands and the replies, among all that travels.
Frames == {t \in Token : t.kind = "$"}
Acks   == {Ack}
Naks   == {Nak}

LEMMA FrameFields ==
    /\ Ack \notin Frames /\ Nak \notin Frames /\ Noise \notin Frames
    /\ Ack # Nak /\ Ack # Noise /\ Nak # Noise
    /\ \A n \in Number : Packet(n) \in Frames /\ Packet(n).number = n
    /\ \A t \in Frames : /\ t # Ack /\ t # Nak /\ t.kind = "$"
                         /\ t.number \in Number
                         /\ [t EXCEPT !.ok = FALSE] \in Frames
                         /\ [t EXCEPT !.ok = FALSE].number = t.number
<1>1. Ack.kind = "+" /\ Nak.kind = "-" /\ Noise.kind = "."
  BY DEF Ack, Nak, Noise
<1>2. \A n \in Number : Packet(n) \in Frames /\ Packet(n).number = n
  BY DEF Packet, Frames, Token
<1>3. ASSUME NEW t \in Frames
      PROVE  /\ t.number \in Number
             /\ [t EXCEPT !.ok = FALSE] \in Frames
             /\ [t EXCEPT !.ok = FALSE].number = t.number
  <2>1. t \in [kind : {"$"}, number : Number, ok : BOOLEAN]
    BY DEF Frames, Token, Ack, Nak, Noise
  <2> QED BY <2>1 DEF Frames, Token
<1> QED BY <1>1, <1>2, <1>3 DEF Frames
------------------------------------------------------------------------------
(* What is counted on a sequence of tokens, and what a step makes of it. *)

All(s, T) == Count(s, 1, Len(s), T)

LEMMA AllNat == ASSUME NEW s \in Seq(Token), NEW T PROVE All(s, T) \in Nat
<1>1. Len(s) \in Int
  OBVIOUS
<1> QED BY <1>1, CountNat DEF All

LEMMA AllAppend ==
    ASSUME NEW s \in Seq(Token), NEW e \in Token, NEW T
    PROVE  All(Append(s, e), T) = All(s, T) + (IF e \in T THEN 1 ELSE 0)
<1> DEFINE n == Len(s)
           t == Append(s, e)
<1>1. n \in Nat /\ Len(t) = n + 1 /\ t[n + 1] = e /\ \A j \in 1 .. n : t[j] = s[j]
  OBVIOUS
<1> HIDE DEF t, n
<1>2. Count(t, 1, n + 1, T) = Count(t, 1, n, T) + Count(t, n + 1, n + 1, T)
  BY <1>1, CountJoin
<1>3. Count(t, 1, n, T) = Count(s, 1, n, T)
  <2>1. n \in Int /\ \A j \in 1 .. n : s[j] \in T <=> t[j] \in T
    BY <1>1
  <2> QED BY <2>1, CountSame
<1>4. Count(t, n + 1, n + 1, T) = IF e \in T THEN 1 ELSE 0
  BY <1>1, CountOne
<1> QED BY <1>1, <1>2, <1>3, <1>4 DEF All, t, n

LEMMA AllTail ==
    ASSUME NEW s \in Seq(Token), s # <<>>, NEW T
    PROVE  All(s, T) = (IF Head(s) \in T THEN 1 ELSE 0) + All(Tail(s), T)
<1> DEFINE n == Len(s) - 1
           t == Tail(s)
<1>1. /\ n \in Nat /\ Len(t) = n /\ Head(s) = s[1] /\ Len(s) = n + 1
      /\ \A j \in 1 .. n : t[j] = s[j + 1]
  OBVIOUS
<1> HIDE DEF t, n
<1>2. Count(s, 1, n + 1, T) = Count(s, 1, 1, T) + Count(s, 1 + 1, n + 1, T)
  BY <1>1, CountJoin
<1>3. Count(s, 1 + 1, n + 1, T) = Count(t, 1, n, T)
  <2>1. /\ n \in Int /\ n + 1 \in Int /\ 1 + 1 \in Int
        /\ (1 + 1) - 1 = (n + 1) - n
        /\ \A j \in 1 .. n : t[j] \in T <=> s[j + ((1 + 1) - 1)] \in T
    BY <1>1
  <2> QED BY <2>1, CountShift
<1>4. Count(s, 1, 1, T) = IF Head(s) \in T THEN 1 ELSE 0
  BY <1>1, CountOne
<1> QED BY <1>1, <1>2, <1>3, <1>4 DEF All, t

\* Damage changes no count, nor the number of any packet.
LEMMA DamageKeeps ==
    ASSUME NEW s \in Seq(Token), NEW i \in 1 .. Len(s), s[i].kind = "$"
    PROVE  /\ Damaged(s, i) \in Seq(Token) /\ Len(Damaged(s, i)) = Len(s)
           /\ \A j \in 1 .. Len(s) :
                /\ Damaged(s, i)[j] \in Frames <=> s[j] \in Frames
                /\ s[j] \in Frames => Damaged(s, i)[j].number = s[j].number
                /\ Damaged(s, i)[j] = Ack <=> s[j] = Ack
                /\ Damaged(s, i)[j] = Nak <=> s[j] = Nak
<1> DEFINE f == [s[i] EXCEPT !.ok = FALSE]
<1>1. s[i] \in Frames
  BY DEF Frames
<1>2. f \in Frames /\ f \in Token /\ f.number = s[i].number
  BY <1>1, FrameFields DEF Frames
<1>3. f # Ack /\ f # Nak /\ s[i] # Ack /\ s[i] # Nak
  BY <1>1, <1>2, FrameFields
<1> HIDE DEF f
<1>4. Damaged(s, i) = [s EXCEPT ![i] = f]
  BY DEF Damaged, f
<1>5. /\ [s EXCEPT ![i] = f] \in Seq(Token) /\ Len([s EXCEPT ![i] = f]) = Len(s)
      /\ \A j \in 1 .. Len(s) : [s EXCEPT ![i] = f][j] = IF j = i THEN f ELSE s[j]
  BY <1>2
<1> QED BY <1>1, <1>2, <1>3, <1>4, <1>5

LEMMA AllSame ==
    ASSUME NEW s \in Seq(Token), NEW t \in Seq(Token), Len(t) = Len(s), NEW T,
           \A j \in 1 .. Len(s) : t[j] \in T <=> s[j] \in T
    PROVE  All(t, T) = All(s, T)
<1>1. Len(s) \in Int
  OBVIOUS
<1> QED BY <1>1, CountSame DEF All
------------------------------------------------------------------------------
(* The order of the commands on their way. *)

\* After b commands, those of s come with numbers that lag at most r behind their
\* rank, and are at most c.
Pipeline(s, b, c, r) ==
    \A i \in 1 .. Len(s) :
        s[i] \in Frames => s[i].number \in (b + Count(s, 1, i, Frames) - r) .. c

LEMMA PipelineGrows ==
    ASSUME NEW s \in Seq(Token), NEW b \in Int, NEW c \in Int, NEW r \in Int,
           NEW b1 \in Int, NEW c1 \in Int, NEW r1 \in Int,
           Pipeline(s, b, c, r), b1 <= b, c <= c1, r <= r1
    PROVE  Pipeline(s, b1, c1, r1)
<1> SUFFICES ASSUME NEW i \in 1 .. Len(s), s[i] \in Frames
             PROVE  s[i].number \in (b1 + Count(s, 1, i, Frames) - r1) .. c1
  BY DEF Pipeline
<1>1. i \in Int /\ Count(s, 1, i, Frames) \in Nat
  BY CountNat
<1> QED BY <1>1 DEF Pipeline

LEMMA PipelineAppend ==
    ASSUME NEW s \in Seq(Token), NEW b \in Int, NEW c \in Int, NEW r \in Int,
           NEW e \in Token, Pipeline(s, b, c, r),
           e \in Frames => e.number \in (b + All(s, Frames) + 1 - r) .. c
    PROVE  Pipeline(Append(s, e), b, c, r)
<1> DEFINE t == Append(s, e)
<1>1. /\ Len(t) = Len(s) + 1 /\ t[Len(s) + 1] = e
      /\ \A j \in 1 .. Len(s) : t[j] = s[j]
      /\ Len(s) \in Nat
  OBVIOUS
<1>2. t \in Seq(Token) /\ Count(t, 1, Len(s) + 1, Frames)
                            = All(s, Frames) + (IF e \in Frames THEN 1 ELSE 0)
  BY <1>1, AllAppend, Sequences DEF All
<1> HIDE DEF t
<1> SUFFICES ASSUME NEW i \in 1 .. Len(t), t[i] \in Frames
             PROVE  t[i].number \in (b + Count(t, 1, i, Frames) - r) .. c
  BY DEF Pipeline, t
<1>3. CASE i = Len(s) + 1
  <2>1. All(s, Frames) \in Nat
    BY AllNat
  <2> QED BY <1>1, <1>2, <1>3, <2>1
<1>4. CASE i \in 1 .. Len(s)
  <2>1. i \in Int /\ \A j \in 1 .. i : s[j] \in Frames <=> t[j] \in Frames
    BY <1>1, <1>4
  <2>2. Count(t, 1, i, Frames) = Count(s, 1, i, Frames)
    BY <2>1, CountSame
  <2> QED BY <1>1, <1>4, <2>2 DEF Pipeline
<1> QED BY <1>1, <1>3, <1>4

LEMMA PipelineTail ==
    ASSUME NEW s \in Seq(Token), s # <<>>, NEW b \in Int, NEW c \in Int,
           NEW r \in Int, Pipeline(s, b, c, r)
    PROVE  /\ Pipeline(Tail(s), b + (IF Head(s) \in Frames THEN 1 ELSE 0), c, r)
           /\ Head(s) \in Frames => Head(s).number \in (b + 1 - r) .. c
<1> DEFINE t == Tail(s)
           n == Len(t)
           h == IF Head(s) \in Frames THEN 1 ELSE 0
<1>1. /\ n \in Nat /\ Len(s) = n + 1 /\ Head(s) = s[1]
      /\ \A j \in 1 .. n : t[j] = s[j + 1]
  OBVIOUS
<1> HIDE DEF t, n
<1>2. Count(s, 1, 1, Frames) = h
  BY <1>1, CountOne
<1>3. ASSUME NEW i \in 1 .. n, t[i] \in Frames
      PROVE  t[i].number \in (b + h + Count(t, 1, i, Frames) - r) .. c
  <2>1. /\ i \in Int /\ i + 1 \in Int /\ 1 + 1 \in Int
        /\ (1 + 1) - 1 = (i + 1) - i
        /\ \A j \in 1 .. i : t[j] \in Frames <=> s[j + ((1 + 1) - 1)] \in Frames
    BY <1>1
  <2>2. Count(s, 1 + 1, i + 1, Frames) = Count(t, 1, i, Frames)
    BY <2>1, CountShift
  <2>3. Count(s, 1, i + 1, Frames) = Count(s, 1, 1, Frames) + Count(s, 1 + 1, i + 1, Frames)
    BY <2>1, CountJoin
  <2>4. Count(t, 1, i, Frames) \in Nat
    BY CountNat
  <2>5. s[i + 1].number \in (b + Count(s, 1, i + 1, Frames) - r) .. c
    BY <1>1, <1>3 DEF Pipeline
  <2> QED BY SMTT(30), <1>1, <1>2, <2>2, <2>3, <2>4, <2>5
<1>4. Pipeline(Tail(s), b + h, c, r)
  BY <1>3 DEF Pipeline, t, n
<1>5. Head(s) \in Frames => Head(s).number \in (b + 1 - r) .. c
  BY <1>1, <1>2 DEF Pipeline
<1> QED BY <1>4, <1>5

\* Bytes that belong to no packet are put in front: Remains has no packet.
LEMMA PipelinePrepend ==
    ASSUME NEW s \in Seq(Token), NEW u \in Seq(Token), NEW b \in Int,
           NEW c \in Int, NEW r \in Int, Pipeline(s, b, c, r),
           \A j \in 1 .. Len(u) : u[j] \notin Frames
    PROVE  /\ Pipeline(u \o s, b, c, r)
           /\ All(u \o s, Frames) = All(s, Frames)
<1> DEFINE t == u \o s
           m == Len(u)
           n == Len(s)
<1>1. /\ m \in Nat /\ n \in Nat /\ Len(t) = m + n
      /\ \A j \in 1 .. m : t[j] = u[j]
      /\ \A j \in 1 .. n : t[j + m] = s[j]
      /\ \A j \in m + 1 .. m + n : t[j] = s[j - m]
  OBVIOUS
<1> HIDE DEF t, m, n
<1>2. Count(t, 1, m, Frames) = 0
  <2>1. m \in Int /\ \A j \in 1 .. m : t[j] \notin Frames
    BY <1>1 DEF m
  <2> QED BY <2>1, CountNone
<1>3. \A i \in 0 .. n : Count(t, 1, m + i, Frames) = Count(s, 1, i, Frames)
  <2> TAKE i \in 0 .. n
  <2> DEFINE p == m + 1
             q == m + i
  <2>1. i \in Int /\ p \in Int /\ q \in Int /\ p - 1 = m /\ q - i = m
    BY <1>1
  <2>a. \A j \in 1 .. i : s[j] \in Frames <=> t[j + m] \in Frames
    BY SMTT(30), <1>1
  <2>2. Count(t, m + 1, m + i, Frames) = Count(s, 1, i, Frames)
    <3> HIDE DEF p, q
    <3>1. \A j \in 1 .. i : s[j] \in Frames <=> t[j + (p - 1)] \in Frames
      BY <2>1, <2>a
    <3>a. i \in Int /\ p \in Int /\ q \in Int /\ p - 1 = q - i
      BY <2>1
    <3>2. Count(t, p, q, Frames) = Count(s, 1, i, Frames)
      BY SMTT(30), <3>a, <3>1, CountShift
    <3> QED BY <3>2 DEF p, q
  <2>3. Count(t, 1, m + i, Frames) = Count(t, 1, m, Frames) + Count(t, m + 1, m + i, Frames)
    BY <1>1, CountJoin
  <2>4. Count(s, 1, i, Frames) \in Nat
    BY <2>1, CountNat
  <2> QED BY <1>2, <2>2, <2>3, <2>4
<1>4. All(t, Frames) = All(s, Frames)
  BY <1>1, <1>3 DEF All, n
<1>5. ASSUME NEW i \in 1 .. Len(t), t[i] \in Frames
      PROVE  t[i].number \in (b + Count(t, 1, i, Frames) - r) .. c
  <2>1. i \in m + 1 .. m + n
    BY <1>1, <1>5 DEF m
  <2>2. i - m \in 1 .. n /\ t[i] = s[i - m] /\ m + (i - m) = i
    BY <1>1, <2>1
  <2>3. Count(t, 1, i, Frames) = Count(s, 1, i - m, Frames)
    <3>1. Count(t, 1, m + (i - m), Frames) = Count(s, 1, i - m, Frames)
      BY <1>3, <2>2
    <3> QED BY <2>2, <3>1
  <2> QED BY <1>5, <2>2, <2>3 DEF Pipeline, n
<1>6. Pipeline(t, b, c, r)
  BY <1>5 DEF Pipeline
<1> QED BY <1>4, <1>6 DEF t

LEMMA PipelineSame ==
    ASSUME NEW s \in Seq(Token), NEW t \in Seq(Token), Len(t) = Len(s),
           NEW b \in Int, NEW c \in Int, NEW r \in Int, Pipeline(s, b, c, r),
           \A j \in 1 .. Len(s) : /\ t[j] \in Frames <=> s[j] \in Frames
                                  /\ s[j] \in Frames => t[j].number = s[j].number
    PROVE  Pipeline(t, b, c, r)
<1> SUFFICES ASSUME NEW i \in 1 .. Len(s), t[i] \in Frames
             PROVE  t[i].number \in (b + Count(t, 1, i, Frames) - r) .. c
  BY DEF Pipeline
<1>1. i \in Int /\ \A j \in 1 .. i : s[j] \in Frames <=> t[j] \in Frames
  OBVIOUS
<1>2. Count(t, 1, i, Frames) = Count(s, 1, i, Frames)
  BY <1>1, CountSame
<1> QED BY <1>2 DEF Pipeline
------------------------------------------------------------------------------
(* The order of the replies on their way. *)

\* b acknowledgements have been sent for the commands of x or the one in hand:
\* each reply of s answers the command whose acknowledgement came just before.
InOrder(s, b, x) ==
    \A i \in 1 .. Len(s) :
        s[i] \in Frames =>
            /\ b - Count(s, i, Len(s), Acks) \in 1 .. Len(x)
            /\ s[i].number = x[b - Count(s, i, Len(s), Acks)]

LEMMA InOrderTail ==
    ASSUME NEW s \in Seq(Token), s # <<>>, NEW b \in Int, NEW x, InOrder(s, b, x)
    PROVE  /\ InOrder(Tail(s), b, x)
           /\ Head(s) \in Frames => /\ b - All(s, Acks) \in 1 .. Len(x)
                                    /\ Head(s).number = x[b - All(s, Acks)]
<1> DEFINE t == Tail(s)
           n == Len(t)
<1>1. /\ n \in Nat /\ Len(s) = n + 1 /\ Head(s) = s[1]
      /\ \A j \in 1 .. n : t[j] = s[j + 1]
  OBVIOUS
<1> HIDE DEF t, n
<1>2. ASSUME NEW i \in 1 .. n
      PROVE  Count(s, i + 1, n + 1, Acks) = Count(t, i, n, Acks)
  <2>1. i \in Int /\ n \in Int
    BY <1>1
  <2>2. \A j \in i .. n : t[j] \in Acks <=> s[j + 1] \in Acks
    BY <1>1
  <2> QED BY <2>1, <2>2, CountNext
<1>3. ASSUME NEW i \in 1 .. n, t[i] \in Frames
      PROVE  /\ b - Count(t, i, n, Acks) \in 1 .. Len(x)
             /\ t[i].number = x[b - Count(t, i, n, Acks)]
  <2>1. i + 1 \in 1 .. Len(s) /\ s[i + 1] = t[i]
    BY <1>1
  <2> QED BY <1>1, <1>2, <1>3, <2>1 DEF InOrder
<1>4. InOrder(Tail(s), b, x)
  BY <1>3 DEF InOrder, t, n
<1>5. 1 \in 1 .. Len(s)
  BY <1>1
<1> QED BY <1>1, <1>4, <1>5 DEF InOrder, All

LEMMA InOrderAppend ==
    ASSUME NEW s \in Seq(Token), NEW e \in Token, NEW b \in Int, NEW x,
           InOrder(s, b, x),
           e \in Frames => b \in 1 .. Len(x) /\ e.number = x[b]
    PROVE  InOrder(Append(s, e), b + (IF e = Ack THEN 1 ELSE 0), x)
<1> DEFINE t == Append(s, e)
           n == Len(s)
           m == Len(t)
           a == IF e = Ack THEN 1 ELSE 0
<1>1. /\ n \in Nat /\ m = n + 1 /\ t[m] = e /\ a \in Nat
      /\ \A j \in 1 .. n : t[j] = s[j]
  OBVIOUS
<1> HIDE DEF t, n, m
<1>2. Count(t, m, m, Acks) = a
  BY <1>1, CountOne DEF Acks
<1>a. a \in {0, 1} /\ (e = Ack <=> a = 1)
  OBVIOUS
<1> HIDE DEF a
<1>3. ASSUME NEW i \in 1 .. n
      PROVE  Count(t, i, m, Acks) = Count(s, i, n, Acks) + a
  <2>1. i \in Int /\ n \in Int /\ \A j \in i .. n : s[j] \in Acks <=> t[j] \in Acks
    BY <1>1
  <2>2. Count(t, i, n, Acks) = Count(s, i, n, Acks)
    BY <2>1, CountSame
  <2>3. Count(t, i, m, Acks) = Count(t, i, n, Acks) + Count(t, m, m, Acks)
    BY <1>1, <2>1, CountJoin
  <2> QED BY <1>2, <2>2, <2>3
<1> DEFINE c == b + a
<1>4. c \in Int /\ c = b + a
  BY <1>a
<1> HIDE DEF c
<1>5. ASSUME NEW i \in 1 .. m, t[i] \in Frames
      PROVE  /\ c - Count(t, i, m, Acks) \in 1 .. Len(x)
             /\ t[i].number = x[c - Count(t, i, m, Acks)]
  <2>1. CASE i = m
    <3>1. a = 0 /\ Count(t, i, m, Acks) = 0
      BY <1>1, <1>2, <1>a, <1>5, <2>1, FrameFields
    <3>2. c - Count(t, i, m, Acks) = b
      BY <1>4, <3>1
    <3> QED BY <1>1, <1>5, <2>1, <3>2
  <2>2. CASE i \in 1 .. n
    <3>1. Count(s, i, n, Acks) \in Nat
      BY <1>1, <2>2, CountNat
    <3>2. c - Count(t, i, m, Acks) = b - Count(s, i, n, Acks)
      BY <1>1, <1>3, <1>4, <2>2, <3>1
    <3> QED BY <1>1, <1>5, <2>2, <3>2 DEF InOrder, n
  <2> QED BY <1>1, <2>1, <2>2
<1>6. InOrder(t, c, x)
  BY <1>5 DEF InOrder, m
<1> QED BY <1>6 DEF t, a, c

LEMMA InOrderSame ==
    ASSUME NEW s \in Seq(Token), NEW t \in Seq(Token), Len(t) = Len(s),
           NEW b \in Int, NEW x, InOrder(s, b, x),
           \A j \in 1 .. Len(s) : /\ t[j] \in Frames <=> s[j] \in Frames
                                  /\ s[j] \in Frames => t[j].number = s[j].number
                                  /\ t[j] = Ack <=> s[j] = Ack
    PROVE  InOrder(t, b, x)
<1> SUFFICES ASSUME NEW i \in 1 .. Len(s), t[i] \in Frames
             PROVE  /\ b - Count(t, i, Len(s), Acks) \in 1 .. Len(x)
                    /\ t[i].number = x[b - Count(t, i, Len(s), Acks)]
  BY DEF InOrder
<1>1. /\ i \in Int /\ Len(s) \in Int
      /\ \A j \in i .. Len(s) : s[j] \in Acks <=> t[j] \in Acks
  BY DEF Acks
<1>2. Count(t, i, Len(s), Acks) = Count(s, i, Len(s), Acks)
  BY <1>1, CountSame
<1> QED BY <1>2 DEF InOrder

LEMMA InOrderMore ==
    ASSUME NEW s \in Seq(Token), NEW b \in Int, NEW x \in Seq(Number),
           NEW n \in Number, InOrder(s, b, x)
    PROVE  InOrder(s, b, Append(x, n))
<1>1. /\ Len(Append(x, n)) = Len(x) + 1 /\ Len(x) \in Nat
      /\ \A k \in 1 .. Len(x) : Append(x, n)[k] = x[k]
  OBVIOUS
<1> SUFFICES ASSUME NEW i \in 1 .. Len(s), s[i] \in Frames
             PROVE  /\ b - Count(s, i, Len(s), Acks) \in 1 .. Len(Append(x, n))
                    /\ s[i].number = Append(x, n)[b - Count(s, i, Len(s), Acks)]
  BY DEF InOrder
<1> DEFINE k == b - Count(s, i, Len(s), Acks)
<1>2. k \in 1 .. Len(x) /\ s[i].number = x[k]
  BY DEF InOrder
<1> HIDE DEF k
<1>3. k \in 1 .. Len(Append(x, n)) /\ s[i].number = Append(x, n)[k]
  BY <1>1, <1>2
<1> QED BY <1>3 DEF k
------------------------------------------------------------------------------
(* The invariant behind ExtraExecutions and RepliesLag.                      *)

\* The commands acknowledged by the simulator.
Begun == Len(executed) + (IF stub = "handle" THEN 1 ELSE 0)

\* The acknowledgements the debugger has waited for.
Awaited == IF client = "awaitAck" THEN command - 1 ELSE command

\* Executions done and to come: one for each command, one for each report.  The
\* debugger has skipped no more acknowledgements than there were reports, so
\* that a command that got none was not executed.
Budget ==
    /\ Begun + All(toStub, Frames) + All(toClient, Naks) <= command + reports
    /\ Begun - All(toClient, Acks) \in Awaited .. Awaited + reports

\* The commands, executed, in hand and on their way, lag behind their rank by no
\* more than the reports.
CommandsInOrder ==
    /\ \A k \in 1 .. Len(executed) : executed[k] \in (k - reports) .. command
    /\ stub = "handle" => current \in (Begun - reports) .. command
    /\ Pipeline(toStub, Begun, command, reports)

RepliesInOrder ==
    /\ last = IF executed = <<>> THEN 0 ELSE executed[Len(executed)]
    /\ InOrder(toClient, Begun, executed)

Delivered ==
    /\ Len(replies) = IF client = "idle" THEN command ELSE command - 1
    /\ RepliesLag

Noisy == Budget /\ CommandsInOrder /\ RepliesInOrder /\ Delivered

LEMMA NoisyNumbers ==
    ASSUME Typed
    PROVE  /\ Begun \in Nat /\ Len(executed) \in Nat /\ Len(replies) \in Nat
           /\ command \in Nat /\ reports \in Nat /\ Awaited \in Int
           /\ last \in Nat /\ current \in Nat
           /\ toStub \in Seq(Token) /\ toClient \in Seq(Token)
           /\ \A T : All(toStub, T) \in Nat /\ All(toClient, T) \in Nat
           /\ executed \in Seq(Number) /\ replies \in Seq(Number)
           /\ \A k \in 1 .. Len(executed) : executed[k] \in Nat
           /\ \A k \in 1 .. Len(replies) : replies[k] \in Nat
<1>1. /\ Len(executed) \in Nat /\ Len(replies) \in Nat /\ reports \in Nat
      /\ toStub \in Seq(Token) /\ toClient \in Seq(Token)
      /\ executed \in Seq(Number) /\ replies \in Seq(Number)
      /\ command \in Nat /\ last \in Nat /\ current \in Nat
  BY BoundsAssumption DEF Typed, TypeOK
<1>2. /\ \A k \in 1 .. Len(executed) : executed[k] \in Nat
      /\ \A k \in 1 .. Len(replies) : replies[k] \in Nat
  BY <1>1, BoundsAssumption DEF Number
<1>3. Begun \in Nat /\ Awaited \in Int
  BY <1>1 DEF Begun, Awaited
<1> QED BY <1>1, <1>2, <1>3, AllNat

LEMMA NoisyInit == Init => Noisy
<1> SUFFICES ASSUME Init PROVE Noisy
  OBVIOUS
<1>1. \A T : All(<<>>, T) = 0
  <2> TAKE T
  <2>1. \A j \in 1 .. 0 : <<>>[j] \notin T
    OBVIOUS
  <2>2. Len(<<>>) = 0
    OBVIOUS
  <2> QED BY <2>1, <2>2, CountNone DEF All
<1> QED BY <1>1 DEF Init, Noisy, Budget, CommandsInOrder, RepliesInOrder,
                    Delivered, Begun, Awaited, Pipeline, InOrder, RepliesLag

\* A step that executes nothing, and delivers neither an acknowledgement nor a
\* reply.
LEMMA NoisyAlong ==
    ASSUME Typed, Typed', Noisy,
           UNCHANGED <<executed, stub, current, last, client, command, replies>>,
           reports' >= reports,
           All(toStub', Frames) + All(toClient', Naks) - reports'
             <= All(toStub, Frames) + All(toClient, Naks) - reports,
           All(toClient', Acks) = All(toClient, Acks),
           Pipeline(toStub', Begun, command, reports),
           InOrder(toClient', Begun, executed)
    PROVE  Noisy'
<1>1. Begun' = Begun /\ Awaited' = Awaited
  BY DEF Begun, Awaited
<1>2. reports' \in Nat /\ toStub' \in Seq(Token) /\ toClient' \in Seq(Token)
  BY DEF Typed, TypeOK
<1>a. /\ Begun \in Nat /\ Awaited \in Int /\ command \in Nat /\ reports \in Nat
      /\ Len(executed) \in Nat
  BY NoisyNumbers
<1>b. /\ All(toStub, Frames) \in Nat /\ All(toClient, Naks) \in Nat
      /\ All(toClient, Acks) \in Nat
      /\ All(toStub', Frames) \in Nat /\ All(toClient', Naks) \in Nat
  BY <1>2, NoisyNumbers, AllNat
<1>3. Budget'
  <2>1. /\ Begun + All(toStub, Frames) + All(toClient, Naks) <= command + reports
        /\ Begun - All(toClient, Acks) \in Awaited .. Awaited + reports
    BY DEF Noisy, Budget
  <2>a. All(toStub', Frames) + All(toClient', Naks) - reports'
          <= All(toStub, Frames) + All(toClient, Naks) - reports
    OBVIOUS
  <2>2. Begun + All(toStub', Frames) + All(toClient', Naks) <= command + reports'
    <3>1. \A b, f, n, c, r, f1, n1, r1 \in Nat :
             b + f + n <= c + r /\ f1 + n1 - r1 <= f + n - r => b + f1 + n1 <= c + r1
      OBVIOUS
    <3>2. Begun + All(toStub, Frames) + All(toClient, Naks) <= command + reports
      BY <2>1
    <3> QED BY ONLY <1>2, <1>a, <1>b, <2>a, <3>1, <3>2
  <2>3. Begun - All(toClient', Acks) \in Awaited .. Awaited + reports'
    BY SMTT(30), <1>2, <1>a, <1>b, <2>1
  <2> QED BY <1>1, <2>2, <2>3 DEF Budget
<1>4. Pipeline(toStub', Begun, command, reports')
  BY SMTT(30), <1>2, NoisyNumbers, PipelineGrows
<1>5. CommandsInOrder'
  <2>1. \A k \in 1 .. Len(executed) : executed[k] \in (k - reports') .. command
    <3>1. \A k \in 1 .. Len(executed) :
             executed[k] \in Nat /\ executed[k] \in (k - reports) .. command
      BY NoisyNumbers DEF Noisy, CommandsInOrder
    <3>2. reports' >= reports
      OBVIOUS
    <3> QED BY ONLY <1>2, <1>a, <3>1, <3>2
  <2>2. stub = "handle" => current \in (Begun - reports') .. command
    BY SMTT(30), <1>2, <1>a, NoisyNumbers DEF Noisy, CommandsInOrder
  <2> QED BY <1>1, <1>4, <2>1, <2>2 DEF CommandsInOrder
<1>6. RepliesInOrder'
  BY <1>1 DEF Noisy, RepliesInOrder
<1>7. Delivered'
  <2>1. \A i \in 1 .. Len(replies) : i - replies[i] \in 0 .. reports'
    <3>1. \A i \in 1 .. Len(replies) :
             replies[i] \in Nat /\ i - replies[i] \in 0 .. reports
      BY NoisyNumbers DEF Noisy, Delivered, RepliesLag
    <3>2. reports' >= reports
      OBVIOUS
    <3> QED BY ONLY <1>2, <1>a, <3>1, <3>2
  <2> QED BY <2>1 DEF Noisy, Delivered, RepliesLag
<1> QED BY <1>3, <1>5, <1>6, <1>7 DEF Noisy

\* handle_error, at the start of a rule.
LEMMA ReportSent ==
    ASSUME Typed, Noisy, HandleError
    PROVE  /\ toClient \o Report \in Seq(Token)
           /\ reports' >= reports
           /\ All(toClient \o Report, Naks) - reports' = All(toClient, Naks) - reports
           /\ All(toClient \o Report, Acks) = All(toClient, Acks)
           /\ InOrder(toClient \o Report, Begun, executed)
<1> DEFINE c == toClient \o Report
<1>1. \/ c = toClient /\ reports' = reports
      \/ c = Append(toClient, Nak) /\ reports' = reports + 1
  BY NoisyNumbers DEF Report, HandleError
<1>2. InOrder(toClient, Begun, executed)
  BY DEF Noisy, RepliesInOrder
<1> HIDE DEF c
<1>3. CASE c = toClient /\ reports' = reports
  BY <1>2, <1>3, NoisyNumbers DEF c
<1>4. CASE c = Append(toClient, Nak) /\ reports' = reports + 1
  <2>1. c \in Seq(Token)
    BY <1>4, NoisyNumbers, Tokens
  <2>2. All(c, Naks) = All(toClient, Naks) + 1
    BY <1>4, NoisyNumbers, Tokens, AllAppend DEF Naks
  <2>3. All(c, Acks) = All(toClient, Acks)
    <3>1. Nak \notin Acks
      BY FrameFields DEF Acks
    <3> QED BY <1>4, <3>1, NoisyNumbers, Tokens, AllAppend
  <2>4. InOrder(c, Begun, executed)
    <3>1. InOrder(c, Begun + 0, executed)
      BY <1>2, <1>4, NoisyNumbers, Tokens, FrameFields, InOrderAppend
    <3> QED BY <3>1, NoisyNumbers
  <2>5. reports' = reports + 1 /\ reports \in Nat /\ All(toClient, Naks) \in Nat
    BY <1>4, NoisyNumbers, AllNat
  <2>6. All(c, Naks) - reports' = All(toClient, Naks) - reports /\ reports' >= reports
    BY <2>2, <2>5
  <2> QED BY <2>1, <2>3, <2>4, <2>6 DEF c
<1> QED BY <1>1, <1>3, <1>4

\* The token the scanner takes.
LEMMA Scanned ==
    ASSUME Typed, Noisy, NEW k, Scan(k)
    PROVE  /\ toStub # <<>> /\ toStub' = Tail(toStub)
           /\ Head(toStub) \in Token /\ Head(toStub).kind = k
           /\ All(toStub', Frames) \in Nat
           /\ All(toStub, Frames) = (IF k = "$" THEN 1 ELSE 0) + All(toStub', Frames)
           /\ Pipeline(toStub', Begun + (IF k = "$" THEN 1 ELSE 0), command, reports)
           /\ Pipeline(toStub', Begun, command, reports)
           /\ k = "$" => Head(toStub).number \in (Begun + 1 - reports) .. command
<1>1. /\ toStub # <<>> /\ toStub' = Tail(toStub) /\ Head(toStub).kind = k
      /\ toStub \in Seq(Token)
  BY NoisyNumbers DEF Scan
<1>2. Head(toStub) \in Token /\ toStub' \in Seq(Token)
  BY <1>1, Sequences, Tokens
<1>3. Head(toStub) \in Frames <=> k = "$"
  BY <1>1, <1>2 DEF Frames
<1>4. /\ Begun \in Int /\ command \in Int /\ reports \in Int
      /\ Begun + (IF k = "$" THEN 1 ELSE 0) \in Int
      /\ Begun <= Begun + (IF k = "$" THEN 1 ELSE 0)
      /\ command <= command /\ reports <= reports
  BY NoisyNumbers
<1>5. Pipeline(toStub, Begun, command, reports)
  BY DEF Noisy, CommandsInOrder
<1>6. /\ Pipeline(toStub', Begun + (IF k = "$" THEN 1 ELSE 0), command, reports)
      /\ k = "$" => Head(toStub).number \in (Begun + 1 - reports) .. command
  BY <1>1, <1>3, <1>4, <1>5, PipelineTail
<1>7. Pipeline(toStub', Begun, command, reports)
  BY <1>2, <1>4, <1>6, PipelineGrows
<1>8. All(toStub, Frames) = (IF k = "$" THEN 1 ELSE 0) + All(toStub', Frames)
  BY <1>1, <1>3, AllTail
<1>9. All(toStub', Frames) \in Nat
  BY <1>2, AllNat
<1> QED BY <1>1, <1>2, <1>6, <1>7, <1>8, <1>9

\* An element that is added to what travels towards the debugger.
LEMMA ToClientAppend ==
    ASSUME NEW c \in Seq(Token), NEW b \in Int, NEW x, InOrder(c, b, x),
           NEW e \in Token, e \in Frames => b \in 1 .. Len(x) /\ e.number = x[b]
    PROVE  /\ Append(c, e) \in Seq(Token) /\ Append(c, e) = c \o <<e>>
           /\ All(Append(c, e), Naks) = All(c, Naks) + (IF e = Nak THEN 1 ELSE 0)
           /\ All(Append(c, e), Acks) = All(c, Acks) + (IF e = Ack THEN 1 ELSE 0)
           /\ InOrder(Append(c, e), b + (IF e = Ack THEN 1 ELSE 0), x)
<1>1. Append(c, e) \in Seq(Token) /\ Append(c, e) = c \o <<e>>
  OBVIOUS
<1>2. /\ All(Append(c, e), Naks) = All(c, Naks) + (IF e = Nak THEN 1 ELSE 0)
      /\ All(Append(c, e), Acks) = All(c, Acks) + (IF e = Ack THEN 1 ELSE 0)
  BY AllAppend DEF Acks, Naks
<1> QED BY <1>1, <1>2, InOrderAppend

LEMMA NakSent ==
    ASSUME NEW c \in Seq(Token), NEW b \in Int, NEW x, InOrder(c, b, x)
    PROVE  /\ Append(c, Nak) \in Seq(Token) /\ Append(c, Nak) = c \o <<Nak>>
           /\ All(Append(c, Nak), Naks) = All(c, Naks) + 1
           /\ All(Append(c, Nak), Acks) = All(c, Acks)
           /\ InOrder(Append(c, Nak), b, x)
<1>1. Nak \in Token /\ Nak \notin Frames /\ Nak # Ack
  BY Tokens, FrameFields
<1>2. All(c, Acks) + 0 = All(c, Acks) /\ b + 0 = b
  BY AllNat
<1>3. /\ Append(c, Nak) \in Seq(Token) /\ Append(c, Nak) = c \o <<Nak>>
      /\ All(Append(c, Nak), Naks) = All(c, Naks) + 1
      /\ All(Append(c, Nak), Acks) = All(c, Acks) + 0
  BY <1>1, ToClientAppend
<1>4. InOrder(Append(c, Nak), b + 0, x)
  BY <1>1, InOrderAppend
<1> QED BY <1>2, <1>3, <1>4

LEMMA AckSent ==
    ASSUME NEW c \in Seq(Token), NEW b \in Int, NEW x, InOrder(c, b, x)
    PROVE  /\ Append(c, Ack) \in Seq(Token) /\ Append(c, Ack) = c \o <<Ack>>
           /\ All(Append(c, Ack), Naks) = All(c, Naks)
           /\ All(Append(c, Ack), Acks) = All(c, Acks) + 1
           /\ InOrder(Append(c, Ack), b + 1, x)
<1>1. Ack \in Token /\ Ack \notin Frames /\ Ack # Nak
  BY Tokens, FrameFields
<1>2. All(c, Naks) + 0 = All(c, Naks)
  BY AllNat
<1>3. /\ Append(c, Ack) \in Seq(Token) /\ Append(c, Ack) = c \o <<Ack>>
      /\ All(Append(c, Ack), Naks) = All(c, Naks) + 0
      /\ All(Append(c, Ack), Acks) = All(c, Acks) + 1
  BY <1>1, ToClientAppend
<1>4. InOrder(Append(c, Ack), b + 1, x)
  BY <1>1, InOrderAppend
<1> QED BY <1>2, <1>3, <1>4

LEMMA ReplySent ==
    ASSUME NEW c \in Seq(Token), NEW b \in Int, NEW x, InOrder(c, b, x),
           NEW n \in Number, b \in 1 .. Len(x), n = x[b]
    PROVE  /\ Append(c, Packet(n)) \in Seq(Token)
           /\ Append(c, Packet(n)) = c \o <<Packet(n)>>
           /\ All(Append(c, Packet(n)), Naks) = All(c, Naks)
           /\ All(Append(c, Packet(n)), Acks) = All(c, Acks)
           /\ InOrder(Append(c, Packet(n)), b, x)
<1> DEFINE e == Packet(n)
<1>1. /\ e \in Token /\ e # Ack /\ e # Nak /\ e.number = n
  BY Tokens, FrameFields
<1>2. All(c, Naks) + 0 = All(c, Naks) /\ All(c, Acks) + 0 = All(c, Acks) /\ b + 0 = b
  BY AllNat
<1> HIDE DEF e
<1>3. /\ Append(c, e) \in Seq(Token) /\ Append(c, e) = c \o <<e>>
      /\ All(Append(c, e), Naks) = All(c, Naks) + 0
      /\ All(Append(c, e), Acks) = All(c, Acks) + 0
  BY <1>1, ToClientAppend
<1>4. InOrder(Append(c, e), b + 0, x)
  BY <1>1, InOrderAppend
<1> QED BY <1>2, <1>3, <1>4 DEF e

LEMMA NoisyAddCharacter ==
    ASSUME Typed, Typed', Noisy, AddCharacterToError
    PROVE  Noisy'
<1>1. Scan(".")
  BY DEF AddCharacterToError
<1>2. /\ All(toStub', Frames) = All(toStub, Frames)
      /\ Pipeline(toStub', Begun, command, reports)
  <2>1. All(toStub', Frames) \in Nat
    BY <1>1, Scanned
  <2> QED BY <1>1, <2>1, Scanned
<1>3. InOrder(toClient, Begun, executed)
  BY DEF Noisy, RepliesInOrder
<1>4. CASE toClient' = toClient /\ reports' = reports
  BY <1>2, <1>3, <1>4, NoisyAlong, NoisyNumbers DEF AddCharacterToError, clientVars
<1>5. CASE toClient' = Append(toClient, Nak) /\ reports' = reports + 1
  <2>2. /\ All(toClient', Naks) = All(toClient, Naks) + 1
        /\ All(toClient', Acks) = All(toClient, Acks)
        /\ InOrder(toClient', Begun, executed)
    BY <1>3, <1>5, NakSent, NoisyNumbers
  <2>3. /\ reports \in Nat /\ All(toClient, Naks) \in Nat /\ All(toStub, Frames) \in Nat
    BY NoisyNumbers
  <2>4. /\ All(toStub', Frames) + All(toClient', Naks) - reports'
             <= All(toStub, Frames) + All(toClient, Naks) - reports
        /\ reports' >= reports
    BY <1>2, <1>5, <2>2, <2>3
  <2> QED BY <1>2, <2>2, <2>4, NoisyAlong DEF AddCharacterToError, clientVars
<1> QED BY <1>4, <1>5 DEF AddCharacterToError

LEMMA NoisyReceiveAck ==
    ASSUME Typed, Typed', Noisy, ReceiveAck
    PROVE  Noisy'
<1>1. Scan("+") /\ HandleError /\ toClient' = toClient \o Report
  BY DEF ReceiveAck
<1>2. /\ All(toStub', Frames) \in Nat
      /\ All(toStub, Frames) = 0 + All(toStub', Frames)
      /\ Pipeline(toStub', Begun, command, reports)
  BY <1>1, Scanned
<1>3. /\ reports' >= reports
      /\ All(toClient', Naks) - reports' = All(toClient, Naks) - reports
      /\ All(toClient', Acks) = All(toClient, Acks)
      /\ InOrder(toClient', Begun, executed)
  BY <1>1, ReportSent
<1>4. /\ reports \in Nat /\ reports' \in Nat /\ All(toClient, Naks) \in Nat
      /\ All(toClient', Naks) \in Nat
  <2>1. toClient' \in Seq(Token) /\ reports' \in Nat
    BY DEF Typed, TypeOK
  <2> QED BY <2>1, NoisyNumbers, AllNat
<1>5. All(toStub', Frames) + All(toClient', Naks) - reports'
        <= All(toStub, Frames) + All(toClient, Naks) - reports
  BY ONLY <1>2, <1>3, <1>4
<1> QED BY <1>2, <1>3, <1>5, NoisyAlong DEF ReceiveAck, clientVars

LEMMA NoisyRetransmit ==
    ASSUME Typed, Typed', Noisy, Retransmit
    PROVE  Noisy'
<1> DEFINE c == toClient \o Report
           again == IF last = 0 THEN <<>> ELSE <<Packet(last)>>
<1>1. Scan("-") /\ HandleError /\ toClient' = c \o again
  BY DEF Retransmit
<1>2. /\ All(toStub', Frames) \in Nat
      /\ All(toStub, Frames) = 0 + All(toStub', Frames)
      /\ Pipeline(toStub', Begun, command, reports)
  BY <1>1, Scanned
<1>3. /\ c \in Seq(Token) /\ reports' >= reports
      /\ All(c, Naks) - reports' = All(toClient, Naks) - reports
      /\ All(c, Acks) = All(toClient, Acks)
      /\ InOrder(c, Begun, executed)
  BY <1>1, ReportSent
<1> HIDE DEF c
<1>4. /\ All(toClient', Naks) = All(c, Naks)
      /\ All(toClient', Acks) = All(c, Acks)
      /\ InOrder(toClient', Begun, executed)
  <2>1. CASE last = 0
    <3>1. toClient' = c
      BY <1>1, <1>3, <2>1
    <3> QED BY <1>3, <3>1
  <2>2. CASE last # 0
    <3>1. /\ Begun = Len(executed) /\ Len(executed) \in Nat
          /\ executed # <<>> /\ last = executed[Len(executed)]
      BY <1>1, <2>2, NoisyNumbers DEF Noisy, RepliesInOrder, Scan, Begun
    <3>2. Begun \in 1 .. Len(executed) /\ last = executed[Begun] /\ last \in Number
      BY <2>2, <3>1, NoisyNumbers
    <3>3. toClient' = c \o <<Packet(last)>>
      BY <1>1, <2>2
    <3>4. toClient' = Append(c, Packet(last))
      BY <1>3, <3>2, <3>3, ReplySent, NoisyNumbers
    <3>5. Begun \in Int
      BY NoisyNumbers
    <3> QED BY <1>3, <3>2, <3>4, <3>5, ReplySent
  <2> QED BY <2>1, <2>2
<1>5. /\ reports \in Nat /\ reports' \in Nat /\ All(toClient, Naks) \in Nat
      /\ All(c, Naks) \in Nat
  <2>1. reports' \in Nat
    BY DEF Typed, TypeOK
  <2> QED BY <1>3, <2>1, NoisyNumbers, AllNat
<1>6. All(toStub', Frames) + All(toClient', Naks) - reports'
        <= All(toStub, Frames) + All(toClient, Naks) - reports
  BY ONLY <1>2, <1>3, <1>4, <1>5
<1> QED BY <1>2, <1>3, <1>4, <1>6, NoisyAlong DEF Retransmit, clientVars

LEMMA NoisyRefuse ==
    ASSUME Typed, Typed', Noisy, PacketAnalysis, ~Head(toStub).ok
    PROVE  Noisy'
<1> DEFINE c == toClient \o Report
<1>1. Scan("$") /\ HandleError /\ toClient' = c \o <<Nak>>
  BY DEF PacketAnalysis
<1>2. /\ All(toStub', Frames) \in Nat
      /\ All(toStub, Frames) = 1 + All(toStub', Frames)
      /\ Pipeline(toStub', Begun, command, reports)
  BY <1>1, Scanned
<1>3. /\ c \in Seq(Token) /\ reports' >= reports
      /\ All(c, Naks) - reports' = All(toClient, Naks) - reports
      /\ All(c, Acks) = All(toClient, Acks)
      /\ InOrder(c, Begun, executed)
  BY <1>1, ReportSent
<1> HIDE DEF c
<1>4. /\ All(toClient', Naks) = All(c, Naks) + 1
      /\ All(toClient', Acks) = All(c, Acks)
      /\ InOrder(toClient', Begun, executed)
  <2>1. toClient' = Append(c, Nak)
    BY <1>1, <1>3, NakSent, NoisyNumbers
  <2> QED BY <1>3, <2>1, NakSent, NoisyNumbers
<1>5. /\ reports \in Nat /\ reports' \in Nat /\ All(toClient, Naks) \in Nat
      /\ All(c, Naks) \in Nat
  <2>1. reports' \in Nat
    BY DEF Typed, TypeOK
  <2> QED BY <1>3, <2>1, NoisyNumbers, AllNat
<1>6. All(toStub', Frames) + All(toClient', Naks) - reports'
        <= All(toStub, Frames) + All(toClient, Naks) - reports
  BY ONLY <1>2, <1>3, <1>4, <1>5
<1> QED BY <1>2, <1>3, <1>4, <1>6, NoisyAlong DEF PacketAnalysis, clientVars

\* The command is acknowledged before it is executed.
LEMMA NoisyAccept ==
    ASSUME Typed, Typed', Noisy, PacketAnalysis, Head(toStub).ok
    PROVE  Noisy'
<1> DEFINE c == toClient \o Report
<1>1. /\ Scan("$") /\ HandleError /\ toClient' = c \o <<Ack>> /\ stub = "scan"
      /\ stub' = "handle" /\ current' = Head(toStub).number
      /\ UNCHANGED <<last, executed, client, command, replies>>
  BY DEF PacketAnalysis, Scan, clientVars
<1>2. Begun = Len(executed) /\ Begun' = Begun + 1 /\ Awaited' = Awaited
  BY <1>1, NoisyNumbers DEF Begun, Awaited
<1>3. /\ All(toStub', Frames) \in Nat
      /\ All(toStub, Frames) = 1 + All(toStub', Frames)
      /\ Pipeline(toStub', Begun + 1, command, reports)
      /\ current' \in (Begun + 1 - reports) .. command
  BY <1>1, Scanned
<1>4. /\ c \in Seq(Token) /\ reports' >= reports
      /\ All(c, Naks) - reports' = All(toClient, Naks) - reports
      /\ All(c, Acks) = All(toClient, Acks)
      /\ InOrder(c, Begun, executed)
  BY <1>1, ReportSent
<1> HIDE DEF c
<1>5. /\ All(toClient', Naks) = All(c, Naks)
      /\ All(toClient', Acks) = All(c, Acks) + 1
      /\ InOrder(toClient', Begun + 1, executed)
  <2>1. toClient' = Append(c, Ack)
    BY <1>1, <1>4, AckSent, NoisyNumbers
  <2> QED BY <1>4, <2>1, AckSent, NoisyNumbers
<1> DEFINE b1 == Begun'
           r1 == reports'
           f1 == All(toStub', Frames)
           n1 == All(toClient', Naks)
           a1 == All(toClient', Acks)
           y1 == current'
<1>6. /\ b1 \in Nat /\ r1 \in Nat /\ f1 \in Nat /\ n1 \in Nat /\ a1 \in Nat /\ y1 \in Nat
  <2>1. /\ reports' \in Nat /\ current' \in Nat /\ toClient' \in Seq(Token)
        /\ toStub' \in Seq(Token)
    BY BoundsAssumption DEF Typed, TypeOK
  <2>2. Begun' \in Nat
    BY <1>2, NoisyNumbers
  <2> QED BY <2>1, <2>2, AllNat
<1>7. /\ b1 = Begun + 1 /\ All(toStub, Frames) = 1 + f1 /\ r1 >= reports
      /\ n1 - r1 = All(toClient, Naks) - reports
      /\ a1 = All(toClient, Acks) + 1
      /\ y1 \in (Begun + 1 - reports) .. command
  BY <1>2, <1>3, <1>4, <1>5
<1>a. /\ Begun \in Nat /\ reports \in Nat /\ All(toStub, Frames) \in Nat
      /\ All(toClient, Naks) \in Nat /\ All(toClient, Acks) \in Nat
      /\ Awaited \in Int /\ command \in Nat /\ Len(executed) \in Nat
      /\ Len(replies) \in Nat
  BY NoisyNumbers
<1> HIDE DEF b1, r1, f1, n1, a1, y1
<1>8. Budget'
  <2>1. /\ Begun + All(toStub, Frames) + All(toClient, Naks) <= command + reports
        /\ Begun - All(toClient, Acks) \in Awaited .. Awaited + reports
    BY DEF Noisy, Budget
  <2>2. b1 + f1 + n1 <= command + r1 /\ b1 - a1 \in Awaited .. Awaited + r1
    <3> DEFINE f == All(toStub, Frames)
               n == All(toClient, Naks)
               a == All(toClient, Acks)
    <3>1. /\ b1 = Begun + 1 /\ f = 1 + f1 /\ r1 >= reports /\ a1 = a + 1
          /\ n1 - r1 = n - reports
      BY <1>7
    <3>2. f \in Nat /\ n \in Nat /\ a \in Nat
      BY <1>a
    <3>3. Begun + f + n <= command + reports
      BY <2>1
    <3>4. Begun - a \in Awaited .. Awaited + reports
      BY <2>1
    <3> HIDE DEF f, n, a
    <3>5. b1 + f1 + n1 <= command + r1
      BY ONLY <1>6, <1>a, <3>1, <3>2, <3>3
    <3>6. b1 - a1 \in Awaited .. Awaited + r1
      BY ONLY <1>6, <1>a, <3>1, <3>2, <3>4
    <3> QED BY <3>5, <3>6
  <2> QED BY <1>1, <1>2, <2>2 DEF Budget, b1, f1, n1, a1, r1
<1>9. CommandsInOrder'
  <2>1. \A k \in 1 .. Len(executed) : executed[k] \in (k - r1) .. command
    <3>1. \A k \in 1 .. Len(executed) :
             executed[k] \in Nat /\ executed[k] \in (k - reports) .. command
      BY NoisyNumbers DEF Noisy, CommandsInOrder
    <3> QED BY ONLY <1>6, <1>7, <1>a, <3>1
  <2>2. y1 \in (b1 - r1) .. command
    BY ONLY <1>6, <1>7, <1>a
  <2>3. Pipeline(toStub', b1, command, r1)
    <3>1. Pipeline(toStub', b1, command, reports)
      BY <1>3, <1>7
    <3>2. toStub' \in Seq(Token)
      BY DEF Typed, TypeOK
    <3> QED BY <1>6, <1>7, <1>a, <3>1, <3>2, PipelineGrows
  <2> QED BY <1>1, <2>1, <2>2, <2>3 DEF CommandsInOrder, b1, r1, y1
<1>10. RepliesInOrder'
  BY <1>1, <1>2, <1>5 DEF Noisy, RepliesInOrder
<1>11. Delivered'
  <2>1. \A i \in 1 .. Len(replies) : i - replies[i] \in 0 .. r1
    <3>1. \A i \in 1 .. Len(replies) :
             replies[i] \in Nat /\ i - replies[i] \in 0 .. reports
      BY NoisyNumbers DEF Noisy, Delivered, RepliesLag
    <3> QED BY ONLY <1>6, <1>7, <1>a, <3>1
  <2> QED BY <1>1, <2>1 DEF Noisy, Delivered, RepliesLag, r1
<1> QED BY <1>8, <1>9, <1>10, <1>11 DEF Noisy

LEMMA NoisyHandle ==
    ASSUME Typed, Typed', Noisy, Handle
    PROVE  Noisy'
<1>1. /\ stub = "handle" /\ stub' = "scan"
      /\ executed' = Append(executed, current) /\ last' = current
      /\ toClient' = Append(toClient, Packet(current))
      /\ UNCHANGED <<toStub, reports, client, command, replies>>
  BY DEF Handle, clientVars
<1>2. /\ Begun = Len(executed) + 1 /\ Len(executed) \in Nat
      /\ executed \in Seq(Number) /\ current \in Number /\ Begun \in Nat
      /\ toClient \in Seq(Token)
  BY <1>1, NoisyNumbers DEF Begun, Typed, Numbered
<1>3. /\ Len(executed') = Begun /\ executed'[Begun] = current
      /\ executed' # <<>>
      /\ \A k \in 1 .. Len(executed) : executed'[k] = executed[k]
  BY <1>1, <1>2
<1>4. Begun' = Begun /\ Awaited' = Awaited
  BY <1>1, <1>2, <1>3 DEF Begun, Awaited
<1>5. /\ All(toClient', Naks) = All(toClient, Naks)
      /\ All(toClient', Acks) = All(toClient, Acks)
      /\ InOrder(toClient', Begun, executed')
  <2> DEFINE x == executed'
             b == Begun
  <2>1. InOrder(toClient, b, x)
    BY <1>1, <1>2, InOrderMore DEF Noisy, RepliesInOrder
  <2>2. b \in Int /\ b \in 1 .. Len(x) /\ current = x[b]
    BY <1>2, <1>3
  <2> HIDE DEF x, b
  <2>3. /\ All(toClient', Naks) = All(toClient, Naks)
        /\ All(toClient', Acks) = All(toClient, Acks)
        /\ InOrder(toClient', b, x)
    BY <1>1, <1>2, <2>1, <2>2, ReplySent
  <2> QED BY <2>3 DEF x, b
<1>6. Budget'
  BY <1>1, <1>4, <1>5 DEF Noisy, Budget
<1>7. CommandsInOrder'
  <2>1. /\ current \in (Begun - reports) .. command
        /\ \A k \in 1 .. Len(executed) : executed[k] \in (k - reports) .. command
        /\ Pipeline(toStub, Begun, command, reports)
    BY <1>1 DEF Noisy, CommandsInOrder
  <2>2. ASSUME NEW k \in 1 .. Begun
        PROVE  executed'[k] \in (k - reports) .. command
    <3>1. CASE k = Begun
      BY <1>3, <2>1, <3>1
    <3>2. CASE k \in 1 .. Len(executed)
      BY <1>3, <2>1, <3>2
    <3> QED BY <1>2, <3>1, <3>2
  <2>3. \A k \in 1 .. Len(executed') : executed'[k] \in (k - reports') .. command'
    BY <1>1, <1>3, <2>2
  <2> QED BY <1>1, <1>4, <2>1, <2>3 DEF CommandsInOrder
<1>8. RepliesInOrder'
  BY <1>1, <1>3, <1>4, <1>5 DEF RepliesInOrder
<1>9. Delivered'
  BY <1>1 DEF Noisy, Delivered, RepliesLag
<1> QED BY <1>6, <1>7, <1>8, <1>9 DEF Noisy

\* A command is added behind those on their way.
LEMMA CommandSent ==
    ASSUME NEW s \in Seq(Token), NEW b \in Nat, NEW c \in Number, NEW r \in Nat,
           Pipeline(s, b, c, r), b + All(s, Frames) + 1 <= c + r
    PROVE  /\ Pipeline(Append(s, Packet(c)), b, c, r)
           /\ All(Append(s, Packet(c)), Frames) = All(s, Frames) + 1
<1> DEFINE e == Packet(c)
           n == All(s, Frames)
<1>1. e \in Token /\ e \in Frames /\ e.number = c
  BY Tokens, FrameFields
<1>2. n \in Nat /\ c \in Nat /\ b + n + 1 <= c + r
  BY AllNat, BoundsAssumption DEF Number
<1> HIDE DEF e
<1>3. All(Append(s, e), Frames) = All(s, Frames) + 1
  BY <1>1, AllAppend
<1>4. e.number \in (b + All(s, Frames) + 1 - r) .. c
  <2> HIDE DEF n
  <2>1. c \in (b + n + 1 - r) .. c
    BY <1>2
  <2> QED BY <1>1, <2>1 DEF n
<1>5. Pipeline(Append(s, e), b, c, r)
  BY <1>1, <1>2, <1>4, PipelineAppend
<1> QED BY <1>3, <1>5 DEF e

LEMMA NoisySend ==
    ASSUME Typed, Typed', Noisy, Send
    PROVE  Noisy'
<1>1. /\ client = "idle" /\ client' = "awaitAck" /\ command' = command + 1
      /\ toStub' = Append(toStub, Packet(command + 1))
      /\ UNCHANGED <<toClient, stub, current, last, executed, reports, replies>>
  BY DEF Send, stubVars
<1> DEFINE c == command + 1
           f == All(toStub, Frames)
           n == All(toClient, Naks)
<1>2. /\ c \in Number /\ c \in Nat /\ f \in Nat /\ n \in Nat /\ Begun \in Nat
      /\ command \in Nat /\ reports \in Nat /\ toStub \in Seq(Token)
      /\ Len(executed) \in Nat /\ Len(replies) \in Nat
  <2>1. c \in Number
    BY BoundsAssumption, NoisyNumbers DEF Send, Number
  <2> QED BY <2>1, NoisyNumbers
<1>3. Begun' = Begun /\ Awaited' = Awaited /\ command' = c /\ c = command + 1
  BY <1>1, <1>2 DEF Begun, Awaited
<1>4. Begun + f + n <= command + reports
  BY DEF Noisy, Budget
<1> HIDE DEF c, f, n
<1>5. Begun + f + 1 <= c + reports
  BY <1>2, <1>3, <1>4
<1>6. Pipeline(toStub, Begun, c, reports)
  <2>1. command <= c
    BY <1>2, <1>3
  <2> QED BY <1>2, <2>1, PipelineGrows DEF Noisy, CommandsInOrder
<1>7. Pipeline(toStub', Begun, c, reports) /\ All(toStub', Frames) = f + 1
  BY <1>1, <1>2, <1>5, <1>6, CommandSent DEF f, c
<1>8. Budget'
  <2>1. Begun + (f + 1) + n <= c + reports
    BY <1>2, <1>3, <1>4
  <2> QED BY <1>1, <1>3, <1>7, <2>1 DEF Noisy, Budget, n
<1>9. CommandsInOrder'
  <2>1. \A k \in 1 .. Len(executed) : executed[k] \in (k - reports) .. c
    <3>1. \A k \in 1 .. Len(executed) :
             executed[k] \in Nat /\ executed[k] \in (k - reports) .. command
      BY NoisyNumbers DEF Noisy, CommandsInOrder
    <3> QED BY ONLY <1>2, <1>3, <3>1
  <2>2. stub = "handle" => current \in (Begun - reports) .. c
    <3>1. stub = "handle" => current \in Nat /\ current \in (Begun - reports) .. command
      BY NoisyNumbers DEF Noisy, CommandsInOrder
    <3> QED BY ONLY <1>2, <1>3, <3>1
  <2> QED BY <1>1, <1>3, <1>7, <2>1, <2>2 DEF CommandsInOrder
<1>10. RepliesInOrder'
  BY <1>1, <1>3 DEF Noisy, RepliesInOrder
<1>11. Delivered'
  BY <1>1, <1>2 DEF Noisy, Delivered, RepliesLag
<1> QED BY <1>8, <1>9, <1>10, <1>11 DEF Noisy

\* What the debugger takes.
LEMMA Taken ==
    ASSUME Typed, Noisy, Receive
    PROVE  /\ toClient' \in Seq(Token) /\ Head(toClient) \in Token
           /\ Head(toClient) = Ack <=> Head(toClient).kind = "+"
           /\ Head(toClient) = Nak <=> Head(toClient).kind = "-"
           /\ Head(toClient) \in Frames <=> Head(toClient).kind = "$"
           /\ All(toClient', Naks) \in Nat /\ All(toClient', Acks) \in Nat
           /\ All(toClient, Naks) = (IF Head(toClient) = Nak THEN 1 ELSE 0)
                                      + All(toClient', Naks)
           /\ All(toClient, Acks) = (IF Head(toClient) = Ack THEN 1 ELSE 0)
                                      + All(toClient', Acks)
           /\ InOrder(toClient', Begun, executed)
<1>1. toClient # <<>> /\ toClient' = Tail(toClient) /\ toClient \in Seq(Token)
  BY NoisyNumbers DEF Receive
<1>2. toClient' \in Seq(Token) /\ Head(toClient) \in Token
  BY <1>1, Sequences, Tokens
<1>3. /\ Head(toClient) = Ack <=> Head(toClient).kind = "+"
      /\ Head(toClient) = Nak <=> Head(toClient).kind = "-"
      /\ Head(toClient) \in Frames <=> Head(toClient).kind = "$"
  BY <1>2 DEF Token, Frames, Ack, Nak, Noise
<1>4. /\ All(toClient, Naks) = (IF Head(toClient) = Nak THEN 1 ELSE 0)
                                  + All(toClient', Naks)
      /\ All(toClient, Acks) = (IF Head(toClient) = Ack THEN 1 ELSE 0)
                                  + All(toClient', Acks)
  BY <1>1, AllTail DEF Naks, Acks
<1>5. InOrder(toClient', Begun, executed)
  BY <1>1, NoisyNumbers, InOrderTail DEF Noisy, RepliesInOrder
<1>6. All(toClient', Naks) \in Nat /\ All(toClient', Acks) \in Nat
  BY <1>2, AllNat
<1> QED BY <1>2, <1>3, <1>4, <1>5, <1>6

\* An acknowledgement is added to what travels towards the simulator.
LEMMA SignSent ==
    ASSUME Typed, Noisy, NEW e \in {Ack, Nak, Noise}, toStub' = Append(toStub, e)
    PROVE  /\ All(toStub', Frames) = All(toStub, Frames)
           /\ Pipeline(toStub', Begun, command, reports)
<1>1. e \in Token /\ e \notin Frames
  BY Tokens, FrameFields
<1>2. /\ toStub \in Seq(Token) /\ Begun \in Int /\ command \in Int /\ reports \in Int
      /\ All(toStub, Frames) \in Nat
  BY NoisyNumbers
<1>3. Pipeline(toStub, Begun, command, reports)
  BY DEF Noisy, CommandsInOrder
<1>4. All(toStub', Frames) = All(toStub, Frames) + 0
  BY <1>1, <1>2, AllAppend
<1>5. Pipeline(toStub', Begun, command, reports)
  BY <1>1, <1>2, <1>3, PipelineAppend
<1> QED BY <1>2, <1>4, <1>5

\* The sums of NoisyAlong for a step of the debugger that neither takes a '-' nor
\* adds a command.
LEMMA NoisyAside ==
    ASSUME Typed, Typed', Noisy, Receive,
           Head(toClient) # Nak, Head(toClient) # Ack,
           \/ toStub' = toStub
           \/ \E e \in {Ack, Nak, Noise} : toStub' = Append(toStub, e),
           UNCHANGED <<stubVars, clientVars>>
    PROVE  Noisy'
<1>1. /\ All(toStub', Frames) = All(toStub, Frames)
      /\ Pipeline(toStub', Begun, command, reports)
  <2>1. CASE toStub' = toStub
    BY <2>1 DEF Noisy, CommandsInOrder
  <2>2. CASE \E e \in {Ack, Nak, Noise} : toStub' = Append(toStub, e)
    BY <2>2, SignSent
  <2> QED BY <2>1, <2>2
<1>2. /\ All(toClient, Naks) = 0 + All(toClient', Naks)
      /\ All(toClient, Acks) = 0 + All(toClient', Acks)
      /\ All(toClient', Naks) \in Nat /\ All(toClient', Acks) \in Nat
      /\ InOrder(toClient', Begun, executed)
  BY Taken
<1>3. /\ All(toClient', Naks) = All(toClient, Naks)
      /\ All(toClient', Acks) = All(toClient, Acks)
  BY <1>2
<1>4. reports' = reports /\ reports \in Nat /\ All(toStub, Frames) \in Nat
      /\ All(toClient, Naks) \in Nat
  BY NoisyNumbers DEF stubVars
<1>5. /\ reports' >= reports
      /\ All(toStub', Frames) + All(toClient', Naks) - reports'
           <= All(toStub, Frames) + All(toClient, Naks) - reports
  BY <1>1, <1>3, <1>4
<1> QED BY <1>1, <1>2, <1>3, <1>5, NoisyAlong DEF stubVars, clientVars

LEMMA NoisyAwaitAck ==
    ASSUME Typed, Typed', Noisy, AwaitAck
    PROVE  Noisy'
<1>1. client = "awaitAck" /\ Receive
  BY DEF AwaitAck
<1> DEFINE f == All(toStub, Frames)
           n == All(toClient, Naks)
           a == All(toClient, Acks)
           n1 == All(toClient', Naks)
           a1 == All(toClient', Acks)
<1>2. /\ f \in Nat /\ n \in Nat /\ a \in Nat /\ n1 \in Nat /\ a1 \in Nat
      /\ Begun \in Nat /\ command \in Nat /\ reports \in Nat /\ Awaited \in Int
  BY <1>1, Taken, NoisyNumbers
<1>3. /\ Begun + f + n <= command + reports
      /\ Begun - a \in Awaited .. Awaited + reports
  BY DEF Noisy, Budget
<1>4. CASE Head(toClient).kind = "+"
  <2>1. /\ client' = "awaitReply"
        /\ UNCHANGED <<toStub, stubVars, command, replies, troubles>>
    BY <1>4 DEF AwaitAck
  <2>2. n = 0 + n1 /\ a = 1 + a1 /\ InOrder(toClient', Begun, executed)
    BY <1>1, <1>4, Taken, FrameFields
  <2>3. Begun' = Begun /\ Awaited = command - 1 /\ Awaited' = command
    BY <1>1, <2>1 DEF Begun, Awaited, stubVars
  <2>4. Begun + f + n1 <= command + reports /\ Begun - a1 \in command .. command + reports
    <3> HIDE DEF f, n, a, n1, a1
    <3> QED BY <1>2, <1>3, <2>2, <2>3
  <2>5. Budget'
    BY <2>1, <2>3, <2>4 DEF Budget, stubVars
  <2>6. CommandsInOrder'
    BY <2>1, <2>3 DEF Noisy, CommandsInOrder, stubVars
  <2>7. RepliesInOrder'
    BY <2>1, <2>2, <2>3 DEF Noisy, RepliesInOrder, stubVars
  <2>8. Delivered'
    BY <1>1, <2>1 DEF Noisy, Delivered, RepliesLag, stubVars
  <2> QED BY <2>5, <2>6, <2>7, <2>8 DEF Noisy
<1>5. CASE Head(toClient).kind = "-"
  <2>1. toStub' = Append(toStub, Packet(command)) /\ UNCHANGED <<stubVars, clientVars>>
    BY <1>5 DEF AwaitAck, Resend
  <2>2. n = 1 + n1 /\ a = 0 + a1 /\ InOrder(toClient', Begun, executed)
    BY <1>1, <1>5, Taken, FrameFields
  <2>3. command \in Number /\ toStub \in Seq(Token)
    BY <1>1, NoisyNumbers DEF Typed, Numbered
  <2>4. Begun + f + 1 <= command + reports
    <3> HIDE DEF f, n, a, n1, a1
    <3> QED BY <1>2, <1>3, <2>2
  <2>5. Pipeline(toStub', Begun, command, reports) /\ All(toStub', Frames) = f + 1
    BY <1>2, <2>1, <2>3, <2>4, CommandSent DEF Noisy, CommandsInOrder
  <2>6. a1 = a /\ (f + 1) + n1 - reports <= f + n - reports
    <3> HIDE DEF f, n, a, n1, a1
    <3> QED BY <1>2, <2>2
  <2>7. /\ reports' = reports /\ reports' >= reports
        /\ All(toStub', Frames) + All(toClient', Naks) - reports'
             <= All(toStub, Frames) + All(toClient, Naks) - reports
    BY <1>2, <2>1, <2>5, <2>6 DEF stubVars
  <2> QED BY <2>1, <2>2, <2>5, <2>6, <2>7, NoisyAlong DEF stubVars, clientVars
<1>6. CASE Head(toClient).kind = "$"
  <2>1. /\ Head(toClient) # Nak /\ Head(toClient) # Ack
        /\ toStub' = Append(toStub, Ack) /\ UNCHANGED <<stubVars, clientVars>>
    BY <1>1, <1>6, Taken DEF AwaitAck
  <2> QED BY <1>1, <2>1, NoisyAside
<1> QED BY <1>4, <1>5, <1>6 DEF AwaitAck

\* The reply that is taken is no later than the command it is taken for, and
\* earlier by no more than the reports.
LEMMA NoisyTakeReply ==
    ASSUME Typed, Typed', Noisy, AwaitReply,
           Head(toClient).kind = "$", Head(toClient).ok
    PROVE  Noisy'
<1> DEFINE n == Head(toClient).number
           k == Begun - All(toClient, Acks)
<1>1. /\ client = "awaitReply" /\ Receive /\ client' = "idle"
      /\ replies' = Append(replies, n) /\ toStub' = Append(toStub, Ack)
      /\ UNCHANGED <<stubVars, command, troubles>>
  BY DEF AwaitReply
<1>2. /\ All(toStub', Frames) = All(toStub, Frames)
      /\ Pipeline(toStub', Begun, command, reports)
  BY <1>1, SignSent
<1>3. Head(toClient) # Ack /\ Head(toClient) # Nak /\ Head(toClient) \in Frames
  BY <1>1, Taken
<1>4. /\ All(toClient', Naks) = All(toClient, Naks)
      /\ All(toClient', Acks) = All(toClient, Acks)
      /\ InOrder(toClient', Begun, executed)
  <2>1. /\ All(toClient, Naks) = 0 + All(toClient', Naks)
        /\ All(toClient, Acks) = 0 + All(toClient', Acks)
        /\ All(toClient', Naks) \in Nat /\ All(toClient', Acks) \in Nat
        /\ InOrder(toClient', Begun, executed)
    BY <1>1, <1>3, Taken
  <2> QED BY <2>1
<1>5. Begun' = Begun /\ Awaited' = Awaited /\ Awaited = command
  BY <1>1 DEF Begun, Awaited, stubVars
<1>6. Budget'
  BY <1>1, <1>2, <1>4, <1>5 DEF Noisy, Budget, stubVars
<1>7. CommandsInOrder'
  BY <1>1, <1>2, <1>5 DEF Noisy, CommandsInOrder, stubVars
<1>8. RepliesInOrder'
  BY <1>1, <1>4, <1>5 DEF Noisy, RepliesInOrder, stubVars
<1>9. command - n \in 0 .. reports /\ n \in Nat
  <2>1. k \in 1 .. Len(executed) /\ n = executed[k]
    <3>1. toClient # <<>> /\ toClient \in Seq(Token) /\ Begun \in Int
      BY <1>1, NoisyNumbers DEF Receive
    <3>2. InOrder(toClient, Begun, executed)
      BY DEF Noisy, RepliesInOrder
    <3> QED BY <1>3, <3>1, <3>2, InOrderTail
  <2>2. k \in command .. command + reports
    BY <1>5 DEF Noisy, Budget
  <2>3. n \in (k - reports) .. command /\ n \in Nat
    BY <2>1, NoisyNumbers DEF Noisy, CommandsInOrder
  <2>4. command \in Nat /\ reports \in Nat
    BY NoisyNumbers
  <2> HIDE DEF n, k
  <2> QED BY ONLY <2>2, <2>3, <2>4
<1>10. Delivered'
  <2>1. Len(replies) = command - 1 /\ command \in Nat /\ Len(replies) \in Nat
    BY <1>1, NoisyNumbers DEF Noisy, Delivered
  <2>2. /\ Len(replies') = command /\ replies'[command] = n
        /\ \A i \in 1 .. command - 1 : replies'[i] = replies[i]
    BY <1>1, <2>1, NoisyNumbers
  <2>3. ASSUME NEW i \in 1 .. command
        PROVE  i - replies'[i] \in 0 .. reports
    <3>1. CASE i = command
      BY <1>9, <2>2, <3>1
    <3>2. CASE i \in 1 .. command - 1
      BY <2>1, <2>2, <3>2 DEF Noisy, Delivered, RepliesLag
    <3> QED BY <2>1, <3>1, <3>2
  <2>4. RepliesLag'
    BY <1>1, <2>2, <2>3 DEF RepliesLag, stubVars
  <2> QED BY <1>1, <2>2, <2>4 DEF Delivered
<1> QED BY <1>6, <1>7, <1>8, <1>10 DEF Noisy

\* An acknowledgement or a '-' that comes too late is skipped.
LEMMA NoisySkip ==
    ASSUME Typed, Typed', Noisy, AwaitReply, Head(toClient).kind # "$"
    PROVE  Noisy'
<1>1. /\ client = "awaitReply" /\ Receive
      /\ UNCHANGED <<toStub, stubVars, clientVars, troubles>>
  BY DEF AwaitReply
<1> DEFINE f == All(toStub, Frames)
           n == All(toClient, Naks)
           a == All(toClient, Acks)
           n1 == All(toClient', Naks)
           a1 == All(toClient', Acks)
<1>2. /\ f \in Nat /\ n \in Nat /\ a \in Nat /\ n1 \in Nat /\ a1 \in Nat
      /\ Begun \in Nat /\ command \in Nat /\ reports \in Nat
  BY <1>1, Taken, NoisyNumbers
<1>3. /\ n = (IF Head(toClient) = Nak THEN 1 ELSE 0) + n1
      /\ a = (IF Head(toClient) = Ack THEN 1 ELSE 0) + a1
      /\ InOrder(toClient', Begun, executed)
  BY <1>1, Taken
<1>4. Begun' = Begun /\ Awaited' = Awaited /\ Awaited = command
  BY <1>1 DEF Begun, Awaited, stubVars, clientVars
<1>5. /\ Begun + f + n <= command + reports
      /\ Begun - a \in command .. command + reports
  BY <1>4 DEF Noisy, Budget
<1>6. n1 <= n /\ (a1 = a \/ a = a1 + 1)
  <2> HIDE DEF n, a, n1, a1
  <2> QED BY <1>2, <1>3
<1>7. Begun + f + n1 <= command + reports /\ Begun - a1 \in command .. command + reports
  <2> HIDE DEF f, n, a, n1, a1
  <2> QED BY ONLY <1>2, <1>5, <1>6
<1>8. Budget'
  BY <1>1, <1>4, <1>7 DEF Budget, stubVars, clientVars
<1>9. CommandsInOrder'
  BY <1>1, <1>4 DEF Noisy, CommandsInOrder, stubVars, clientVars
<1>10. RepliesInOrder'
  BY <1>1, <1>3, <1>4 DEF Noisy, RepliesInOrder, stubVars
<1>11. Delivered'
  BY <1>1 DEF Noisy, Delivered, RepliesLag, stubVars, clientVars
<1> QED BY <1>8, <1>9, <1>10, <1>11 DEF Noisy

LEMMA NoisyAwaitReply ==
    ASSUME Typed, Typed', Noisy, AwaitReply
    PROVE  Noisy'
<1>1. CASE Head(toClient).kind = "$" /\ ~Head(toClient).ok
  <2>1. /\ Receive /\ toStub' = Append(toStub, Nak)
        /\ UNCHANGED <<stubVars, clientVars>>
    BY <1>1 DEF AwaitReply
  <2>2. Head(toClient) # Nak /\ Head(toClient) # Ack
    BY <1>1, <2>1, Taken
  <2> QED BY <2>1, <2>2, NoisyAside
<1> QED BY <1>1, NoisyTakeReply, NoisySkip DEF AwaitReply

\* Nothing travels: the acknowledgements sent have all been waited for, so that
\* this command was not executed.
LEMMA NoisyTimeout ==
    ASSUME Typed, Typed', Noisy, Timeout
    PROVE  Noisy'
<1>1. /\ client = "awaitAck" /\ toStub = <<>> /\ toClient = <<>>
      /\ toStub' = Append(toStub, Packet(command)) /\ toClient' = toClient
      /\ UNCHANGED <<stubVars, clientVars>>
  BY DEF Timeout, Resend
<1> DEFINE f == All(toStub, Frames)
           n == All(toClient, Naks)
           a == All(toClient, Acks)
<1>2. /\ Begun \in Nat /\ command \in Nat /\ command \in Number /\ reports \in Nat
      /\ toStub \in Seq(Token)
  BY <1>1, NoisyNumbers DEF Typed, Numbered
<1>3. f = 0 /\ n = 0 /\ a = 0
  <2>1. Len(toStub) = 0 /\ Len(toClient) = 0
    BY <1>1
  <2> QED BY <2>1, CountNone DEF All
<1>4. Begun - a \in command - 1 .. command - 1 + reports
  BY <1>1 DEF Noisy, Budget, Awaited
<1> HIDE DEF f, n, a
<1>5. Begun + f + 1 <= command + reports
  BY <1>2, <1>3, <1>4
<1>6. Pipeline(toStub', Begun, command, reports) /\ All(toStub', Frames) = f + 1
  BY <1>1, <1>2, <1>5, CommandSent DEF Noisy, CommandsInOrder, f
<1>7. Begun' = Begun /\ Awaited' = Awaited
  BY <1>1 DEF Begun, Awaited, stubVars, clientVars
<1>8. Budget'
  <2>1. Begun + (f + 1) + n <= command + reports
    BY <1>2, <1>3, <1>5
  <2> QED BY <1>1, <1>6, <1>7, <2>1 DEF Noisy, Budget, stubVars, clientVars, n
<1>9. CommandsInOrder'
  BY <1>1, <1>6, <1>7 DEF Noisy, CommandsInOrder, stubVars, clientVars
<1>10. RepliesInOrder'
  BY <1>1, <1>7 DEF Noisy, RepliesInOrder, stubVars
<1>11. Delivered'
  BY <1>1 DEF Noisy, Delivered, RepliesLag, stubVars, clientVars
<1> QED BY <1>8, <1>9, <1>10, <1>11 DEF Noisy

LEMMA NoisyDamage ==
    ASSUME Typed, Typed', Noisy, Damage
    PROVE  Noisy'
<1>1. UNCHANGED <<stubVars, clientVars>>
  BY DEF Damage
<1>2. /\ toStub \in Seq(Token) /\ toClient \in Seq(Token)
      /\ toStub' \in Seq(Token) /\ toClient' \in Seq(Token)
      /\ Begun \in Int /\ command \in Int /\ reports \in Int
      /\ All(toStub, Frames) \in Nat /\ All(toClient, Naks) \in Nat
  <2>1. toStub' \in Seq(Token) /\ toClient' \in Seq(Token)
    BY DEF Typed, TypeOK
  <2> QED BY <2>1, NoisyNumbers
<1>3. /\ Pipeline(toStub, Begun, command, reports)
      /\ InOrder(toClient, Begun, executed)
  BY DEF Noisy, CommandsInOrder, RepliesInOrder
<1>4. /\ All(toStub', Frames) = All(toStub, Frames)
      /\ Pipeline(toStub', Begun, command, reports)
  <2>1. CASE toStub' = toStub
    BY <1>3, <2>1
  <2>2. CASE \E i \in 1 .. Len(toStub) :
               toStub[i].kind = "$" /\ toStub' = Damaged(toStub, i)
    <3>1. /\ Len(toStub') = Len(toStub)
          /\ \A j \in 1 .. Len(toStub) :
               /\ toStub'[j] \in Frames <=> toStub[j] \in Frames
               /\ toStub[j] \in Frames => toStub'[j].number = toStub[j].number
      BY <1>2, <2>2, DamageKeeps
    <3>2. All(toStub', Frames) = All(toStub, Frames)
      BY <1>2, <3>1, AllSame
    <3>3. Pipeline(toStub', Begun, command, reports)
      BY <1>2, <1>3, <3>1, PipelineSame
    <3> QED BY <3>2, <3>3
  <2> QED BY <2>1, <2>2 DEF Damage
<1>5. /\ All(toClient', Naks) = All(toClient, Naks)
      /\ All(toClient', Acks) = All(toClient, Acks)
      /\ InOrder(toClient', Begun, executed)
  <2>1. CASE toClient' = toClient
    BY <1>3, <2>1
  <2>2. CASE \E i \in 1 .. Len(toClient) :
               toClient[i].kind = "$" /\ toClient' = Damaged(toClient, i)
    <3>1. /\ Len(toClient') = Len(toClient)
          /\ \A j \in 1 .. Len(toClient) :
               /\ toClient'[j] \in Frames <=> toClient[j] \in Frames
               /\ toClient[j] \in Frames => toClient'[j].number = toClient[j].number
               /\ toClient'[j] = Ack <=> toClient[j] = Ack
               /\ toClient'[j] = Nak <=> toClient[j] = Nak
      BY <1>2, <2>2, DamageKeeps
    <3>2. /\ \A j \in 1 .. Len(toClient) : toClient'[j] \in Acks <=> toClient[j] \in Acks
          /\ \A j \in 1 .. Len(toClient) : toClient'[j] \in Naks <=> toClient[j] \in Naks
      BY <3>1 DEF Acks, Naks
    <3>3. /\ All(toClient', Naks) = All(toClient, Naks)
          /\ All(toClient', Acks) = All(toClient, Acks)
      BY <1>2, <3>1, <3>2, AllSame
    <3>4. InOrder(toClient', Begun, executed)
      BY <1>2, <1>3, <3>1, InOrderSame
    <3> QED BY <3>3, <3>4
  <2> QED BY <2>1, <2>2 DEF Damage
<1>6. /\ reports' = reports /\ reports' >= reports
      /\ All(toStub', Frames) + All(toClient', Naks) - reports'
           <= All(toStub, Frames) + All(toClient, Naks) - reports
  BY <1>1, <1>2, <1>4, <1>5 DEF stubVars
<1> QED BY <1>1, <1>4, <1>5, <1>6, NoisyAlong DEF stubVars, clientVars

\* A command becomes a burst of invalid bytes.
LEMMA NoisyGarble ==
    ASSUME Typed, Typed', Noisy, Garble
    PROVE  Noisy'
<1>1. PICK u \in Remains : toStub' = u \o Tail(toStub)
  BY DEF Garble
<1>2. /\ toStub # <<>> /\ Head(toStub).kind = "$" /\ toClient' = toClient
      /\ UNCHANGED <<stubVars, clientVars>>
  BY DEF Garble
<1> DEFINE t == Tail(toStub)
<1>3. /\ toStub \in Seq(Token) /\ t \in Seq(Token) /\ Head(toStub) \in Token
      /\ Begun \in Int /\ command \in Int /\ reports \in Int
      /\ All(t, Frames) \in Nat /\ All(toClient, Naks) \in Nat
  <2>1. toStub \in Seq(Token) /\ t \in Seq(Token) /\ Head(toStub) \in Token
    BY <1>2, NoisyNumbers, Sequences, Tokens
  <2>2. All(t, Frames) \in Nat
    BY <2>1, AllNat
  <2> QED BY <2>1, <2>2, NoisyNumbers
<1>4. Head(toStub) \in Frames
  BY <1>2, <1>3 DEF Frames
<1>5. u \in Seq(Token) /\ \A j \in 1 .. Len(u) : u[j] \notin Frames
  <2>1. PICK n \in 1 .. Burst, k \in 0 .. Burst, e \in {Ack, Nak} :
          u = [i \in 1 .. n |-> IF i = k THEN e ELSE Noise]
    BY DEF Remains
  <2>2. n \in Nat /\ Len(u) = n
    BY <2>1, BoundsAssumption
  <2>3. \A j \in 1 .. n : u[j] \in {Ack, Nak, Noise}
    BY <2>1
  <2> QED BY <2>2, <2>3, RemainsTyped, FrameFields
<1>6. Pipeline(t, Begun, command, reports)
  <2>1. Begun + 1 \in Int /\ Begun <= Begun + 1
    BY <1>3
  <2>2. Pipeline(t, Begun + 1, command, reports)
    BY <1>2, <1>3, <1>4, PipelineTail DEF Noisy, CommandsInOrder
  <2>3. command <= command /\ reports <= reports
    BY <1>3
  <2> HIDE DEF t
  <2> QED BY <1>3, <2>1, <2>2, <2>3, PipelineGrows
<1>7. All(toStub, Frames) = 1 + All(t, Frames)
  BY <1>2, <1>3, <1>4, AllTail
<1> HIDE DEF t
<1>8. All(toStub', Frames) = All(t, Frames) /\ Pipeline(toStub', Begun, command, reports)
  BY <1>1, <1>3, <1>5, <1>6, PipelinePrepend DEF t
<1>9. InOrder(toClient', Begun, executed)
  BY <1>2 DEF Noisy, RepliesInOrder
<1>10. /\ reports' = reports /\ reports' >= reports
       /\ All(toStub', Frames) + All(toClient', Naks) - reports'
            <= All(toStub, Frames) + All(toClient, Naks) - reports
  BY <1>2, <1>3, <1>7, <1>8 DEF stubVars
<1> QED BY <1>2, <1>8, <1>9, <1>10, NoisyAlong DEF stubVars, clientVars

LEMMA NoisyInterrupt ==
    ASSUME Typed, Typed', Noisy, Interrupt
    PROVE  Noisy'
<1>1. /\ toStub' = Append(toStub, Noise) /\ toClient' = toClient
      /\ UNCHANGED <<stubVars, clientVars>>
  BY DEF Interrupt
<1>2. /\ All(toStub', Frames) = All(toStub, Frames)
      /\ Pipeline(toStub', Begun, command, reports)
  BY <1>1, SignSent
<1>3. InOrder(toClient', Begun, executed)
  BY <1>1 DEF Noisy, RepliesInOrder
<1>4. /\ reports' = reports /\ reports' >= reports
      /\ All(toStub', Frames) + All(toClient', Naks) - reports'
           <= All(toStub, Frames) + All(toClient, Naks) - reports
  BY <1>1, <1>2, NoisyNumbers DEF stubVars
<1> QED BY <1>1, <1>2, <1>3, <1>4, NoisyAlong DEF stubVars, clientVars

LEMMA NoisyStep == Typed /\ Typed' /\ Noisy /\ [Next]_vars => Noisy'
<1> SUFFICES ASSUME Typed, Typed', Noisy, [Next]_vars PROVE Noisy'
  OBVIOUS
<1>1. CASE UNCHANGED vars
  BY <1>1 DEF vars, link, stubVars, clientVars, Noisy, Budget, CommandsInOrder,
              RepliesInOrder, Delivered, Begun, Awaited, RepliesLag
<1>2. CASE PacketAnalysis
  BY <1>2, NoisyAccept, NoisyRefuse
<1> QED BY <1>1, <1>2, NoisyAddCharacter, NoisyReceiveAck, NoisyRetransmit,
           NoisyHandle, NoisySend, NoisyAwaitAck, NoisyAwaitReply, NoisyTimeout,
           NoisyDamage, NoisyGarble, NoisyInterrupt
        DEF Next, Stub, Client, Trouble, Terminating
------------------------------------------------------------------------------
\* Every report of handle_error costs at most one more execution, whatever the
\* damage, the noise and the number of commands.
THEOREM ExtraExecutionsBounded == Spec => []ExtraExecutions
<1>1. Typed /\ Noisy => ExtraExecutions
  <2> SUFFICES ASSUME Typed, Noisy PROVE ExtraExecutions
    OBVIOUS
  <2>1. Begun + All(toStub, Frames) + All(toClient, Naks) <= command + reports
    BY DEF Noisy, Budget
  <2>2. Len(executed) <= Begun
    BY NoisyNumbers DEF Begun
  <2>3. /\ All(toStub, Frames) \in Nat /\ All(toClient, Naks) \in Nat
        /\ Len(executed) \in Nat /\ Begun \in Nat /\ command \in Nat /\ reports \in Nat
    BY NoisyNumbers
  <2> QED BY <2>1, <2>2, <2>3 DEF ExtraExecutions
<1> QED BY <1>1, TypedInit, TypedStep, NoisyInit, NoisyStep, PTL DEF Spec

\* The debugger never takes the reply of a later command for that of this one,
\* nor one that is earlier by more commands than there were reports.
THEOREM RepliesLagBounded == Spec => []RepliesLag
<1>1. Noisy => RepliesLag
  BY DEF Noisy, Delivered
<1> QED BY <1>1, TypedInit, TypedStep, NoisyInit, NoisyStep, PTL DEF Spec

------------------------------------------------------------------------------
(***************************************************************************)
(* Without noise, the link of module GdbLink goes through six phases, and  *)
(* what travels is known in each of them.  Their disjunction is the        *)
(* inductive invariant behind the promise of module GdbSession.            *)
(***************************************************************************)

\* Command n or its reply; b tells whether it is intact.
Frame(n, b) == [kind |-> "$", number |-> n, ok |-> b]

E == Len(executed)
R == Len(replies)

\* The reply to the last command has been taken.
Idle == /\ client = "idle" /\ stub = "scan"
        /\ toClient = <<>> /\ (toStub = <<>> \/ toStub = <<Ack>>)
        /\ E = command /\ R = command /\ last = command

\* The command travels.
Asked == /\ client = "awaitAck" /\ stub = "scan" /\ toClient = <<>>
         /\ \E b \in BOOLEAN : \/ toStub = <<Frame(command, b)>>
                              \/ toStub = <<Ack, Frame(command, b)>>
         /\ E = command - 1 /\ R = command - 1

\* It was damaged.
Refused == /\ client = "awaitAck" /\ stub = "scan"
           /\ toStub = <<>> /\ toClient = <<Nak>>
           /\ E = command - 1 /\ R = command - 1

\* It was not, and its handler runs.
Accepted == /\ stub = "handle" /\ current = command /\ toStub = <<>>
            /\ \/ client = "awaitAck" /\ toClient = <<Ack>>
               \/ client = "awaitReply" /\ toClient = <<>>
            /\ E = command - 1 /\ R = command - 1

\* Its reply travels.
Answered == /\ stub = "scan" /\ toStub = <<>>
            /\ \E b \in BOOLEAN :
                 \/ client = "awaitAck" /\ toClient = <<Ack, Frame(command, b)>>
                 \/ client = "awaitReply" /\ toClient = <<Frame(command, b)>>
            /\ E = command /\ R = command - 1 /\ last = command

\* The reply was damaged.
AskedAgain == /\ client = "awaitReply" /\ stub = "scan"
              /\ toStub = <<Nak>> /\ toClient = <<>>
              /\ E = command /\ R = command - 1 /\ last = command

Quiet == /\ noise = 0 /\ len = 0
         /\ Idle \/ Asked \/ Refused \/ Accepted \/ Answered \/ AskedAgain

\* One step of the link, without noise: from one phase to another, and a step
\* of the session or none.
Advance == Quiet' /\ [Session!Next]_<<executed, replies>>
------------------------------------------------------------------------------
(* Facts about the tokens and the short sequences of the phases. *)

LEMMA Kinds ==
    ASSUME NEW n \in Int, NEW b \in BOOLEAN
    PROVE  /\ Ack.kind = "+" /\ Nak.kind = "-"
           /\ Frame(n, b).kind = "$" /\ Frame(n, b).ok = b
           /\ Frame(n, b).number = n
           /\ [Frame(n, b) EXCEPT !.ok = FALSE] = Frame(n, FALSE)
           /\ Packet(n) = Frame(n, TRUE)
<1>1. Packet(n) = Frame(n, TRUE)
  BY DEF Frame, Packet
<1>2. [Frame(n, b) EXCEPT !.ok = FALSE] = Frame(n, FALSE)
  <2> DEFINE S == [kind : {"$"}, number : Int, ok : BOOLEAN]
             f == Frame(n, b)
             g == [f EXCEPT !.ok = FALSE]
  <2>1. f \in S
    BY DEF Frame
  <2>2. f.kind = "$" /\ f.number = n
    BY DEF Frame
  <2> HIDE DEF f
  <2>3. g \in S /\ g.kind = "$" /\ g.number = n /\ g.ok = FALSE
    BY <2>1, <2>2
  <2> HIDE DEF g
  <2>4. g = [kind |-> "$", number |-> n, ok |-> FALSE]
    BY <2>3
  <2> QED BY <2>4 DEF Frame, f, g
<1>3. Ack.kind = "+" /\ Nak.kind = "-"
  BY DEF Ack, Nak
<1>4. Frame(n, b).kind = "$" /\ Frame(n, b).ok = b /\ Frame(n, b).number = n
  BY DEF Frame
<1> QED BY <1>1, <1>2, <1>3, <1>4

LEMMA Signs == Ack.kind = "+" /\ Nak.kind = "-"
BY DEF Ack, Nak

LEMMA One ==
    ASSUME NEW a
    PROVE  /\ <<a>> # <<>> /\ Len(<<a>>) = 1 /\ <<a>>[1] = a
           /\ Head(<<a>>) = a /\ Tail(<<a>>) = <<>>
           /\ Append(<<>>, a) = <<a>> /\ <<>> \o <<>> \o <<a>> = <<a>>
           /\ <<>> \o <<>> = <<>>
<1>1. <<>> \o <<>> \o <<a>> = <<a>>
  OBVIOUS
<1>2. Append(<<>>, a) = <<a>>
  OBVIOUS
<1>3. <<a>> # <<>> /\ Len(<<a>>) = 1 /\ <<a>>[1] = a
      /\ Head(<<a>>) = a /\ Tail(<<a>>) = <<>> /\ <<>> \o <<>> = <<>>
  OBVIOUS
<1> QED BY <1>1, <1>2, <1>3

LEMMA Two ==
    ASSUME NEW a, NEW b
    PROVE  /\ <<a, b>> # <<>> /\ Len(<<a, b>>) = 2
           /\ <<a, b>>[1] = a /\ <<a, b>>[2] = b
           /\ Head(<<a, b>>) = a /\ Tail(<<a, b>>) = <<b>>
           /\ Append(<<a>>, b) = <<a, b>>
<1>1. <<a, b>> # <<>> /\ Len(<<a, b>>) = 2 /\ <<a, b>>[1] = a /\ <<a, b>>[2] = b
  OBVIOUS
<1>2. Head(<<a, b>>) = a /\ Tail(<<a, b>>) = <<b>>
  OBVIOUS
<1>3. Append(<<a>>, b) = <<a, b>>
  <2> DEFINE s == Append(<<a>>, b)
             t == <<a, b>>
  <2>1. s \in Seq({a, b}) /\ t \in Seq({a, b}) /\ Len(s) = 2 /\ Len(t) = 2
    OBVIOUS
  <2>2. s[1] = a /\ s[2] = b /\ t[1] = a /\ t[2] = b
    OBVIOUS
  <2> HIDE DEF s, t
  <2>3. \A i \in 1 .. Len(s) : s[i] = t[i]
    BY <2>1, <2>2
  <2>4. s = t
    BY <2>1, <2>3
  <2> QED BY <2>4 DEF s, t
<1> QED BY <1>1, <1>2, <1>3

\* Damage on the sequences of the phases.
LEMMA DamageOne ==
    ASSUME NEW n \in Int, NEW b \in BOOLEAN, NEW i \in 1 .. Len(<<Frame(n, b)>>)
    PROVE  Damaged(<<Frame(n, b)>>, i) = <<Frame(n, FALSE)>>
<1> DEFINE f == Frame(n, b)
<1>1. i = 1
  OBVIOUS
<1>2. [f EXCEPT !.ok = FALSE] = Frame(n, FALSE)
  BY Kinds
<1>3. Damaged(<<f>>, 1) = [<<f>> EXCEPT ![1] = [f EXCEPT !.ok = FALSE]]
  <2> HIDE DEF f
  <2> QED BY One DEF Damaged
<1> HIDE DEF f
<1>4. \A g : [<<f>> EXCEPT ![1] = g] = <<g>>
  OBVIOUS
<1> QED BY <1>1, <1>2, <1>3, <1>4 DEF f

LEMMA DamageTwo ==
    ASSUME NEW n \in Int, NEW b \in BOOLEAN, NEW i \in 1 .. Len(<<Ack, Frame(n, b)>>),
           <<Ack, Frame(n, b)>>[i].kind = "$"
    PROVE  Damaged(<<Ack, Frame(n, b)>>, i) = <<Ack, Frame(n, FALSE)>>
<1> DEFINE f == Frame(n, b)
<1>1. i = 2
  <2>1. i = 1 \/ i = 2
    OBVIOUS
  <2>2. <<Ack, f>>[1].kind = "+"
    BY Two, Kinds
  <2> QED BY <2>1, <2>2
<1>2. [f EXCEPT !.ok = FALSE] = Frame(n, FALSE)
  BY Kinds
<1>3. Damaged(<<Ack, f>>, 2) = [<<Ack, f>> EXCEPT ![2] = [f EXCEPT !.ok = FALSE]]
  <2> HIDE DEF f
  <2> QED BY Two DEF Damaged
<1> HIDE DEF f
<1>4. \A a, g : [<<a, f>> EXCEPT ![2] = g] = <<a, g>>
  OBVIOUS
<1> QED BY <1>1, <1>2, <1>3, <1>4 DEF f

LEMMA DamageNone ==
    ASSUME toStub = <<>> \/ toStub = <<Ack>> \/ toStub = <<Nak>>,
           toClient = <<>> \/ toClient = <<Ack>> \/ toClient = <<Nak>>
    PROVE  ~Damage
<1>1. \A t : \A i \in 1 .. Len(<<t>>) : <<t>>[i] = t
  OBVIOUS
<1>2. Ack.kind # "$" /\ Nak.kind # "$"
  BY Signs
<1>3. \A i \in 1 .. Len(toStub) : toStub[i].kind # "$"
  BY <1>1, <1>2
<1>4. \A i \in 1 .. Len(toClient) : toClient[i].kind # "$"
  BY <1>1, <1>2
<1> QED BY <1>3, <1>4 DEF Damage

LEMMA NoReport == Quiet => Report = <<>>
BY DEF Quiet, Report

\* Without noise, these are the steps.
LEMMA Steps ==
    ASSUME Quiet, MaxNoise = 0, [Next]_vars
    PROVE  \/ ReceiveAck \/ Retransmit \/ PacketAnalysis \/ Handle
           \/ Send \/ AwaitAck \/ AwaitReply \/ Timeout \/ Damage
           \/ UNCHANGED vars \/ AddCharacterToError
BY DEF Quiet, Next, Stub, Client, Trouble, Terminating, Garble, Interrupt,
       Idle, Asked

LEMMA Counts ==
    ASSUME Typed
    PROVE  /\ E \in Nat /\ R \in Nat /\ command \in Int
           /\ executed' = executed => E' = E
           /\ replies' = replies => R' = R
           /\ \A c : executed' = Append(executed, c) => E' = E + 1
           /\ \A c : replies' = Append(replies, c) => R' = R + 1
BY BoundsAssumption DEF Typed, TypeOK, E, R

LEMMA IdleStep ==
    ASSUME Typed, Quiet, Idle, [Next]_vars, MaxNoise = 0
    PROVE  Advance
<1>1. CASE Send
  <2>1. command' = command + 1 /\ command' \in Int
    BY <1>1, Counts DEF Send
  <2>2. toStub' = Append(toStub, Frame(command', TRUE))
    BY ZenonT(60), <1>1, <2>1, Kinds DEF Send
  <2>3. \/ toStub' = <<Frame(command', TRUE)>>
        \/ toStub' = <<Ack, Frame(command', TRUE)>>
    <3>1. CASE toStub = <<>>
      BY <2>2, <3>1, One
    <3>2. CASE toStub = <<Ack>>
      BY <2>2, <3>2, Two
    <3> QED BY <3>1, <3>2 DEF Idle
  <2>4. /\ client' = "awaitAck" /\ stub' = "scan" /\ toClient' = <<>>
        /\ E' = command' - 1 /\ R' = command' - 1
    BY <1>1, <2>1, Counts DEF Send, Idle, stubVars
  <2>5. Asked'
    BY <2>3, <2>4 DEF Asked
  <2> QED BY <1>1, <2>5 DEF Advance, Quiet, Send, stubVars, troubles
<1>2. CASE ReceiveAck
  <2>1. toStub = <<Ack>> /\ toStub' = <<>>
    BY <1>2, One DEF ReceiveAck, Scan, Idle
  <2>2. toClient' = <<>>
    BY <1>2, One, NoReport DEF ReceiveAck, Idle
  <2>3. Idle'
    BY <1>2, <2>1, <2>2, Counts DEF ReceiveAck, Scan, Idle, clientVars
  <2> QED BY <1>2, <2>3 DEF ReceiveAck, HandleError, Advance, Quiet, troubles,
                            clientVars
<1>3. CASE UNCHANGED vars
  BY <1>3, Counts DEF vars, link, stubVars, clientVars, troubles, Advance,
                      Quiet, Idle
<1>4. ~(AddCharacterToError \/ Retransmit \/ PacketAnalysis \/ Handle)
  <2>1. toStub # <<>> => Head(toStub).kind = "+"
    BY One, Signs DEF Idle
  <2> QED BY <2>1 DEF AddCharacterToError, Retransmit, PacketAnalysis, Handle,
                      Scan, Idle
<1>5. ~(AwaitAck \/ AwaitReply \/ Timeout)
  BY DEF AwaitAck, AwaitReply, Timeout, Idle
<1>6. ~Damage
  BY DamageNone DEF Idle
<1> QED BY <1>1, <1>2, <1>3, <1>4, <1>5, <1>6, Steps

LEMMA AskedStep ==
    ASSUME Typed, Quiet, Asked, [Next]_vars, MaxNoise = 0
    PROVE  Advance
<1>0. PICK b \in BOOLEAN : \/ toStub = <<Frame(command, b)>>
                           \/ toStub = <<Ack, Frame(command, b)>>
  BY DEF Asked
<1> DEFINE f == Frame(command, b)
<1>a. f.kind = "$" /\ f.ok = b /\ f.number = command /\ Ack.kind = "+"
  BY Kinds, Counts
<1>b. \/ toStub = <<f>> /\ Head(toStub) = f /\ Tail(toStub) = <<>>
      \/ toStub = <<Ack, f>> /\ Head(toStub) = Ack /\ Tail(toStub) = <<f>>
  <2>1. CASE toStub = <<f>>
    BY <2>1, One
  <2>2. CASE toStub = <<Ack, f>>
    BY <2>2, Two
  <2> QED BY <1>0, <2>1, <2>2
<1>1. CASE ReceiveAck
  <2>1. toStub' = <<f>> /\ toClient' = <<>>
    BY <1>1, <1>a, <1>b, One, NoReport DEF ReceiveAck, Scan, Asked
  <2>2. Asked'
    BY <1>1, <2>1, Counts DEF ReceiveAck, Scan, Asked, clientVars
  <2> QED BY <1>1, <2>2 DEF ReceiveAck, HandleError, Advance, Quiet, troubles,
                            clientVars
<1>2. CASE PacketAnalysis
  <2>1. Head(toStub) = f /\ toStub' = <<>>
    BY <1>2, <1>a, <1>b DEF PacketAnalysis, Scan
  <2>2. CASE b
    <3>1. toClient' = <<Ack>> /\ stub' = "handle" /\ current' = command'
      BY <1>2, <1>a, <2>1, <2>2, One, NoReport
      DEF PacketAnalysis, Asked, clientVars
    <3>2. Accepted'
      BY <1>2, <2>1, <3>1, Counts DEF PacketAnalysis, Asked, Accepted, clientVars
    <3> QED BY <1>2, <3>2 DEF PacketAnalysis, HandleError, Advance, Quiet,
                              troubles, clientVars
  <2>3. CASE ~b
    <3>1. toClient' = <<Nak>> /\ stub' = stub
      BY <1>2, <1>a, <2>1, <2>3, One, NoReport DEF PacketAnalysis, Asked
    <3>2. Refused'
      BY <1>2, <2>1, <3>1, Counts DEF PacketAnalysis, Asked, Refused, clientVars
    <3> QED BY <1>2, <3>2 DEF PacketAnalysis, HandleError, Advance, Quiet,
                              troubles, clientVars
  <2> QED BY <2>2, <2>3
<1>3. CASE Damage
  <2>1. \/ toStub' = <<Frame(command, FALSE)>>
        \/ toStub' = <<Ack, Frame(command, FALSE)>>
    <3>1. PICK i \in 1 .. Len(toStub) : /\ toStub[i].kind = "$"
                                       /\ toStub' = Damaged(toStub, i)
      BY <1>3 DEF Damage, Asked
    <3>2. CASE toStub = <<f>>
      BY <3>1, <3>2, DamageOne, Counts
    <3>3. CASE toStub = <<Ack, f>>
      BY <3>1, <3>3, DamageTwo, Counts
    <3> QED BY <1>b, <3>2, <3>3
  <2>2. toClient' = <<>>
    BY <1>3 DEF Damage, Asked
  <2>3. Asked'
    BY <1>3, <2>1, <2>2, Counts DEF Damage, Asked, stubVars, clientVars
  <2> QED BY <1>3, <2>3 DEF Damage, Advance, Quiet, stubVars, clientVars
<1>4. CASE UNCHANGED vars
  BY <1>4, Counts DEF vars, link, stubVars, clientVars, troubles, Advance,
                      Quiet, Asked
<1>5. ~(AddCharacterToError \/ Retransmit \/ Handle)
  BY <1>a, <1>b DEF AddCharacterToError, Retransmit, Handle, Scan, Asked
<1>6. ~(Send \/ AwaitAck \/ AwaitReply)
  BY DEF Send, AwaitAck, AwaitReply, Receive, Asked
<1>7. ~Timeout
  BY <1>0, One, Two DEF Timeout
<1> QED BY <1>1, <1>2, <1>3, <1>4, <1>5, <1>6, <1>7, Steps

LEMMA RefusedStep ==
    ASSUME Typed, Quiet, Refused, [Next]_vars, MaxNoise = 0
    PROVE  Advance
<1>1. CASE AwaitAck
  <2>1. Head(toClient).kind = "-" /\ toClient' = <<>>
    BY <1>1, One, Signs DEF AwaitAck, Receive, Refused
  <2>2. Resend
    BY <1>1, <2>1 DEF AwaitAck
  <2>3. toStub' = <<Frame(command, TRUE)>>
    <3>1. Packet(command) = Frame(command, TRUE)
      BY Kinds, Counts
    <3> QED BY <2>2, <3>1, One DEF Resend, Refused
  <2>4. Asked'
    BY <2>1, <2>2, <2>3, Counts DEF Resend, Refused, Asked, stubVars, clientVars
  <2> QED BY <2>2, <2>4 DEF Resend, Advance, Quiet, stubVars, clientVars, troubles
<1>2. CASE UNCHANGED vars
  BY <1>2, Counts DEF vars, link, stubVars, clientVars, troubles, Advance,
                      Quiet, Refused
<1>3. ~(AddCharacterToError \/ ReceiveAck \/ Retransmit \/ PacketAnalysis \/ Handle)
  BY DEF AddCharacterToError, ReceiveAck, Retransmit, PacketAnalysis, Handle,
         Scan, Refused
<1>4. ~(Send \/ AwaitReply \/ Timeout)
  BY One DEF Send, AwaitReply, Timeout, Refused
<1>5. ~Damage
  BY DamageNone DEF Refused
<1> QED BY <1>1, <1>2, <1>3, <1>4, <1>5, Steps

LEMMA AcceptedStep ==
    ASSUME Typed, Quiet, Accepted, [Next]_vars, MaxNoise = 0
    PROVE  Advance
<1>1. CASE Handle
  <2>1. Packet(current) = Frame(command', TRUE)
    BY <1>1, Kinds, Counts DEF Handle, Accepted, clientVars
  <2>2. \/ client' = "awaitAck" /\ toClient' = <<Ack, Frame(command', TRUE)>>
        \/ client' = "awaitReply" /\ toClient' = <<Frame(command', TRUE)>>
    <3>1. CASE client = "awaitAck" /\ toClient = <<Ack>>
      BY <1>1, <2>1, <3>1, Two DEF Handle, clientVars
    <3>2. CASE client = "awaitReply" /\ toClient = <<>>
      BY <1>1, <2>1, <3>2, One DEF Handle, clientVars
    <3> QED BY <3>1, <3>2 DEF Accepted
  <2>3. /\ stub' = "scan" /\ toStub' = <<>> /\ last' = command'
        /\ E' = command' /\ R' = command' - 1
    BY <1>1, Counts DEF Handle, Accepted, clientVars
  <2>4. Answered'
    BY <2>2, <2>3 DEF Answered
  <2>5. Session!Execute
    BY <1>1, Counts DEF Handle, Accepted, clientVars, Session!Execute, E, R
  <2> QED BY <1>1, <2>4, <2>5 DEF Handle, Advance, Quiet, troubles, Session!Next
<1>2. CASE AwaitAck
  <2>1. toClient = <<Ack>> /\ Head(toClient).kind = "+" /\ toClient' = <<>>
    BY <1>2, One, Signs DEF AwaitAck, Receive, Accepted
  <2>2. /\ client' = "awaitReply"
        /\ UNCHANGED <<toStub, stubVars, command, replies, troubles>>
    BY <1>2, <2>1 DEF AwaitAck
  <2>3. Accepted'
    BY <2>1, <2>2, Counts DEF Accepted, stubVars
  <2> QED BY <2>2, <2>3 DEF Advance, Quiet, stubVars, troubles
<1>3. CASE UNCHANGED vars
  BY <1>3, Counts DEF vars, link, stubVars, clientVars, troubles, Advance,
                      Quiet, Accepted
<1>4. ~(AddCharacterToError \/ ReceiveAck \/ Retransmit \/ PacketAnalysis)
  BY DEF AddCharacterToError, ReceiveAck, Retransmit, PacketAnalysis, Scan, Accepted
<1>5. ~(Send \/ AwaitReply \/ Timeout)
  BY DEF Send, AwaitReply, Receive, Timeout, Accepted
<1>6. ~Damage
  BY DamageNone DEF Accepted
<1> QED BY <1>1, <1>2, <1>3, <1>4, <1>5, <1>6, Steps

LEMMA AnsweredStep ==
    ASSUME Typed, Quiet, Answered, [Next]_vars, MaxNoise = 0
    PROVE  Advance
<1>0. PICK b \in BOOLEAN :
        \/ client = "awaitAck" /\ toClient = <<Ack, Frame(command, b)>>
        \/ client = "awaitReply" /\ toClient = <<Frame(command, b)>>
  BY DEF Answered
<1> DEFINE f == Frame(command, b)
<1>a. f.kind = "$" /\ f.ok = b /\ f.number = command
  BY Kinds, Counts
<1>1. CASE AwaitAck
  <2>1. toClient = <<Ack, f>>
    BY <1>0, <1>1 DEF AwaitAck
  <2>2. Head(toClient).kind = "+" /\ toClient' = <<f>>
    BY <1>1, <2>1, Two, Signs DEF AwaitAck, Receive
  <2>3. /\ client' = "awaitReply"
        /\ UNCHANGED <<toStub, stubVars, command, replies, troubles>>
    BY <1>1, <2>2 DEF AwaitAck
  <2>4. Answered'
    BY <2>2, <2>3, Counts DEF Answered, stubVars
  <2> QED BY <2>3, <2>4 DEF Advance, Quiet, stubVars, troubles
<1>2. CASE AwaitReply
  <2>1. toClient = <<f>> /\ client = "awaitReply"
    BY <1>0, <1>2 DEF AwaitReply
  <2>2. Head(toClient) = f /\ toClient' = <<>>
    BY <1>2, <2>1, One DEF AwaitReply, Receive
  <2>3. CASE b
    <3>1. /\ client' = "idle" /\ replies' = Append(replies, command)
          /\ toStub' = Append(toStub, Ack)
          /\ UNCHANGED <<stubVars, command, troubles>>
      BY <1>2, <1>a, <2>2, <2>3 DEF AwaitReply
    <3>2. toStub' = <<Ack>>
      BY <3>1, One DEF Answered
    <3>3. E' = command' /\ R' = command' /\ last' = command' /\ stub' = "scan"
      BY <3>1, Counts DEF Answered, stubVars
    <3>4. Idle'
      BY <2>2, <3>1, <3>2, <3>3 DEF Idle
    <3>5. Session!Deliver
      BY <3>1, Counts DEF Answered, Session!Deliver, E, R, stubVars
    <3> QED BY <3>1, <3>4, <3>5 DEF Advance, Quiet, troubles, stubVars, Session!Next
  <2>4. CASE ~b
    <3>1. /\ toStub' = Append(toStub, Nak)
          /\ UNCHANGED <<stubVars, clientVars, troubles>>
      BY <1>2, <1>a, <2>2, <2>4 DEF AwaitReply
    <3>2. toStub' = <<Nak>>
      BY <3>1, One DEF Answered
    <3>3. AskedAgain'
      BY <2>1, <2>2, <3>1, <3>2, Counts DEF Answered, AskedAgain, stubVars, clientVars
    <3> QED BY <3>1, <3>3 DEF Advance, Quiet, troubles, stubVars, clientVars
  <2> QED BY <2>3, <2>4
<1>3. CASE Damage
  <2>1. toStub' = toStub /\ UNCHANGED <<stubVars, clientVars, noise>>
    BY <1>3 DEF Damage, Answered
  <2>2. \E c \in BOOLEAN :
          \/ client = "awaitAck" /\ toClient' = <<Ack, Frame(command, c)>>
          \/ client = "awaitReply" /\ toClient' = <<Frame(command, c)>>
    <3>1. PICK i \in 1 .. Len(toClient) : /\ toClient[i].kind = "$"
                                         /\ toClient' = Damaged(toClient, i)
      BY <1>3 DEF Damage, Answered
    <3>2. CASE client = "awaitReply" /\ toClient = <<f>>
      BY <3>1, <3>2, DamageOne, Counts
    <3>3. CASE client = "awaitAck" /\ toClient = <<Ack, f>>
      BY <3>1, <3>3, DamageTwo, Counts
    <3> QED BY <1>0, <3>2, <3>3
  <2>3. Answered'
    BY <2>1, <2>2, Counts DEF Answered, stubVars, clientVars
  <2> QED BY <2>1, <2>3 DEF Advance, Quiet, stubVars, clientVars
<1>4. CASE UNCHANGED vars
  BY <1>4, Counts DEF vars, link, stubVars, clientVars, troubles, Advance,
                      Quiet, Answered
<1>5. ~(AddCharacterToError \/ ReceiveAck \/ Retransmit \/ PacketAnalysis \/ Handle)
  BY DEF AddCharacterToError, ReceiveAck, Retransmit, PacketAnalysis, Handle,
         Scan, Answered
<1>6. ~Send
  BY <1>0 DEF Send
<1>7. ~Timeout
  BY <1>0, Two DEF Timeout
<1> QED BY <1>1, <1>2, <1>3, <1>4, <1>5, <1>6, <1>7, Steps

LEMMA AskedAgainStep ==
    ASSUME Typed, Quiet, AskedAgain, [Next]_vars, MaxNoise = 0
    PROVE  Advance
<1>1. CASE Retransmit
  <2>1. toStub' = <<>>
    BY <1>1, One DEF Retransmit, Scan, AskedAgain
  <2>2. last # 0 /\ Packet(last) = Frame(command, TRUE)
    <3>1. last = command /\ command - 1 \in Nat /\ command \in Int
      BY Counts DEF AskedAgain
    <3>2. Packet(command) = Frame(command, TRUE)
      BY <3>1, Kinds
    <3> QED BY <3>1, <3>2
  <2>3. toClient' = <<Frame(command, TRUE)>>
    BY <1>1, <2>2, One, NoReport DEF Retransmit, AskedAgain
  <2>4. Answered'
    BY <1>1, <2>1, <2>3, Counts DEF Retransmit, AskedAgain, Answered, clientVars
  <2> QED BY <1>1, <2>4 DEF Retransmit, HandleError, Advance, Quiet, clientVars,
                            troubles
<1>2. CASE UNCHANGED vars
  BY <1>2, Counts DEF vars, link, stubVars, clientVars, troubles, Advance,
                      Quiet, AskedAgain
<1>3. ~(AddCharacterToError \/ ReceiveAck \/ PacketAnalysis \/ Handle)
  <2>1. Head(toStub).kind = "-"
    BY One, Signs DEF AskedAgain
  <2> QED BY <2>1 DEF AddCharacterToError, ReceiveAck, PacketAnalysis, Handle,
                      Scan, AskedAgain
<1>4. ~(Send \/ AwaitAck \/ AwaitReply \/ Timeout)
  BY DEF Send, AwaitAck, AwaitReply, Receive, Timeout, AskedAgain
<1>5. ~Damage
  BY DamageNone DEF AskedAgain
<1> QED BY <1>1, <1>2, <1>3, <1>4, <1>5, Steps
------------------------------------------------------------------------------
\* As long as the only trouble is damage inside packets, however much of it,
\* every command is executed once, in order, and gets its own reply.
THEOREM CommandsExactlyOnce ==
    ASSUME MaxNoise = 0
    PROVE  Spec => ExactlyOnce
<1>1. Init => Quiet /\ Session!Init
  BY DEF Init, Quiet, Idle, E, R, Session!Init
<1>2. Typed /\ Quiet /\ [Next]_vars => Advance
  BY IdleStep, AskedStep, RefusedStep, AcceptedStep, AnsweredStep,
     AskedAgainStep DEF Quiet
<1>3. Typed /\ Quiet /\ [Next]_vars => Quiet'
  BY <1>2 DEF Advance
<1>4. Typed /\ Quiet /\ [Next]_vars => [Session!Next]_<<executed, replies>>
  BY <1>2 DEF Advance
<1> QED BY <1>1, <1>3, <1>4, TypedInit, TypedStep, PTL
        DEF Spec, ExactlyOnce, Session!Spec
==============================================================================
