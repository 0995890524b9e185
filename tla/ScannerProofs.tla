----------------------------- MODULE ScannerProofs -----------------------------
(***************************************************************************)
(* The scanner stays in its buffer, does not wait when it need not, and    *)
(* implements the rules of scanner.l, for every text.                      *)
(*                                                                         *)
(* The tables are first read into the transitions they stand for.  The     *)
(* states in which no token is decided are then known by the text they     *)
(* have read (Live), whether it was read by yylex or again by              *)
(* yy_get_previous_state; the invariant says, for each place of the code,  *)
(* what the automaton knows there.                                         *)
(***************************************************************************)
EXTENDS Scanner, TLAPS

\* The entries of the tables, one by one.
LEMMA AcceptTable ==
    /\ yy_accept \in [0..13 -> 0..6]
    /\ yy_accept[1] = 0 /\ yy_accept[2] = 0 /\ yy_accept[3] = 6
    /\ yy_accept[4] = 4 /\ yy_accept[5] = 5 /\ yy_accept[6] = 4
    /\ yy_accept[7] = 1 /\ yy_accept[8] = 2 /\ yy_accept[9] = 0
    /\ yy_accept[10] = 0 /\ yy_accept[11] = 0 /\ yy_accept[12] = 3
    /\ yy_accept[13] = 0
BY DEF yy_accept, Table

LEMMA BaseTable ==
    /\ yy_base[1] = 0 /\ yy_base[2] = 0 /\ yy_base[3] = 13
    /\ yy_base[4] = 14 /\ yy_base[5] = 14 /\ yy_base[6] = 9
    /\ yy_base[7] = 14 /\ yy_base[8] = 14 /\ yy_base[9] = 8
    /\ yy_base[10] = 3 /\ yy_base[11] = 2 /\ yy_base[12] = 14
    /\ yy_base[13] = 14 /\ yy_base[14] = 7
BY DEF yy_base, Table

LEMMA ChkTable ==
    /\ yy_chk[0] = 0 /\ \A i \in 1..7 : yy_chk[i] = 1
    /\ yy_chk[8] = 14 /\ yy_chk[9] = 11 /\ yy_chk[10] = 10
    /\ yy_chk[11] = 9 /\ yy_chk[12] = 6 /\ yy_chk[13] = 3
    /\ \A i \in 14..21 : yy_chk[i] = 13
BY DEF yy_chk, Table

LEMMA DefMetaNxtTables ==
    /\ yy_def[1] = 13 /\ yy_def[2] = 1 /\ yy_def[3] = 13
    /\ yy_def[4] = 13 /\ yy_def[5] = 13 /\ yy_def[6] = 14
    /\ yy_def[7] = 13 /\ yy_def[8] = 13 /\ yy_def[9] = 14
    /\ yy_def[10] = 13 /\ yy_def[11] = 13 /\ yy_def[12] = 13
    /\ yy_def[13] = 0 /\ yy_def[14] = 13
    /\ yy_meta[0] = 0 /\ yy_meta[1] = 1 /\ yy_meta[2] = 1
    /\ yy_meta[3] = 1 /\ yy_meta[4] = 2 /\ yy_meta[5] = 1
    /\ yy_meta[6] = 1 /\ yy_meta[7] = 1
    /\ yy_nxt[1] = 4 /\ yy_nxt[2] = 5 /\ yy_nxt[3] = 4 /\ yy_nxt[4] = 6
    /\ yy_nxt[5] = 7 /\ yy_nxt[6] = 8 /\ yy_nxt[7] = 4 /\ yy_nxt[8] = 9
    /\ yy_nxt[9] = 12 /\ yy_nxt[10] = 11 /\ yy_nxt[11] = 10
    /\ yy_nxt[12] = 10 /\ yy_nxt[13] = 13 /\ yy_nxt[14] = 3
    /\ \A i \in 15..21 : yy_nxt[i] = 13
BY DEF yy_def, yy_meta, yy_nxt, Table

\* The state the automaton goes to, written out.
FromStart(c) ==
    CASE c = NUL     -> 3
      [] c = NEWLINE -> 5
      [] c = DOLLAR  -> 6
      [] c = PLUS    -> 7
      [] c = MINUS   -> 8
      [] OTHER       -> 4

InBody(c) ==
    CASE c = NUL    -> 3
      [] c = HASH   -> 10
      [] c = DOLLAR -> 13
      [] OTHER      -> 9

Digit(c, s) ==
    CASE c = NUL -> 3
      [] c = HEX -> s
      [] OTHER   -> 13

Goes(s, c) ==
    CASE s \in {1, 2}  -> FromStart(c)
      [] s = 3         -> 13
      [] s \in {6, 9}  -> InBody(c)
      [] s = 10        -> Digit(c, 11)
      [] s = 11        -> Digit(c, 12)
      [] s = 14        -> IF c = 1 THEN 9 ELSE IF c = 0 THEN 3 ELSE 13
      [] OTHER         -> IF c = NUL THEN 3 ELSE 13

\* One turn of the search through the tables, f being what the search gives on.
Turn(f, s, c) ==
    IF yy_chk[yy_base[s] + c] = s
    THEN yy_nxt[yy_base[s] + c]
    ELSE f[yy_def[s]][IF yy_def[s] >= 14 THEN yy_meta[c] ELSE c]

LEMMA TurnOfJam ==
    \A f, c : c \in Classes => Turn(f, 13, c) = Goes(13, c)
BY BaseTable, ChkTable, DefMetaNxtTables DEF Turn, Goes, Classes, NUL

LEMMA TurnToJam ==
    ASSUME NEW f, \A c \in Classes : f[13][c] = Goes(13, c)
    PROVE  \A s \in {1, 3, 4, 5, 7, 8, 10, 11, 12, 14}, c \in Classes :
              Turn(f, s, c) = Goes(s, c)
<1> USE BaseTable, ChkTable, DefMetaNxtTables
        DEF Turn, Goes, FromStart, Digit, Classes, NUL, NEWLINE, DOLLAR, PLUS, MINUS, HEX
<1>1. \A c \in Classes : Turn(f, 1, c) = Goes(1, c)
  OBVIOUS
<1>2. \A c \in Classes : Turn(f, 3, c) = Goes(3, c)
  OBVIOUS
<1>3. \A s \in {4, 5, 7, 8, 12}, c \in Classes : Turn(f, s, c) = Goes(s, c)
  OBVIOUS
<1>4. \A c \in Classes : Turn(f, 10, c) = Goes(10, c)
  OBVIOUS
<1>5. \A c \in Classes : Turn(f, 11, c) = Goes(11, c)
  OBVIOUS
<1>6. \A c \in Classes : Turn(f, 14, c) = Goes(14, c)
  OBVIOUS
<1> QED BY ONLY SMTT(30), <1>1, <1>2, <1>3, <1>4, <1>5, <1>6

LEMMA TurnOfRest ==
    ASSUME NEW f, \A c \in Classes : f[1][c] = Goes(1, c),
           \A c \in Classes : f[14][c] = Goes(14, c)
    PROVE  \A s \in {2, 6, 9}, c \in Classes : Turn(f, s, c) = Goes(s, c)
<1> USE BaseTable, ChkTable, DefMetaNxtTables
        DEF Turn, Goes, InBody, Classes, NUL, DOLLAR, HASH
<1>1. \A c \in Classes : Turn(f, 2, c) = Goes(2, c)
  BY DEF FromStart
<1>2. \A c \in Classes : Turn(f, 6, c) = Goes(6, c)
  OBVIOUS
<1>3. \A c \in Classes : Turn(f, 9, c) = Goes(9, c)
  OBVIOUS
<1> QED BY ONLY <1>1, <1>2, <1>3

LEMMA TransitionTable ==
    \A s \in States, c \in Classes : Transition[s][c] = Goes(s, c)
<1> DEFINE g == [s \in States |-> [c \in Classes |-> Goes(s, c)]]
           Turns(f) == [s \in States |-> [c \in Classes |-> Turn(f, s, c)]]
<1>1. \A s \in States : s \in {1, 3, 4, 5, 7, 8, 10, 11, 12, 14} \cup {2, 6, 9} \cup {13}
  BY DEF States
<1>2. {1, 13, 14} \subseteq States
  BY DEF States
<1>3. \A s \in States, c \in Classes : g[s][c] = Goes(s, c)
  OBVIOUS
<1> HIDE DEF g
<1>4. \A s \in States, c \in Classes : Turn(g, s, c) = Goes(s, c)
  BY <1>1, <1>2, <1>3, TurnOfJam, TurnToJam, TurnOfRest
<1>5. g = Turns(g)
  BY <1>4 DEF g
<1>6. Transition = Turns(Transition)
  BY <1>5 DEF Transition, Turn
<1>7. \A s \in States, c \in Classes : Transition[s][c] = Turn(Transition, s, c)
  BY <1>6
<1>8. \A c \in Classes : Transition[13][c] = Goes(13, c)
  BY <1>2, <1>7, TurnOfJam
<1>9. \A c \in Classes : Transition[1][c] = Goes(1, c)
  BY <1>2, <1>7, <1>8, TurnToJam
<1>10. \A c \in Classes : Transition[14][c] = Goes(14, c)
  BY <1>2, <1>7, <1>8, TurnToJam
<1> QED BY <1>1, <1>7, <1>8, <1>9, <1>10, TurnToJam, TurnOfRest

-----------------------------------------------------------------------------
(* Where the automaton is.  A text t is read from position b on; the states *)
(* in which a token is not decided yet are 1, at its start, 4, after a zero *)
(* taken as data, 6, after the "$" of a packet, 9, inside it, 10, after its *)
(* "#", and 11, after the first digit.                                      *)

Body(t, b, p) == \A i \in (b + 2)..p : t[i] \notin {DOLLAR, HASH}

InPacket == {6, 9, 10, 11}

\* State q is that of the bytes of t from b up to p, zeros taken as data.
Live(t, b, q, p) ==
    /\ q \in {1, 4} \cup InPacket
    /\ p \in b..Len(t)
    /\ q = 1 => p = b
    /\ q = 4 => p = b + 1 /\ t[p] = NUL
    /\ q \in InPacket => p > b /\ t[b + 1] = DOLLAR
    /\ q = 6 => p = b + 1
    /\ q = 9 => p >= b + 2 /\ Body(t, b, p)
    /\ q = 10 => p >= b + 2 /\ Body(t, b, p - 1) /\ t[p] = HASH
    /\ q = 11 => p >= b + 3 /\ Body(t, b, p - 2) /\ t[p - 1] = HASH /\ t[p] = HEX

\* The byte after p does not go on with the packet begun.
Stuck(t, b, q, p) ==
    /\ q \in InPacket
    /\ Live(t, b, q, p)
    /\ p < Len(t)
    /\ Goes(q, Data(t[p + 1])) = JamState

Packet(t, b, p) ==
    /\ p \in (b + 4)..Len(t)
    /\ t[b + 1] = DOLLAR
    /\ Body(t, b, p - 3)
    /\ t[p - 2] = HASH
    /\ t[p - 1] = HEX
    /\ t[p] = HEX

LEMMA GoesSomewhere ==
    \A s \in States, c \in Classes : Goes(s, c) \in States
BY DEF Goes, FromStart, InBody, Digit, States, Classes

\* What the automaton reads as data leads from one undecided state to another.
LEMMA LiveStep ==
    ASSUME NEW t \in Seq(Classes), NEW b \in 0..Len(t),
           NEW q, NEW p, NEW r, NEW e,
           Live(t, b, q, p), Live(t, b, r, e), p < e
    PROVE  /\ Live(t, b, Goes(q, Data(t[p + 1])), p + 1)
           /\ Goes(q, Data(t[p + 1])) \in {9, 10, 11} => q \in {6, 9, 10}
<1> USE DEF Live, InPacket
<1> DEFINE c == t[p + 1]
<1>1. /\ p \in Nat /\ e \in Nat /\ p + 1 \in b .. Len(t)
      /\ c \in Classes
  OBVIOUS
<1> USE DEF Goes, Data, Classes, NUL, PLAIN, DOLLAR, HASH, HEX
<1>2. CASE q = 1
  <2>1. CASE r = 4
    BY <1>1, <1>2, <2>1 DEF FromStart, NEWLINE, PLUS, MINUS
  <2>2. CASE r \in InPacket
    BY <1>1, <1>2, <2>2 DEF FromStart, NEWLINE, PLUS, MINUS
  <2> QED BY <1>1, <1>2, <2>1, <2>2
<1>3. CASE q = 4
  BY SMTT(30), <1>1, <1>3
<1>4. CASE q \in {6, 9}
  <2>1. CASE c = HASH
    BY <1>1, <1>4, <2>1 DEF InBody, Body
  <2>2. CASE c # HASH
    <3>1. c # DOLLAR
      BY <1>1, <1>4, <2>2 DEF Body
    <3>2. Goes(q, Data(c)) = 9
      BY <1>1, <1>4, <2>2, <3>1 DEF InBody
    <3>3. Body(t, b, p + 1)
      BY <1>1, <1>4, <2>2, <3>1 DEF Body
    <3> QED BY <1>1, <1>4, <3>2, <3>3
  <2> QED BY <2>1, <2>2
<1>5. CASE q = 10
  <2>1. /\ p \in (b + 2)..Len(t) /\ t[p] = HASH
    BY <1>1, <1>5
  <2>2. r = 11 /\ e = p + 1
    <3>1. r \notin {1, 4, 6}
      BY <1>1, <2>1
    <3>2. r # 9 /\ r # 10
      BY <1>1, <2>1 DEF Body
    <3>3. r = 11 => e - 2 < p
      BY <1>1, <2>1 DEF Body
    <3> QED BY <1>1, <2>1, <3>1, <3>2, <3>3
  <2>3. c = HEX /\ Goes(q, Data(c)) = 11
    BY <1>1, <1>5, <2>2 DEF Digit
  <2>4. Body(t, b, p - 1)
    BY <1>1, <1>5
  <2>5. Goes(q, Data(c)) = 11 /\ t[p + 1] = HEX /\ p + 1 >= b + 3
    BY <1>1, <2>1, <2>3
  <2>6. Live(t, b, 11, p + 1)
    BY SMTT(30), <1>1, <1>5, <2>1, <2>4, <2>5 DEF Body
  <2> QED BY ONLY <2>5, <2>6, <1>5
<1>6. CASE q = 11
  <2>1. /\ p - 1 \in (b + 2)..Len(t) /\ t[p - 1] = HASH
    BY <1>1, <1>6
  <2>2. r \notin {1, 4, 6}
    BY <1>1, <2>1
  <2>3. r # 9 /\ r # 10 /\ r # 11
    BY <1>1, <2>1 DEF Body
  <2> QED BY <2>2, <2>3
<1> QED BY <1>2, <1>3, <1>4, <1>5, <1>6

\* Before p the automaton has found a token, or can go on.
LEMMA MatchStep ==
    ASSUME NEW t \in Seq(Classes), NEW b \in 0..Len(t), NEW q, NEW p,
           Live(t, b, q, p), p < Len(t), t[p + 1] # NUL,
           NEW s, s = Goes(q, t[p + 1])
    PROVE  \/ Live(t, b, s, p + 1) /\ (s \in {9, 10, 11} => q \in {6, 9, 10})
           \/ /\ s \in {4, 5, 7, 8} /\ p = b
              /\ yy_accept[s] = RuleOfByte(t[b + 1]) /\ t[b + 1] # DOLLAR
           \/ s = 13 /\ q = 4
           \/ s = 13 /\ Stuck(t, b, q, p)
           \/ s = 12 /\ Packet(t, b, p + 1)
<1> USE DEF Live, InPacket
<1> DEFINE c == t[p + 1]
<1>1. /\ p \in Nat /\ p + 1 \in b .. Len(t)
      /\ c \in Classes /\ c # NUL /\ Data(c) = c
  BY DEF Data
<1> HIDE DEF c
<1>a. s = Goes(q, c)
  BY DEF c
<1>2. CASE q = 1
  <2>1. CASE c = DOLLAR
    <3>1. s = 6
      BY <1>a, <1>2, <2>1 DEF Goes, FromStart, DOLLAR, NUL, NEWLINE, PLUS, MINUS
    <3> QED BY <1>1, <1>2, <2>1, <3>1 DEF c
  <2>2. CASE c # DOLLAR
    <3>1. s \in {4, 5, 7, 8} /\ yy_accept[s] = RuleOfByte(c)
      BY <1>1, <1>a, <1>2, <2>2, AcceptTable
         DEF Goes, FromStart, RuleOfByte, Classes, NUL, NEWLINE, DOLLAR, PLUS, MINUS
    <3> QED BY <1>1, <1>2, <2>2, <3>1 DEF c
  <2> QED BY <2>1, <2>2
<1>3. CASE q = 4
  BY <1>1, <1>a, <1>3 DEF Goes
<1>4. CASE q \in {6, 9}
  <2>1. CASE c = HASH
    <3>1. s = 10
      BY <1>a, <1>4, <2>1 DEF Goes, InBody, HASH, NUL, DOLLAR
    <3> QED BY <1>1, <1>4, <2>1, <3>1 DEF Body, c
  <2>2. CASE c = DOLLAR
    <3>1. s = 13
      BY SMTT(30), <1>a, <1>4, <2>2 DEF Goes, InBody, HASH, NUL, DOLLAR
    <3>2. Stuck(t, b, q, p)
      BY <1>1, <1>4, <1>a, <3>1 DEF Stuck, JamState, c
    <3> QED BY <3>1, <3>2
  <2>3. CASE c \notin {HASH, DOLLAR}
    <3>1. s = 9
      BY SMTT(30), <1>1, <1>a, <1>4, <2>3 DEF Goes, InBody, NUL
    <3>2. Body(t, b, p + 1)
      BY <1>1, <1>4, <2>3 DEF Body, c
    <3> QED BY <1>1, <1>4, <3>1, <3>2
  <2> QED BY <2>1, <2>2, <2>3
<1>5. CASE q \in {10, 11} /\ c = HEX
  <2>1. s = q + 1
    BY <1>a, <1>5 DEF Goes, Digit, HEX, NUL
  <2> QED BY <1>1, <1>5, <2>1 DEF Packet, Body, c
<1>6. CASE q \in {10, 11} /\ c # HEX
  <2>1. s = 13
    BY <1>1, <1>a, <1>6 DEF Goes, Digit, NUL
  <2>2. Stuck(t, b, q, p)
    BY <1>1, <1>6, <1>a, <2>1 DEF Stuck, JamState, c
  <2> QED BY <2>1, <2>2
<1> QED BY <1>2, <1>3, <1>4, <1>5, <1>6

\* A zero taken as data.
LEMMA ZeroStep ==
    ASSUME NEW t \in Seq(Classes), NEW b \in 0..Len(t), NEW q, NEW p,
           Live(t, b, q, p), p < Len(t), t[p + 1] = NUL,
           NEW s, s = Goes(q, Data(NUL))
    PROVE  \/ /\ Live(t, b, s, p + 1) /\ s # 13
              /\ s \in {9, 10, 11} => q \in {6, 9}
           \/ s = 13 /\ q = 4
           \/ s = 13 /\ q \in {10, 11} /\ Stuck(t, b, q, p)
<1> USE DEF Live, InPacket
<1>1. p \in Nat /\ p + 1 \in b .. Len(t) /\ Data(NUL) = 1
  BY DEF Data, PLAIN
<1>2. CASE q = 1
  <2>1. s = 4
    BY <1>1, <1>2 DEF Goes, FromStart, NUL, NEWLINE, DOLLAR, PLUS, MINUS
  <2> QED BY <1>1, <1>2, <2>1
<1>3. CASE q = 4
  BY <1>1, <1>3 DEF Goes, NUL
<1>4. CASE q \in {6, 9}
  <2>1. s = 9
    <3>1. s = Goes(q, 1)
      BY <1>1
    <3>2. InBody(1) = 9
      BY DEF InBody, NUL, HASH, DOLLAR
    <3> QED BY <1>4, <3>1, <3>2 DEF Goes
  <2>2. Body(t, b, p + 1)
    BY <1>1, <1>4 DEF Body, NUL, HASH, DOLLAR
  <2> QED BY <1>1, <1>4, <2>1, <2>2
<1>5. CASE q \in {10, 11}
  <2>1. s = 13
    BY <1>1, <1>5 DEF Goes, Digit, NUL, HEX
  <2>2. Stuck(t, b, q, p)
    BY <1>1, <1>5, <2>1 DEF Stuck, JamState
  <2> QED BY <1>5, <2>1, <2>2
<1> QED BY <1>2, <1>3, <1>4, <1>5

-----------------------------------------------------------------------------
(* What the states say of the token at the head of a text.                  *)

LEMMA PacketAt ==
    ASSUME NEW s \in Seq(Classes), NEW n \in 1..Len(s)
    PROVE  IsPacket(SubSeq(s, 1, n)) <=> Packet(s, 0, n)
<1>1. /\ SubSeq(s, 1, n) \in Seq(Classes) /\ Len(SubSeq(s, 1, n)) = n
      /\ \A i \in 1..n : SubSeq(s, 1, n)[i] = s[i]
  OBVIOUS
<1> HIDE DEF IsPacket
<1> QED BY SMTT(30), <1>1 DEF IsPacket, Packet, Body

\* Two packets at the head of a text are the same.
LEMMA OnePacket ==
    ASSUME NEW s \in Seq(Classes), NEW m, NEW n, Packet(s, 0, m), Packet(s, 0, n)
    PROVE  m = n
<1>1. /\ m \in 4..Len(s) /\ n \in 4..Len(s)
      /\ s[m - 2] = HASH /\ s[n - 2] = HASH
      /\ \A i \in 2..(m - 3) : s[i] # HASH
      /\ \A i \in 2..(n - 3) : s[i] # HASH
  BY DEF Packet, Body
<1>2. m - 2 \in 2..Len(s) /\ n - 2 \in 2..Len(s)
  BY <1>1
<1> QED BY <1>1, <1>2

LEMMA NoPacketInside ==
    ASSUME NEW s \in Seq(Classes), NEW q \in InPacket, Live(s, 0, q, Len(s)),
           NEW n, Packet(s, 0, n)
    PROVE  FALSE
<1>1. /\ n \in 4..Len(s) /\ n - 2 \in 2..Len(s)
      /\ s[n - 2] = HASH /\ s[n - 1] = HEX
      /\ \A i \in 2..(n - 3) : s[i] # HASH
  BY DEF Packet, Body
<1>2. q # 6
  BY <1>1 DEF Live, InPacket
<1>3. q # 9 /\ q # 10 /\ q # 11
  BY <1>1 DEF Live, Body, InPacket
<1> QED BY <1>2, <1>3 DEF InPacket

\* What stops the automaton in a packet begun.
LEMMA StuckBecause ==
    ASSUME NEW s \in Seq(Classes), NEW q, NEW p, Stuck(s, 0, q, p)
    PROVE  /\ p \in 1..(Len(s) - 1) /\ p + 1 \in 2..Len(s) /\ s[1] = DOLLAR
           /\ \/ s[p + 1] = DOLLAR /\ Body(s, 0, p)
              \/ /\ p >= 2 /\ s[p] = HASH /\ Body(s, 0, p - 1)
                 /\ s[p + 1] # HEX
              \/ /\ p >= 3 /\ s[p - 1] = HASH /\ Body(s, 0, p - 2)
                 /\ s[p] = HEX /\ s[p + 1] # HEX
<1>1. /\ q \in InPacket /\ Live(s, 0, q, p) /\ p \in 1..(Len(s) - 1)
      /\ Goes(q, Data(s[p + 1])) = 13 /\ p + 1 \in 2..Len(s) /\ s[1] = DOLLAR
  BY DEF Stuck, JamState, Live
<1> DEFINE c == s[p + 1]
<1>2. c \in Classes
  BY <1>1
<1>3. Data(HEX) = HEX /\ Data(HASH) = HASH /\ (Data(c) = DOLLAR => c = DOLLAR)
  BY DEF Data, NUL, PLAIN, HEX, HASH, DOLLAR
<1>4. CASE q \in {6, 9}
  <2>1. Data(c) \in Classes \ {NUL}
    BY <1>2 DEF Data, Classes, NUL, PLAIN
  <2>2. c = DOLLAR
    BY <1>1, <1>3, <1>4, <2>1 DEF Goes, InBody, HASH, DOLLAR, NUL
  <2>3. Body(s, 0, p)
    BY <1>1, <1>4 DEF Live, Body, InPacket
  <2> QED BY <1>1, <2>2, <2>3
<1>5. CASE q \in {10, 11}
  <2>1. c # HEX
    BY <1>1, <1>3, <1>5 DEF Goes, Digit, HEX, NUL
  <2> QED BY <1>1, <1>5, <2>1 DEF Live, InPacket
<1> QED BY <1>1, <1>4, <1>5 DEF InPacket

LEMMA NoPacketStuck ==
    ASSUME NEW s \in Seq(Classes), NEW q, NEW p, Stuck(s, 0, q, p),
           NEW n, Packet(s, 0, n)
    PROVE  FALSE
<1>1. /\ n \in 4..Len(s) /\ n - 2 \in 2..Len(s)
      /\ s[n - 2] = HASH /\ s[n - 1] = HEX /\ s[n] = HEX
      /\ \A i \in 2..(n - 3) : s[i] \notin {HASH, DOLLAR}
  BY DEF Packet, Body
<1>2. p \in 1..(Len(s) - 1) /\ p + 1 \in 2..Len(s)
  BY StuckBecause
<1>3. CASE s[p + 1] = DOLLAR /\ Body(s, 0, p)
  <2>1. p >= n - 2
    BY <1>1, <1>2, <1>3 DEF HASH, HEX, DOLLAR
  <2>2. p < n - 2
    BY <1>1, <1>2, <1>3 DEF Body
  <2> QED BY <1>1, <1>2, <2>1, <2>2
<1>4. CASE /\ p >= 2 /\ s[p] = HASH /\ Body(s, 0, p - 1)
           /\ s[p + 1] # HEX
  <2>1. p = n - 2
    BY <1>1, <1>2, <1>4 DEF Body
  <2> QED BY <1>1, <1>2, <1>4, <2>1
<1>5. CASE /\ p >= 3 /\ s[p - 1] = HASH /\ Body(s, 0, p - 2)
           /\ s[p + 1] # HEX
  <2>1. p - 1 = n - 2
    BY <1>1, <1>2, <1>5 DEF Body
  <2> QED BY <1>1, <1>2, <1>5, <2>1
<1> QED BY StuckBecause, <1>3, <1>4, <1>5

LEMMA MayInside ==
    ASSUME NEW s \in Seq(Classes), NEW q \in InPacket, Live(s, 0, q, Len(s))
    PROVE  MayBecomePacket(s)
<1>1. s # <<>> /\ s[1] = DOLLAR /\ Len(s) \in Nat /\ Len(s) >= 1
  BY DEF Live
<1>2. CASE q = 6
  <2>1. Len(s) = 1
    BY <1>1, <1>2 DEF Live, InPacket
  <2>2. 2 \in 2..(Len(s) + 1) /\ \A i \in 2..(2 - 1) : s[i] \notin {DOLLAR, HASH}
    BY <2>1
  <2> QED BY <1>1, <2>1, <2>2 DEF MayBecomePacket
<1>3. CASE q = 9
  <2>1. Len(s) + 1 \in 2..(Len(s) + 1) /\ \A i \in 2..Len(s) : s[i] \notin {DOLLAR, HASH}
    BY <1>1, <1>3 DEF Live, Body, InPacket
  <2> QED BY <1>1, <2>1 DEF MayBecomePacket
<1>4. CASE q = 10
  <2>1. /\ Len(s) \in 2..(Len(s) + 1) /\ s[Len(s)] = HASH
        /\ \A i \in 2..(Len(s) - 1) : s[i] \notin {DOLLAR, HASH}
    BY <1>1, <1>4 DEF Live, Body, InPacket
  <2> QED BY <1>1, <2>1 DEF MayBecomePacket
<1>5. CASE q = 11
  <2>1. /\ Len(s) - 1 \in 2..(Len(s) + 1) /\ s[Len(s) - 1] = HASH /\ s[Len(s)] = HEX
        /\ \A i \in 2..(Len(s) - 2) : s[i] \notin {DOLLAR, HASH}
    BY <1>1, <1>5 DEF Live, Body, InPacket
  <2> QED BY <1>1, <2>1 DEF MayBecomePacket
<1> QED BY <1>2, <1>3, <1>4, <1>5 DEF InPacket

LEMMA DecidedStuck ==
    ASSUME NEW s \in Seq(Classes), NEW q, NEW p, Stuck(s, 0, q, p)
    PROVE  Decided(s)
<1>1. p \in 1..(Len(s) - 1) /\ p + 1 \in 2..Len(s) /\ s # <<>>
  BY StuckBecause
<1>2. SUFFICES ASSUME NEW h \in 2..(Len(s) + 1),
                      \A i \in 2..(h - 1) : s[i] \notin {DOLLAR, HASH},
                      h <= Len(s) => s[h] = HASH,
                      Len(s) <= h + 1,
                      Len(s) = h + 1 => s[h + 1] = HEX
               PROVE  FALSE
  BY <1>1 DEF Decided, MayBecomePacket
<1>3. CASE s[p + 1] = DOLLAR /\ Body(s, 0, p)
  <2>1. p + 1 >= h
    BY <1>1, <1>2, <1>3
  <2> QED BY <1>1, <1>2, <1>3, <2>1 DEF HASH, DOLLAR, HEX
<1>4. CASE /\ p >= 2 /\ s[p] = HASH /\ Body(s, 0, p - 1)
           /\ s[p + 1] # HEX
  <2>1. h <= p
    BY <1>1, <1>2, <1>4
  <2>2. h = p
    BY <1>1, <1>2, <1>4, <2>1 DEF Body
  <2> QED BY <1>1, <1>2, <1>4, <2>2
<1>5. CASE p >= 3 /\ s[p - 1] = HASH /\ Body(s, 0, p - 2)
  <2>1. h <= p - 1
    BY <1>1, <1>2, <1>5
  <2> QED BY <1>1, <1>2, <2>1
<1> QED BY StuckBecause, <1>3, <1>4, <1>5

LEMMA DecidedPacket ==
    ASSUME NEW s \in Seq(Classes), NEW n, Packet(s, 0, n)
    PROVE  Decided(s)
<1>1. n \in 4..Len(s) /\ n - 2 \in 2..Len(s) /\ s[n - 2] = HASH /\ s # <<>>
  BY DEF Packet
<1>2. ASSUME NEW h \in 2..(Len(s) + 1),
             \A i \in 2..(h - 1) : s[i] \notin {DOLLAR, HASH},
             Len(s) <= h + 1
      PROVE  FALSE
  <2>1. h <= n - 2
    BY <1>1, <1>2
  <2> QED BY <1>1, <1>2, <2>1
<1> QED BY <1>1, <1>2 DEF Decided, MayBecomePacket

\* The token at the head of a text that is no packet.
LEMMA HeadByte ==
    ASSUME NEW s \in Seq(Classes), s # <<>>,
           \A n : ~Packet(s, 0, n)
    PROVE  HeadToken(s) = [rule |-> RuleOfByte(s[1]), length |-> 1]
<1>1. Packets(s) = {}
  BY PacketAt DEF Packets
<1> QED BY <1>1 DEF HeadToken

LEMMA HeadPacket ==
    ASSUME NEW s \in Seq(Classes), NEW n, Packet(s, 0, n)
    PROVE  HeadToken(s) = [rule |-> 3, length |-> n]
<1>1. n \in 1..Len(s)
  BY DEF Packet
<1>2. n \in Packets(s)
  BY <1>1, PacketAt DEF Packets
<1>3. \A m \in Packets(s) : m = n
  BY PacketAt, OnePacket DEF Packets
<1>4. (CHOOSE m \in Packets(s) : TRUE) = n
  BY <1>2, <1>3
<1> QED BY <1>2, <1>4 DEF HeadToken

-----------------------------------------------------------------------------
(* The same text at another place of the buffer.                            *)

LEMMA BodyShift ==
    ASSUME NEW t \in Seq(Classes), NEW b \in 0..Len(t), NEW n \in Nat, NEW k \in Int,
           NEW u \in Seq(Classes), \A i \in 1..n : u[i] = t[b + i],
           k <= n, Body(t, b, b + k)
    PROVE  Body(u, 0, k)
<1> SUFFICES ASSUME NEW i \in 2..k
             PROVE  u[i] \notin {DOLLAR, HASH}
  BY DEF Body
<1>1. b + i \in (b + 2)..(b + k) /\ u[i] = t[b + i]
  OBVIOUS
<1> QED BY <1>1 DEF Body

LEMMA LiveShift ==
    ASSUME NEW t \in Seq(Classes), NEW b \in 0..Len(t), NEW q, NEW p,
           Live(t, b, q, p),
           NEW u \in Seq(Classes), p - b <= Len(u),
           \A i \in 1..(p - b) : u[i] = t[b + i]
    PROVE  Live(u, 0, q, p - b)
<1> DEFINE n == p - b
<1>1. p \in Nat /\ n \in 0..Len(u) /\ p = b + n /\ q \in {1, 4} \cup InPacket
  BY DEF Live
<1> HIDE DEF n
<1>2. n >= 1 => u[n] = t[p]
  BY <1>1 DEF n
<1>3. n >= 1 => u[1] = t[b + 1]
  BY <1>1 DEF n
<1>4. n >= 2 => u[n - 1] = t[p - 1]
  <2>1. n >= 2 => n - 1 \in 1..n /\ b + (n - 1) = p - 1
    BY <1>1
  <2> QED BY <2>1 DEF n
<1>5. /\ Body(t, b, b + n) => Body(u, 0, n)
      /\ Body(t, b, b + (n - 1)) => Body(u, 0, n - 1)
      /\ Body(t, b, b + (n - 2)) => Body(u, 0, n - 2)
  <2>1. \A i \in 1..n : u[i] = t[b + i]
    BY DEF n
  <2>2. n \in Nat /\ n - 1 \in Int /\ n - 2 \in Int /\ n - 1 <= n /\ n - 2 <= n /\ n <= n
    BY <1>1
  <2>3. \A k \in Int : k <= n /\ Body(t, b, b + k) => Body(u, 0, k)
    BY <2>1, <2>2, BodyShift
  <2> QED BY ONLY <2>2, <2>3
<1>6. b + (n - 1) = p - 1 /\ b + (n - 2) = p - 2
  BY <1>1
<1>7. CASE q \in {1, 4, 6}
  BY <1>1, <1>2, <1>3, <1>7 DEF Live, InPacket
<1>8. CASE q = 9
  BY <1>1, <1>3, <1>5, <1>8 DEF Live, InPacket
<1>9. CASE q = 10
  BY <1>1, <1>2, <1>3, <1>5, <1>6, <1>9 DEF Live, InPacket
<1>10. CASE q = 11
  BY <1>1, <1>2, <1>3, <1>4, <1>5, <1>6, <1>10 DEF Live, InPacket
<1>11. Live(u, 0, q, n)
  BY <1>1, <1>7, <1>8, <1>9, <1>10 DEF InPacket
<1> QED BY <1>11 DEF n

LEMMA StuckShift ==
    ASSUME NEW t \in Seq(Classes), NEW b \in 0..Len(t), NEW q, NEW p,
           Stuck(t, b, q, p),
           NEW u \in Seq(Classes), p - b + 1 <= Len(u),
           \A i \in 1..(p - b + 1) : u[i] = t[b + i]
    PROVE  Stuck(u, 0, q, p - b)
<1>1. p \in b..Len(t) /\ p - b \in 0..Len(u) /\ Live(t, b, q, p)
  BY DEF Live, Stuck
<1>2. Live(u, 0, q, p - b)
  <2>1. \A i \in 1..(p - b) : u[i] = t[b + i]
    BY <1>1
  <2>2. p - b <= Len(u)
    BY <1>1
  <2> QED BY <1>1, <2>1, <2>2, LiveShift
<1>3. u[(p - b) + 1] = t[p + 1]
  BY <1>1
<1> QED BY <1>1, <1>2, <1>3 DEF Stuck

LEMMA PacketShift ==
    ASSUME NEW t \in Seq(Classes), NEW b \in 0..Len(t), NEW p,
           Packet(t, b, p),
           NEW u \in Seq(Classes), p - b <= Len(u),
           \A i \in 1..(p - b) : u[i] = t[b + i]
    PROVE  Packet(u, 0, p - b)
<1> DEFINE n == p - b
<1>1. p \in Nat /\ n \in 4..Len(u) /\ p = b + n
  BY SMTT(30) DEF Packet
<1>2. n \in 1..n /\ n - 1 \in 1..n /\ n - 2 \in 1..n /\ 1 \in 1..n
  BY <1>1
<1>3. \A i \in 1..n : u[i] = t[b + i]
  OBVIOUS
<1> HIDE DEF n
<1>4. u[n] = t[b + n] /\ u[n - 1] = t[b + (n - 1)] /\ u[n - 2] = t[b + (n - 2)]
  BY <1>2, <1>3
<1>5. b + n = p /\ b + (n - 1) = p - 1 /\ b + (n - 2) = p - 2 /\ b + (n - 3) = p - 3
      /\ u[1] = t[b + 1]
  BY <1>1, <1>2, <1>3
<1>6. Body(u, 0, n - 3)
  <2>1. Body(t, b, b + (n - 3))
    BY <1>5 DEF Packet
  <2>2. n \in Nat /\ n - 3 \in Int /\ n - 3 <= n
    BY <1>1
  <2> QED BY <1>3, <2>1, <2>2, BodyShift
<1>7. Packet(u, 0, n)
  BY <1>1, <1>4, <1>5, <1>6 DEF Packet
<1> QED BY <1>7 DEF n


-----------------------------------------------------------------------------
\* The last accepting state is kept from the "$" on.
Kept == state \in {9, 10, 11} => accepting = [state |-> 6, cpos |-> bp + 1]

Here == Live(chars, bp, state, cp) /\ Kept

\* A zero before p is read after a text that decides nothing.
AfterZero(p) ==
    /\ p > bp
    /\ CharAt(p - 1) = NUL
    /\ \E q \in States : Live(chars, bp, q, p - 1)

AByte ==
    /\ Found.state \in 4..8
    /\ Found.cpos = bp + 1
    /\ bp < Len(chars)
    /\ yy_accept[Found.state] = RuleOfByte(chars[bp + 1])
    /\ \/ chars[bp + 1] # DOLLAR
       \/ \E q, p \in Nat : Stuck(chars, bp, q, p)
       \/ eofPending /\ \E q \in InPacket : Live(chars, bp, q, Len(chars))

\* Where the code is, and what it knows there.
Matching == at = "match" => Here \/ (state = 3 /\ AfterZero(cp))

Acting ==
    at = "action" =>
        \/ AByte
        \/ Found.state = 12 /\ Packet(chars, bp, Found.cpos)
        \/ Found.state = 3 /\ AfterZero(Found.cpos)

Rescanning ==
    at = "rescan" =>
        /\ Here
        /\ cp <= end
        /\ \E q \in States : Live(chars, bp, q, end)
        /\ goOn = "nul" => end < Len(chars) /\ chars[end + 1] = NUL
        /\ goOn = "action" => eofPending /\ end = Len(chars) /\ end > bp

AtZero == at = "nul" => Here /\ cp < Len(chars) /\ chars[cp + 1] = NUL

Filling ==
    at = "fill" =>
        /\ end = Len(chars) + 1 /\ cp = end
        /\ \E q \in States : Live(chars, bp, q, Len(chars))

Scanned ==
    /\ Len(chars) < size
    /\ bp <= Len(chars)
    /\ Matching
    /\ Acting
    /\ Rescanning
    /\ AtZero
    /\ Filling

Inv == TypeOK /\ Scanned

LEMMA CharType ==
    ASSUME TypeOK, NEW p \in Nat
    PROVE  CharAt(p) \in Classes /\ Data(CharAt(p)) \in Classes
<1>1. p < Len(chars) => chars[p + 1] \in Classes
  BY DEF TypeOK
<1> QED BY <1>1 DEF CharAt, Data, Classes, NUL, PLAIN

LEMMA LiveStart ==
    ASSUME NEW t \in Seq(Classes), NEW b \in 0..Len(t)
    PROVE  Live(t, b, StartState, b)
BY DEF Live, StartState, InPacket

LEMMA InitScanned == Init => Inv
<1> SUFFICES ASSUME Init PROVE Inv
  OBVIOUS
<1>1. TypeOK
  <2>1. size \in Nat /\ left \in Nat
    BY BufferAssumption, AlphabetAssumption DEF Init
  <2>2. /\ accepting \in [state : {0} \cup States, cpos : Nat]
        /\ token \in [rule : 0..5, length : Nat] /\ chars \in Seq(Classes)
    BY DEF Init
  <2>3. eofPending \in BOOLEAN
    BY DEF Init
  <2>4. bp \in Nat /\ cp \in Nat /\ end \in Nat /\ state \in States
    BY DEF Init, States, StartState
  <2>5. /\ at \in {"match", "action", "rescan", "nul", "fill", "returned", "exited"}
        /\ goOn \in {"match", "action", "nul"}
    BY DEF Init
  <2> QED BY ONLY <2>1, <2>2, <2>3, <2>4, <2>5 DEF TypeOK
<1>2. Here
  <2>1. chars \in Seq(Classes) /\ bp \in 0..Len(chars)
    BY <1>1 DEF Init, TypeOK
  <2>2. Live(chars, bp, StartState, bp)
    BY <2>1, LiveStart
  <2> QED BY <2>2 DEF Init, Here, Kept, StartState
<1>3. Scanned
  BY <1>2, BufferAssumption
     DEF Init, Scanned, Matching, Acting, Rescanning, AtZero, Filling
<1> QED BY <1>1, <1>3 DEF Inv

LEMMA TakeType ==
    ASSUME TypeOK, NEW c \in Classes, Take(c)
    PROVE  /\ accepting' \in [state : {0} \cup States, cpos : Nat]
           /\ state' \in States /\ state' = Goes(state, c)
           /\ cp' \in Nat /\ cp' = cp + 1
<1>1. state' = Goes(state, c)
  BY TransitionTable DEF TypeOK, Take
<1> QED BY <1>1, GoesSomewhere DEF TypeOK, Take, Note

LEMMA MatchType == TypeOK /\ Match => TypeOK'
<1> SUFFICES ASSUME TypeOK, Match PROVE TypeOK'
  OBVIOUS
<1>1. CharAt(cp) \in Classes /\ Take(CharAt(cp))
  BY CharType DEF Match, TypeOK
<1> QED BY <1>1, TakeType DEF TypeOK, Match, input

\* A zero, of the input or of the end, is read after an undecided text.
LEMMA MatchZero ==
    ASSUME Inv, Match, Here, CharAt(cp) = NUL
    PROVE  Scanned'
<1>1. /\ state \in {1, 4} \cup InPacket /\ state \in States /\ cp \in bp..Len(chars)
      /\ Live(chars, bp, state, cp) /\ cp \in Nat
  BY DEF Here, Live, Inv, TypeOK
<1>2. state' = 3 /\ cp' = cp + 1
  <2>1. state' = Goes(state, NUL) /\ cp' = cp + 1
    BY TakeType DEF Match, Inv, Classes, NUL
  <2> QED BY <1>1, <2>1
     DEF Goes, FromStart, InBody, Digit, InPacket, NUL, NEWLINE, DOLLAR, PLUS, MINUS, HASH, HEX
<1>3. at' = "match" /\ UNCHANGED <<chars, size, eofPending, bp>>
  BY <1>2, BaseTable DEF Match, input
<1>4. AfterZero(cp)'
  <2>1. cp + 1 > bp /\ (cp + 1) - 1 = cp
    BY <1>1 DEF Inv, TypeOK
  <2> QED BY <1>1, <1>2, <1>3, <2>1 DEF AfterZero, CharAt
<1> QED BY <1>2, <1>3, <1>4
       DEF Inv, Scanned, Matching, Acting, Rescanning, AtZero, Filling

\* A byte is read after an undecided text.
LEMMA MatchByte ==
    ASSUME Inv, Match, Here, CharAt(cp) # NUL
    PROVE  Scanned'
<1> DEFINE c == chars[cp + 1]
           s == state'
<1>1. /\ chars \in Seq(Classes) /\ bp \in 0..Len(chars) /\ cp \in bp..Len(chars)
      /\ Live(chars, bp, state, cp) /\ state \in {1, 4} \cup InPacket
  BY DEF Here, Live, Inv, TypeOK, Scanned
<1>2. cp < Len(chars) /\ c # NUL /\ CharAt(cp) = c /\ c \in Classes
  BY <1>1 DEF CharAt
<1>3. s = Goes(state, c) /\ cp' = cp + 1 /\ accepting' = Note
  BY <1>2, TakeType DEF Match, Inv, Take
<1>4. UNCHANGED <<chars, size, eofPending, bp>>
  BY DEF Match, input
<1>5. at' = IF yy_base[s] = 14 THEN "action" ELSE "match"
  BY DEF Match
<1> HIDE DEF s, c
<1>6. \/ Live(chars, bp, s, cp + 1) /\ (s \in {9, 10, 11} => state \in {6, 9, 10})
      \/ /\ s \in {4, 5, 7, 8} /\ cp = bp
         /\ yy_accept[s] = RuleOfByte(chars[bp + 1]) /\ chars[bp + 1] # DOLLAR
      \/ s = 13 /\ state = 4
      \/ s = 13 /\ Stuck(chars, bp, state, cp)
      \/ s = 12 /\ Packet(chars, bp, cp + 1)
  BY <1>1, <1>2, <1>3, MatchStep DEF c
<1>7. CASE Live(chars, bp, s, cp + 1) /\ (s \in {9, 10, 11} => state \in {6, 9, 10})
  <2>1. s # 4 /\ s \in {1} \cup InPacket
    <3>1. s = 4 => cp + 1 = bp + 1 /\ chars[cp + 1] = NUL
      BY <1>7 DEF Live
    <3> QED BY <1>2, <1>7, <3>1 DEF Live, c
  <2>2. at' = "match"
    BY <1>5, <2>1, BaseTable DEF InPacket
  <2>3. Kept'
    <3>1. CASE state = 6
      <4>1. accepting' = [state |-> 6, cpos |-> cp] /\ cp = bp + 1
        BY <1>1, <1>3, <3>1, AcceptTable DEF Note, Live, InPacket
      <4> QED BY <1>4, <4>1 DEF Kept
    <3>2. CASE state \in {9, 10}
      <4>1. accepting' = accepting /\ accepting = [state |-> 6, cpos |-> bp + 1]
        BY <1>3, <3>2, AcceptTable DEF Note, Here, Kept
      <4> QED BY <1>4, <4>1 DEF Kept
    <3> QED BY <1>7, <3>1, <3>2 DEF Kept, s
  <2>4. Here'
    BY <1>3, <1>4, <1>7, <2>3 DEF Here, s
  <2> QED BY <1>4, <2>2, <2>4
         DEF Inv, Scanned, Matching, Acting, Rescanning, AtZero, Filling
<1>8. CASE s # 13 /\ s \in {4, 5, 7, 8, 12}
  <2>1. at' = "action"
    BY <1>5, <1>8, BaseTable
  <2>2. Found' = [state |-> s, cpos |-> cp + 1]
    BY <1>3, <1>8, AcceptTable DEF Found, s
  <2>3. CASE /\ s \in {4, 5, 7, 8} /\ cp = bp
             /\ yy_accept[s] = RuleOfByte(chars[bp + 1]) /\ chars[bp + 1] # DOLLAR
    <3>1. AByte'
      BY <1>1, <1>2, <1>4, <2>2, <2>3 DEF AByte
    <3> QED BY <1>4, <2>1, <3>1
           DEF Inv, Scanned, Matching, Acting, Rescanning, AtZero, Filling
  <2>4. CASE s = 12 /\ Packet(chars, bp, cp + 1)
    <3>1. (Found.state = 12 /\ Packet(chars, bp, Found.cpos))'
      BY <1>4, <2>2, <2>4
    <3> QED BY <1>4, <2>1, <3>1
           DEF Inv, Scanned, Matching, Acting, Rescanning, AtZero, Filling
  <2>5. CASE Live(chars, bp, s, cp + 1) /\ (s \in {9, 10, 11} => state \in {6, 9, 10})
    BY <1>7, <2>5
  <2> QED BY <1>6, <1>8, <2>3, <2>4, <2>5
<1>9. CASE s = 13
  <2>1. at' = "action" /\ Found' = accepting'
    BY <1>5, <1>9, AcceptTable, BaseTable DEF Found, s
  <2>2. CASE state = 4
    <3>1. accepting' = [state |-> 4, cpos |-> cp] /\ cp = bp + 1 /\ chars[cp] = NUL
      BY <1>1, <1>3, <2>2, AcceptTable DEF Note, Live
    <3>2. RuleOfByte(NUL) = 4 /\ NUL # DOLLAR
      BY DEF RuleOfByte, NUL, PLUS, MINUS, NEWLINE, DOLLAR
    <3>3. AByte'
      BY <1>1, <1>4, <2>1, <3>1, <3>2, AcceptTable DEF AByte
    <3> QED BY <1>4, <2>1, <3>3
           DEF Inv, Scanned, Matching, Acting, Rescanning, AtZero, Filling
  <2>3. CASE Stuck(chars, bp, state, cp)
    <3>1. chars[bp + 1] = DOLLAR /\ state \in InPacket /\ cp > bp
      BY <2>3 DEF Stuck, Live
    <3>2. accepting' = [state |-> 6, cpos |-> bp + 1]
      <4>1. CASE state = 6
        BY <1>1, <1>3, <4>1, AcceptTable DEF Note, Live, InPacket
      <4>2. CASE state \in {9, 10, 11}
        BY <1>3, <4>2, AcceptTable DEF Note, Here, Kept
      <4> QED BY <3>1, <4>1, <4>2 DEF InPacket
    <3>3. RuleOfByte(DOLLAR) = 4
      BY DEF RuleOfByte, PLUS, MINUS, NEWLINE, DOLLAR
    <3>4. \E q, p \in Nat : Stuck(chars, bp, q, p)
      BY <1>1, <2>3, <3>1 DEF InPacket
    <3>5. AByte'
      BY SMTT(30), <1>1, <1>2, <1>4, <2>1, <3>1, <3>2, <3>3, <3>4, AcceptTable DEF AByte
    <3> QED BY <1>4, <2>1, <3>5
           DEF Inv, Scanned, Matching, Acting, Rescanning, AtZero, Filling
  <2>4. ~ Live(chars, bp, s, cp + 1)
    BY <1>9 DEF Live, InPacket
  <2> QED BY <1>6, <1>9, <2>2, <2>3, <2>4
<1> QED BY <1>6, <1>7, <1>8, <1>9

\* The byte after a zero stops the automaton.
LEMMA MatchAfterZero ==
    ASSUME Inv, Match, state = 3, AfterZero(cp)
    PROVE  Scanned'
<1>1. UNCHANGED <<chars, size, eofPending, bp>> /\ cp \in Nat
  BY DEF Match, input, Inv, TypeOK
<1>2. state' = 13 /\ accepting' = [state |-> 3, cpos |-> cp]
  <2>1. CharAt(cp) \in Classes
    BY <1>1, CharType DEF Inv
  <2> QED BY <2>1, TakeType, AcceptTable DEF Match, Inv, Take, Note, Goes
<1>3. at' = "action" /\ Found' = accepting'
  BY <1>2, BaseTable, AcceptTable DEF Match, Found
<1>4. (Found.state = 3 /\ AfterZero(Found.cpos))'
  BY <1>1, <1>2, <1>3 DEF AfterZero, CharAt
<1> QED BY <1>1, <1>3, <1>4
       DEF Inv, Scanned, Matching, Acting, Rescanning, AtZero, Filling

LEMMA MatchScanned == Inv /\ Match => Inv'
<1> SUFFICES ASSUME Inv, Match PROVE Inv'
  OBVIOUS
<1>1. Here \/ (state = 3 /\ AfterZero(cp))
  BY DEF Inv, Scanned, Matching, Match
<1> QED BY <1>1, MatchType, MatchZero, MatchByte, MatchAfterZero DEF Inv

LEMMA FoundToken ==
    ASSUME Inv, Act
    PROVE  /\ AByte \/ (Found.state = 12 /\ Packet(chars, bp, Found.cpos))
           /\ Found.cpos \in Nat /\ Found.cpos > bp /\ Found.cpos <= Len(chars)
           /\ yy_accept[Found.state] \in 0..5
<1>1. /\ yy_accept[Found.state] # 6
      /\ bp \in Nat /\ Len(chars) \in Nat
      /\ Acting /\ at = "action"
  BY DEF Act, END_OF_BUFFER, Inv, TypeOK, Scanned
<1>2. \/ AByte
      \/ Found.state = 12 /\ Packet(chars, bp, Found.cpos)
  BY <1>1, AcceptTable DEF Acting
<1>3. CASE AByte
  BY SMTT(30), <1>1, <1>2, <1>3, AcceptTable DEF AByte
<1>4. CASE Found.state = 12 /\ Packet(chars, bp, Found.cpos)
  <2>1. Found.cpos \in (bp + 4)..Len(chars)
    BY <1>4 DEF Packet
  <2>2. yy_accept[Found.state] = 3
    BY <1>4, AcceptTable
  <2> QED BY <1>1, <1>4, <2>1, <2>2
<1> QED BY <1>2, <1>3, <1>4

LEMMA ActScanned == Inv /\ Act => Inv'
<1> SUFFICES ASSUME Inv, Act PROVE Inv'
  OBVIOUS
<1> DEFINE p == Found.cpos
           r == yy_accept[Found.state]
<1>1. p \in Nat /\ p > bp /\ p <= Len(chars) /\ r \in 0..5 /\ bp \in Nat
      /\ chars \in Seq(Classes)
  BY FoundToken DEF Inv, TypeOK
<1>2. /\ UNCHANGED <<input, accepting, goOn>> /\ bp' = p /\ cp' = p /\ end' = p
      /\ state' = StartState /\ at' = "match"
      /\ token' = [rule |-> r, length |-> p - bp]
  BY DEF Act
<1> HIDE DEF p, r
<1>3. token' \in [rule : 0..5, length : Nat]
  BY <1>1, <1>2
<1>4. TypeOK'
  BY <1>1, <1>2, <1>3 DEF Inv, TypeOK, input, StartState, States
<1>5. Here'
  <2>1. Live(chars, p, StartState, p)
    BY <1>1, LiveStart
  <2> QED BY <1>2, <2>1 DEF Here, Kept, StartState, input
<1> QED BY <1>1, <1>2, <1>4, <1>5
       DEF Inv, Scanned, Matching, Acting, Rescanning, AtZero, Filling, input

\* In YY_END_OF_BUFFER the automaton has just passed a zero.
LEMMA FoundZero ==
    ASSUME Inv, at = "action", yy_accept[Found.state] = END_OF_BUFFER
    PROVE  /\ AfterZero(Found.cpos)
           /\ Found.cpos \in (bp + 1)..(Len(chars) + 1)
<1>1. yy_accept[Found.state] = 6
  BY DEF END_OF_BUFFER
<1>2. Found.state # 12 /\ Found.state \notin 4..8
  BY <1>1, AcceptTable
<1>3. AfterZero(Found.cpos)
  BY <1>2 DEF Inv, Scanned, Acting, AByte
<1>4. Found.cpos \in Nat
  BY DEF Found, Inv, TypeOK
<1> QED BY <1>3, <1>4 DEF AfterZero, Live, Inv, TypeOK

LEMMA DataNulScanned == Inv /\ DataNul => Inv'
<1> SUFFICES ASSUME Inv, DataNul PROVE Inv'
  OBVIOUS
<1> DEFINE p == Found.cpos
<1>1. /\ AfterZero(p) /\ p \in (bp + 1)..Len(chars)
      /\ bp \in 0..Len(chars) /\ chars \in Seq(Classes)
  BY FoundZero DEF DataNul, Inside, Inv, TypeOK, Scanned
<1>2. /\ UNCHANGED <<input, bp, accepting, token>>
      /\ state' = StartState /\ cp' = bp /\ end' = p - 1
      /\ at' = "rescan" /\ goOn' = "nul"
  BY DEF DataNul, ScanAgain
<1> HIDE DEF p
<1>3. TypeOK'
  BY <1>1, <1>2 DEF Inv, TypeOK, input, StartState, States
<1>4. Here'
  <2>1. Live(chars, bp, StartState, bp)
    BY <1>1, LiveStart
  <2> QED BY <1>2, <2>1 DEF Here, Kept, StartState, input
<1>5. p - 1 < Len(chars) /\ chars[(p - 1) + 1] = NUL /\ p - 1 >= bp
      /\ \E q \in States : Live(chars, bp, q, p - 1)
  BY <1>1 DEF AfterZero, CharAt
<1>6. Rescanning'
  BY <1>2, <1>4, <1>5 DEF Rescanning, input
<1> QED BY <1>2, <1>3, <1>6
       DEF Inv, Scanned, Matching, Acting, AtZero, Filling, input

LEMMA EndOfBufferScanned == Inv /\ EndOfBuffer => Inv'
<1> SUFFICES ASSUME Inv, EndOfBuffer PROVE Inv'
  OBVIOUS
<1> DEFINE p == Found.cpos
<1>1. /\ AfterZero(p) /\ p = Len(chars) + 1
      /\ bp \in 0..Len(chars) /\ chars \in Seq(Classes)
  BY FoundZero DEF EndOfBuffer, Inside, Inv, TypeOK, Scanned
<1>2. /\ UNCHANGED <<input, bp, state, accepting, goOn, token>>
      /\ cp' = p /\ end' = p /\ at' = "fill"
  BY DEF EndOfBuffer
<1> HIDE DEF p
<1>3. TypeOK'
  BY <1>1, <1>2 DEF Inv, TypeOK, input
<1>4. \E q \in States : Live(chars, bp, q, Len(chars))
  BY <1>1 DEF AfterZero
<1>5. Filling'
  BY <1>1, <1>2, <1>4 DEF Filling, input
<1> QED BY <1>2, <1>3, <1>5
       DEF Inv, Scanned, Matching, Acting, Rescanning, AtZero, input

LEMMA RescanScanned == Inv /\ Rescan => Inv'
<1> SUFFICES ASSUME Inv, Rescan PROVE Inv'
  OBVIOUS
<1>1. /\ UNCHANGED <<input, bp, end, at, goOn, token>> /\ at = "rescan"
      /\ cp < end /\ Take(Data(CharAt(cp)))
  BY DEF Rescan
<1>2. /\ Here /\ Live(chars, bp, state, cp) /\ cp \in Nat /\ end \in Nat
      /\ chars \in Seq(Classes) /\ bp \in 0..Len(chars)
  BY <1>1 DEF Inv, Scanned, Rescanning, Here, TypeOK
<1>3. PICK q \in States : Live(chars, bp, q, end)
  BY <1>1 DEF Inv, Scanned, Rescanning
<1>4. cp + 1 <= end /\ end <= Len(chars) /\ CharAt(cp) = chars[cp + 1]
  BY <1>1, <1>2, <1>3 DEF Live, CharAt
<1>5. /\ accepting' \in [state : {0} \cup States, cpos : Nat]
      /\ state' \in States /\ state' = Goes(state, Data(chars[cp + 1]))
      /\ cp' \in Nat /\ cp' = cp + 1 /\ accepting' = Note
  BY <1>1, <1>2, <1>4, TakeType, CharType DEF Inv, Take
<1>6. /\ Live(chars, bp, state', cp + 1)
      /\ state' \in {9, 10, 11} => state \in {6, 9, 10}
  BY <1>1, <1>2, <1>3, <1>5, LiveStep
<1>7. TypeOK'
  BY <1>1, <1>5 DEF Inv, TypeOK, input
<1>8. Kept'
  <2>1. CASE state = 6
    <3>1. accepting' = [state |-> 6, cpos |-> cp] /\ cp = bp + 1
      BY <1>2, <1>5, <2>1, AcceptTable DEF Note, Live, InPacket
    <3> QED BY <1>1, <3>1 DEF Kept
  <2>2. CASE state \in {9, 10}
    <3>1. accepting' = accepting /\ accepting = [state |-> 6, cpos |-> bp + 1]
      BY <1>2, <1>5, <2>2, AcceptTable DEF Note, Here, Kept
    <3> QED BY <1>1, <3>1 DEF Kept
  <2> QED BY <1>6, <2>1, <2>2 DEF Kept
<1>9. Here'
  BY <1>1, <1>5, <1>6, <1>8 DEF Here, input
<1>10. Rescanning'
  BY <1>1, <1>4, <1>5, <1>9 DEF Rescanning, Inv, Scanned, input
<1> QED BY <1>1, <1>7, <1>10
       DEF Inv, Scanned, Matching, Acting, AtZero, Filling, input

LEMMA RescannedScanned == Inv /\ Rescanned => Inv'
<1> SUFFICES ASSUME Inv, Rescanned PROVE Inv'
  OBVIOUS
<1>1. /\ UNCHANGED <<input, bp, cp, end, state, accepting, goOn, token>>
      /\ at = "rescan" /\ at' = goOn
  BY DEF Rescanned
<1>2. /\ Here /\ cp = end /\ Rescanning /\ bp \in Nat /\ cp \in Nat /\ bp <= Len(chars)
      /\ goOn \in {"match", "action", "nul"} /\ Len(chars) \in Nat
  BY <1>1 DEF Inv, Scanned, Rescanning, Rescanned, TypeOK
<1>3. TypeOK'
  BY <1>1, <1>2 DEF Inv, TypeOK, input
<1>4. Here'
  BY <1>1, <1>2 DEF Here, Kept, input
<1>5. CASE goOn = "match"
  BY <1>1, <1>3, <1>4, <1>5
     DEF Inv, Scanned, Matching, Acting, Rescanning, AtZero, Filling, input
<1>6. CASE goOn = "nul"
  <2>1. AtZero'
    BY <1>1, <1>2, <1>4, <1>6 DEF Rescanning, AtZero, input
  <2> QED BY <1>1, <1>3, <1>6, <2>1
         DEF Inv, Scanned, Matching, Acting, Rescanning, Filling, input
<1>7. CASE goOn = "action"
  <2>1. eofPending /\ cp = Len(chars) /\ cp > bp /\ Live(chars, bp, state, cp)
    BY <1>1, <1>2, <1>7 DEF Rescanning, Here
  <2>2. RuleOfByte(NUL) = 4 /\ NUL # DOLLAR /\ RuleOfByte(DOLLAR) = 4
    BY DEF RuleOfByte, NUL, PLUS, MINUS, NEWLINE, DOLLAR
  <2>7. ASSUME Found = [state |-> 6, cpos |-> bp + 1], state \in InPacket,
               chars[bp + 1] = DOLLAR
        PROVE  AByte
    <3>1. Found.state = 6 /\ Found.cpos = bp + 1 /\ bp < Len(chars)
      BY <1>2, <2>1, <2>7
    <3>2. yy_accept[Found.state] = RuleOfByte(chars[bp + 1])
      BY <2>2, <2>7, <3>1, AcceptTable
    <3>3. \E q \in InPacket : Live(chars, bp, q, Len(chars))
      BY <2>1, <2>7
    <3> QED BY <2>1, <3>1, <3>2, <3>3 DEF AByte
  <2>3. ASSUME state = 4 PROVE AByte
    <3>1. Found = [state |-> 4, cpos |-> bp + 1] /\ chars[bp + 1] = NUL
      BY <2>1, <2>3, AcceptTable DEF Found, Live
    <3>2. Found.state = 4 /\ Found.cpos = bp + 1 /\ bp < Len(chars)
      BY <1>2, <2>1, <3>1
    <3>3. yy_accept[Found.state] = RuleOfByte(chars[bp + 1]) /\ chars[bp + 1] # DOLLAR
      BY <2>2, <3>1, AcceptTable
    <3> QED BY <3>2, <3>3 DEF AByte
  <2>4. ASSUME state = 6 PROVE AByte
    <3>1. Found = [state |-> 6, cpos |-> bp + 1] /\ chars[bp + 1] = DOLLAR
      BY <2>1, <2>4, AcceptTable DEF Found, Live, InPacket
    <3> QED BY <2>7, <2>4, <3>1 DEF InPacket
  <2>5. ASSUME state \in {9, 10, 11} PROVE AByte
    <3>1. Found = [state |-> 6, cpos |-> bp + 1] /\ chars[bp + 1] = DOLLAR
      BY <1>2, <2>1, <2>5, AcceptTable DEF Found, Here, Kept, Live, InPacket
    <3> QED BY <2>7, <2>5, <3>1 DEF InPacket
  <2>6. AByte
    <3>1. state \in {4} \cup InPacket
      BY <1>2, <2>1 DEF Live
    <3> QED BY <2>3, <2>4, <2>5, <3>1 DEF InPacket
  <2>8. AByte'
    BY <1>1, <2>6 DEF AByte, Found, input
  <2> QED BY <1>1, <1>3, <1>7, <2>8
         DEF Inv, Scanned, Matching, Acting, Rescanning, AtZero, Filling, input
<1> QED BY <1>2, <1>5, <1>6, <1>7

LEMMA NulTransitionScanned == Inv /\ NulTransition => Inv'
<1> SUFFICES ASSUME Inv, NulTransition PROVE Inv'
  OBVIOUS
<1> DEFINE s == Goes(state, Data(NUL))
<1>1. /\ chars \in Seq(Classes) /\ bp \in 0..Len(chars) /\ cp \in bp..Len(chars)
      /\ cp \in Nat /\ Live(chars, bp, state, cp) /\ state \in {1, 4} \cup InPacket
      /\ cp < Len(chars) /\ chars[cp + 1] = NUL /\ Here /\ state \in States
  BY DEF NulTransition, AtZero, Here, Live, Inv, TypeOK, Scanned
<1>2. Data(NUL) \in Classes /\ Transition[state][Data(NUL)] = s /\ s \in States
  <2>1. Data(NUL) \in Classes
    BY DEF Data, NUL, PLAIN, Classes
  <2> QED BY <1>1, <2>1, TransitionTable, GoesSomewhere
<1>3. /\ UNCHANGED <<input, bp, goOn, token>> /\ accepting' = Note /\ end' = cp'
      /\ s # 13 => state' = s /\ cp' = cp + 1 /\ at' = "match"
      /\ s = 13 => state' = state /\ cp' = cp /\ at' = "action"
  BY <1>2 DEF NulTransition, JamState
<1>4. TypeOK'
  <2>1. accepting' \in [state : {0} \cup States, cpos : Nat]
    BY <1>1, <1>3 DEF Note, Inv, TypeOK
  <2> QED BY <1>1, <1>2, <1>3, <2>1 DEF Inv, TypeOK, input
<1>5. \/ /\ Live(chars, bp, s, cp + 1) /\ s # 13
         /\ s \in {9, 10, 11} => state \in {6, 9}
      \/ s = 13 /\ state = 4
      \/ s = 13 /\ state \in {10, 11} /\ Stuck(chars, bp, state, cp)
  BY <1>1, ZeroStep
<1> HIDE DEF s
<1>6. CASE /\ Live(chars, bp, s, cp + 1) /\ s # 13
           /\ s \in {9, 10, 11} => state \in {6, 9}
  <2>1. Kept'
    <3>1. CASE state = 6
      <4>1. accepting' = [state |-> 6, cpos |-> cp] /\ cp = bp + 1
        BY <1>1, <1>3, <3>1, AcceptTable DEF Note, Live, InPacket
      <4> QED BY <1>3, <4>1 DEF Kept
    <3>2. CASE state = 9
      <4>1. accepting' = accepting /\ accepting = [state |-> 6, cpos |-> bp + 1]
        BY <1>1, <1>3, <3>2, AcceptTable DEF Note, Here, Kept
      <4> QED BY <1>3, <4>1 DEF Kept
    <3> QED BY <1>3, <1>6, <3>1, <3>2 DEF Kept
  <2>2. Here'
    BY <1>3, <1>6, <2>1 DEF Here, input
  <2> QED BY <1>3, <1>4, <1>6, <2>2
         DEF Inv, Scanned, Matching, Acting, Rescanning, AtZero, Filling, input
<1>7. CASE s = 13
  <2>1. ASSUME AByte' PROVE Inv'
    BY <1>3, <1>4, <1>7, <2>1
       DEF Inv, Scanned, Matching, Acting, Rescanning, AtZero, Filling, input
  <2>2. RuleOfByte(NUL) = 4 /\ NUL # DOLLAR /\ RuleOfByte(DOLLAR) = 4
    BY DEF RuleOfByte, NUL, PLUS, MINUS, NEWLINE, DOLLAR
  <2>3. CASE state = 4
    <3>1. Found' = [state |-> 4, cpos |-> bp + 1] /\ chars[bp + 1] = NUL
      BY <1>1, <1>3, <1>7, <2>3, AcceptTable DEF Found, Live
    <3>2. yy_accept[4] = RuleOfByte(chars[bp + 1]) /\ chars[bp + 1] # DOLLAR
      BY <2>2, <3>1, AcceptTable
    <3>3. AByte'
      BY <1>1, <1>3, <3>1, <3>2 DEF AByte, input
    <3> QED BY <2>1, <3>3
  <2>4. CASE state \in {10, 11} /\ Stuck(chars, bp, state, cp)
    <3>1. Found' = [state |-> 6, cpos |-> bp + 1] /\ chars[bp + 1] = DOLLAR
      BY <1>1, <1>3, <1>7, <2>4, AcceptTable
         DEF Found, Note, Here, Kept, Live, InPacket
    <3>2. yy_accept[6] = RuleOfByte(chars[bp + 1])
      BY <2>2, <3>1, AcceptTable
    <3>3. \E q, p \in Nat : Stuck(chars, bp, q, p)
      BY <1>1, <2>4
    <3>4. AByte'
      BY <1>1, <1>3, <3>1, <3>2, <3>3 DEF AByte, input
    <3> QED BY <2>1, <3>4
  <2> QED BY <1>5, <1>7, <2>3, <2>4
<1> QED BY <1>5, <1>6, <1>7

LEMMA GrowScanned == Inv /\ Grow => Inv'
<1> SUFFICES ASSUME Inv, Grow PROVE Inv'
  OBVIOUS
<1>1. /\ UNCHANGED <<chars, eofPending, left, bp, cp, end, state, accepting, at, goOn, token>>
      /\ size' = size * 2
  BY DEF Grow
<1>2. size' \in Nat /\ Len(chars) < size'
  BY <1>1 DEF Inv, TypeOK, Scanned
<1>3. TypeOK'
  BY <1>1, <1>2 DEF Inv, TypeOK
<1>4. Matching' /\ Acting' /\ Rescanning' /\ AtZero' /\ Filling'
  BY <1>1 DEF Inv, Scanned, Matching, Acting, Rescanning, AtZero, Filling, Here, Kept,
              AByte, AfterZero, Found, CharAt
<1> QED BY <1>1, <1>2, <1>3, <1>4 DEF Inv, Scanned

\* The token in hand, moved to the start of the buffer.
LEMMA MovedText ==
    ASSUME Inv, at = "fill"
    PROVE  /\ chars \in Seq(Classes) /\ bp \in 0..Len(chars)
           /\ number_to_move = Len(chars) - bp /\ number_to_move \in Nat
           /\ Moved = SubSeq(chars, bp + 1, Len(chars))
           /\ Moved \in Seq(Classes) /\ Len(Moved) = number_to_move
           /\ \A i \in 1..number_to_move : Moved[i] = chars[bp + i]
           /\ \E q \in States : Live(chars, bp, q, Len(chars))
<1>1. /\ chars \in Seq(Classes) /\ bp \in 0..Len(chars) /\ end = Len(chars) + 1
      /\ \E q \in States : Live(chars, bp, q, Len(chars))
  BY DEF Inv, TypeOK, Scanned, Filling
<1>2. number_to_move = Len(chars) - bp /\ number_to_move \in Nat
  BY <1>1 DEF number_to_move
<1>3. bp + number_to_move = Len(chars)
  BY <1>1, <1>2
<1>4. Moved = SubSeq(chars, bp + 1, Len(chars))
  BY <1>3 DEF Moved
<1> QED BY <1>1, <1>2, <1>4

\* A buffer that begins with the token in hand is scanned again.
LEMMA AgainScanned ==
    ASSUME Inv, at = "fill", NEW next \in {"match", "action"},
           chars' \in Seq(Classes), Len(chars') < size, left' \in Nat,
           number_to_move <= Len(chars'),
           \A i \in 1..number_to_move : chars'[i] = chars[bp + i],
           bp' = 0, eofPending' \in BOOLEAN, ScanAgain(0, number_to_move, next),
           UNCHANGED <<size, accepting, token>>,
           next = "action" => /\ eofPending' /\ number_to_move = Len(chars')
                              /\ number_to_move > 0
    PROVE  Inv'
<1> DEFINE n == number_to_move
<1>1. state' = StartState /\ cp' = 0 /\ end' = n /\ at' = "rescan" /\ goOn' = next
  BY DEF ScanAgain
<1>2. n \in Nat /\ n = Len(chars) - bp /\ chars \in Seq(Classes) /\ bp \in 0..Len(chars)
  BY MovedText
<1>3. PICK q \in States : Live(chars, bp, q, Len(chars))
  BY MovedText
<1>4. Live(chars', 0, q, n)
  BY <1>2, <1>3, LiveShift
<1> HIDE DEF n
<1>5. TypeOK'
  BY <1>1, <1>2 DEF Inv, TypeOK, States, StartState
<1>6. Here'
  <2>1. Live(chars', 0, StartState, 0)
    BY <1>2, LiveStart
  <2> QED BY <1>1, <2>1 DEF Here, Kept, StartState
<1>7. Rescanning'
  BY <1>1, <1>2, <1>4, <1>6 DEF Rescanning, n
<1> QED BY <1>1, <1>5, <1>7
       DEF Inv, Scanned, Matching, Acting, AtZero, Filling, TypeOK

LEMMA ReadScanned ==
    ASSUME Inv, NEW k \in 1..ReadSize, NEW bytes \in [1..k -> Alphabet], Read(bytes)
    PROVE  /\ Inv'
           /\ bytes \in Seq(Classes) /\ Len(bytes) = k
           /\ chars' = SubSeq(chars, bp + 1, Len(chars)) \o bytes
<1>1. k \in Nat /\ bytes \in Seq(Alphabet) /\ Len(bytes) = k
  BY BufferAssumption
<1>2. bytes \in Seq(Classes)
  BY <1>1, AlphabetAssumption
<1>3. /\ at = "fill" /\ chars' = Moved \o bytes /\ left' = left - k
      /\ k \in 1..num_to_read /\ k <= left /\ bp' = 0
      /\ ScanAgain(0, number_to_move, "match")
      /\ UNCHANGED <<size, eofPending, accepting, token>>
  BY <1>1 DEF Read
<1>4. /\ number_to_move \in Nat /\ Moved \in Seq(Classes) /\ Len(Moved) = number_to_move
      /\ \A i \in 1..number_to_move : Moved[i] = chars[bp + i]
      /\ Moved = SubSeq(chars, bp + 1, Len(chars))
  BY <1>3, MovedText
<1>5. /\ chars' \in Seq(Classes) /\ Len(chars') = number_to_move + k
      /\ \A i \in 1..number_to_move : chars'[i] = chars[bp + i]
  BY <1>1, <1>2, <1>3, <1>4
<1>6. size \in Nat /\ k <= size - number_to_move - 1 /\ left \in Nat /\ eofPending \in BOOLEAN
  BY <1>1, <1>3, <1>4 DEF num_to_read, Inv, TypeOK
<1>7. Len(chars') < size /\ left' \in Nat /\ number_to_move <= Len(chars')
  BY SMTT(30), <1>1, <1>3, <1>4, <1>5, <1>6
<1>8. eofPending' \in BOOLEAN
  BY <1>3, <1>6
<1>9. Inv'
  BY <1>3, <1>5, <1>7, <1>8, AgainScanned
<1> QED BY <1>1, <1>2, <1>3, <1>4, <1>9

LEMMA LastMatchScanned == Inv /\ LastMatch => Inv'
<1> SUFFICES ASSUME Inv, LastMatch PROVE Inv'
  OBVIOUS
<1>1. /\ at = "fill" /\ chars' = Moved /\ bp' = 0 /\ eofPending' = TRUE
      /\ number_to_move > 0 /\ ScanAgain(0, number_to_move, "action")
      /\ UNCHANGED <<size, left, accepting, token>>
  BY DEF LastMatch
<1>2. /\ number_to_move \in Nat /\ Moved \in Seq(Classes) /\ Len(Moved) = number_to_move
      /\ \A i \in 1..number_to_move : Moved[i] = chars[bp + i]
      /\ number_to_move <= Len(chars)
  BY <1>1, MovedText
<1>3. size \in Nat /\ left \in Nat /\ Len(chars) < size /\ Len(chars) \in Nat
  BY DEF Inv, TypeOK, Scanned
<1>4. Len(chars') < size /\ left' \in Nat /\ eofPending' \in BOOLEAN
  BY <1>1, <1>2, <1>3
<1> QED BY <1>1, <1>2, <1>4, AgainScanned

LEMMA EndOfFileScanned == Inv /\ EndOfFile => Inv'
<1> SUFFICES ASSUME Inv, EndOfFile PROVE Inv'
  OBVIOUS
<1>1. /\ at' = "returned" /\ chars' = <<>> /\ bp' = 0 /\ cp' = 0 /\ end' = 0
      /\ eofPending' = FALSE
      /\ UNCHANGED <<size, state, accepting, left, goOn, token>>
  BY DEF EndOfFile, yy_flush_buffer
<1>2. size \in Nat /\ Len(chars) < size /\ Len(chars) \in Nat
  BY DEF Inv, TypeOK, Scanned
<1>3. chars' \in Seq(Classes) /\ Len(chars') = 0 /\ Len(chars') < size'
  BY <1>1, <1>2
<1>4. eofPending' \in BOOLEAN
  BY <1>1
<1>5. TypeOK'
  BY <1>1, <1>3, <1>4 DEF Inv, TypeOK
<1> QED BY <1>1, <1>3, <1>5
       DEF Inv, Scanned, Matching, Acting, Rescanning, AtZero, Filling

LEMMA StillScanned ==
    ASSUME Inv, UNCHANGED <<input, bp, cp, end, state, accepting, goOn, token>>,
           at' = at \/ at' = "exited"
    PROVE  Inv'
<1>1. TypeOK'
  BY DEF Inv, TypeOK, input
<1>2. Matching' /\ Acting' /\ Rescanning' /\ AtZero' /\ Filling'
  BY DEF Inv, Scanned, Matching, Acting, Rescanning, AtZero, Filling, Here, Kept,
         AByte, AfterZero, Found, CharAt, input
<1> QED BY <1>1, <1>2 DEF Inv, Scanned, input

LEMMA NextScanned == Inv /\ [Next]_vars => Inv'
<1> SUFFICES ASSUME Inv, [Next]_vars PROVE Inv'
  OBVIOUS
<1>1. CASE Match
  BY <1>1, MatchScanned
<1>2. CASE Act
  BY <1>2, ActScanned
<1>3. CASE DataNul
  BY <1>3, DataNulScanned
<1>4. CASE EndOfBuffer
  BY <1>4, EndOfBufferScanned
<1>5. CASE Rescan
  BY <1>5, RescanScanned
<1>6. CASE Rescanned
  BY <1>6, RescannedScanned
<1>7. CASE NulTransition
  BY <1>7, NulTransitionScanned
<1>8. CASE Grow
  BY <1>8, GrowScanned
<1>9. CASE \E n \in 1..ReadSize : \E bytes \in [1..n -> Alphabet] : Read(bytes)
  BY <1>9, ReadScanned
<1>10. CASE LastMatch
  BY <1>10, LastMatchScanned
<1>11. CASE EndOfFile
  BY <1>11, EndOfFileScanned
<1>12. CASE ReadFails
  BY <1>12, StillScanned DEF ReadFails
<1>13. CASE Terminating
  BY <1>13, StillScanned DEF Terminating, vars
<1>14. CASE UNCHANGED vars
  BY <1>14, StillScanned DEF vars
<1> QED BY <1>1, <1>2, <1>3, <1>4, <1>5, <1>6, <1>7, <1>8, <1>9, <1>10, <1>11,
           <1>12, <1>13, <1>14 DEF Next, Scan

LEMMA AlwaysScanned == Spec => []Inv
<1>1. Init => Inv
  BY InitScanned
<1>2. Inv /\ [Next]_vars => Inv'
  BY NextScanned
<1> QED BY <1>1, <1>2, PTL DEF Spec

-----------------------------------------------------------------------------
\* Every variable keeps its type; in particular no position and no length of a
\* token (yyleng) is negative, for buffers and reads of every size.
THEOREM TypeCorrect == Spec => []TypeOK
<1>1. Inv => TypeOK
  BY DEF Inv
<1> QED BY <1>1, AlwaysScanned, PTL

\* The scanner stays inside its buffer, whatever its first size, the text and the
\* pieces in which read() returns it: the bytes and the two zeros fit, the zeros
\* are never passed, and a token found begins where the last one ended.
THEOREM NeverOutOfBuffer == Spec => []WithinBuffer
<1>1. Inv => WithinBuffer
  <2> SUFFICES ASSUME Inv PROVE WithinBuffer
    OBVIOUS
  <2>1. Len(chars) < size /\ bp <= Len(chars) /\ bp \in Nat /\ Len(chars) \in Nat
    BY DEF Inv, Scanned, TypeOK
  <2>2. at = "fill" => cp = Len(chars) + 1
    BY DEF Inv, Scanned, Filling
  <2>3. at = "rescan" => cp <= end /\ end <= Len(chars)
    BY DEF Inv, Scanned, Rescanning, Live
  <2>4. ASSUME at = "action"
        PROVE  Found.cpos > bp /\ Found.cpos <= Len(chars) + 2
    <3>1. CASE AByte
      BY <2>1, <3>1 DEF AByte
    <3>2. CASE Packet(chars, bp, Found.cpos)
      BY <2>1, <3>2 DEF Packet
    <3>3. CASE AfterZero(Found.cpos)
      <4>1. Found.cpos \in Nat
        BY DEF Found, Inv, TypeOK
      <4> QED BY <2>1, <3>3, <4>1 DEF AfterZero, Live
    <3> QED BY <2>4, <3>1, <3>2, <3>3 DEF Inv, Scanned, Acting
  <2> QED BY <2>1, <2>2, <2>3, <2>4 DEF WithinBuffer
<1> QED BY <1>1, AlwaysScanned, PTL

\* The text in hand, as the rules see it.
LEMMA TextInHand ==
    ASSUME Inv, NEW s, s = SubSeq(chars, bp + 1, Len(chars))
    PROVE  /\ s \in Seq(Classes) /\ Len(s) = Len(chars) - bp
           /\ \A i \in 1..Len(s) : s[i] = chars[bp + i]
           /\ chars \in Seq(Classes) /\ bp \in 0..Len(chars)
           /\ \A q, p : Live(chars, bp, q, p) => Live(s, 0, q, p - bp)
           /\ \A q, p : Stuck(chars, bp, q, p) => Stuck(s, 0, q, p - bp)
           /\ \A p : Packet(chars, bp, p) => Packet(s, 0, p - bp)
<1>1. /\ s \in Seq(Classes) /\ Len(s) = Len(chars) - bp
      /\ \A i \in 1..Len(s) : s[i] = chars[bp + i]
      /\ chars \in Seq(Classes) /\ bp \in 0..Len(chars)
  BY DEF Inv, TypeOK, Scanned
<1>2. ASSUME NEW q, NEW p, Live(chars, bp, q, p)
      PROVE  Live(s, 0, q, p - bp)
  <2>1. p \in bp..Len(chars)
    BY <1>2 DEF Live
  <2>2. p - bp <= Len(s) /\ \A i \in 1..(p - bp) : s[i] = chars[bp + i]
    BY <1>1, <2>1
  <2> QED BY <1>1, <1>2, <2>2, LiveShift
<1>3. ASSUME NEW q, NEW p, Stuck(chars, bp, q, p)
      PROVE  Stuck(s, 0, q, p - bp)
  <2>1. p \in bp..Len(chars) /\ p < Len(chars)
    BY <1>3 DEF Stuck, Live
  <2>2. p - bp + 1 <= Len(s) /\ \A i \in 1..(p - bp + 1) : s[i] = chars[bp + i]
    BY <1>1, <2>1
  <2> QED BY <1>1, <1>3, <2>2, StuckShift
<1>4. ASSUME NEW p, Packet(chars, bp, p)
      PROVE  Packet(s, 0, p - bp)
  <2>1. p \in bp..Len(chars)
    BY <1>1, <1>4 DEF Packet
  <2>2. p - bp <= Len(s) /\ \A i \in 1..(p - bp) : s[i] = chars[bp + i]
    BY <1>1, <2>1
  <2> QED BY <1>1, <1>4, <2>2, PacketShift
<1> QED BY <1>1, <1>2, <1>3, <1>4

\* The scanner never waits in read() for a token it could cut, for every text:
\* the debugger would wait for its acknowledgement at the same time.  The only
\* exception is a zero outside of a packet.
THEOREM NeverWaits == Spec => []NoWaiting
<1>1. Inv => NoWaiting
  <2> DEFINE s == SubSeq(chars, bp + 1, Len(chars))
  <2>1. SUFFICES ASSUME Inv, at = "fill", Decided(s)
                 PROVE  s = <<NUL>>
    BY DEF NoWaiting
  <2>2. PICK q \in States : Live(chars, bp, q, Len(chars))
    BY <2>1 DEF Inv, Scanned, Filling
  <2>3. s \in Seq(Classes) /\ Len(s) = Len(chars) - bp /\ Live(s, 0, q, Len(s))
    <3>1. Len(chars) - bp = Len(s)
      BY <2>1, TextInHand
    <3> QED BY <2>1, <2>2, <3>1, TextInHand
  <2> HIDE DEF s
  <2>4. s # <<>> /\ ~MayBecomePacket(s)
    BY <2>1 DEF Decided
  <2>5. q \notin InPacket
    BY <2>3, <2>4, MayInside
  <2>6. q # 1
    BY <2>3, <2>4 DEF Live
  <2>7. q = 4
    BY <2>3, <2>5, <2>6 DEF Live
  <2> QED BY <2>3, <2>7 DEF Live
<1> QED BY <1>1, AlwaysScanned, PTL

-----------------------------------------------------------------------------
(* The scanner implements the rules.                                        *)

LEMMA SameRules ==
    \A s : Rules!HeadToken(s) = HeadToken(s) /\ (Rules!Decided(s) <=> Decided(s))
<1>1. \A s : Rules!IsPacket(s) <=> IsPacket(s)
  BY DEF Rules!IsPacket, IsPacket, Rules!DOLLAR, DOLLAR, Rules!HASH, HASH, Rules!HEX, HEX
<1>2. \A s : Rules!Packets(s) = Packets(s)
  BY <1>1 DEF Rules!Packets, Packets
<1>3. \A s : Rules!RuleOfByte(s) = RuleOfByte(s)
  BY DEF Rules!RuleOfByte, RuleOfByte, Rules!PLUS, PLUS, Rules!MINUS, MINUS,
         Rules!NEWLINE, NEWLINE
<1>4. \A s : Rules!MayBecomePacket(s) <=> MayBecomePacket(s)
  BY DEF Rules!MayBecomePacket, MayBecomePacket, Rules!DOLLAR, DOLLAR, Rules!HASH, HASH,
         Rules!HEX, HEX
<1> QED BY <1>2, <1>3, <1>4 DEF Rules!HeadToken, HeadToken, Rules!Decided, Decided

\* The token the automaton finds is the one of the rules, and decided.
LEMMA TokenFound ==
    ASSUME Inv, Act, NEW s, s = SubSeq(chars, bp + 1, Len(chars))
    PROVE  /\ Decided(s) \/ eofPending
           /\ s # <<>>
           /\ HeadToken(s) = [rule |-> yy_accept[Found.state], length |-> Found.cpos - bp]
<1>1. /\ s \in Seq(Classes) /\ Len(s) = Len(chars) - bp
      /\ \A i \in 1..Len(s) : s[i] = chars[bp + i]
      /\ chars \in Seq(Classes) /\ bp \in 0..Len(chars)
      /\ \A q, p : Live(chars, bp, q, p) => Live(s, 0, q, p - bp)
      /\ \A q, p : Stuck(chars, bp, q, p) => Stuck(s, 0, q, p - bp)
      /\ \A p : Packet(chars, bp, p) => Packet(s, 0, p - bp)
  BY TextInHand
<1>2. CASE AByte
  <2>1. /\ Found.cpos - bp = 1 /\ Len(s) >= 1 /\ s # <<>> /\ s[1] = chars[bp + 1]
        /\ yy_accept[Found.state] = RuleOfByte(s[1])
    <3>1. Len(s) >= 1 /\ s # <<>> /\ s[1] = chars[bp + 1] /\ Found.cpos - bp = 1
      <4>1. bp < Len(chars) /\ Found.cpos = bp + 1
        BY <1>2 DEF AByte
      <4>2. Len(s) \in Nat /\ Len(s) >= 1 /\ Found.cpos - bp = 1
        BY <1>1, <4>1
      <4> QED BY ONLY <1>1, <4>2
    <3> QED BY ONLY <1>2, <3>1 DEF AByte
  <2>2. (Decided(s) \/ eofPending) /\ \A n : ~Packet(s, 0, n)
    <3>1. CASE chars[bp + 1] # DOLLAR
      <4>1. s[1] # DOLLAR /\ s[0 + 1] # DOLLAR
        BY ONLY <2>1, <3>1
      <4> QED BY ONLY <2>1, <4>1 DEF Decided, MayBecomePacket, Packet
    <3>2. CASE \E q, p \in Nat : Stuck(chars, bp, q, p)
      BY <1>1, <3>2, NoPacketStuck, DecidedStuck
    <3>3. CASE eofPending /\ \E q \in InPacket : Live(chars, bp, q, Len(chars))
      <4>1. PICK q \in InPacket : Live(s, 0, q, Len(s))
        <5>1. Len(chars) - bp = Len(s)
          BY <1>1
        <5> QED BY <1>1, <3>3, <5>1
      <4> QED BY <1>1, <3>3, <4>1, NoPacketInside
    <3> QED BY <1>2, <3>1, <3>2, <3>3 DEF AByte
  <2> QED BY <1>1, <2>1, <2>2, HeadByte
<1>3. CASE Found.state = 12 /\ Packet(chars, bp, Found.cpos)
  <2>1. Packet(s, 0, Found.cpos - bp)
    BY <1>1, <1>3
  <2>2. HeadToken(s) = [rule |-> 3, length |-> Found.cpos - bp] /\ Decided(s)
    BY <1>1, <2>1, HeadPacket, DecidedPacket
  <2>3. yy_accept[Found.state] = 3
    BY <1>3, AcceptTable
  <2> QED BY <2>2, <2>3 DEF Decided
<1> QED BY <1>2, <1>3, FoundToken

LEMMA ActCuts == Inv /\ Act => Rules!Cut
<1> SUFFICES ASSUME Inv, Act PROVE Rules!Cut
  OBVIOUS
<1> DEFINE s == SubSeq(chars, bp + 1, Len(chars))
           p == Found.cpos
<1>1. /\ Decided(s) \/ eofPending
      /\ s # <<>>
      /\ HeadToken(s) = [rule |-> yy_accept[Found.state], length |-> p - bp]
  BY TokenFound
<1>2. /\ token' = [rule |-> yy_accept[Found.state], length |-> p - bp]
      /\ bp' = p /\ UNCHANGED <<chars, eofPending>> /\ at = "action" /\ at' = "match"
  BY DEF Act, input
<1>3. p \in Nat /\ p > bp /\ p <= Len(chars) /\ bp \in Nat /\ chars \in Seq(Classes)
  BY FoundToken DEF Inv, TypeOK
<1> HIDE DEF p
<1>4. SubSeq(chars, p + 1, Len(chars)) = SubSeq(s, token'.length + 1, Len(s))
  <2>1. token'.length = p - bp
    BY <1>2
  <2>2. Len(s) = Len(chars) - bp /\ s \in Seq(Classes)
    BY <1>3
  <2>3. \A i \in 1..(Len(chars) - p) : SubSeq(s, (p - bp) + 1, Len(s))[i] = chars[p + i]
    BY <1>3, <2>2
  <2>4. Len(SubSeq(s, (p - bp) + 1, Len(s))) = Len(chars) - p
    BY <1>3, <2>2
  <2> QED BY <1>3, <2>1, <2>2, <2>3, <2>4
<1>5. Rules!Decided(s) \/ eofPending
  BY <1>1, SameRules
<1>6. token' = Rules!HeadToken(s)
  BY <1>1, <1>2, SameRules
<1> QED BY <1>1, <1>2, <1>4, <1>5, <1>6 DEF Rules!Cut

\* Only bytes that may arrive are in the buffer.
Arrived == chars \in Seq(Alphabet)

LEMMA NextArrived == Inv /\ Arrived /\ [Next]_vars => Arrived'
<1> SUFFICES ASSUME Inv, Arrived, [Next]_vars PROVE Arrived'
  OBVIOUS
<1>1. CASE chars' = chars
  BY <1>1 DEF Arrived
<1>2. ASSUME NEW k \in 1..ReadSize, NEW bytes \in [1..k -> Alphabet], Read(bytes)
      PROVE  Arrived'
  <2>1. chars' = SubSeq(chars, bp + 1, Len(chars)) \o bytes
    BY <1>2, ReadScanned
  <2>a. bytes \in Seq(Alphabet)
    BY BufferAssumption
  <2>b. bp \in Nat
    BY DEF Inv, TypeOK
  <2>2. SubSeq(chars, bp + 1, Len(chars)) \in Seq(Alphabet)
    BY <2>b DEF Arrived
  <2> QED BY <2>1, <2>2, <2>a DEF Arrived
<1>3. CASE LastMatch
  <2>1. chars' = SubSeq(chars, bp + 1, Len(chars)) /\ bp \in Nat
    BY <1>3, MovedText DEF LastMatch
  <2> QED BY <2>1 DEF Arrived
<1>4. CASE EndOfFile
  BY <1>4 DEF EndOfFile, yy_flush_buffer, Arrived
<1>5. CASE Scan
  BY <1>1, <1>5 DEF Scan, Match, Act, DataNul, EndOfBuffer, Rescan, Rescanned,
                    NulTransition, Grow, input
<1>6. CASE ReadFails \/ Terminating \/ UNCHANGED vars
  BY <1>1, <1>6 DEF ReadFails, Terminating, vars, input
<1> QED BY <1>2, <1>3, <1>4, <1>5, <1>6 DEF Next

LEMMA ReadReceives ==
    ASSUME Inv, Arrived, Arrived',
           NEW k \in 1..ReadSize, NEW bytes \in [1..k -> Alphabet], Read(bytes)
    PROVE  Rules!Receive
<1> DEFINE s == SubSeq(chars, bp + 1, Len(chars))
           u == SubSeq(chars', bp' + 1, Len(chars'))
<1>1. s \in Seq(Classes)
  BY DEF Inv, TypeOK
<1>2. /\ bytes \in Seq(Classes) /\ Len(bytes) = k /\ k \in Nat /\ k > 0
      /\ chars' = s \o bytes /\ bp' = 0
  <2>1. bytes \in Seq(Classes) /\ Len(bytes) = k /\ chars' = s \o bytes
    BY ReadScanned
  <2>2. k \in Nat /\ k > 0
    BY BufferAssumption
  <2> QED BY <2>1, <2>2 DEF Read
<1>3. \A i \in DOMAIN u : u[i] \in Alphabet
  <2>1. u \in Seq(Alphabet)
    <3>1. chars' \in Seq(Alphabet)
      BY DEF Arrived
    <3>2. bp' + 1 = 1
      BY <1>2
    <3> QED BY ONLY <3>1, <3>2
  <2> HIDE DEF u
  <2> QED BY <2>1
<1> HIDE DEF s
<1>4. u = s \o bytes
  BY <1>1, <1>2
<1> HIDE DEF u
<1>5. Len(u) > Len(s) /\ SubSeq(u, 1, Len(s)) = s
  BY <1>1, <1>2, <1>4
<1>6. at = "fill" /\ at' = "rescan" /\ ~eofPending /\ UNCHANGED <<eofPending, token>>
  BY DEF Read, ScanAgain
<1> QED BY <1>3, <1>5, <1>6 DEF Rules!Receive, s, u

\* A step that leaves the text in hand and the token alone.
LEMMA StillPending ==
    ASSUME UNCHANGED <<chars, bp, eofPending, token>>,
           at # "returned", at' # "returned"
    PROVE  UNCHANGED Rules!vars
BY DEF Rules!vars

LEMMA NextOfRules == Inv /\ Arrived /\ Arrived' /\ [Next]_vars => [Rules!Next]_(Rules!vars)
<1> SUFFICES ASSUME Inv, Arrived, Arrived', [Next]_vars
             PROVE  [Rules!Next]_(Rules!vars)
  OBVIOUS
<1>1. CASE Match
  <2>1. at = "match" /\ at' # "returned"
    BY <1>1 DEF Match
  <2> QED BY <1>1, <2>1, StillPending DEF Match, input
<1>2. CASE Act
  BY <1>2, ActCuts DEF Rules!Next
<1>3. CASE DataNul \/ EndOfBuffer \/ Rescan
  BY <1>3, StillPending DEF DataNul, EndOfBuffer, Rescan, ScanAgain, input
<1>4. CASE Rescanned
  BY <1>4, StillPending DEF Rescanned, input, Inv, TypeOK
<1>5. CASE NulTransition
  <2>1. at = "nul" /\ at' # "returned"
    BY <1>5 DEF NulTransition
  <2> QED BY <1>5, <2>1, StillPending DEF NulTransition, input
<1>6. CASE Grow
  BY <1>6, StillPending DEF Grow
<1>7. ASSUME NEW k \in 1..ReadSize, NEW bytes \in [1..k -> Alphabet], Read(bytes)
      PROVE  Rules!Next
  BY <1>7, ReadReceives DEF Rules!Next
<1>8. CASE LastMatch
  <2>1. /\ chars' = SubSeq(chars, bp + 1, Len(chars)) /\ bp' = 0 /\ token' = token
        /\ eofPending' = TRUE /\ chars \in Seq(Classes) /\ bp \in Nat
    BY <1>8, MovedText DEF LastMatch
  <2>2. SubSeq(chars', bp' + 1, Len(chars')) = SubSeq(chars, bp + 1, Len(chars))
    BY <2>1
  <2> QED BY <2>1, <2>2 DEF Rules!Next, Rules!Close
<1>9. CASE EndOfFile
  <2>1. /\ chars' = <<>> /\ bp' = 0 /\ token' = token /\ at' = "returned"
    BY <1>9 DEF EndOfFile, yy_flush_buffer
  <2>2. chars \in Seq(Classes) /\ bp = Len(chars)
    BY <1>9, MovedText DEF EndOfFile
  <2>3. SubSeq(chars', bp' + 1, Len(chars')) = SubSeq(chars, bp + 1, Len(chars))
    BY <2>1, <2>2
  <2> QED BY <2>1, <2>3 DEF Rules!Next, Rules!Close
<1>10. CASE ReadFails
  BY <1>10, StillPending DEF ReadFails, input
<1>11. CASE Terminating \/ UNCHANGED vars
  <2>1. UNCHANGED <<chars, bp, eofPending, token, at>>
    BY <1>11 DEF Terminating, vars, input
  <2> QED BY <2>1 DEF Rules!vars
<1> QED BY <1>1, <1>2, <1>3, <1>4, <1>5, <1>6, <1>7, <1>8, <1>9, <1>10, <1>11
       DEF Next, Scan

LEMMA InitOfRules == Init => Rules!Init
BY DEF Init, Rules!Init

\* Whatever the text and the pieces in which it arrives, the tokens are those of
\* the rules of scanner.l, for every size of the buffer and of the reads.
THEOREM ScannerTokenises == Spec => Tokenises
<1>1. Init => Rules!Init
  BY InitOfRules
<1>2. Init => Arrived
  BY DEF Init, Arrived
<1>3. Inv /\ Arrived /\ [Next]_vars => Arrived'
  BY NextArrived
<1>4. Inv /\ Arrived /\ Arrived' /\ [Next]_vars => [Rules!Next]_(Rules!vars)
  BY NextOfRules
<1> QED BY <1>1, <1>2, <1>3, <1>4, AlwaysScanned, PTL DEF Spec, Tokenises, Rules!Spec
==============================================================================
