-------------------------------- MODULE Scanner --------------------------------
(***************************************************************************)
(* scanner.c, the scanner flex made of scanner.l: the automaton and its    *)
(* tables, the buffer that read() fills piece by piece, the backing up,    *)
(* the zero byte that marks the end of the buffer and may also be data,    *)
(* and the end of the connection.                                          *)
(*                                                                         *)
(* Abstraction.  A byte is its class (yy_ec); positions count from the     *)
(* start of the buffer.  The two zeros that end the buffer are not stored: *)
(* they are what is read past its last byte.  What a rule does with its    *)
(* token is in GdbLink; token keeps which rule it was, and the length.     *)
(* The byte after the token, replaced by a zero while its rule runs, is    *)
(* put back before anything else is scanned.                               *)
(***************************************************************************)
EXTENDS TokenRules

CONSTANTS
    BufSize,        \* YY_BUF_SIZE, the first size of the buffer
    ReadSize        \* YY_READ_BUF_SIZE, the most that is read at once

ASSUME BufferAssumption == BufSize \in Nat \ {0} /\ ReadSize \in Nat \ {0}

VARIABLES
    chars,          \* yy_ch_buf, its yy_n_chars first bytes
    size,           \* yy_buf_size
    eofPending,     \* yy_buffer_status is YY_BUFFER_EOF_PENDING
    bp,             \* yytext_ptr: where the token in hand starts
    cp,             \* yy_cp: the next byte to look at
    end,            \* yy_c_buf_p: where the token, or the text scanned again, ends
    state,          \* yy_current_state
    accepting,      \* yy_last_accepting_state and yy_last_accepting_cpos
    at,             \* where the code is
    goOn,           \* where it goes on when the text has been scanned again
    left,           \* how many bytes may still arrive
    token           \* the last token: its rule and its length

input  == <<chars, size, eofPending, left>>
vars   == <<input, bp, cp, end, state, accepting, at, goOn, token>>

-----------------------------------------------------------------------------
\* The tables, indexed from 0 as in the code.
Table(s) == [i \in 0..(Len(s) - 1) |-> s[i + 1]]

yy_accept == Table(<<0, 0, 0, 6, 4, 5, 4, 1, 2, 0, 0, 0, 3, 0>>)
yy_meta   == Table(<<0, 1, 1, 1, 2, 1, 1, 1>>)
yy_base   == Table(<<0, 0, 0, 13, 14, 14, 9, 14, 14, 8, 3, 2, 14, 14, 7>>)
yy_def    == Table(<<0, 13, 1, 13, 13, 13, 14, 13, 13, 14, 13, 13, 13, 0, 13>>)
yy_nxt    == Table(<<0, 4, 5, 4, 6, 7, 8, 4, 9, 12, 11, 10, 10, 13, 3, 13, 13,
                     13, 13, 13, 13, 13>>)
yy_chk    == Table(<<0, 1, 1, 1, 1, 1, 1, 1, 14, 11, 10, 9, 6, 3, 13, 13, 13,
                     13, 13, 13, 13, 13>>)

States        == 1..14
StartState    == 1      \* yy_start
JamState      == 13
END_OF_BUFFER == 6      \* the action of the zeros at the end of the buffer

\* One transition of the automaton, through the chain of defaults.
Transition[s \in States] == [c \in Classes |->
    IF yy_chk[yy_base[s] + c] = s
    THEN yy_nxt[yy_base[s] + c]
    ELSE Transition[yy_def[s]][IF yy_def[s] >= 14 THEN yy_meta[c] ELSE c]]

\* A byte known to be data: a zero counts as any byte, not as the end.
Data(c) == IF c = NUL THEN PLAIN ELSE c

\* The byte at a position; past the last one come the zeros of the end.
CharAt(p) == IF p < Len(chars) THEN chars[p + 1] ELSE NUL

\* Note the state as the last accepting one, if it is one.
Note ==
    IF yy_accept[state] # 0 THEN [state |-> state, cpos |-> cp] ELSE accepting

\* The automaton takes the byte at cp, as c.
Take(c) ==
    /\ accepting' = Note
    /\ state' = Transition[state][c]
    /\ cp' = cp + 1

\* yy_get_previous_state begins: from where the token starts up to where.
ScanAgain(start, upTo, next) ==
    /\ state' = StartState
    /\ cp' = start
    /\ end' = upTo
    /\ at' = "rescan"
    /\ goOn' = next

-----------------------------------------------------------------------------
Init ==
    /\ chars = <<>>
    /\ size = BufSize
    /\ eofPending = FALSE
    /\ bp = 0
    /\ cp = 0
    /\ end = 0
    /\ state = StartState
    /\ accepting = [state |-> 0, cpos |-> 0]
    /\ at = "match"
    /\ goOn = "match"
    /\ left = MaxBytes
    /\ token = [rule |-> 0, length |-> 0]

\* A slip: the automaton runs on until it jams, one byte too far.
MatchAhead ==
    /\ at = "match"
    /\ Take(CharAt(cp))
    /\ at' = IF state' = JamState THEN "action" ELSE "match"
    /\ UNCHANGED <<input, bp, end, goOn, token>>

\* One turn of the loop of yy_match.
Match ==
    /\ at = "match"
    /\ Take(CharAt(cp))
    /\ at' = IF yy_base[state'] = 14 THEN "action" ELSE "match"
    /\ UNCHANGED <<input, bp, end, goOn, token>>

\* yy_find_action: the state and the end of the token, backing up if the
\* automaton stopped in a state that accepts nothing.
Found == IF yy_accept[state] = 0 THEN accepting
         ELSE [state |-> state, cpos |-> cp]

\* A slip: the length is counted from the position in hand.
ActLength ==
    /\ at = "action"
    /\ yy_accept[Found.state] # END_OF_BUFFER
    /\ token' = [rule |-> yy_accept[Found.state], length |-> Found.cpos - cp]
    /\ bp' = Found.cpos
    /\ cp' = Found.cpos
    /\ end' = Found.cpos
    /\ state' = StartState
    /\ at' = "match"
    /\ UNCHANGED <<input, accepting, goOn>>

\* The action of a rule; the next token starts where this one ends.
Act ==
    /\ at = "action"
    /\ yy_accept[Found.state] # END_OF_BUFFER
    /\ token' = [rule |-> yy_accept[Found.state], length |-> Found.cpos - bp]
    /\ bp' = Found.cpos
    /\ cp' = Found.cpos
    /\ end' = Found.cpos
    /\ state' = StartState
    /\ at' = "match"
    /\ UNCHANGED <<input, accepting, goOn>>

\* A slip: the comparison with the end of the buffer is strict.
InsideEarly == Found.cpos < Len(chars)

\* The zero found is before the end of the buffer.
Inside == Found.cpos <= Len(chars)

\* That zero is a byte of the input: the text before it is scanned again.
DataNul ==
    /\ at = "action"
    /\ yy_accept[Found.state] = END_OF_BUFFER
    /\ Inside
    /\ ScanAgain(bp, Found.cpos - 1, "nul")
    /\ UNCHANGED <<input, bp, accepting, token>>

\* The zero is the end of the buffer: yy_get_next_buffer is called.
EndOfBuffer ==
    /\ at = "action"
    /\ yy_accept[Found.state] = END_OF_BUFFER
    /\ ~Inside
    /\ cp' = Found.cpos
    /\ end' = Found.cpos
    /\ at' = "fill"
    /\ UNCHANGED <<input, bp, state, accepting, goOn, token>>

\* One turn of the loop of yy_get_previous_state, where zeros are data.
Rescan ==
    /\ at = "rescan"
    /\ cp < end
    /\ Take(Data(CharAt(cp)))
    /\ UNCHANGED <<input, bp, end, at, goOn, token>>

Rescanned ==
    /\ at = "rescan"
    /\ cp >= end
    /\ at' = goOn
    /\ UNCHANGED <<input, bp, cp, end, state, accepting, goOn, token>>

\* yy_try_NUL_trans: the automaton takes the zero as data, unless it jams.
NulTransition ==
    LET next == Transition[state][Data(NUL)]
    IN  /\ at = "nul"
        /\ accepting' = Note
        /\ IF next # JamState
           THEN state' = next /\ cp' = cp + 1 /\ at' = "match"
           ELSE UNCHANGED <<state, cp>> /\ at' = "action"
        /\ end' = cp'
        /\ UNCHANGED <<input, bp, goOn, token>>

-----------------------------------------------------------------------------
\* yy_get_next_buffer.  The token in hand moves to the start of the buffer.
number_to_move == end - bp - 1

num_to_read == size - number_to_move - 1

\* A slip: what is moved is taken from the start of the buffer.
MovedFromStart == SubSeq(chars, 1, number_to_move)

Moved == SubSeq(chars, bp + 1, bp + number_to_move)

Grow ==
    /\ at = "fill"
    /\ ~eofPending
    /\ num_to_read <= 0
    /\ size' = size * 2
    /\ UNCHANGED <<chars, eofPending, left, bp, cp, end, state, accepting, at, goOn,
                   token>>

\* read() returns the bytes that have arrived, as many as fit; the token in
\* hand is scanned again up to where it was.
Read(bytes) ==
    /\ at = "fill"
    /\ ~eofPending
    /\ Len(bytes) \in 1..num_to_read
    /\ Len(bytes) <= ReadSize /\ Len(bytes) <= left
    /\ chars' = Moved \o bytes
    /\ left' = left - Len(bytes)
    /\ bp' = 0
    /\ ScanAgain(0, number_to_move, "match")
    /\ UNCHANGED <<size, eofPending, accepting, token>>

\* A slip: after the end of the connection the scan goes on.
LastMatchGoesOn ==
    /\ at = "fill"
    /\ eofPending \/ num_to_read > 0
    /\ number_to_move > 0
    /\ eofPending' = TRUE
    /\ chars' = Moved
    /\ bp' = 0
    /\ ScanAgain(0, number_to_move, "match")
    /\ UNCHANGED <<size, left, accepting, token>>

\* read() returns 0, now or for the token before: what is in hand is cut as
\* it is (EOB_ACT_LAST_MATCH).
LastMatch ==
    /\ at = "fill"
    /\ eofPending \/ num_to_read > 0
    /\ number_to_move > 0
    /\ eofPending' = TRUE
    /\ chars' = Moved
    /\ bp' = 0
    /\ ScanAgain(0, number_to_move, "action")
    /\ UNCHANGED <<size, left, accepting, token>>

\* yyrestart: the buffer is as a new one.
yy_flush_buffer ==
    /\ chars' = <<>>
    /\ bp' = 0
    /\ cp' = 0
    /\ end' = 0
    /\ eofPending' = FALSE

\* The end, with nothing in hand: the rule of <<EOF>> returns.
EndOfFile ==
    /\ at = "fill"
    /\ eofPending \/ num_to_read > 0
    /\ number_to_move = 0
    /\ yy_flush_buffer
    /\ at' = "returned"
    /\ UNCHANGED <<size, state, accepting, left, goOn, token>>

\* read() fails: YY_FATAL_ERROR ends the process.
ReadFails ==
    /\ at = "fill"
    /\ ~eofPending
    /\ num_to_read > 0
    /\ at' = "exited"
    /\ UNCHANGED <<input, bp, cp, end, state, accepting, goOn, token>>

Terminating == at \in {"returned", "exited"} /\ UNCHANGED vars

Scan == \/ Match \/ Act \/ DataNul \/ EndOfBuffer
        \/ Rescan \/ Rescanned \/ NulTransition \/ Grow

Next ==
    \/ Scan
    \/ \E n \in 1..ReadSize : \E bytes \in [1..n -> Alphabet] : Read(bytes)
    \/ LastMatch
    \/ EndOfFile
    \/ ReadFails
    \/ Terminating

\* The scanner computes on its own; what read() returns is up to the debugger,
\* but once it has returned 0 it is not called again.
Spec ==
    /\ Init
    /\ [][Next]_vars
    /\ WF_vars(Scan)
    /\ WF_vars(eofPending /\ (LastMatch \/ EndOfFile))

-----------------------------------------------------------------------------
\* Every variable stays in its type; in particular positions, and the length
\* of a token (yyleng), are never negative.
TypeOK ==
    /\ chars \in Seq(Classes)
    /\ size \in Nat
    /\ eofPending \in BOOLEAN
    /\ bp \in Nat /\ cp \in Nat /\ end \in Nat
    /\ state \in States
    /\ accepting \in [state : {0} \cup States, cpos : Nat]
    /\ at \in {"match", "action", "rescan", "nul", "fill", "returned", "exited"}
    /\ goOn \in {"match", "action", "nul"}
    /\ left \in Nat
    /\ token \in [rule : 0..5, length : Nat]

\* The two zeros that yy_get_next_buffer writes after the bytes it has read
\* fit the buffer (scanner.c:1086), though a token may be longer than the buffer
\* was; the scanner never runs past them, which yy_get_next_buffer would take for
\* a fatal error (scanner.c:965), and backs up only inside the token in hand.
WithinBuffer ==
    /\ Len(chars) < size
    /\ bp <= Len(chars)
    /\ at = "fill" => cp = Len(chars) + 1
    /\ at = "rescan" => cp <= end /\ end <= Len(chars)
    /\ at = "action" => Found.cpos > bp /\ Found.cpos <= Len(chars) + 2

\* The scanner does not wait in read() while a token is decided: gdb sends
\* nothing more before it has its acknowledgement.  Except after a zero
\* outside of a packet, which is only cut when one more byte has come.
NoWaiting ==
    at = "fill" =>
        LET text == SubSeq(chars, bp + 1, Len(chars))
        IN  Decided(text) => text = <<NUL>>

\* Whatever the pieces in which the bytes arrive, the tokens are those of the
\* rules of scanner.l: packets whole, with zeros inside as 'X' sends them, and
\* each byte that belongs to none on its own.
Rules == INSTANCE Tokens WITH
            pending <- SubSeq(chars, bp + 1, Len(chars)),
            closed  <- eofPending \/ at = "returned"

Tokenises == Rules!Spec

\* The scanner always comes back to a read() that has room for a byte, or ends:
\* no text makes it back up, grow its buffer or cut the end for ever.
Drains == []<>(\/ at = "fill" /\ ~eofPending /\ num_to_read > 0
               \/ at \in {"returned", "exited"})
==============================================================================
