-------------------------------- MODULE Tokens --------------------------------
(***************************************************************************)
(* What the scanner promises: the bytes of the connection are cut into     *)
(* tokens, always the longest one a rule matches, whatever the pieces in   *)
(* which the bytes arrive.                                                 *)
(***************************************************************************)
EXTENDS TokenRules

VARIABLES
    pending,        \* the bytes received that no token covers yet
    closed,         \* the end of the connection has been read
    token           \* the last token: its rule and its length

vars == <<pending, closed, token>>

Init ==
    /\ pending = <<>>
    /\ closed = FALSE
    /\ token = [rule |-> 0, length |-> 0]

Receive ==
    /\ ~closed
    /\ Len(pending') > Len(pending)
    /\ SubSeq(pending', 1, Len(pending)) = pending
    /\ \A i \in DOMAIN pending' : pending'[i] \in Alphabet
    /\ UNCHANGED <<closed, token>>

Close ==
    /\ closed' = TRUE
    /\ UNCHANGED <<pending, token>>

Cut ==
    /\ Decided(pending) \/ closed
    /\ pending # <<>>
    /\ token' = HeadToken(pending)
    /\ pending' = SubSeq(pending, token'.length + 1, Len(pending))
    /\ UNCHANGED closed

Next ==
    \/ Receive
    \/ Close
    \/ Cut

Spec == Init /\ [][Next]_vars
==============================================================================
