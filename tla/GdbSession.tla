----------------------------- MODULE GdbSession ------------------------------
(***************************************************************************)
(* What the remote protocol promises on a link that may damage packets:    *)
(* the commands of the debugger are executed one at a time, in order and   *)
(* once each, and each reply is the reply to its command.  Module GdbLink  *)
(* implements it as long as nothing but packets and acknowledgements is    *)
(* sent.                                                                   *)
(***************************************************************************)
EXTENDS Naturals, Sequences

VARIABLES executed,   \* the commands executed, in order
          replies     \* the command each reply delivered answers, in order

Init == executed = <<>> /\ replies = <<>>

Execute == /\ Len(executed) = Len(replies)
           /\ executed' = Append(executed, Len(executed) + 1)
           /\ UNCHANGED replies

Deliver == /\ Len(replies) < Len(executed)
           /\ replies' = Append(replies, Len(replies) + 1)
           /\ UNCHANGED executed

Next == Execute \/ Deliver

Spec == Init /\ [][Next]_<<executed, replies>>
==============================================================================
