----------------------------- MODULE MCSimulator -----------------------------
(* Small programs and command sets for module Simulator. *)
EXTENDS Simulator, TLC

Op(o, a) == [op |-> o, to |-> a]

\* Updates the flags, writes its own last word, is undefined once, stops at a
\* breakpoint.  Over the last word, a branch back into the program.
MCImage == 0 :> Op("flags", 0) @@ 1 :> Op("coproc", 0) @@ 2 :> Op("bkpt", 0)
             @@ 3 :> Op("store", 2) @@ 4 :> Op("branch", 1)

\* One or two commands of each kind.  'X' puts the end of the simulation, an
\* SWI or a breakpoint in the way of the program.
MCCommands ==
    [op : {"c", "s", "?", "g", "k", "q", "u"}]
      \cup {[op |-> "G", regs |-> [pc |-> 3, cpsr |-> [svc |-> FALSE, z |-> TRUE]]],
            [op |-> "p", reg |-> "pc"], [op |-> "p", reg |-> "r"],
            [op |-> "P", reg |-> "pc", value |-> 3],
            [op |-> "P", reg |-> "r", value |-> 1],
            [op |-> "m", addr |-> 2],
            [op |-> "X", addr |-> 1, word |-> Op("halt", 0)],
            [op |-> "X", addr |-> 2, word |-> Op("swi", 0)],
            [op |-> "X", addr |-> 0, word |-> Op("bkpt", 0)]}

\* A program that reaches the breakpoint of its last word from every address,
\* and commands that leave the breakpoint there.
MCFiniteImage == 0 :> Op("flags", 0) @@ 1 :> Op("coproc", 0)
                   @@ 2 :> Op("branch", 4) @@ 3 :> Op("swi", 0)
                   @@ 4 :> Op("bkpt", 0)

MCFiniteCommands ==
    [op : {"c", "s", "g", "k", "u"}]
      \cup {[op |-> "P", reg |-> "pc", value |-> 3],
            [op |-> "X", addr |-> 1, word |-> Op("halt", 0)]}

\* A program without a breakpoint.
MCEndlessImage == 0 :> Op("flags", 0) @@ 1 :> Op("branch", 0)

MCEndlessCommands == [op : {"c", "g"}]
==============================================================================
