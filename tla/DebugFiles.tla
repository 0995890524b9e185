------------------------------ MODULE DebugFiles ------------------------------
(***************************************************************************)
(* debug.c: the sorted table of the names given with --debug, and the      *)
(* binary search that each debug message makes in it.                      *)
(*                                                                         *)
(* Abstraction.  A name is a number, strcmp compares numbers.  Searches of *)
(* two threads share only the table, which no longer changes: one search   *)
(* at a time shows them all.                                               *)
(***************************************************************************)
EXTENDS Integers, FiniteSets

CONSTANTS
    MaxFiles,       \* MAX_FILES_NUMBER, the size of the table
    Names,          \* the names that may be given or asked for
    MaxAdds         \* bound: the number of names given

ASSUME FilesAssumption ==
    /\ MaxFiles \in Nat \ {0}
    /\ Names \subseteq Int
    /\ MaxAdds \in Nat

VARIABLES
    debugged_files, \* the names, from 0
    nb,             \* nb_debugged_files
    overrun,        \* a name was written past the end of the table
    given,          \* the names given so far, and how many times in all
    search          \* the search in progress: name, from, to, result

filesVars == <<debugged_files, nb, overrun, given, search>>

Slots    == 0..(MaxFiles - 1)
NoSearch == [at |-> "none", name |-> 0, from |-> 0, to |-> 0, result |-> 0]

FilesInit ==
    /\ debugged_files = [i \in Slots |-> 0]
    /\ nb = 0
    /\ overrun = FALSE
    /\ given = [names |-> {}, adds |-> 0]
    /\ search = NoSearch

\* Where the first loop of add_debug_to stops: at the first name that is not
\* before the new one, or past the last name.
Position(i, name) ==
    /\ i \in 0..nb
    /\ \A j \in 0..(i - 1) : debugged_files[j] < name
    /\ i < nb => debugged_files[i] >= name

\* The names from i on move one place up, the last one first.
Shifted(i, name) ==
    [j \in Slots |-> IF j = i THEN name
                     ELSE IF j > i /\ j <= nb THEN debugged_files[j - 1]
                     ELSE debugged_files[j]]

add_debug_to(name) ==
    /\ given.adds < MaxAdds
    /\ ~overrun
    /\ given' = [names |-> given.names \cup {name}, adds |-> given.adds + 1]
    /\ \E i \in 0..nb :
          /\ Position(i, name)
          /\ IF i >= MaxFiles
             THEN UNCHANGED <<debugged_files, nb, overrun>>
             ELSE /\ debugged_files' = Shifted(i, name)
                  /\ nb' = nb + 1
                  /\ overrun' = (nb = MaxFiles)
    /\ UNCHANGED search

-----------------------------------------------------------------------------
\* A slip: the search starts with the place after the last name.
StartSearchPast(name) ==
    /\ search.at = "none"
    /\ ~overrun
    /\ search' = [at |-> "loop", name |-> name, from |-> 0, to |-> nb,
                  result |-> 0]
    /\ UNCHANGED <<debugged_files, nb, overrun, given>>

\* __is_debugged: the whole table at first.
StartSearch(name) ==
    /\ search.at = "none"
    /\ ~overrun
    /\ search' = [at |-> "loop", name |-> name, from |-> 0, to |-> nb - 1,
                  result |-> 0]
    /\ UNCHANGED <<debugged_files, nb, overrun, given>>

middle == (search.from + search.to) \div 2

\* Slips: the half kept leaves out one name too many, or the probed name is kept.
ProbeTooFar ==
    /\ search.at = "loop"
    /\ search.from < search.to
    /\ search' =
          IF debugged_files[middle] < search.name
          THEN [search EXCEPT !.from = middle + 2]
          ELSE IF debugged_files[middle] > search.name
          THEN [search EXCEPT !.to = middle - 1]
          ELSE [search EXCEPT !.at = "done", !.result = 1]
    /\ UNCHANGED <<debugged_files, nb, overrun, given>>

ProbeAgain ==
    /\ search.at = "loop"
    /\ search.from < search.to
    /\ search' =
          IF debugged_files[middle] < search.name
          THEN [search EXCEPT !.from = middle]
          ELSE IF debugged_files[middle] > search.name
          THEN [search EXCEPT !.to = middle - 1]
          ELSE [search EXCEPT !.at = "done", !.result = 1]
    /\ UNCHANGED <<debugged_files, nb, overrun, given>>

\* One turn of the loop.
Probe ==
    /\ search.at = "loop"
    /\ search.from < search.to
    /\ search' =
          IF debugged_files[middle] < search.name
          THEN [search EXCEPT !.from = middle + 1]
          ELSE IF debugged_files[middle] > search.name
          THEN [search EXCEPT !.to = middle - 1]
          ELSE [search EXCEPT !.at = "done", !.result = 1]
    /\ UNCHANGED <<debugged_files, nb, overrun, given>>

\* After the loop: at most one name is left.
LastProbe ==
    /\ search.at = "loop"
    /\ search.from >= search.to
    /\ search' = [search EXCEPT
                    !.at = "done",
                    !.result = IF /\ search.from = search.to
                                  /\ debugged_files[search.from] = search.name
                               THEN 1 ELSE 0]
    /\ UNCHANGED <<debugged_files, nb, overrun, given>>

EndSearch ==
    /\ search.at = "done"
    /\ search' = NoSearch
    /\ UNCHANGED <<debugged_files, nb, overrun, given>>

Searching == Probe \/ LastProbe \/ EndSearch

-----------------------------------------------------------------------------
FilesTypeOK ==
    /\ debugged_files \in [Slots -> Int]
    /\ nb \in 0..(MaxFiles + 1)
    /\ overrun \in BOOLEAN
    /\ given \in [names : SUBSET Names, adds : Nat]
    /\ search \in [at : {"none", "loop", "done"}, name : Int, from : 0..MaxFiles,
                   to : -1..(MaxFiles - 1), result : {0, 1}]

\* The names of the table are in order, as the binary search needs.
Sorted ==
    \A i, j \in Slots : i < j /\ j < nb => debugged_files[i] <= debugged_files[j]

\* A search that finds a name was given it, and as long as no more names are
\* given than the table holds, none is written past its end (debug.c:43) and a
\* search finds every name given, even those given twice.
FindsNames ==
    /\ search.at = "done" /\ search.result = 1 => search.name \in given.names
    /\ given.adds <= MaxFiles =>
          /\ ~overrun
          /\ search.at = "done" /\ search.name \in given.names => search.result = 1

\* Every search ends, whatever the length of the table.
SearchEnds == search.at = "loop" ~> search.at = "done"
==============================================================================
