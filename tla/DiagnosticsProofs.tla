-------------------------- MODULE DiagnosticsProofs --------------------------
(***************************************************************************)
(* Proofs about Diagnostics, for every size of the table and of the stack, *)
(* every set of names, locations and addresses.                            *)
(*                                                                         *)
(* The inductive invariant has three parts: Files, about the table and the *)
(* window of the binary search; Accesses, about the stack of locations and *)
(* the accesses in hand; and Phases, about what is still untouched in each *)
(* phase of main.                                                          *)
(***************************************************************************)
EXTENDS Diagnostics, SequenceTheorems, TLAPS

Held(name) == \E i \in Slots : i < nb /\ debugged_files[i] = name

\* The table holds names that were given, and all of them while there is room.
Table ==
    /\ nb <= given.adds
    /\ ~overrun => nb <= MaxFiles
    /\ overrun => given.adds > MaxFiles
    /\ \A i \in Slots : i < nb => debugged_files[i] \in given.names
    /\ given.adds <= MaxFiles => nb = given.adds /\ \A name \in given.names : Held(name)

\* A name that the table holds is between the two ends of the search.
Window ==
    /\ search.at # "none" => ~overrun
    /\ search.at = "loop" =>
          /\ search.to < nb
          /\ search.from <= search.to + 1
          /\ \A i \in Slots : i < nb /\ debugged_files[i] = search.name =>
                search.from <= i /\ i <= search.to
    /\ search.at = "done" => (search.result = 1 <=> Held(search.name))

Files == FilesTypeOK /\ Sorted /\ Table /\ Window

\* Only a write or a store has an argument that is an access, and the location
\* of a write stays at the bottom of the stack until the write is done.
Nested ==
    /\ inner # NoCall =>
          outer.kind \in {"write", "memory"} /\ ~outer.called /\ inner.kind = "read"
    /\ outer.kind = "write" /\ ~outer.called => ~outer.ended
    /\ enabled /\ outer.kind = "write" /\ ~outer.ended => stack[1] = outer.line

LastAddress == lines.memory # NoLine => last_address = lines.memory.address

Accesses == TraceTypeOK /\ Balanced /\ Nested /\ WritesLocated /\ LastAddress

Phases ==
    /\ TypeOK
    /\ phase = "options" => search = NoSearch
    /\ phase \in {"options", "exited"} =>
          Idle /\ lines.memory = NoLine /\ lines.register = NoLine
    /\ phase \in {"reset", "running"} => output = trace_file
    /\ LinesGoToTheFile

IInv == Files /\ Accesses /\ Phases

-----------------------------------------------------------------------------
LEMMA FilesStart == FilesInit => Files
<1> SUFFICES ASSUME FilesInit PROVE Files
  OBVIOUS
<1>1. FilesTypeOK
  <2>1. search \in [at : {"none", "loop", "done"}, name : Int, from : 0..MaxFiles,
                    to : -1..(MaxFiles - 1), result : {0, 1}]
    BY FilesAssumption DEF FilesInit, NoSearch
  <2>2. given \in [names : SUBSET Names, adds : Nat]
    BY DEF FilesInit
  <2>3. debugged_files \in [Slots -> Int]
    BY DEF FilesInit
  <2>5. overrun \in BOOLEAN
    BY DEF FilesInit
  <2>4. nb \in 0..(MaxFiles + 1)
    BY FilesAssumption DEF FilesInit
  <2> QED BY <2>1, <2>2, <2>3, <2>4, <2>5 DEF FilesTypeOK
<1>2. Sorted /\ Table /\ Window
  BY FilesAssumption DEF FilesInit, Sorted, Table, Window, Held, NoSearch, Slots
<1> QED BY <1>1, <1>2 DEF Files

\* Outside a search, add_debug_to keeps the table sorted and complete.
LEMMA Adds ==
  ASSUME Files, search.at = "none", NEW name \in Names, add_debug_to(name)
  PROVE  Files'
<1> USE FilesAssumption
<1>1. PICK i \in 0..nb : 
        /\ Position(i, name)
        /\ IF i >= MaxFiles
           THEN UNCHANGED <<debugged_files, nb, overrun>>
           ELSE /\ debugged_files' = Shifted(i, name)
                /\ nb' = nb + 1
                /\ overrun' = (nb = MaxFiles)
  BY DEF add_debug_to
<1>2. /\ given' = [names |-> given.names \cup {name}, adds |-> given.adds + 1]
      /\ ~overrun /\ search' = search
      /\ name \in Int
  BY DEF add_debug_to
<1>3. /\ nb \in Nat /\ nb <= MaxFiles /\ given.adds \in Nat /\ nb <= given.adds
      /\ debugged_files \in [Slots -> Int] /\ given.names \subseteq Int
      /\ given'.names = given.names \cup {name} /\ given'.adds = given.adds + 1
  <2>1. given \in [names : SUBSET Names, adds : Nat] /\ nb \in 0..(MaxFiles + 1)
    BY DEF Files, FilesTypeOK
  <2>2. nb <= MaxFiles /\ nb <= given.adds
    BY <1>2 DEF Files, Table
  <2>3. debugged_files \in [Slots -> Int] /\ given.names \subseteq Int
    BY <2>1 DEF Files, FilesTypeOK
  <2> QED BY <2>1, <2>2, <2>3, <1>2
<1>4. CASE i >= MaxFiles
  <2>1. nb = MaxFiles /\ UNCHANGED <<debugged_files, nb, overrun>>
    BY <1>1, <1>3, <1>4
  <2>2. FilesTypeOK'
    BY <2>1, <1>2, <1>3 DEF Files, FilesTypeOK
  <2>3. Sorted'
    BY <2>1 DEF Files, Sorted
  <2>4. Table'
    BY <2>1, <1>2, <1>3 DEF Files, Table
  <2>5. Window'
    BY <1>2 DEF Window
  <2> QED BY <2>2, <2>3, <2>4, <2>5 DEF Files
<1>5. CASE i < MaxFiles
  <2>1. /\ debugged_files' = Shifted(i, name) /\ nb' = nb + 1
        /\ overrun' = (nb = MaxFiles)
    BY <1>1, <1>3, <1>5
  <2>2. \A j \in Slots : /\ j < i => debugged_files'[j] = debugged_files[j]
                         /\ j = i => debugged_files'[j] = name
                         /\ j > i /\ j <= nb => debugged_files'[j] = debugged_files[j - 1]
    <3> SUFFICES ASSUME NEW j \in Slots
                 PROVE  debugged_files'[j] = IF j = i THEN name
                                             ELSE IF j > i /\ j <= nb THEN debugged_files[j - 1]
                                             ELSE debugged_files[j]
      BY <1>3 DEF Slots
    <3> QED BY <2>1 DEF Shifted
  <2>3. debugged_files' \in [Slots -> Int]
    <3>1. \A j \in Slots : j > i => j - 1 \in Slots
      BY <1>3 DEF Slots
    <3> QED BY <2>1, <1>2, <1>3, <3>1 DEF Shifted
  <2>4. FilesTypeOK'
    BY <2>1, <2>3, <1>2, <1>3 DEF Files, FilesTypeOK
  <2>5. \A j \in 0..(i - 1) : debugged_files[j] < name
    BY <1>1 DEF Position
  <2>6. i < nb => debugged_files[i] >= name
    BY <1>1 DEF Position
  <2>7. Sorted'
    <3> SUFFICES ASSUME NEW j \in Slots, NEW k \in Slots, j < k, k < nb + 1
                 PROVE  debugged_files'[j] <= debugged_files'[k]
      BY <2>1 DEF Sorted
    <3> DEFINE f == debugged_files
    <3>1. \A a, b \in Slots : a < b /\ b < nb => f[a] <= f[b]
      BY DEF Files, Sorted
    <3>2. \A a \in Slots : f[a] \in Int
      BY <1>3
    <3>3. j \in Int /\ k \in Int /\ i \in Int /\ 0 <= j /\ k < MaxFiles /\ i >= 0
      BY <1>3 DEF Slots
    <3>4. CASE k < i
      BY <3>1, <3>3, <3>4, <2>2, <1>3
    <3>5. CASE k = i
      BY <2>2, <2>5, <3>2, <3>3, <3>5, <1>2
    <3>6. CASE k > i
      <4>1. k - 1 \in Slots /\ k - 1 < nb
        BY <3>3, <3>6, <1>3 DEF Slots
      <4>2. debugged_files'[k] = f[k - 1]
        BY <2>2, <3>3, <3>6, <1>3
      <4>3. CASE j < i
        BY <4>1, <4>2, <4>3, <3>1, <3>2, <3>3, <3>6, <2>2
      <4>4. CASE j = i
        <5>1. i \in Slots /\ f[i] >= name /\ (i < k - 1 => f[i] <= f[k - 1])
          BY <4>1, <4>4, <3>1, <3>3, <3>6, <2>6, <1>3
        <5>2. debugged_files'[j] = name /\ f[i] <= f[k - 1]
          BY <5>1, <4>4, <4>1, <3>2, <3>3, <3>6, <2>2
        <5> QED BY <5>1, <5>2, <4>1, <4>2, <3>2, <1>2
      <4>5. CASE j > i
        <5>1. j - 1 \in Slots /\ j - 1 < k - 1 /\ debugged_files'[j] = f[j - 1]
          BY <4>5, <3>3, <2>2, <1>3 DEF Slots
        <5> QED BY <5>1, <4>1, <4>2, <3>1
      <4> QED BY <4>3, <4>4, <4>5, <3>3
    <3> QED BY <3>3, <3>4, <3>5, <3>6
  <2>8. Table'
    <3>1. nb' <= given'.adds /\ (~overrun' => nb' <= MaxFiles)
          /\ (overrun' => given'.adds > MaxFiles)
      <4>1. nb + 1 <= given.adds + 1 /\ (nb # MaxFiles => nb + 1 <= MaxFiles)
            /\ (nb = MaxFiles => given.adds + 1 > MaxFiles)
        BY <1>3
      <4> QED BY <4>1, <2>1, <1>3
    <3>2. \A j \in Slots : j < nb' => debugged_files'[j] \in given'.names
      <4> SUFFICES ASSUME NEW j \in Slots, j < nb + 1
                   PROVE  debugged_files'[j] \in given.names \cup {name}
        BY <2>1, <1>3
      <4>1. \A a \in Slots : a < nb => debugged_files[a] \in given.names
        BY DEF Files, Table
      <4>2. j \in Int /\ i \in Int /\ 0 <= j /\ i >= 0 /\ i <= nb /\ j < MaxFiles
        BY <1>3 DEF Slots
      <4>3. CASE j < i
        BY <4>1, <4>2, <4>3, <2>2, <1>3
      <4>4. CASE j = i
        BY <4>4, <2>2
      <4>5. CASE j > i
        <5>1. j - 1 \in Slots /\ j - 1 < nb /\ debugged_files'[j] = debugged_files[j - 1]
          BY <4>2, <4>5, <2>2, <1>3 DEF Slots
        <5> QED BY <5>1, <4>1
      <4> QED BY <4>2, <4>3, <4>4, <4>5
    <3>3. ASSUME given.adds + 1 <= MaxFiles
          PROVE  nb' = given'.adds /\ \A other \in given'.names : Held(other)'
      <4>1. nb = given.adds /\ \A other \in given.names : Held(other)
        BY <3>3, <1>3 DEF Files, Table
      <4>2. i \in Slots /\ i < nb + 1 /\ debugged_files'[i] = name
        BY <1>3, <1>5, <2>2 DEF Slots
      <4>3. ASSUME NEW other \in given.names
            PROVE  \E j \in Slots : j < nb + 1 /\ debugged_files'[j] = other
        <5>1. PICK j \in Slots : j < nb /\ debugged_files[j] = other
          BY <4>1 DEF Held
        <5>2. CASE j < i
          BY <5>1, <5>2, <2>2, <1>3 DEF Slots
        <5>3. CASE j >= i
          <6>1. j + 1 \in Slots /\ j + 1 > i /\ j + 1 <= nb /\ (j + 1) - 1 = j
            BY <5>1, <5>3, <4>1, <3>3, <1>3 DEF Slots
          <6>2. debugged_files'[j + 1] = other
            BY <6>1, <5>1, <2>2
          <6>3. j + 1 < nb + 1
            BY <6>1, <1>3 DEF Slots
          <6> QED BY <6>1, <6>2, <6>3
        <5>4. j \in Int /\ i \in Int
          BY <1>3 DEF Slots
        <5> QED BY <5>2, <5>3, <5>4
      <4> QED BY <4>1, <4>2, <4>3, <2>1, <1>3 DEF Held
    <3> QED BY <3>1, <3>2, <3>3, <1>3 DEF Table
  <2>9. Window'
    BY <1>2 DEF Window
  <2> QED BY <2>4, <2>7, <2>8, <2>9 DEF Files
<1> QED BY <1>3, <1>4, <1>5

LEMMA Searches ==
  ASSUME Files, Searching \/ (\E name \in Names : StartSearch(name))
  PROVE  Files'
<1> USE FilesAssumption
<1>1. UNCHANGED <<debugged_files, nb, overrun, given>>
  BY DEF Searching, Probe, LastProbe, EndSearch, StartSearch
<1>2. Sorted' /\ Table'
  BY <1>1 DEF Files, Sorted, Table, Held
<1>3. /\ nb \in Nat /\ (~overrun => nb <= MaxFiles)
      /\ debugged_files \in [Slots -> Int]
      /\ search.at \in {"none", "loop", "done"}
      /\ search.from \in 0..MaxFiles /\ search.to \in -1..(MaxFiles - 1)
      /\ search.name \in Int
      /\ search \in [at : {"none", "loop", "done"}, name : Int, from : 0..MaxFiles,
                      to : -1..(MaxFiles - 1), result : {0, 1}]
  BY DEF Files, FilesTypeOK, Table
<1>4. /\ \A i, j \in Slots : i < j /\ j < nb => debugged_files[i] <= debugged_files[j]
      /\ \A i \in Slots : debugged_files[i] \in Int
  BY <1>3 DEF Files, Sorted
<1>5. search.at = "loop" =>
          /\ ~overrun /\ search.to < nb /\ search.from <= search.to + 1
          /\ \A i \in Slots : i < nb /\ debugged_files[i] = search.name =>
                search.from <= i /\ i <= search.to
  BY DEF Files, Window
<1>6. FilesTypeOK' /\ Window'
  <2>1. ASSUME NEW name \in Names, StartSearch(name) PROVE FilesTypeOK' /\ Window'
    <3>1. search' = [at |-> "loop", name |-> name, from |-> 0, to |-> nb - 1, result |-> 0]
          /\ ~overrun
      BY <2>1 DEF StartSearch
    <3>2. nb - 1 \in -1..(MaxFiles - 1) /\ 0 \in 0..MaxFiles /\ name \in Int
      BY <1>3, <3>1
    <3>3. FilesTypeOK'
      BY <3>1, <3>2, <1>1 DEF Files, FilesTypeOK
    <3>4. Window'
      <4>1. \A i \in Slots : i < nb => 0 <= i /\ i <= nb - 1
        BY <1>3 DEF Slots
      <4>2. nb - 1 < nb /\ 0 <= (nb - 1) + 1
        BY <1>3
      <4> QED BY <3>1, <4>1, <4>2, <1>1 DEF Window
    <3> QED BY <3>3, <3>4
  <2>2. ASSUME Probe PROVE FilesTypeOK' /\ Window'
    <3> DEFINE f == debugged_files
    <3>1. search.at = "loop" /\ search.from < search.to
      BY <2>2 DEF Probe
    <3>2. /\ middle \in Slots /\ middle < nb
          /\ search.from <= middle /\ middle < search.to
      BY <3>1, <1>3, <1>5 DEF middle, Slots
    <3>3. \A i \in Slots : i \in Int
      BY DEF Slots
    <3>4. CASE f[middle] < search.name
      <4>1. search' = [search EXCEPT !.from = middle + 1]
        BY <2>2, <3>4 DEF Probe
      <4>2. /\ search'.at = "loop" /\ search'.from = middle + 1 /\ search'.to = search.to
            /\ search'.name = search.name
        BY <4>1, <3>1, <1>3
      <4>3. \A i \in Slots : i < nb /\ f[i] = search.name => middle + 1 <= i
        BY <3>2, <3>3, <3>4, <1>3, <1>4
      <4>4. middle + 1 \in 0..MaxFiles /\ middle + 1 <= search.to + 1
        BY <3>2, <1>3 DEF Slots
      <4>5. FilesTypeOK'
        BY <4>1, <4>4, <1>1, <1>3 DEF Files, FilesTypeOK
      <4>6. Window'
        BY <4>2, <4>3, <4>4, <1>1, <1>5, <3>1 DEF Window
      <4> QED BY <4>5, <4>6
    <3>5. CASE f[middle] > search.name
      <4>1. search' = [search EXCEPT !.to = middle - 1]
        BY <2>2, <3>2, <3>5, <1>3, <1>4 DEF Probe
      <4>2. /\ search'.at = "loop" /\ search'.from = search.from /\ search'.to = middle - 1
            /\ search'.name = search.name
        BY <4>1, <3>1, <1>3
      <4>3. \A i \in Slots : i < nb /\ f[i] = search.name => i <= middle - 1
        BY <3>2, <3>3, <3>5, <1>3, <1>4
      <4>4. middle - 1 \in -1..(MaxFiles - 1) /\ search.from <= (middle - 1) + 1
            /\ middle - 1 < nb
        BY <3>2, <1>3 DEF Slots
      <4>5. FilesTypeOK'
        BY <4>1, <4>4, <1>1, <1>3 DEF Files, FilesTypeOK
      <4>6. Window'
        BY <4>2, <4>3, <4>4, <1>1, <1>5, <3>1 DEF Window
      <4> QED BY <4>5, <4>6
    <3>6. CASE f[middle] = search.name
      <4>1. search' = [search EXCEPT !.at = "done", !.result = 1]
        BY <2>2, <3>2, <3>6, <1>3, <1>4 DEF Probe
      <4>2. search'.at = "done" /\ search'.result = 1 /\ search'.name = search.name
        BY <4>1, <1>3
      <4>3. FilesTypeOK'
        BY <4>1, <1>1, <1>3 DEF Files, FilesTypeOK
      <4>4. Held(search.name)'
        BY <4>2, <3>2, <3>6, <1>1 DEF Held
      <4> QED BY <4>2, <4>3, <4>4, <3>1, <1>1, <1>5 DEF Window
    <3> QED BY <3>2, <3>4, <3>5, <3>6, <1>3, <1>4
  <2>3. ASSUME LastProbe PROVE FilesTypeOK' /\ Window'
    <3> DEFINE found == search.from = search.to
                        /\ debugged_files[search.from] = search.name
    <3>1. /\ search.at = "loop" /\ search.from >= search.to
          /\ search' = [search EXCEPT !.at = "done", !.result = IF found THEN 1 ELSE 0]
      BY <2>3 DEF LastProbe
    <3>2. /\ search'.at = "done" /\ search'.name = search.name
          /\ search'.result = IF found THEN 1 ELSE 0
      BY <3>1, <1>3
    <3>3. FilesTypeOK'
      BY <3>1, <1>1, <1>3 DEF Files, FilesTypeOK
    <3>4. found <=> Held(search.name)
      <4>1. ASSUME found PROVE Held(search.name)
        <5>1. search.from \in Slots /\ search.from < nb
          BY <3>1, <4>1, <1>3, <1>5 DEF Slots
        <5> QED BY <4>1, <5>1 DEF Held
      <4>2. ASSUME Held(search.name) PROVE found
        <5>1. PICK i \in Slots : i < nb /\ debugged_files[i] = search.name
          BY <4>2 DEF Held
        <5>2. search.from <= i /\ i <= search.to /\ i \in Int
          BY <5>1, <3>1, <1>5 DEF Slots
        <5>3. i = search.from /\ i = search.to
          BY <5>2, <3>1, <1>3
        <5> QED BY <5>1, <5>3
      <4> QED BY <4>1, <4>2
    <3>5. Held(search.name) <=> Held(search.name)'
      BY <3>2, <1>1 DEF Held
    <3> QED BY <3>1, <3>2, <3>3, <3>4, <3>5, <1>1, <1>5 DEF Window
  <2>4. ASSUME EndSearch PROVE FilesTypeOK' /\ Window'
    <3>1. search' = [at |-> "none", name |-> 0, from |-> 0, to |-> 0, result |-> 0]
      BY <2>4 DEF EndSearch, NoSearch
    <3>2. FilesTypeOK'
      BY <3>1, <1>1, <1>3 DEF Files, FilesTypeOK
    <3> QED BY <3>1, <3>2 DEF Window
  <2> QED BY <2>1, <2>2, <2>3, <2>4 DEF Searching
<1> QED BY <1>2, <1>6 DEF Files

LEMMA FilesStay ==
  ASSUME Files, UNCHANGED filesVars
  PROVE  Files'
BY DEF Files, FilesTypeOK, Sorted, Table, Window, Held, filesVars

-----------------------------------------------------------------------------
LEMMA TwoLocations == StackSize \in Nat /\ StackSize >= 2
  BY TraceAssumption

LEMMA TraceStarts == TraceInit => Accesses
<1> SUFFICES ASSUME TraceInit PROVE Accesses
  OBVIOUS
<1>1. TraceTypeOK
  <2>1. NoLine \in Line
    BY DEF NoLine, Line, Kinds, Outputs
  <2>2. lines \in [memory : Line, register : Line]
    BY <2>1 DEF TraceInit
  <2> QED BY <2>2 DEF TraceInit, TraceTypeOK, Outputs
<1>2. outer.kind = "none" /\ outer.ended /\ inner.ended
  BY DEF TraceInit, NoCall
<1>3. Balanced
  BY <1>2, TwoLocations DEF TraceInit, Balanced, Open
<1>4. Nested /\ WritesLocated /\ LastAddress
  BY <1>2 DEF TraceInit, Nested, WritesLocated, LastAddress, NoLine
<1> QED BY <1>1, <1>3, <1>4 DEF Accesses

\* What is printed has its type, and a line about memory the last address.
LEMMA Prints ==
  ASSUME Accesses, NEW call, call.kind \in Kinds,
         NEW address \in Addresses, Traced(call, address)
  PROVE  /\ lines' \in [memory : Line, register : Line]
         /\ last_address' \in Int
         /\ LastAddress'
         /\ lines'.register = lines.register \/ lines'.register = RegisterLine(call)
         /\ UNCHANGED <<enabled, trace_flags, stack, output>>
         /\ \A line \in {lines'.memory, lines'.register} :
               line \in {lines.memory, lines.register} \/ line.to = output
         /\ lines'.memory # lines.memory /\ lines.memory # NoLine =>
               (lines'.memory.sequential <=>
                   lines'.memory.address = lines.memory.address + WordSize)
<1> USE TraceAssumption
<1> DEFINE isMemory == call.kind \in {"memory", "fetch"}
           isRegister == call.kind \in {"read", "write", "fetch"}
<1>1. /\ lines \in [memory : Line, register : Line] /\ last_address \in Int
      /\ output \in Outputs
      /\ lines.memory # NoLine => last_address = lines.memory.address
  BY DEF Accesses, TraceTypeOK, LastAddress
<1>2. /\ lines' = [memory |-> IF isMemory THEN MemoryLine(call, address) ELSE lines.memory,
                   register |-> IF isRegister THEN RegisterLine(call) ELSE lines.register]
      /\ last_address' = IF isMemory THEN Noted(address) ELSE last_address
      /\ UNCHANGED <<enabled, trace_flags, stack, output>>
  BY DEF Traced
<1>3. PrintsOwn(call) \in BOOLEAN
  BY DEF PrintsOwn
<1>4. address \in Nat /\ address \in Int
  BY TraceAssumption
<1>5. RegisterLine(call) \in Line /\ (RegisterLine(call) = lines.register
                                     \/ RegisterLine(call).to = output)
  <2>1. CASE ~RegisterTraced
    BY <2>1, <1>1 DEF RegisterLine
  <2>2. CASE RegisterTraced
    <3>1. RegisterLine(call) = [kind |-> call.kind, address |-> 0, sequential |-> FALSE,
                                located |-> PrintsOwn(call), to |-> output]
      BY <2>2 DEF RegisterLine, NoLine
    <3> QED BY <3>1, <1>1, <1>3 DEF Line
  <2> QED BY <2>1, <2>2
<1>6. /\ MemoryLine(call, address) \in Line
      /\ Noted(address) \in Int
      /\ MemoryTraced => /\ MemoryLine(call, address).address = address
                         /\ MemoryLine(call, address).to = output
                         /\ MemoryLine(call, address).sequential =
                                (address = last_address + WordSize)
                         /\ Noted(address) = address
      /\ ~MemoryTraced => /\ MemoryLine(call, address) = lines.memory
                          /\ Noted(address) = last_address
  <2>1. CASE ~MemoryTraced
    BY <2>1, <1>1 DEF MemoryLine, Noted
  <2>2. CASE MemoryTraced
    <3>1. MemoryLine(call, address) =
            [kind |-> call.kind, address |-> address,
             sequential |-> (address = last_address + WordSize),
             located |-> PrintsOwn(call), to |-> output]
      BY <2>2 DEF MemoryLine
    <3>2. (address = last_address + WordSize) \in BOOLEAN
      OBVIOUS
    <3>3. MemoryLine(call, address) \in Line
      BY <3>1, <3>2, <1>1, <1>3, <1>4 DEF Line
    <3>4. Noted(address) = address
      BY <2>2 DEF Noted
    <3> QED BY <2>2, <3>1, <3>3, <3>4, <1>4
  <2> QED BY <2>1, <2>2
<1>7. /\ lines'.memory = IF isMemory THEN MemoryLine(call, address) ELSE lines.memory
      /\ lines'.register = IF isRegister THEN RegisterLine(call) ELSE lines.register
      /\ lines' \in [memory : Line, register : Line]
  BY <1>1, <1>2, <1>5, <1>6
<1>8. LastAddress'
  BY <1>1, <1>2, <1>6, <1>7 DEF LastAddress
<1>9. \A line \in {lines'.memory, lines'.register} :
          line \in {lines.memory, lines.register} \/ line.to = output
  BY <1>5, <1>6, <1>7
<1>10. lines'.memory # lines.memory /\ lines.memory # NoLine =>
          (lines'.memory.sequential <=>
              lines'.memory.address = lines.memory.address + WordSize)
  BY <1>1, <1>6, <1>7
<1> QED BY <1>1, <1>2, <1>6, <1>7, <1>8, <1>9, <1>10

\* The stack of locations under a push and a pop.
LEMMA PushPop ==
  ASSUME TraceTypeOK, Balanced, NEW line \in Locations
  PROVE  /\ Pushed(line) \in Seq(Locations)
         /\ enabled => /\ Len(Pushed(line)) = Len(stack) + 1
                       /\ Pushed(line)[Len(stack) + 1] = line
                       /\ \A k \in 1..Len(stack) : Pushed(line)[k] = stack[k]
         /\ ~enabled => Pushed(line) = stack
BY DEF TraceTypeOK, Pushed

LEMMA Pops ==
  ASSUME TraceTypeOK, Balanced, Open(outer) + Open(inner) > 0
  PROVE  /\ Popped \in Seq(Locations)
         /\ enabled => /\ Len(Popped) = Len(stack) - 1
                       /\ Len(stack) > 1 => Popped[1] = stack[1]
         /\ ~enabled => Popped = stack
<1>1. CASE enabled
  <2>1. stack \in Seq(Locations) /\ Len(stack) > 0
    BY <1>1 DEF TraceTypeOK, Balanced
  <2>2. Popped = SubSeq(stack, 1, Len(stack) - 1)
    BY <1>1 DEF Popped
  <2>3. Len(stack) \in Nat /\ \A k \in 1..(Len(stack) - 1) : stack[k] \in Locations
    BY <2>1
  <2> DEFINE n == Len(stack) - 1
  <2>4. n \in Int /\ 1 \in Int /\ \A k \in 1..n : stack[k] \in Locations
    BY <2>3
  <2> HIDE DEF n
  <2>5. /\ SubSeq(stack, 1, n) \in Seq(Locations)
        /\ Len(SubSeq(stack, 1, n)) = IF 1 <= n THEN n - 1 + 1 ELSE 0
        /\ \A k \in 1..(n - 1 + 1) : SubSeq(stack, 1, n)[k] = stack[1 + k - 1]
    BY <2>4, SubSeqProperties
  <2>6. Popped = SubSeq(stack, 1, n)
    BY <2>2 DEF n
  <2>7. Len(stack) > 1 => SubSeq(stack, 1, n)[1] = stack[1]
    BY <2>3, <2>5 DEF n
  <2>8. Len(SubSeq(stack, 1, n)) = Len(stack) - 1
    <3>1. n = Len(stack) - 1 /\ n \in Nat
      BY <2>1, <2>3 DEF n
    <3>2. (IF 1 <= n THEN n - 1 + 1 ELSE 0) = n
      BY <3>1
    <3> QED BY <3>1, <3>2, <2>5
  <2> QED BY <1>1, <2>5, <2>6, <2>7, <2>8
<1>2. CASE ~enabled
  BY <1>2 DEF TraceTypeOK, Popped
<1> QED BY <1>1, <1>2 DEF TraceTypeOK

\* The records of the accesses.
LEMMA Calls ==
  /\ \A kind \in Kinds, line \in Locations :
        /\ Located(kind, line) \in Call
        /\ Located(kind, line).kind = kind /\ Located(kind, line).line = line
        /\ ~Located(kind, line).called /\ ~Located(kind, line).ended
        /\ Located(kind, line) # NoCall
  /\ NoCall.kind = "none" /\ NoCall.called /\ NoCall.ended
  /\ \A call \in Call \cup {NoCall} :
        /\ call.kind \in Kinds \cup {"none"} /\ call.called \in BOOLEAN
        /\ call.ended \in BOOLEAN
        /\ call # NoCall => call \in Call /\ call.kind \in Kinds
                             /\ call.line \in Locations
  /\ \A call \in Call :
        /\ [call EXCEPT !.called = TRUE] \in Call
        /\ [call EXCEPT !.called = TRUE].kind = call.kind
        /\ [call EXCEPT !.called = TRUE].line = call.line
        /\ [call EXCEPT !.called = TRUE].called
        /\ [call EXCEPT !.called = TRUE].ended = call.ended
        /\ [call EXCEPT !.ended = TRUE] \in Call
        /\ [call EXCEPT !.ended = TRUE].kind = call.kind
        /\ [call EXCEPT !.ended = TRUE].line = call.line
        /\ [call EXCEPT !.ended = TRUE].called = call.called
        /\ [call EXCEPT !.ended = TRUE].ended
        /\ call # NoCall
<1> USE DEF Call, Located, NoCall, Kinds
<1>1. \A kind \in Kinds, line \in Locations :
        /\ Located(kind, line) \in Call
        /\ Located(kind, line).kind = kind /\ Located(kind, line).line = line
        /\ ~Located(kind, line).called /\ ~Located(kind, line).ended
        /\ Located(kind, line) # NoCall
  OBVIOUS
<1>2. NoCall.kind = "none" /\ NoCall.called /\ NoCall.ended
  OBVIOUS
<1>3. \A call \in Call : call # NoCall
  OBVIOUS
<1>4. ASSUME NEW call \in Call \cup {NoCall}
      PROVE  /\ call.kind \in Kinds \cup {"none"} /\ call.called \in BOOLEAN
             /\ call.ended \in BOOLEAN
             /\ call # NoCall => call \in Call /\ call.kind \in Kinds
                                  /\ call.line \in Locations
  <2>1. CASE call = NoCall
    BY <2>1
  <2>2. CASE call \in Call
    BY <2>2
  <2> QED BY <2>1, <2>2
<1>5. ASSUME NEW call \in Call
      PROVE  /\ [call EXCEPT !.called = TRUE] \in Call
             /\ [call EXCEPT !.called = TRUE].kind = call.kind
             /\ [call EXCEPT !.called = TRUE].line = call.line
             /\ [call EXCEPT !.called = TRUE].called
             /\ [call EXCEPT !.called = TRUE].ended = call.ended
             /\ [call EXCEPT !.ended = TRUE] \in Call
             /\ [call EXCEPT !.ended = TRUE].kind = call.kind
             /\ [call EXCEPT !.ended = TRUE].line = call.line
             /\ [call EXCEPT !.ended = TRUE].called = call.called
             /\ [call EXCEPT !.ended = TRUE].ended
  OBVIOUS
<1> QED BY <1>1, <1>2, <1>3, <1>4, <1>5

LEMMA TraceStays ==
  ASSUME Accesses, UNCHANGED traceVars
  PROVE  Accesses'
BY DEF Accesses, TraceTypeOK, Balanced, Nested, WritesLocated, LastAddress, Open, traceVars

LEMMA Settings ==
  ASSUME Accesses, \/ \E flag \in Flags : trace_add(flag)
                   \/ \E f \in ({"stdout"} \cup TraceFiles) : set_trace_file(f)
  PROVE  Accesses'
<1>1. UNCHANGED <<enabled, stack, last_address, lines, outer, inner>>
  BY DEF trace_add, set_trace_file
<1>2. trace_flags' \subseteq Flags /\ output' \in Outputs
  BY DEF trace_add, set_trace_file, Accesses, TraceTypeOK, Outputs
<1> QED BY <1>1, <1>2 DEF Accesses, TraceTypeOK, Balanced, Nested, WritesLocated, LastAddress, Open

LEMMA Switches ==
  ASSUME Accesses, NEW on \in BOOLEAN, Switched(on)
  PROVE  Accesses'
<1>1. /\ UNCHANGED <<trace_flags, stack, last_address, output, lines, outer, inner>>
      /\ enabled' = on /\ outer = NoCall /\ inner = NoCall
  BY DEF Switched, Idle
<1>2. Len(stack) = 0
  BY <1>1, Calls DEF Accesses, Balanced, Open
<1>3. TraceTypeOK'
  BY <1>1 DEF Accesses, TraceTypeOK
<1>4. Balanced'
  BY <1>1, <1>2, Calls, TwoLocations DEF Balanced, Open
<1>5. Nested' /\ WritesLocated' /\ LastAddress'
  BY <1>1, Calls DEF Accesses, Nested, WritesLocated, LastAddress
<1> QED BY <1>3, <1>4, <1>5 DEF Accesses

LEMMA Locates ==
  ASSUME Accesses, NEW kind \in Kinds, NEW line \in Locations, Locate(kind, line)
  PROVE  Accesses'
<1>1. /\ UNCHANGED <<enabled, trace_flags, last_address, output, lines, inner>>
      /\ outer = NoCall /\ inner = NoCall
      /\ stack' = Pushed(line) /\ outer' = Located(kind, line)
  BY DEF Locate, Idle
<1>2. TraceTypeOK /\ Balanced /\ Len(stack) = 0
  BY <1>1, Calls DEF Accesses, Balanced, Open
<1>3. TraceTypeOK'
  BY <1>1, <1>2, PushPop, Calls DEF TraceTypeOK
<1>4. Balanced'
  <2>1. Open(outer)' = 1 /\ Open(inner)' = 0
    BY <1>1, Calls DEF Open
  <2>2. Len(stack') = IF enabled THEN 1 ELSE 0
    BY <1>1, <1>2, PushPop
  <2> QED BY <1>1, <2>1, <2>2, TwoLocations DEF Balanced
<1>5. Nested'
  <2>1. enabled => stack'[1] = line
    BY <1>1, <1>2, PushPop
  <2> QED BY <1>1, <2>1, Calls DEF Nested
<1>6. WritesLocated' /\ LastAddress'
  BY <1>1 DEF Accesses, WritesLocated, LastAddress
<1> QED BY <1>3, <1>4, <1>5, <1>6 DEF Accesses

LEMMA LocatesArgument ==
  ASSUME Accesses, NEW line \in Locations, LocateArgument(line)
  PROVE  Accesses'
<1>1. /\ UNCHANGED <<enabled, trace_flags, last_address, output, lines, outer>>
      /\ outer.kind \in {"write", "memory"} /\ ~outer.called /\ inner = NoCall
      /\ stack' = Pushed(line) /\ inner' = Located("read", line)
  BY DEF LocateArgument
<1>2. /\ TraceTypeOK /\ Balanced /\ "read" \in Kinds /\ Open(inner) = 0
      /\ Open(outer) \in {0, 1}
  BY <1>1, Calls DEF Accesses, Kinds, Open
<1>3. TraceTypeOK'
  BY <1>1, <1>2, PushPop, Calls DEF TraceTypeOK
<1>4. Balanced'
  <2>1. Open(inner)' = 1 /\ Open(outer)' = Open(outer)
    BY <1>1, <1>2, Calls DEF Open
  <2> QED BY <1>1, <1>2, <2>1, PushPop, TwoLocations DEF Balanced
<1>5. Nested'
  <2>1. enabled /\ outer.kind = "write" /\ ~outer.ended => stack'[1] = outer.line
    BY <1>1, <1>2, PushPop DEF Accesses, Nested, Balanced, Open
  <2> QED BY <1>1, <1>2, <2>1, Calls DEF Accesses, Nested
<1>6. WritesLocated' /\ LastAddress'
  BY <1>1 DEF Accesses, WritesLocated, LastAddress
<1> QED BY <1>3, <1>4, <1>5, <1>6 DEF Accesses

LEMMA Evaluates ==
  ASSUME Accesses, Evaluate
  PROVE  Accesses'
<1>1. TraceTypeOK /\ Balanced /\ Nested
  BY DEF Accesses
<1>2. CASE \E line \in Locations : LocateArgument(line)
  BY <1>2, LocatesArgument
<1>3. CASE PerformArgument
  <2>1. PICK address \in Addresses : Traced(inner, address)
    BY <1>3 DEF PerformArgument
  <2>2. /\ ~inner.called /\ inner' = [inner EXCEPT !.called = TRUE] /\ outer' = outer
    BY <1>3 DEF PerformArgument
  <2>3. inner # NoCall /\ inner \in Call /\ inner.kind = "read" /\ inner.kind \in Kinds
    BY <1>1, <2>2, Calls DEF TraceTypeOK, Nested
  <2>4. /\ lines' \in [memory : Line, register : Line] /\ last_address' \in Int
        /\ LastAddress'
        /\ lines'.register = lines.register \/ lines'.register = RegisterLine(inner)
        /\ UNCHANGED <<enabled, trace_flags, stack, output>>
    BY <2>1, <2>3, Prints
  <2>5. TraceTypeOK'
    BY <1>1, <2>2, <2>3, <2>4, Calls DEF TraceTypeOK
  <2>6. Balanced'
    BY <1>1, <2>2, <2>3, <2>4, Calls DEF Balanced, Open
  <2>7. Nested'
    BY <1>1, <2>2, <2>3, <2>4, Calls DEF Nested
  <2>8. WritesLocated'
    BY <2>3, <2>4 DEF Accesses, WritesLocated, RegisterLine, NoLine
  <2> QED BY <2>4, <2>5, <2>6, <2>7, <2>8 DEF Accesses
<1>4. CASE Perform
  <2>1. PICK address \in Addresses : Traced(outer, address)
    BY <1>4 DEF Perform
  <2>2. /\ ~outer.called /\ outer' = [outer EXCEPT !.called = TRUE] /\ inner' = inner
        /\ inner = NoCall
    BY <1>4 DEF Perform
  <2>3. outer # NoCall /\ outer \in Call /\ outer.kind \in Kinds
    BY <1>1, <2>2, Calls DEF TraceTypeOK
  <2>4. /\ lines' \in [memory : Line, register : Line] /\ last_address' \in Int
        /\ LastAddress'
        /\ lines'.register = lines.register \/ lines'.register = RegisterLine(outer)
        /\ UNCHANGED <<enabled, trace_flags, stack, output>>
    BY <2>1, <2>3, Prints
  <2>5. TraceTypeOK'
    BY <1>1, <2>2, <2>3, <2>4, Calls DEF TraceTypeOK
  <2>6. Balanced'
    <3>1. Open(outer)' = Open(outer) /\ Open(inner)' = Open(inner)
      BY <2>2, <2>3, Calls DEF Open
    <3>2. UNCHANGED <<stack, enabled>>
      BY <2>4
    <3> QED BY <1>1, <3>1, <3>2 DEF Balanced
  <2>7. Nested'
    BY <1>1, <2>2, <2>3, <2>4, Calls DEF Nested
  <2>8. WritesLocated'
    <3>1. CASE lines'.register = lines.register
      BY <3>1 DEF Accesses, WritesLocated
    <3>2. CASE lines'.register = RegisterLine(outer) /\ RegisterTraced
      <4>1. lines'.register.kind = outer.kind /\ lines'.register.located = PrintsOwn(outer)
        BY <3>2 DEF RegisterLine, NoLine
      <4>2. ASSUME outer.kind = "write" PROVE PrintsOwn(outer)
        <5>1. enabled /\ ~outer.ended
          BY <3>2, <4>2, <1>1, <2>2 DEF RegisterTraced, Nested
        <5>2. Len(stack) = 1 /\ stack[1] = outer.line
          BY <5>1, <4>2, <1>1, <2>2, Calls DEF Balanced, Nested, Open
        <5> QED BY <5>2 DEF PrintsOwn
      <4> QED BY <4>1, <4>2 DEF WritesLocated
    <3>3. CASE lines'.register = RegisterLine(outer) /\ ~RegisterTraced
      BY <3>3 DEF Accesses, WritesLocated, RegisterLine
    <3> QED BY <2>4, <3>1, <3>2, <3>3
  <2> QED BY <2>4, <2>5, <2>6, <2>7, <2>8 DEF Accesses
<1>5. CASE EndArgument
  <2>1. /\ UNCHANGED <<enabled, trace_flags, last_address, output, lines, outer>>
        /\ ~inner.ended /\ stack' = Popped /\ inner' = [inner EXCEPT !.ended = TRUE]
    BY <1>5 DEF EndArgument
  <2>2. inner # NoCall /\ inner \in Call /\ ~outer.called /\ Open(inner) = 1
        /\ Open(outer) \in {0, 1}
    BY <1>1, <2>1, Calls DEF TraceTypeOK, Nested, Open
  <2>3. /\ stack' \in Seq(Locations)
        /\ enabled => Len(stack') = Len(stack) - 1 /\ (Len(stack) > 1 => stack'[1] = stack[1])
        /\ ~enabled => stack' = stack
    BY <1>1, <2>1, <2>2, Pops
  <2>4. TraceTypeOK'
    BY <1>1, <2>1, <2>2, <2>3, Calls DEF TraceTypeOK
  <2>5. Balanced'
    <3>1. Open(inner)' = 0 /\ Open(outer)' = Open(outer)
      BY <2>1, <2>2, Calls DEF Open
    <3>2. Len(stack) \in Nat /\ StackSize \in Nat
      BY <1>1, TraceAssumption DEF TraceTypeOK
    <3> QED BY <1>1, <2>1, <2>2, <2>3, <3>1, <3>2 DEF Balanced
  <2>6. Nested'
    <3>1. enabled /\ outer.kind = "write" /\ ~outer.ended => stack'[1] = outer.line
      BY <1>1, <2>2, <2>3 DEF Balanced, Nested, Open
    <3> QED BY <1>1, <2>1, <2>2, <3>1, Calls DEF Nested
  <2>7. WritesLocated' /\ LastAddress'
    BY <2>1 DEF Accesses, WritesLocated, LastAddress
  <2> QED BY <2>4, <2>5, <2>6, <2>7 DEF Accesses
<1>6. CASE EndLocation
  <2>1. /\ UNCHANGED <<enabled, trace_flags, last_address, output, lines, inner>>
        /\ ~outer.ended /\ stack' = Popped /\ outer' = [outer EXCEPT !.ended = TRUE]
        /\ outer.kind = "write" => outer.called
    BY <1>6 DEF EndLocation
  <2>2. outer # NoCall /\ outer \in Call /\ Open(outer) = 1 /\ Open(inner) \in {0, 1}
    BY <1>1, <2>1, Calls DEF TraceTypeOK, Open
  <2>3. /\ stack' \in Seq(Locations)
        /\ enabled => Len(stack') = Len(stack) - 1
        /\ ~enabled => stack' = stack
    BY <1>1, <2>1, <2>2, Pops
  <2>4. TraceTypeOK'
    BY <1>1, <2>1, <2>2, <2>3, Calls DEF TraceTypeOK
  <2>5. Balanced'
    <3>1. Open(outer)' = 0 /\ Open(inner)' = Open(inner)
      BY <2>1, <2>2, Calls DEF Open
    <3>2. Len(stack) \in Nat /\ StackSize \in Nat
      BY <1>1, TraceAssumption DEF TraceTypeOK
    <3> QED BY <1>1, <2>1, <2>2, <2>3, <3>1, <3>2 DEF Balanced
  <2>6. Nested'
    BY <1>1, <2>1, <2>2, Calls DEF Nested
  <2>7. WritesLocated' /\ LastAddress'
    BY <2>1 DEF Accesses, WritesLocated, LastAddress
  <2> QED BY <2>4, <2>5, <2>6, <2>7 DEF Accesses
<1>7. CASE ArgumentValue
  <2>1. /\ UNCHANGED <<enabled, trace_flags, stack, last_address, output, lines, outer>>
        /\ inner.ended /\ inner' = NoCall
    BY <1>7 DEF ArgumentValue
  <2>2. TraceTypeOK' /\ Nested' /\ WritesLocated' /\ LastAddress'
    BY <1>1, <2>1, Calls DEF Accesses, TraceTypeOK, Nested, WritesLocated, LastAddress
  <2>3. Balanced'
    BY <1>1, <2>1, Calls DEF Balanced, Open
  <2> QED BY <2>2, <2>3 DEF Accesses
<1>8. CASE Value
  <2>1. /\ UNCHANGED <<enabled, trace_flags, stack, last_address, output, lines, inner>>
        /\ outer.ended /\ outer.called /\ outer' = NoCall
    BY <1>8 DEF Value
  <2>2. TraceTypeOK' /\ Nested' /\ WritesLocated' /\ LastAddress'
    BY <1>1, <2>1, Calls DEF Accesses, TraceTypeOK, Nested, WritesLocated, LastAddress
  <2>3. Balanced'
    BY <1>1, <2>1, Calls DEF Balanced, Open
  <2> QED BY <2>2, <2>3 DEF Accesses
<1> QED BY <1>2, <1>3, <1>4, <1>5, <1>6, <1>7, <1>8 DEF Evaluate

LEMMA PrintsState ==
  ASSUME Accesses, trace_arm_state
  PROVE  /\ Accesses'
         /\ lines'.memory = lines.memory
         /\ lines'.register = lines.register \/ lines'.register.to = output
         /\ UNCHANGED <<outer, inner, output>>
<1> DEFINE call == [NoCall EXCEPT !.kind = "read"]
<1>1. /\ UNCHANGED <<enabled, trace_flags, stack, last_address, output, outer, inner>>
      /\ lines' = [lines EXCEPT !.register = RegisterLine(call)]
  BY DEF trace_arm_state
<1>2. lines \in [memory : Line, register : Line] /\ output \in Outputs
  BY DEF Accesses, TraceTypeOK
<1>0. call.kind = "read"
  BY DEF NoCall
<1> HIDE DEF call
<1>3. /\ RegisterLine(call) \in Line
      /\ \/ RegisterLine(call) = lines.register
         \/ RegisterLine(call).to = output /\ RegisterLine(call).kind = "read"
  <2>1. CASE ~RegisterTraced
    BY <2>1, <1>2 DEF RegisterLine
  <2>2. CASE RegisterTraced
    <3>1. RegisterLine(call) = [kind |-> "read", address |-> 0, sequential |-> FALSE,
                                located |-> PrintsOwn(call), to |-> output]
      BY <2>2, <1>0 DEF RegisterLine, NoLine
    <3>2. PrintsOwn(call) \in BOOLEAN
      BY DEF PrintsOwn
    <3> QED BY <3>1, <3>2, <1>2 DEF Line, Kinds
  <2> QED BY <2>1, <2>2
<1>4. /\ lines' \in [memory : Line, register : Line]
      /\ lines'.memory = lines.memory /\ lines'.register = RegisterLine(call)
  BY <1>1, <1>2, <1>3
<1>5. TraceTypeOK' /\ Balanced'
  BY <1>1, <1>4 DEF Accesses, TraceTypeOK, Balanced, Open
<1>6. Nested' /\ LastAddress' /\ WritesLocated'
  BY <1>1, <1>3, <1>4 DEF Accesses, Nested, LastAddress, WritesLocated
<1> QED BY <1>1, <1>3, <1>4, <1>5, <1>6 DEF Accesses

-----------------------------------------------------------------------------
LEMMA Starts == Init => IInv
<1> SUFFICES ASSUME Init PROVE IInv
  OBVIOUS
<1>1. Files /\ Accesses
  BY FilesStart, TraceStarts DEF Init
<1>2. TypeOK
  BY <1>1, DiagnosticsAssumption DEF Init, TypeOK, Files, Accesses
<1>3. Phases
  BY <1>2 DEF Init, FilesInit, TraceInit, Phases, Idle, LinesGoToTheFile
<1> QED BY <1>1, <1>3 DEF IInv

\* The steps of main before the threads.
LEMMA StepOptions ==
  ASSUME IInv, OptionTrace \/ OptionDebug \/ OptionTraceFile \/ OptionExits
  PROVE  IInv'
<1> USE DEF Option
<1>1. /\ TypeOK /\ Files /\ Accesses /\ search = NoSearch /\ Idle
      /\ lines.memory = NoLine /\ lines.register = NoLine /\ phase = "options"
  BY DEF IInv, Phases, OptionTrace, OptionDebug, OptionTraceFile, OptionExits
<1>2. /\ options' \in 0..MaxOptions /\ resets' \in 0..2
      /\ trace_file' \in ({"stdout"} \cup TraceFiles) /\ phase' \in {"options", "exited"}
      /\ search' = search /\ UNCHANGED <<lines, outer, inner>>
  BY <1>1, DiagnosticsAssumption
     DEF TypeOK, OptionTrace, OptionDebug, OptionTraceFile, OptionExits,
         trace_add, add_debug_to, filesVars, traceVars
<1>3. Files'
  <2>1. CASE OptionDebug
    BY <1>1, <2>1, Adds DEF OptionDebug, NoSearch
  <2>2. CASE OptionTrace \/ OptionTraceFile \/ OptionExits
    BY <1>1, <2>2, FilesStay DEF OptionTrace, OptionTraceFile, OptionExits
  <2> QED BY <2>1, <2>2
<1>4. Accesses'
  <2>1. CASE OptionTrace
    BY <1>1, <2>1, Settings DEF OptionTrace
  <2>2. CASE OptionDebug \/ OptionTraceFile \/ OptionExits
    BY <1>1, <2>2, TraceStays DEF OptionDebug, OptionTraceFile, OptionExits
  <2> QED BY <2>1, <2>2
<1>5. TypeOK'
  BY <1>2, <1>3, <1>4 DEF TypeOK, Files, Accesses
<1>6. Phases'
  BY <1>1, <1>2, <1>5 DEF Phases, Idle, LinesGoToTheFile
<1> QED BY <1>3, <1>4, <1>6 DEF IInv

LEMMA StepStart ==
  ASSUME IInv, Start \/ Reset \/ CreateThreads
  PROVE  IInv'
<1>1. /\ TypeOK /\ Files /\ Accesses /\ Phases /\ trace_file \in ({"stdout"} \cup TraceFiles)
      /\ resets \in 0..2
  BY DEF IInv, Phases, TypeOK
<1>2. /\ UNCHANGED <<filesVars, trace_file, options, lines>> /\ resets' \in 0..2
      /\ phase' \in {"reset", "running"} /\ output' = trace_file
      /\ search' = search
  BY <1>1 DEF Start, Reset, CreateThreads, Phases, set_trace_file, Locate, filesVars, traceVars
<1>3. Files'
  BY <1>1, <1>2, FilesStay
<1>4. Accesses'
  <2>1. CASE Start
    BY <1>1, <2>1, Settings DEF Start
  <2>2. CASE Reset
    BY <1>1, <2>2, Locates DEF Reset, Kinds
  <2>3. CASE CreateThreads
    BY <1>1, <2>3, TraceStays DEF CreateThreads
  <2> QED BY <2>1, <2>2, <2>3
<1>5. TypeOK'
  BY <1>1, <1>2, <1>3, <1>4 DEF TypeOK, Files, Accesses
<1>6. Phases'
  BY <1>1, <1>2, <1>5 DEF Phases, LinesGoToTheFile
<1> QED BY <1>3, <1>4, <1>6 DEF IInv

\* The accesses of the threads, and what the trace prints about them.
LEMMA EvaluatePrints ==
  ASSUME Accesses, Evaluate
  PROVE  /\ output' = output
         /\ \A line \in {lines'.memory, lines'.register} :
               line \in {lines.memory, lines.register} \/ line.to = output
         /\ lines'.memory # lines.memory /\ lines.memory # NoLine =>
               (lines'.memory.sequential <=>
                   lines'.memory.address = lines.memory.address + WordSize)
<1>1. CASE \E address \in Addresses : Traced(inner, address) /\ ~inner.called
  <2>1. inner.kind \in Kinds
    BY <1>1, Calls DEF Accesses, TraceTypeOK
  <2> QED BY <1>1, <2>1, Prints
<1>2. CASE \E address \in Addresses : Traced(outer, address) /\ ~outer.called
  <2>1. outer.kind \in Kinds
    BY <1>2, Calls DEF Accesses, TraceTypeOK
  <2> QED BY <1>2, <2>1, Prints
<1>3. CASE UNCHANGED <<lines, output>>
  BY <1>3
<1> QED BY <1>1, <1>2, <1>3 DEF Evaluate, PerformArgument, Perform, LocateArgument,
           EndArgument, ArgumentValue, EndLocation, Value

LEMMA StepRunning ==
  ASSUME IInv, LocateAccess \/ EvaluateAccess \/ TraceDisable \/ TraceEnable \/ TraceArmState
  PROVE  IInv'
<1> USE DEF Running, LocateAccess, EvaluateAccess, TraceDisable, TraceEnable, TraceArmState
<1>1. /\ TypeOK /\ Files /\ Accesses /\ phase \in {"reset", "running"}
      /\ output = trace_file /\ LinesGoToTheFile
  BY DEF IInv, Phases
<1>2. /\ UNCHANGED <<phase, options, trace_file, resets, filesVars>> /\ search' = search
  BY DEF filesVars
<1>3. /\ Accesses' /\ output' = output
      /\ \A line \in {lines'.memory, lines'.register} :
            line \in {lines.memory, lines.register} \/ line.to = output
  <2>1. CASE LocateAccess
    BY <1>1, <2>1, Locates DEF Locate
  <2>2. CASE EvaluateAccess
    BY <1>1, <2>2, Evaluates, EvaluatePrints
  <2>3. CASE TraceDisable \/ TraceEnable
    BY <1>1, <2>3, Switches DEF trace_disable, trace_enable, Switched
  <2>4. CASE TraceArmState
    BY <1>1, <2>4, PrintsState
  <2> QED BY <2>1, <2>2, <2>3, <2>4
<1>4. Files'
  BY <1>1, <1>2, FilesStay
<1>5. TypeOK'
  BY <1>1, <1>2, <1>3, <1>4 DEF TypeOK, Files, Accesses
<1>6. LinesGoToTheFile'
  <2> SUFFICES ASSUME NEW line \in {lines'.memory, lines'.register}, line # NoLine
               PROVE  line.to = trace_file
    BY <1>2 DEF LinesGoToTheFile
  <2>1. CASE line \in {lines.memory, lines.register}
    BY <2>1, <1>1 DEF LinesGoToTheFile
  <2>2. CASE line.to = output
    BY <2>2, <1>1
  <2> QED BY <2>1, <2>2, <1>3
<1>7. Phases'
  BY <1>1, <1>2, <1>3, <1>5, <1>6 DEF Phases
<1> QED BY <1>3, <1>4, <1>7 DEF IInv

LEMMA StepDebug ==
  ASSUME IInv, Debug \/ Search
  PROVE  IInv'
<1>1. /\ TypeOK /\ Files /\ Accesses /\ Phases
  BY DEF IInv, Phases
<1>2. /\ UNCHANGED <<phase, options, trace_file, resets, traceVars>>
      /\ UNCHANGED <<lines, output, outer, inner>>
  BY DEF Debug, Search, traceVars
<1>3. Files' /\ Accesses'
  BY <1>1, <1>2, Searches, TraceStays DEF Debug, Search
<1>4. TypeOK'
  BY <1>1, <1>2, <1>3 DEF TypeOK, Files, Accesses
<1>5. phase # "options"
  BY <1>1 DEF Debug, Search, Searching, Probe, LastProbe, EndSearch, NoSearch, Phases
<1>6. Phases'
  BY <1>1, <1>2, <1>4, <1>5 DEF Phases, Idle, LinesGoToTheFile
<1> QED BY <1>3, <1>6 DEF IInv

LEMMA Stays ==
  ASSUME IInv, UNCHANGED vars
  PROVE  IInv'
<1>1. /\ UNCHANGED <<phase, options, trace_file, resets, filesVars, traceVars>>
      /\ UNCHANGED <<search, lines, output, outer, inner>>
  BY DEF vars, filesVars, traceVars
<1>2. Files' /\ Accesses'
  BY <1>1, FilesStay, TraceStays DEF IInv
<1>3. TypeOK'
  BY <1>1, <1>2 DEF IInv, Phases, TypeOK, Files, Accesses
<1>4. Phases'
  BY <1>1, <1>3 DEF IInv, Phases, Idle, LinesGoToTheFile
<1> QED BY <1>2, <1>4 DEF IInv

LEMMA Steps == IInv /\ [Next]_vars => IInv'
BY StepOptions, StepStart, StepRunning, StepDebug, Stays DEF Next, Exited

LEMMA Invariance == Spec => []IInv
BY Starts, Steps, PTL DEF Spec

-----------------------------------------------------------------------------
\* Every variable keeps its type; among them, the ends of the binary search are
\* never outside the table of debug.c.
THEOREM TypeCorrect == Spec => []TypeOK
<1>1. IInv => TypeOK
  BY DEF IInv, Phases
<1> QED BY <1>1, Invariance, PTL

\* The table of debug.c stays sorted, whatever names are given, in any order.
THEOREM TableSorted == Spec => []Sorted
<1>1. IInv => Sorted
  BY DEF IInv, Files
<1> QED BY <1>1, Invariance, PTL

\* The search of a debug message finds exactly the names that were given, for a
\* table of any size that is not overfull, and no write passes its end.
THEOREM SearchCorrect == Spec => []FindsNames
<1>1. IInv => FindsNames
  <2> SUFFICES ASSUME IInv PROVE FindsNames
    OBVIOUS
  <2>1. /\ Table /\ Window
    BY DEF IInv, Files
  <2>2. given.adds <= MaxFiles => ~overrun
    <3>1. given.adds \in Nat /\ MaxFiles \in Nat
      BY FilesAssumption DEF IInv, Files, FilesTypeOK
    <3> QED BY <3>1, <2>1 DEF Table
  <2> QED BY <2>1, <2>2 DEF FindsNames, Table, Window, Held
<1> QED BY <1>1, Invariance, PTL

\* The stack of locations is balanced and never has more than two entries.
THEOREM StackBalanced == Spec => []Balanced
<1>1. IInv => Balanced
  BY DEF IInv, Accesses
<1> QED BY <1>1, Invariance, PTL

\* The line of a write to a register has the location of that write.
THEOREM WritesAtTheirPlace == Spec => []WritesLocated
<1>1. IInv => WritesLocated
  BY DEF IInv, Accesses
<1> QED BY <1>1, Invariance, PTL

\* Every line, from those of the reset on, goes to the file of the trace.
THEOREM LinesInTheFile == Spec => []LinesGoToTheFile
<1>1. IInv => LinesGoToTheFile
  BY DEF IInv, Phases
<1> QED BY <1>1, Invariance, PTL

\* An access is reported as sequential exactly when it follows the address of
\* the line before.
THEOREM SequentialReported == Spec => SequentialLines
<1> DEFINE A == lines'.memory # lines.memory /\ lines.memory # NoLine =>
                  (lines'.memory.sequential <=>
                      lines'.memory.address = lines.memory.address + WordSize)
<1>1. IInv /\ [Next]_vars => [A]_traceVars
  <2> SUFFICES ASSUME IInv, Next PROVE A \/ lines' = lines
    BY DEF vars, traceVars
  <2>1. CASE EvaluateAccess
    BY <2>1, EvaluatePrints DEF EvaluateAccess, IInv
  <2>2. CASE TraceArmState
    BY <2>2, PrintsState DEF TraceArmState, Running, IInv
  <2>3. CASE ~EvaluateAccess /\ ~TraceArmState
    BY <2>3 DEF Next, OptionTrace, OptionDebug, OptionTraceFile, OptionExits, Start, Reset,
         CreateThreads, LocateAccess, TraceDisable, TraceEnable, Debug, Search, Exited,
         Running, trace_add, set_trace_file, Locate, trace_disable, trace_enable, Switched,
         traceVars, vars
  <2> QED BY <2>1, <2>2, <2>3
<1> QED BY <1>1, Invariance, PTL DEF Spec, SequentialLines
==============================================================================
