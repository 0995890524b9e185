SPECIFICATION Spec
CONSTANTS
    MaxFiles = 3
    Names = {1, 2, 3, 4}
    MaxAdds = 4
    Locations = {1, 2}
    Addresses = {0, 4, 8}
    WordSize = 4
    StackSize = 2
    TraceFiles = {first, last}
    MaxOptions = 4
INVARIANTS
    TypeOK
    FindsNames
    Balanced
    WritesLocated
    LinesGoToTheFile
PROPERTIES
    SequentialLines
    SearchEnds
