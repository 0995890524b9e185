SPECIFICATION Spec
CONSTANTS
    Alphabet = {0, 1, 2, 3, 4, 5, 6, 7}
    MaxBytes = 6
    BufSize = 3
    ReadSize = 2
INVARIANTS
    TypeOK
    WithinBuffer
    NoWaiting
PROPERTIES
    Tokenises
    Drains
