CONSTANTS
    NRegs = 3
    Words = 3
SPECIFICATION Spec
INVARIANTS
    TypeOK
    AssertionsHold
PROPERTY Indivisible
