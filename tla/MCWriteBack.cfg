CONSTANTS
    NRegs = 3
    Words = 3
SPECIFICATION Spec
PROPERTY WritesBack
