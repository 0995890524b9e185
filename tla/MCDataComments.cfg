CONSTANTS
    W = 4
    ByteBits = 3
    NRegs = 3
    Values <- BoundaryValues
    Flags <- CarryAndOverflow
    Conds <- PassingAndFailing
SPECIFICATION Spec
PROPERTY
    SomeCommentHolds
