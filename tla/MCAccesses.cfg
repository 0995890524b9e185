SPECIFICATION Spec
CONSTANTS
    W = 4
    ByteBits = 2
    NRegs = 3
    MemSize = 14
    Decimal = 2
    FloatWords = 1
    Requests <- FewRequests
    Images <- OneImage
    Files <- OneFile
    Offsets = {0, 13}
    Escape = 3
    Flip = 2
    Escaped = {2, 3}
    MaxPacket = 31
    MaxOps = 2
INVARIANTS
    TypeOK
    OffsetAsEncoded
    StopsOnlyWhenAsked
PROPERTY
    OneStore
