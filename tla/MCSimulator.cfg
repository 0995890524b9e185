SPECIFICATION Spec
CONSTANTS
    MemWords = 5
    Image <- MCImage
    Commands <- MCCommands
    MaxCommands = 3
    MaxIrqs = 2
INVARIANT TypeOK
INVARIANT Exclusive
INVARIANT TraceCovers
INVARIANT NoBreakpointExecuted
INVARIANT StopsAtBreakpoint
INVARIANT ResetComplete
INVARIANT EndsAfterSession
PROPERTY Atomic
