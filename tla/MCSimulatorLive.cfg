SPECIFICATION FairSpec
CONSTANTS
    MemWords = 5
    Image <- MCFiniteImage
    Commands <- MCFiniteCommands
    MaxCommands = 3
    MaxIrqs = 2
PROPERTY Answered
PROPERTY IrqServed
PROPERTY SessionEnds
