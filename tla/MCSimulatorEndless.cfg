SPECIFICATION FairSpec
CONSTANTS
    MemWords = 2
    Image <- MCEndlessImage
    Commands <- MCEndlessCommands
    MaxCommands = 2
    MaxIrqs = 1
PROPERTY IrqServed
