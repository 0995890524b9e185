SPECIFICATION FairSpec
CONSTANTS
    MaxErrorSize = 3
    Burst = 4
    MaxCommands = 4
    MaxDamage = 2
    MaxNoise = 2
INVARIANT BufferInBounds
INVARIANT ExtraExecutions
INVARIANT RepliesLag
PROPERTY Replied
