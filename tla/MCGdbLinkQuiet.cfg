SPECIFICATION FairSpec
CONSTANTS
    MaxErrorSize = 3
    Burst = 4
    MaxCommands = 5
    MaxDamage = 4
    MaxNoise = 0
INVARIANT TypeOK
PROPERTY ExactlyOnce
