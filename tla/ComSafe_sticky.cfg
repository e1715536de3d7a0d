SPECIFICATION Spec
CONSTANTS
    SeqMod = 3
    timeout = 2
    CountMod = 4
    TicksPerCall = 1
PROPERTY FailedStays
