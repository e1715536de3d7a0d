SPECIFICATION LoopSpec

CONSTANTS
    length = 2
    Periods = {1, 2}
    AgeMod = 2
    CountMod = 3
    Tables <- MCTables
    InitialStates = {"a"}
    Events = {"x", "y"}
    MaxDepth = 3

INVARIANTS
    TypeOK
    ElapsedIsDue
    OverrunsCounted
    EventsInOrder

PROPERTIES
    CalledWhenElapsed
    EveryDueRuns
