SPECIFICATION LayersSpec
CONSTANTS
    SeqMod = 4
    timeout = 2
    CountMod = 2
    TicksPerCall = 1
    Rate = 1
    MaxDelay = 2
    MaxInFlight = 3
    Materials <- MCMaterials
    Payloads <- MCPayloads
    TagSize = 4
    RxSize = 1
    TxSize = 12
    CounterMax = 2
    MaxFrames = 3
    MaxResumes = 1
INVARIANT CountersTakenOnce
