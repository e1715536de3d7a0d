SPECIFICATION Spec
CONSTANTS
    Base = 4
    WordBits = 6
    FracBits = 3
    TextBits = 10
    TextFrac = 5
    DecimalsMax = 3
    ReadDigits = 3
    AdlerBase = 251
    AdlerHalf = 256
    Elements <- MCElements
    MaxLen <- MCMaxLen
    RootLimit = 67108864
    MaxBurst = 5
CHECK_DEADLOCK FALSE
INVARIANTS
    FramesInvert
    OctetsKept
    OrderedAndFound
    ResultsNearest
