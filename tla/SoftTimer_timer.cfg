SPECIFICATION SampledSpec

CONSTANTS
    Periods = {1, 2, 3}
    AgeMod = 6
    TicksPerCall = 1
    FilterCounts = {0, 1, 2}
    Shafts <- MCShafts
    Positions = {0, 5}
    MaxErrors = 3
    Full = 2
    One = 4
    Velocities = {3, 7}
    Accelerations = {1, 2, 4}
    Targets <- MCTargets
    TopBit = 1024
    Gains <- MCGains
    Limits <- MCLimits
    Scale = 2
    Top = 7

INVARIANTS
    TypeOK
    NoneLost
    SignalsKept

PROPERTIES
    OnTime
    EndsEventually
    LimitsKept
