SPECIFICATION BuffersSpec
CONSTANTS
    Base = 2
    Size = 9
    Packets <- MCPackets
    Capacities = {1, 3}
    CountMod = 2
    Masked <- MCMasked
    RingValues <- MCRingValues
    RingCapacities = {0, 1, 2, 3}
INVARIANT IdleRingOK
PROPERTIES
    IsrImplementsQueue
    RingIsQueue
