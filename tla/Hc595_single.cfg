SPECIFICATION RegistersSpec

CONSTANTS
    size = 2
    ByteBits = 2
    IrqNests = FALSE

INVARIANT
    TypeOK

PROPERTIES
    DoneIsDone
    ArmingUnseen
    TransfersEnd
    ReadsWhole
