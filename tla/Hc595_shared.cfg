SPECIFICATION Spec

CONSTANTS
    size = 2
    ByteBits = 2
    IrqNests = TRUE

PROPERTY
    ArmingUnseen
