SPECIFICATION LinkSpec
CONSTANTS
    Byte <- MCByte
    stx = 1
    etx = 2
    dle = 3
    rxSize = 5
    rxTimeout = 1
    Checksum <- MCChecksum
    CountMod = 2
    Payloads <- MCPayloads
    txSize = 11
    MaxFrames = 3
    MaxNoisy = 2
    MaxFaults = 2
CHECK_DEADLOCK FALSE
INVARIANT CleanFrameArrives
PROPERTY ImplementsChannel
