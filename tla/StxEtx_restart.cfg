SPECIFICATION ReceiversSpec
CONSTANTS
    Byte <- MCByte
    stx = 1
    etx = 2
    dle = 3
    rxSize = 4
    rxTimeout = 1
    Checksum <- MCChecksum
    CountMod = 3
    ModbusBytes <- MCModbusBytes
    ModbusAddress = 1
    ModbusSize = 5
    ModbusCountMod = 2
    SilenceTicks = 2
    ModbusChecksum <- MCModbusChecksum
    AtBytes <- MCAtBytes
    AtSize = 5
    AtTimeout = 1
    Replies = {1, 2}
INVARIANT EveryFrameHasBudget
