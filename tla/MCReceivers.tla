----------------------------- MODULE MCReceivers -----------------------------
(***************************************************************************)
(* The three receivers that an interrupt fills and a main loop empties,    *)
(* each at work in behaviours of its own: comstxetx by framing bytes,      *)
(* commodbus by silence, comat by line.                                    *)
(***************************************************************************)
EXTENDS ComStxEtx, Functions

CONSTANTS
    ModbusBytes, ModbusAddress, ModbusSize, SilenceTicks, ModbusChecksum(_), ModbusCountMod,
    AtBytes, AtSize, AtTimeout, Replies

ASSUME ModbusAssumption ==
    ModbusSize \in Nat /\ SilenceTicks \in Nat /\ ModbusCountMod \in Nat \ {0}
ASSUME AtAssumption == AtSize \in Nat

VARIABLES
    atWork,     \* the receiver this behaviour is about
    modbus, modbusPc, modbusSeen,
    at, atPc, atSeen

M == INSTANCE ComModbus WITH
    Byte <- ModbusBytes, Address <- ModbusAddress, Checksum <- ModbusChecksum,
    RxSize <- ModbusSize, TxSize <- ModbusSize,
    CountMod <- ModbusCountMod,
    driver <- modbus, pc <- modbusPc, seen <- modbusSeen
L == INSTANCE ComAt WITH
    Byte <- AtBytes, A <- 1, T <- 2, CR <- 3, LF <- 4, RxSize <- AtSize, RxTimeout <- AtTimeout,
    driver <- at, pc <- atPc, seen <- atSeen

modbusVars == <<modbus, modbusPc, modbusSeen>>
atVars == <<at, atPc, atSeen>>
receiverVars == <<atWork, vars, modbusVars, atVars>>

ReceiversInit ==
    /\ atWork \in {"comstxetx", "commodbus", "comat"}
    /\ Init /\ M!Init /\ L!Init

StxEtx(action) == atWork = "comstxetx" /\ action /\ UNCHANGED <<atWork, modbusVars, atVars>>
Modbus(action) == atWork = "commodbus" /\ action /\ UNCHANGED <<atWork, vars, atVars>>
At(action) == atWork = "comat" /\ action /\ UNCHANGED <<atWork, vars, modbusVars>>

ReceiversNext == StxEtx(Next) \/ Modbus(M!Next) \/ At(L!Next)

(* Of each receiver: the tick keeps coming and the main loop keeps calling   *)
(* Evaluate; nothing obliges the line to send.                               *)
ReceiversSpec ==
    /\ ReceiversInit /\ [][ReceiversNext]_receiverVars
    /\ WF_receiverVars(StxEtx(TimeoutCounter)) /\ WF_receiverVars(StxEtx(Evaluate))
    /\ WF_receiverVars(Modbus(M!TimeoutCounter)) /\ WF_receiverVars(Modbus(M!Evaluate))
    /\ WF_receiverVars(At(L!TimeoutCounter)) /\ WF_receiverVars(At(L!Evaluate))

-----------------------------------------------------------------------------
(* commodbus hands over, ignores or counts every frame the line's silence    *)
(* ended, and what it hands over is a frame that was built for this device;  *)
(* comat hands over whole lines, each with its budget and its own reply      *)
(* (modules ComModbus and ComAt).                                            *)
FramesKept == M!FramesKept /\ L!LinesKept

(* None stays in the middle of a frame: comstxetx and comat whatever         *)
(* arrives, commodbus once the line is quiet.                                *)
FramesEnd == NeverWedged /\ M!QuietLineFrees /\ L!NeverWedged

-----------------------------------------------------------------------------
(* For TLC.  comstxetx: four byte values and a weak two-byte check.          *)
MCByte == 0..3

(* A sum and a length, both modulo the alphabet, in place of crc16. *)
MCChecksum(s) ==
    << (FoldFunction(LAMBDA x, y : x + y, 1, s)) % 4, Len(s) % 4 >>

(* commodbus: the device's address, the broadcast and another's, a check     *)
(* whose two bytes differ, and a frame one byte past the shortest; comat:    *)
(* its four characters and another.                                          *)
MCAtBytes == 0 .. 4
MCModbusBytes == 0 .. 2

MCModbusChecksum(s) ==
    << (FoldFunction(LAMBDA x, y : x + y, 1, s)) % 3, Len(s) % 3 >>
=============================================================================
