--------------------------- MODULE ShiftRegisters ---------------------------
(***************************************************************************)
(* The two shift register drivers: hc595 for outputs, hc597 for inputs,    *)
(* each on pins of its own and at work in behaviours of its own.           *)
(***************************************************************************)
EXTENDS Hc595

VARIABLES
    atWork,     \* the driver this behaviour is about
    inData, inState, inPhase, inByteIndex, inBitIndex, inPc, inI, inJ,
    clk, lod, latch, inChain, taken, inCalls

In == INSTANCE Hc597 WITH
    data <- inData, state <- inState, phase <- inPhase,
    byteIndex <- inByteIndex, bitIndex <- inBitIndex,
    pc <- inPc, i <- inI, j <- inJ, chain <- inChain, calls <- inCalls

inputs == <<inData, inState, inPhase, inByteIndex, inBitIndex, inPc, inI, inJ,
            clk, lod, latch, inChain, taken, inCalls>>
registersVars == <<atWork, vars, inputs>>

(* The chain of the driver that is not at work holds one thing, for size.    *)
RegistersInit ==
    /\ Init /\ In!Init
    /\ \/ atWork = "hc595" /\ latch = inData
       \/ atWork = "hc597" /\ chain = data /\ data = inData

Output(action) == atWork = "hc595" /\ action /\ UNCHANGED <<atWork, inputs>>
Input(action) == atWork = "hc597" /\ action /\ UNCHANGED <<atWork, vars>>

RegistersNext == Output(Next) \/ Input(In!Next)

(* The interrupts are periodic, the main loop goes on with its call. *)
RegistersSpec ==
    /\ RegistersInit /\ [][RegistersNext]_registersVars
    /\ WF_registersVars(Output(Interrupt)) /\ WF_registersVars(Output(Continue))
    /\ WF_registersVars(Input(In!Interrupt)) /\ WF_registersVars(Input(In!Continue))

-----------------------------------------------------------------------------
(* hc597's promise: what it reads is the chain's inputs of one moment, in    *)
(* the calls it says (module Hc597).                                         *)
ReadsWhole == In!DoneIsWhole

(* A transfer begun ends, of either driver (modules Hc595 and Hc597).        *)
TransfersEnd == ArmedIsDone /\ In!BegunIsDone
=============================================================================
