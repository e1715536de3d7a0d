------------------------------ MODULE MCSampled ------------------------------
(***************************************************************************)
(* The modules that a caller steps at a fixed rate, each at work in        *)
(* behaviours of its own: the software timer, the debounced input, the     *)
(* quadrature decoder, the motor driver, the setpoint ramp and the         *)
(* controller.                                                             *)
(***************************************************************************)
EXTENDS SoftTimer

CONSTANTS
    FilterCounts, Shafts, Positions, MaxErrors, Full,
    One, Velocities, Accelerations, Targets, TopBit,
    Gains, Limits, Scale, Top

ASSUME SignalsAssumption ==
    /\ FilterCounts \subseteq Nat /\ Full \in Nat \ {0}
    /\ Shafts \subseteq Int /\ Positions \subseteq Int

Pairs == {q \in Int \X Int : q[1] <= q[2]}

ASSUME ControllerAssumption ==
    /\ Scale \in Nat \ {0} /\ Top \in Nat
    /\ Gains \subseteq [kp : Int, ki : Int, kd : Int]
    /\ Limits \subseteq [p : Pairs, i : Pairs, d : Pairs, out : Pairs]

(* No odd number above one divides a power of two. *)
PowerOfTwo(s) == \A d \in 2 .. s : s % d = 0 => d % 2 = 0

(* The square root starts from the square of one. *)
ASSUME RampAssumption ==
    /\ Velocities \subseteq Int /\ Accelerations \subseteq Int /\ Targets \subseteq Int
    /\ One \in Nat
    /\ \E s \in 1 .. TopBit : TopBit = s * s /\ PowerOfTwo(s)

VARIABLES
    atWork,     \* the module this behaviour is about
    input, seen,
    encoder, shaft, home, errorsThen, lastStep,
    motor, high, low, pwm, motorPc, from, commanded,
    ramp, target, kept, calm,
    pid, tightened

I == INSTANCE BinInp WITH driver <- input
E == INSTANCE Encoder WITH driver <- encoder
D == INSTANCE DcMotor WITH driver <- motor, pc <- motorPc
R == INSTANCE Ramp WITH driver <- ramp
P == INSTANCE Pid WITH driver <- pid

inputVars == <<input, seen>>
encoderVars == <<encoder, shaft, home, errorsThen, lastStep>>
motorVars == <<motor, high, low, pwm, motorPc, from, commanded>>
rampVars == <<ramp, target, kept, calm>>
pidVars == <<pid, tightened>>
sampledVars == <<atWork, vars, inputVars, encoderVars, motorVars, rampVars, pidVars>>

(* The modules that are not at work start in one way, for size. *)
Any(S) == CHOOSE x \in S : TRUE
SampledInit ==
    /\ atWork \in {"softtimer", "bininp", "encoder", "dcmotor", "ramp", "pid"}
    /\ Init /\ I!Init /\ E!Init /\ D!Init /\ R!Init /\ P!Init
    /\ atWork # "softtimer" => mode = "PERIODIC" /\ period = Any(Periods)
    /\ atWork # "bininp" => input.filterCount = Any(FilterCounts)
    /\ atWork # "encoder" => shaft = 0
    /\ atWork # "ramp" => /\ target = Any(Targets) /\ ramp.maxVelocity = Any(Velocities)
                          /\ ramp.maxAcceleration = Any(Accelerations)
    /\ atWork # "pid" => pid.gains = Any(Gains) /\ pid.limits = Any(Limits)

Timer(action) ==
    /\ atWork = "softtimer" /\ action
    /\ UNCHANGED <<atWork, inputVars, encoderVars, motorVars, rampVars, pidVars>>
Input(action) ==
    /\ atWork = "bininp" /\ action
    /\ UNCHANGED <<atWork, vars, encoderVars, motorVars, rampVars, pidVars>>
Decoder(action) ==
    /\ atWork = "encoder" /\ action
    /\ UNCHANGED <<atWork, vars, inputVars, motorVars, rampVars, pidVars>>
Motor(action) ==
    /\ atWork = "dcmotor" /\ action
    /\ UNCHANGED <<atWork, vars, inputVars, encoderVars, rampVars, pidVars>>
Ramp(action) ==
    /\ atWork = "ramp" /\ action
    /\ UNCHANGED <<atWork, vars, inputVars, encoderVars, motorVars, pidVars>>
Controller(action) ==
    /\ atWork = "pid" /\ action
    /\ UNCHANGED <<atWork, vars, inputVars, encoderVars, motorVars, rampVars>>

SampledNext ==
    \/ Timer(Next) \/ Input(I!Next) \/ Decoder(E!Next)
    \/ Motor(D!Next) \/ Ramp(R!Next) \/ Controller(P!Next)

(* The timer's fairness (module SoftTimer), and the call that steps the ramp *)
(* keeps coming.                                                             *)
SampledSpec ==
    /\ SampledInit /\ [][SampledNext]_sampledVars
    /\ WF_sampledVars(Timer(Tick)) /\ WF_sampledVars(Timer(Continue))
    /\ WF_sampledVars(Ramp(R!Follow))

-----------------------------------------------------------------------------
(* What the sampled modules keep to, whatever the samples: a debounced level *)
(* and each of its rises, a position, a motor that is not reversed under     *)
(* power (modules BinInp, Encoder, DcMotor).                                 *)
SignalsKept == I!Debounced /\ E!CountsKept /\ D!DeadReversal

(* A setpoint inside its limits that brakes for its target, a controller     *)
(* inside its own that recovers (modules Ramp and Pid).                      *)
LimitsKept == R!KeepsLimits /\ P!KeepsLimits

(* What the caller waits for comes: a running timer expires, and a ramp      *)
(* whose target stays arrives (modules SoftTimer and Ramp).                  *)
EndsEventually == ExpiresEventually /\ R!Arrived

-----------------------------------------------------------------------------
(* Values for TLC: a shaft of nine counts, targets ahead, behind and equal,  *)
(* gains and limits one of which is at the ends of the accumulator's width.  *)
MCShafts == -4 .. 4
MCTargets == {-2, 0, 1, 3}
MCGains == {[kp |-> 2, ki |-> 1, kd |-> 1], [kp |-> 0, ki |-> 3, kd |-> 0]}
MCLimits ==
    {[p |-> <<-3, 3>>, i |-> <<-7, 7>>, d |-> <<-2, 2>>, out |-> <<0, 6>>],
     [p |-> <<-7, 7>>, i |-> <<-2, 5>>, d |-> <<-7, 7>>, out |-> <<-7, 7>>]}
=============================================================================
