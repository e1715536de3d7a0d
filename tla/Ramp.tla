-------------------------------- MODULE Ramp --------------------------------
(***************************************************************************)
(* The fixed point setpoint ramp: rampIterationi32, called at a fixed rate *)
(* with a target that may be another on every call, until the caller keeps *)
(* to one.                                                                 *)
(***************************************************************************)
EXTENDS Integers

CONSTANTS
    One,        \* RAMP_ONE, a unit: 65536 in the code
    Velocities, Accelerations,  \* the limits rampIniti32 is given
    Targets,    \* where the ramp is sent and starts, in units
    TopBit      \* a power of four above what the square root is taken of: 2^62

VARIABLES
    driver,     \* the rampi32_t
    target,     \* the target of the last iteration
    (* History, read by the properties only. *)
    kept,       \* the caller keeps to this target
    calm        \* the target has not changed since the ramp last stood

vars == <<driver, target, kept, calm>>

Init ==
    /\ \E v \in Velocities, a \in Accelerations, start \in Targets :
         /\ v > 0 /\ a > 0
         /\ driver = [maxVelocity |-> v, maxAcceleration |-> a, position |-> start * One,
                      velocity |-> 0, arrived |-> TRUE]
         /\ target = start
    /\ kept = FALSE /\ calm = TRUE

-----------------------------------------------------------------------------
(* rampSquareRoot, a bit at a time from the top. *)
Roots == [root : Nat, rest : Nat, bit : 0 .. TopBit]
RootFrom[s \in Roots] ==
    LET half == s.root \div 2
        take == s.rest >= s.root + s.bit
    IN  IF s.bit = 0 THEN s.root
        ELSE RootFrom[[root |-> IF take THEN half + s.bit ELSE half,
                       rest |-> IF take THEN s.rest - (s.root + s.bit) ELSE s.rest,
                       bit  |-> s.bit \div 4]]
SquareRootLate(value) ==  \* mutant: the braking begins late
    2 * RootFrom[[root |-> 0, rest |-> value, bit |-> TopBit]]
SquareRoot(value) == RootFrom[[root |-> 0, rest |-> value, bit |-> TopBit]]

Abs(n) == IF n < 0 THEN -n ELSE n

DesiredUnbounded(remaining) ==  \* mutant: the velocity limit is not applied
    LET speed == SquareRoot(2 * driver.maxAcceleration * Abs(remaining))
    IN  IF remaining < 0 THEN -speed ELSE speed
Desired(remaining) ==
    LET envelope == SquareRoot(2 * driver.maxAcceleration * Abs(remaining))
        speed == IF envelope > driver.maxVelocity THEN driver.maxVelocity ELSE envelope
    IN  IF remaining < 0 THEN -speed ELSE speed

(* The velocity goes to the desired one by no more than the acceleration.    *)
Velocity(desired) ==
    LET change == desired - driver.velocity
    IN  IF change > driver.maxAcceleration THEN driver.velocity + driver.maxAcceleration
        ELSE IF change < -driver.maxAcceleration THEN driver.velocity - driver.maxAcceleration
        ELSE desired

ArrivesExactly(velocity, remaining) == remaining = 0  \* mutant: no final clamp
Arrives(velocity, remaining) == Abs(velocity) >= Abs(remaining)

Iteration(t) ==
    LET remaining == (t * One) - driver.position
        velocity == Velocity(Desired(remaining))
    IN  /\ \/ /\ Arrives(velocity, remaining)
              /\ driver' = [driver EXCEPT !.position = t * One, !.velocity = 0, !.arrived = TRUE]
           \/ /\ ~Arrives(velocity, remaining)
              /\ driver' = [driver EXCEPT !.position = @ + velocity, !.velocity = velocity,
                                          !.arrived = FALSE]
        /\ target' = t
        /\ calm' = IF driver.arrived THEN TRUE ELSE calm /\ t = target
        /\ UNCHANGED kept

(* The caller's choice. *)
Follow == \E t \in IF kept THEN {target} ELSE Targets : Iteration(t)
Keep == kept' = TRUE /\ UNCHANGED <<driver, target, calm>>

Next == Follow \/ Keep

-----------------------------------------------------------------------------
Between(a, b, c) == (a <= b /\ b <= c) \/ (c <= b /\ b <= a)

(* rampIteration's comments: the velocity needs no clamp of its own.  It     *)
(* never passes maxVelocity, nor does the setpoint move faster, whatever the *)
(* caller does with the target; it changes by no more than maxAcceleration   *)
(* but when the ramp arrives.  And one that was sent off from rest to a      *)
(* target that stays never passes the target or turns, stands on it, and     *)
(* has braked to a velocity near the root of maxAcceleration * maxVelocity   *)
(* when the final clamp takes the rest of it away.                           *)
KeepsLimits ==
    [][LET speed == Abs(driver.velocity)
       IN  /\ Abs(driver'.velocity) <= driver.maxVelocity
           /\ Abs(driver'.position - driver.position) <= driver.maxVelocity
           /\ ~driver'.arrived => Abs(driver'.velocity - driver.velocity) <= driver.maxAcceleration
           /\ driver'.arrived => driver'.position = target' * One /\ driver'.velocity = 0
           /\ calm' => Between(driver.position, driver'.position, target' * One)
           /\ calm' /\ driver'.arrived =>
                 speed * speed <= driver.maxAcceleration * (driver.maxVelocity + 3 * speed)]_vars

(* Once the target stays, the ramp arrives. *)
Arrived == kept ~> driver.arrived
=============================================================================
