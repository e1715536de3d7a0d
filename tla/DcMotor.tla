------------------------------- MODULE DcMotor -------------------------------
(***************************************************************************)
(* The motor driver: the state and duty it keeps, and the two bridge pins  *)
(* and the pwm it drives one callback at a time.                           *)
(***************************************************************************)
EXTENDS Integers

CONSTANTS
    Full        \* a duty of one; a duty is counted in parts of it

VARIABLES
    driver,     \* the dcmotor_t: duty and state
    high, low, pwm,     \* what the callbacks last drove
    pc,         \* the pin dcMotorBridgeState drives next, or "idle"
    (* History, read by the properties only. *)
    from,       \* what the pins drove when the bridge was last set
    commanded   \* dcMotorSetSpeed was called since

vars == <<driver, high, low, pwm, pc, from, commanded>>

NaN == -2 * Full
Requests == {NaN, -1} \cup 0 .. Full + 1

(* The states a caller may pass: the four of the enum, and one that is not.  *)
States == {"NO", "FORWARD", "BACKWARD", "LOCK", "UNKNOWN"}
Directions == {"FORWARD", "BACKWARD"}
High(state) == state \in {"FORWARD", "LOCK"}
Low(state) == state \in {"BACKWARD", "LOCK"}

(* What the motor is given. *)
Driven(h, l) == CASE h /\ ~l -> "FORWARD" [] l /\ ~h -> "BACKWARD" [] OTHER -> "none"

Init ==
    /\ driver = [duty |-> 0, state |-> "NO"]
    /\ high = FALSE /\ low = FALSE /\ pwm = 0 /\ pc = "idle"
    /\ from = "none" /\ commanded = FALSE

-----------------------------------------------------------------------------
ReversingAhead(state) == driver.state = "FORWARD" /\ state = "BACKWARD"  \* mutant: one way only
Reversing(state) ==
    driver.state \in Directions /\ state \in Directions /\ driver.state # state

BridgeStateKeepingDuty(state) == \* mutant: the pwm is stopped, the duty kept
    /\ pc = "idle" /\ pc' = "high"
    /\ driver' = [driver EXCEPT !.state = state]
    /\ pwm' = IF Reversing(state) THEN 0 ELSE pwm
    /\ from' = Driven(high, low) /\ commanded' = FALSE
    /\ UNCHANGED <<high, low>>

BridgeState(state) ==
    /\ pc = "idle" /\ pc' = "high"
    /\ \/ Reversing(state) /\ driver' = [duty |-> 0, state |-> state] /\ pwm' = 0
       \/ ~Reversing(state) /\ driver' = [driver EXCEPT !.state = state] /\ UNCHANGED pwm
    /\ from' = Driven(high, low) /\ commanded' = FALSE
    /\ UNCHANGED <<high, low>>

DrivePin ==
    /\ \/ pc = "high" /\ pc' = "low" /\ high' = High(driver.state) /\ UNCHANGED low
       \/ pc = "low" /\ pc' = "idle" /\ low' = Low(driver.state) /\ UNCHANGED high
    /\ UNCHANGED <<driver, pwm, from, commanded>>

(* A nan is above nothing. *)
Above(request, bound) == request # NaN /\ request > bound

AppliedRaw(request) == \* mutant: the clamp has two sides and lets a nan through
    IF Above(request, Full) THEN Full ELSE IF request = -1 THEN 0 ELSE request
Applied(request) ==
    IF Above(request, Full) THEN Full ELSE IF Above(request, 0) THEN request ELSE 0

SetSpeed(request) ==
    /\ pc = "idle"
    /\ driver' = [driver EXCEPT !.duty = Applied(request)]
    /\ pwm' = Applied(request) /\ commanded' = TRUE
    /\ UNCHANGED <<high, low, pc, from>>

Next ==
    \/ \E state \in States : BridgeState(state)
    \/ DrivePin
    \/ \E request \in Requests : SetSpeed(request)

-----------------------------------------------------------------------------
(* dcMotorBridgeState's comment: the bridge is never put across a motor that *)
(* is driven the other way, not even for the moment between two pins, but    *)
(* with the pwm at zero, where it stays until the caller sets a speed; and   *)
(* what dcMotorGetSpeed reports is what was put out, a fraction.             *)
DeadReversal ==
    /\ \A d \in Directions :
         from = d /\ ~commanded /\ driver.state \in Directions \ {d} => pwm = 0
    /\ pc = "idle" => high = High(driver.state) /\ low = Low(driver.state)
    /\ driver.duty = pwm /\ pwm \in 0 .. Full
=============================================================================
