--------------------------------- MODULE Pid ---------------------------------
(***************************************************************************)
(* The fixed point controller: pidControli32 on whatever errors come, and  *)
(* gains and limits that are changed while it runs.                        *)
(***************************************************************************)
EXTENDS Integers

CONSTANTS
    Gains,      \* [kp, ki, kd], in parts of Scale
    Limits,     \* [p, i, d, out], each a pair: the smallest and the largest
    Scale,      \* 2^PID_Q: 65536 in the code
    Top         \* the largest int32_t: 2^31 - 1

VARIABLES
    driver,     \* the pidci32_t
    tightened   \* History: the limits were changed since the last iteration

vars == <<driver, tightened>>

Word == -Top - 1 .. Top

Init ==
    /\ \E g \in Gains, l \in Limits :
         driver = [gains |-> g, limits |-> l, output |-> l.out[1], error |-> 0, lastError |-> 0,
                   partP |-> 0, partI |-> 0, partD |-> 0]
    /\ tightened = TRUE

-----------------------------------------------------------------------------
Clamp(value, pair) ==
    IF value > pair[2] THEN pair[2] ELSE IF value < pair[1] THEN pair[1] ELSE value

(* The accumulator is an int64_t: the sum that the clamp is given is whole.  *)
IntegralNarrow(error) ==  \* mutant: an int32_t, which wraps before the clamp
    Clamp(((driver.partI + error + Top + 1) % (2 * (Top + 1))) - Top - 1, driver.limits.i)
IntegralUnclamped(error) == driver.partI + error  \* mutant: windup
Integral(error) == Clamp(driver.partI + error, driver.limits.i)

(* The difference is an int32_t: past its ends it is anything.               *)
Derivatives(error) ==
    LET change == error - driver.lastError
    IN  {Clamp(c, driver.limits.d) : c \in IF change \in Word THEN {change} ELSE Word}

OutputUnclamped(p, i, d) ==  \* mutant: the sum is handed out as it is
    ((driver.gains.kp * p) + (driver.gains.ki * i) + (driver.gains.kd * d)) \div Scale
Output(p, i, d) ==
    Clamp(((driver.gains.kp * p) + (driver.gains.ki * i) + (driver.gains.kd * d)) \div Scale,
          driver.limits.out)

Control(error) ==
    \E d \in Derivatives(error) :
        LET p == Clamp(error, driver.limits.p)
            i == Integral(error)
        IN  /\ driver' = [driver EXCEPT !.error = error, !.lastError = error,
                                        !.partP = p, !.partI = i, !.partD = d,
                                        !.output = Output(p, i, d)]
            /\ tightened' = FALSE

ChangeCoefficients(gains) ==
    driver' = [driver EXCEPT !.gains = gains] /\ UNCHANGED tightened

ChangeLimits(limits) ==
    driver' = [driver EXCEPT !.limits = limits] /\ tightened' = TRUE

Next ==
    \/ \E error \in Word : Control(error)
    \/ \E g \in Gains : ChangeCoefficients(g)
    \/ \E l \in Limits : ChangeLimits(l)

-----------------------------------------------------------------------------
(* pidControli32's comment on windup.  Whatever errors came before and       *)
(* however the gains and limits were changed: the accumulator and the output *)
(* end an iteration inside their limits; an error that moves the accumulator *)
(* away from a limit moves it on that very call; and a change of gains       *)
(* discards nothing that was integrated.                                     *)
Inside(value, pair) == value \in pair[1] .. pair[2]
KeepsLimits ==
    [][LET before == driver.partI
           after == driver'.partI
           iterated == /\ ~tightened /\ ~tightened' /\ driver'.limits = driver.limits
                       /\ driver'.gains = driver.gains
       IN  /\ ~tightened' => /\ Inside(driver'.partI, driver'.limits.i)
                             /\ Inside(driver'.output, driver'.limits.out)
           /\ iterated =>
               /\ after > before => driver'.error > 0
               /\ after < before => driver'.error < 0
               /\ driver'.error > 0 => after > before \/ after = driver.limits.i[2]
               /\ driver'.error < 0 => after < before \/ after = driver.limits.i[1]]_vars
=============================================================================
