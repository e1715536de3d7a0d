------------------------------- MODULE Encoder -------------------------------
(***************************************************************************)
(* The quadrature decoder and the shaft it is fixed to.  Between two       *)
(* samples the shaft turns by up to two counts: by two a step is missed,   *)
(* and encoderUpdate sees that it was but not which way.                   *)
(***************************************************************************)
EXTENDS Integers

CONSTANTS
    Shafts,     \* where the shaft may stand, in counts; a range around zero
    Positions,  \* what encoderSetPosition is given
    MaxErrors   \* bound on errorCount

VARIABLES
    driver,     \* the encoder_t
    shaft,
    (* History, read by the properties only. *)
    home,       \* where the shaft stood when the position was zero
    errorsThen, \* errorCount when the position was last set
    lastStep    \* the last single count the shaft made between two samples

vars == <<driver, shaft, home, errorsThen, lastStep>>

(* The channels, ( A << 1 ) | B: forward is 00 01 11 10. *)
Channels(place) == <<0, 1, 3, 2>>[(place % 4) + 1]

Init ==
    /\ shaft \in 0 .. 3 /\ home = shaft
    /\ driver = [state |-> Channels(shaft), position |-> 0, direction |-> 0, errorCount |-> 0]
    /\ errorsThen = 0 /\ lastStep = 0

-----------------------------------------------------------------------------
StepTable == <<0, 1, -1, 0,  -1, 0, 0, 1,  1, 0, 0, -1,  0, -1, 1, 0>>

(* Both channels differ: the states are 0 and 3, or 1 and 2. *)
Diagonal(new) == driver.state + new = 3

(* The new state is taken over either way. *)
AfterErrorStaying(new) == [driver EXCEPT !.errorCount = @ + 1]  \* mutant: the old state stays
AfterError(new) == [driver EXCEPT !.errorCount = @ + 1, !.state = new]

AfterStep(new) ==
    LET step == StepTable[(driver.state * 4) + new + 1]
    IN  [driver EXCEPT !.position = @ + step, !.state = new,
                       !.direction = IF step # 0 THEN step ELSE @]

GuessedStep(new) ==  \* mutant: a diagonal counts as two forward
    IF Diagonal(new) THEN [driver EXCEPT !.position = @ + 2, !.state = new] ELSE AfterStep(new)
Update(new) == IF Diagonal(new) THEN AfterError(new) ELSE AfterStep(new)

Turn(by) ==
    /\ shaft + by \in Shafts /\ shaft' = shaft + by
    /\ driver.errorCount = MaxErrors => by \in -1 .. 1
    /\ driver' = Update(Channels(shaft + by))
    /\ lastStep' = IF by \in {-1, 1} THEN by ELSE lastStep
    /\ UNCHANGED <<home, errorsThen>>

SetPosition(position) ==
    /\ driver' = [driver EXCEPT !.position = position]
    /\ home' = shaft - position /\ errorsThen' = driver.errorCount
    /\ UNCHANGED <<shaft, lastStep>>

Next == (\E by \in -2 .. 2 : Turn(by)) \/ (\E p \in Positions : SetPosition(p))

-----------------------------------------------------------------------------
(* encoderUpdate's comment: a missed step costs counts, never the decoding.  *)
(* However the shaft turned, the position is off by an even number and by no *)
(* more than two counts for each error recorded since it was installed, so   *)
(* it is exact when there is none; and the direction is that of the last     *)
(* counted step.                                                             *)
Off == shaft - home - driver.position
Missed == 2 * (driver.errorCount - errorsThen)
CountsKept == Off % 2 = 0 /\ Off \in -Missed .. Missed /\ driver.direction = lastStep
=============================================================================
