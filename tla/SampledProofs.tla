--------------------------- MODULE SampledProofs ----------------------------
(***************************************************************************)
(* The modules stepped at a fixed rate, for every value of their           *)
(* constants.  The timer, however many ticks come inside a call: its       *)
(* counter stays close to a period, no expiry is lost or reported twice,   *)
(* and a timer that no call was changing expires on the multiples of its   *)
(* period and nowhere else.  Then the debounced input, the quadrature      *)
(* decoder and the motor driver, and last the controller and the ramp,     *)
(* each by an invariant of its own that the steps of the others leave      *)
(* alone.                                                                  *)
(***************************************************************************)
EXTENDS MCSampled, Counting

Starting == pc \in {"startFlag", "startState"}

(* The types alone. *)
Base ==
    /\ mode \in Modes /\ period \in Periods
    /\ state \in States /\ expired \in BOOLEAN /\ counter \in Nat
    /\ pc \in Labels /\ ticks \in 0..TicksPerCall
    /\ age \in 0..AgeMod - 1 /\ unreported \in BOOLEAN /\ settled \in BOOLEAN

(* Where the counter stands: a running timer is below its period, but that a *)
(* tick inside softtimerStart may have brought it to the period, or a tick   *)
(* inside softtimerChangePeriod past it.                                     *)
Near ==
    /\ \E p \in Periods : counter <= p \/ (TicksPerCall > 0 /\ counter <= p + 1)
    /\ state = "RUNNING" => \E p \in Periods : counter <= p
    /\ (state = "RUNNING" /\ pc # "clearCounter") \/ Starting
         => counter < period \/ (TicksPerCall > 0 /\ counter = period)
    /\ state = "RUNNING" /\ Starting => counter < period

(* What is unreported, in the middle of a read too. *)
Reports ==
    /\ pc = "idle" => ticks = 0
    /\ pc # "clearFlag" => (unreported <=> expired)
    /\ pc = "clearFlag" /\ ticks = 0 => ~unreported

(* The counter of a timer no call was changing counts along with its age.    *)
Phase ==
    /\ settled /\ state = "RUNNING" => counter < period /\ age % period = counter
    /\ Starting => ~settled /\ (ticks = 0 => counter = 0 /\ age = 0)

TimerInv == Base /\ Near /\ Reports /\ Phase

USE DEF Modes, States, Labels

-----------------------------------------------------------------------------
LEMMA Constants ==
    /\ Periods \subseteq Nat \ {0} /\ AgeMod \in Nat \ {0} /\ TicksPerCall \in Nat
    /\ 0 \in 0 .. AgeMod - 1 /\ 0 \in 0 .. TicksPerCall
BY TimerAssumption

USE Constants

LEMMA TypeFollows == TimerInv => TypeOK
<1> SUFFICES ASSUME TimerInv PROVE TypeOK
    OBVIOUS
<1>1. PICK p \in Periods : counter <= p \/ (TicksPerCall > 0 /\ counter <= p + 1)
    BY DEF TimerInv, Near
<1>2. counter <= p + TicksPerCall
    BY <1>1 DEF TimerInv, Base
<1> QED BY <1>2 DEF TimerInv, Base, TypeOK

LEMMA ZeroMod == ASSUME NEW p \in Nat \ {0} PROVE 0 % p = 0
<1>1. 0 = p * 0 + 0 /\ 0 \in 0 .. p - 1
    OBVIOUS
<1> QED BY <1>1, ModIs

LEMMA InitTimer == Init => TimerInv
<1> SUFFICES ASSUME Init PROVE TimerInv
    OBVIOUS
<1>1. period \in Periods /\ counter <= period /\ period \in Nat \ {0}
    BY DEF Init
<1>2. Base
    BY <1>1 DEF Init, Base
<1>3. Near
    BY <1>1 DEF Init, Near, Starting
<1> QED BY <1>2, <1>3 DEF Init, TimerInv, Reports, Phase, Starting

-----------------------------------------------------------------------------
(* The main loop's steps. *)

LEMMA TimerMain ==
    ASSUME TimerInv,
           \/ StartCounter \/ Stop \/ Continue
           \/ \E answer \in BOOLEAN : ReadExpired(answer)
           \/ \E p \in Periods : ChangePeriod(p)
    PROVE  TimerInv'
<1> USE DEF TimerInv, Base, fields
<1>0. period \in Nat \ {0}
    OBVIOUS
<1>1. CASE StartCounter
  <2>1. Base'
      BY <1>1 DEF StartCounter
  <2>2. Near'
      BY <1>1, <1>0 DEF StartCounter, Near, Starting
  <2>3. Reports'
      BY <1>1 DEF StartCounter, Reports
  <2>4. Phase'
      BY <1>1, <1>0 DEF StartCounter, Phase, Starting
  <2> QED BY <2>1, <2>2, <2>3, <2>4
<1>2. CASE Stop
  <2>1. Base'
      BY <1>2 DEF Stop
  <2>2. Near'
      BY <1>2 DEF Stop, Near, Starting
  <2>3. Reports'
      BY <1>2 DEF Stop, Reports
  <2>4. Phase'
      BY <1>2 DEF Stop, Phase, Starting
  <2> QED BY <2>1, <2>2, <2>3, <2>4
<1>3. CASE StartFlag
  <2>1. Base'
      BY <1>3 DEF StartFlag
  <2>2. Near'
      BY <1>3 DEF StartFlag, Near, Starting
  <2>3. Reports'
      BY <1>3 DEF StartFlag, Reports
  <2>4. Phase'
      BY <1>3 DEF StartFlag, Phase, Starting
  <2> QED BY <2>1, <2>2, <2>3, <2>4
<1>4. CASE StartState
  <2>1. Base'
      BY <1>4 DEF StartState
  <2>2. Near'
      BY <1>4, <1>0 DEF StartState, Near, Starting
  <2>3. Reports'
      BY <1>4 DEF StartState, Reports
  <2>4. Phase'
      BY <1>4, <1>0, ZeroMod DEF StartState, Phase, Starting
  <2> QED BY <2>1, <2>2, <2>3, <2>4
<1>5. CASE ClearExpired
  <2>1. Base'
      BY <1>5 DEF ClearExpired
  <2>2. Near'
      BY <1>5 DEF ClearExpired, Near, Starting
  <2>3. Reports'
      BY <1>5 DEF ClearExpired, Reports
  <2>4. Phase'
      BY <1>5 DEF ClearExpired, Phase, Starting
  <2> QED BY <2>1, <2>2, <2>3, <2>4
<1>6. CASE ChangeClearCounter
  <2>1. Base'
      BY <1>6 DEF ChangeClearCounter
  <2>2. Near'
      BY <1>6, <1>0 DEF ChangeClearCounter, Near, Starting
  <2>3. Reports'
      BY <1>6 DEF ChangeClearCounter, Reports
  <2>4. Phase'
      BY <1>6, <1>0, ZeroMod DEF ChangeClearCounter, Phase, Starting
  <2> QED BY <2>1, <2>2, <2>3, <2>4
<1>7. CASE \E answer \in BOOLEAN : ReadExpired(answer)
  <2>1. Base'
      BY <1>7 DEF ReadExpired
  <2>2. Near'
      BY <1>7 DEF ReadExpired, Near, Starting
  <2>3. Reports'
    <3>1. pc = "idle" /\ pc' = "clearFlag" /\ ticks' = ticks
        BY <1>7 DEF ReadExpired
    <3>2. PICK answer \in BOOLEAN : answer = expired /\ unreported' = (unreported /\ ~answer)
        BY <1>7, Zenon DEF ReadExpired
    <3>3. unreported <=> expired
        BY <3>1 DEF Reports
    <3>4. ~unreported'
        BY <3>2, <3>3, Zenon
    <3> QED BY <3>1, <3>4 DEF Reports
  <2>4. Phase'
      BY <1>7 DEF ReadExpired, Phase, Starting
  <2> QED BY <2>1, <2>2, <2>3, <2>4
<1>8. CASE \E p \in Periods : ChangePeriod(p)
  <2>1. Base'
      BY <1>8 DEF ChangePeriod
  <2>2. Near'
      BY <1>8 DEF ChangePeriod, Near, Starting
  <2>3. Reports'
      BY <1>8 DEF ChangePeriod, Reports
  <2>4. Phase'
      BY <1>8 DEF ChangePeriod, Phase, Starting
  <2> QED BY <2>1, <2>2, <2>3, <2>4
<1> QED BY <1>1, <1>2, <1>3, <1>4, <1>5, <1>6, <1>7, <1>8 DEF Continue

-----------------------------------------------------------------------------
(* softtimerTick. *)

LEMMA AgeMultiple ==
    ASSUME NEW p \in Periods, NEW a \in 0 .. AgeMod - 1
    PROVE  (a + 1) % AgeMod \in 0 .. AgeMod - 1 /\ ((a + 1) % AgeMod) % p = (a + 1) % p
<1>1. AgeMod % p = 0 /\ AgeMod \in Nat \ {0} /\ p \in Nat \ {0}
    BY TimerAssumption
<1>2. \A m \in Nat \ {0} : m % p = 0 => \A b \in 0 .. m - 1 :
         (b + 1) % m \in 0 .. m - 1 /\ ((b + 1) % m) % p = (b + 1) % p
    BY <1>1, ModOfMultiple
<1> QED BY <1>1, <1>2, Zenon

(* The age of a timer counts on, and comes around with its counter.          *)
LEMMA AgeStep ==
    ASSUME Base, NEW p \in Periods
    PROVE  /\ (age + 1) % AgeMod \in 0 .. AgeMod - 1
           /\ ((age + 1) % AgeMod) % p = (age + 1) % p
           /\ age % p \in 0 .. p - 1
           /\ (age + 1) % p = IF (age % p) + 1 = p THEN 0 ELSE (age % p) + 1
<1>1. AgeMod % p = 0
    BY TimerAssumption
<1>2. p \in Nat \ {0} /\ age \in 0 .. AgeMod - 1 /\ age \in Nat
    BY DEF Base
<1>3. AgeMod \in Nat \ {0}
    OBVIOUS
<1>4. (age + 1) % AgeMod \in 0 .. AgeMod - 1 /\ ((age + 1) % AgeMod) % p = (age + 1) % p
    BY <1>2, AgeMultiple
<1>5. age % p \in 0 .. p - 1 /\ (age + 1) % p = IF (age % p) + 1 = p THEN 0 ELSE (age % p) + 1
    BY <1>2, ModSucc
<1> QED BY <1>4, <1>5

LEMMA TimerTick ==
    ASSUME TimerInv, Tick
    PROVE  TimerInv'
<1> USE DEF TimerInv, Base
<1>1. /\ ticks' \in 0 .. TicksPerCall
      /\ pc = "idle" => ticks' = ticks
      /\ pc # "idle" => ticks' > 0 /\ TicksPerCall > 0
      /\ UNCHANGED <<mode, period, pc, settled>>
    BY DEF Tick
<1>2. period \in Nat \ {0}
    OBVIOUS
<1>3. CASE state # "RUNNING"
  <2>1. UNCHANGED <<counter, state, expired, age, unreported>>
      BY <1>3 DEF Tick
  <2>2. Base'
      BY <1>1, <2>1
  <2>3. Near'
      BY <1>1, <2>1 DEF Near, Starting
  <2>4. Reports' /\ Phase'
      BY <1>1, <1>3, <2>1 DEF Reports, Phase, Starting
  <2> QED BY <2>2, <2>3, <2>4
<1>4. CASE state = "RUNNING" /\ CountOn
  <2>1. /\ counter' = counter + 1 /\ counter + 1 < period
        /\ UNCHANGED <<state, expired, unreported>>
        /\ age' = (age + 1) % AgeMod
      BY <1>2, <1>4 DEF Tick, CountOn, Reached, Expire
  <2>2. Base'
      BY <1>1, <2>1, AgeStep
  <2>3. Near'
      BY <1>1, <1>2, <2>1 DEF Near, Starting
  <2>4. Reports'
      BY <1>1, <2>1 DEF Reports
  <2>5. Phase'
      BY <1>1, <1>2, <1>4, <2>1, AgeStep DEF Phase, Starting
  <2> QED BY <2>2, <2>3, <2>4, <2>5
<1>5. CASE state = "RUNNING" /\ Expire
  <2>1. /\ counter + 1 >= period /\ expired' = TRUE /\ unreported' = TRUE
        /\ age' = (age + 1) % AgeMod
        /\ \/ counter' = counter + 1 - period /\ state' = state
           \/ counter' = counter + 1 /\ state' = "EXPIRED"
      BY <1>2, <1>5 DEF Tick, CountOn, Reached, Expire
  <2>2. Base'
      BY <1>1, <1>2, <2>1, AgeStep
  <2>3. Near'
    <3>1. PICK p \in Periods : counter <= p
        BY <1>5 DEF Near
    <3>2. CASE counter' = counter + 1 - period /\ state' = state
        BY <1>1, <1>2, <1>5, <2>1, <3>1, <3>2 DEF Near, Starting
    <3>3. CASE counter' = counter + 1 /\ state' = "EXPIRED"
      <4>1. Starting => counter' = period /\ TicksPerCall > 0
          BY <1>1, <1>2, <1>5, <2>1, <3>3 DEF Near, Starting
      <4>2. \E q \in Periods : counter' <= q \/ (TicksPerCall > 0 /\ counter' <= q + 1)
        <5>1. CASE pc = "clearCounter"
            BY <1>1, <3>1, <3>3, <5>1
        <5>2. CASE pc # "clearCounter"
            BY <1>2, <1>5, <3>3, <5>2 DEF Near
        <5> QED BY <5>1, <5>2
      <4>3. state' # "RUNNING" /\ (Starting' => counter' < period' \/ (TicksPerCall > 0 /\ counter' = period'))
          BY <1>1, <3>3, <4>1 DEF Starting
      <4>4. \E q \in Periods' : counter' <= q \/ (TicksPerCall' > 0 /\ counter' <= q + 1)
          BY <4>2
      <4> QED BY <4>3, <4>4 DEF Near
    <3> QED BY <2>1, <3>2, <3>3
  <2>4. Reports'
      BY <1>1, <2>1 DEF Reports
  <2>5. Phase'
      BY <1>1, <1>2, <1>5, <2>1, AgeStep DEF Phase, Starting
  <2> QED BY <2>2, <2>3, <2>4, <2>5
<1> QED BY <1>3, <1>4, <1>5 DEF Tick

LEMMA TimerStutters == TimerInv /\ UNCHANGED vars => TimerInv'
BY DEF TimerInv, Base, Near, Reports, Phase, Starting, vars, fields

THEOREM TimerInvariant == Spec => []TimerInv
<1>1. TimerInv /\ [Next]_vars => TimerInv'
    BY TimerMain, TimerTick, TimerStutters DEF Next
<1> QED BY InitTimer, <1>1, PTL DEF Spec

-----------------------------------------------------------------------------
(* Types, and a counter within the ticks of one call of a period. *)
THEOREM TypeCorrect == Spec => []TypeOK
BY TimerInvariant, TypeFollows, PTL

(* No expiry is lost but the one that softtimerExpired's comment names, and  *)
(* none is reported twice.                                                   *)
THEOREM NoneIsLost == Spec => []NoneLost
<1>1. TimerInv => NoneLost
    BY DEF TimerInv, Reports, NoneLost
<1> QED BY <1>1, TimerInvariant, PTL

(* A timer that no call was changing is below its period when a tick comes,  *)
(* and expires on the ticks that are multiples of its period and no other.   *)
THEOREM ExpiresOnTime == Spec => OnTime
<1>1. TimerInv /\ Tick /\ state = "RUNNING" /\ settled =>
        /\ counter < period
        /\ (age + 1) % period = 0 <=> counter' = 0 \/ state' = "EXPIRED"
  <2> SUFFICES ASSUME TimerInv, Tick, state = "RUNNING", settled
               PROVE  /\ counter < period
                      /\ (age + 1) % period = 0 <=> counter' = 0 \/ state' = "EXPIRED"
      OBVIOUS
  <2>1. counter < period /\ age % period = counter /\ counter \in Nat /\ period \in Nat \ {0}
      BY DEF TimerInv, Phase, Base
  <2>2. (age + 1) % period = IF counter + 1 = period THEN 0 ELSE counter + 1
      BY <2>1, AgeStep DEF TimerInv, Base
  <2>3. CASE CountOn
      BY <2>1, <2>2, <2>3 DEF CountOn, Reached
  <2>4. CASE Expire
      BY <2>1, <2>2, <2>4 DEF Expire, Reached
  <2> QED BY <2>1, <2>3, <2>4 DEF Tick
<1>2. TimerInv /\ [Next]_vars =>
        [Tick /\ state = "RUNNING" /\ settled =>
           /\ counter < period
           /\ (age + 1) % period = 0 <=> counter' = 0 \/ state' = "EXPIRED"]_vars
    BY <1>1
<1> QED BY <1>2, TimerInvariant, PTL DEF Spec, OnTime

-----------------------------------------------------------------------------
(* The debounced input: the counter is the run of the level that is not the  *)
(* output.                                                                   *)
InputInv ==
    /\ input \in [filterCount : Nat, filterCounter : Nat, output : BOOLEAN, rising : BOOLEAN]
    /\ seen \in [level : BOOLEAN, run : Nat, stood : BOOLEAN, rose : BOOLEAN]
    /\ input.filterCounter <= input.filterCount
    /\ seen.level = input.output => input.filterCounter = 0
    /\ seen.level # input.output => input.filterCounter = seen.run
    /\ I!Debounced

DecoderInv ==
    /\ shaft \in Int /\ home \in Int /\ errorsThen \in Int /\ lastStep \in -1 .. 1
    /\ encoder \in [state : 0 .. 3, position : Int, direction : -1 .. 1, errorCount : Int]
    /\ encoder.state = E!Channels(shaft)
    /\ E!CountsKept

MotorInv ==
    /\ motor \in [duty : 0 .. Full, state : D!States]
    /\ high \in BOOLEAN /\ low \in BOOLEAN /\ commanded \in BOOLEAN
    /\ motorPc \in {"idle", "high", "low"}
    /\ motorPc = "low" => high = D!High(motor.state)
    /\ D!DeadReversal

LEMMA InputStep == ASSUME InputInv, I!Next PROVE InputInv'
<1>1. ASSUME NEW level \in BOOLEAN, I!Update(level) PROVE InputInv'
  <2>1. CASE level = input.output
      BY <1>1, <2>1 DEF I!Update, I!Again, I!Noted, I!Debounced, InputInv
  <2>2. CASE level # input.output /\ ~I!Accepts(input.filterCounter + 1)
      BY <1>1, <2>2 DEF I!Update, I!Accepts, I!Noted, I!Debounced, InputInv
  <2>3. CASE level # input.output /\ I!Accepts(input.filterCounter + 1)
    <3>1. input' = [input EXCEPT !.rising = @ \/ ~input.output,
                                 !.output = level, !.filterCounter = 0]
        BY <1>1, <2>3 DEF I!Update
    <3>2. seen'.level = level /\ seen'.run \in Nat /\ seen'.stood = level
        BY <1>1, <2>3 DEF I!Update, I!Accepts, I!Noted, I!Debounced, InputInv
    <3>3. seen'.rose = (seen.rose \/ (level /\ ~seen.stood))
        BY <1>1, <3>2 DEF I!Update, I!Noted
    <3>4. seen' \in [level : BOOLEAN, run : Nat, stood : BOOLEAN, rose : BOOLEAN]
        BY <1>1, <3>2 DEF I!Update, I!Noted
    <3>5. input'.rising = seen'.rose
        BY <2>3, <3>1, <3>3 DEF I!Debounced, InputInv
    <3>6. /\ input'.filterCount = input.filterCount /\ input'.filterCounter = 0
          /\ input'.output = level /\ input'.rising \in BOOLEAN
        BY <3>1, <2>3 DEF InputInv
    <3>7. input' \in [filterCount : Nat, filterCounter : Nat, output : BOOLEAN, rising : BOOLEAN]
        BY <3>1, <3>6 DEF InputInv
    <3>8. seen'.level = input'.output /\ I!Debounced'
        BY <3>2, <3>5, <3>6 DEF I!Debounced
    <3>9. input'.filterCounter <= input'.filterCount
        BY <3>6 DEF InputInv
    <3> QED BY <3>4, <3>6, <3>7, <3>8, <3>9 DEF InputInv
  <2> QED BY <2>1, <2>2, <2>3
<1>2. ASSUME I!GetRisingValue PROVE InputInv'
    BY <1>2 DEF I!GetRisingValue, I!Debounced, InputInv
<1> QED BY <1>1, <1>2 DEF I!Next

LEMMA MotorStep == ASSUME MotorInv, D!Next PROVE MotorInv'
<1> USE DEF D!States, D!Directions
<1>1. ASSUME NEW s \in D!States, D!BridgeState(s) PROVE MotorInv'
  <2>1. motor' \in [duty : 0 .. Full, state : D!States] /\ motor'.duty = pwm' /\ motor'.state = s
    BY <1>1, SignalsAssumption DEF D!BridgeState, D!DeadReversal, MotorInv
  <2>2. from' \in D!Directions => motor.state = from'
    BY <1>1 DEF D!BridgeState, D!Driven, D!DeadReversal, D!High, D!Low, MotorInv
  <2>3. ASSUME NEW d \in D!Directions, from' = d, s \in D!Directions \ {d} PROVE pwm' = 0
    BY <1>1, <2>2, <2>3 DEF D!BridgeState, D!Reversing
  <2>4. motorPc' = "high" /\ ~commanded' /\ UNCHANGED <<high, low>>
    BY <1>1 DEF D!BridgeState
  <2>5. motorPc' # "idle" /\ motor'.duty = pwm' /\ pwm' \in 0 .. Full
    BY <2>1, <2>4
  <2>6. D!DeadReversal'
    BY <2>1, <2>3, <2>5, Zenon DEF D!DeadReversal
  <2>7. motorPc' \in {"idle", "high", "low"} /\ motorPc' # "low"
    BY <2>4
  <2>8. high' \in BOOLEAN /\ low' \in BOOLEAN /\ commanded' \in BOOLEAN
    BY <1>1 DEF D!BridgeState, MotorInv
  <2> QED BY <2>1, <2>6, <2>7, <2>8, Zenon DEF MotorInv
<1>2. ASSUME D!DrivePin PROVE MotorInv'
  <2>1. CASE motorPc = "high"
    BY <1>2, <2>1 DEF D!DrivePin, D!DeadReversal, D!High, MotorInv
  <2>2. CASE motorPc = "low"
    BY <1>2, <2>2 DEF D!DrivePin, D!DeadReversal, D!Low, MotorInv
  <2> QED BY <1>2, <2>1, <2>2 DEF D!DrivePin
<1>3. ASSUME NEW r \in D!Requests, D!SetSpeed(r) PROVE MotorInv'
  <2>1. D!Applied(r) \in 0 .. Full
    BY SignalsAssumption DEF D!Applied, D!Above, D!Requests, D!NaN
  <2> QED BY <1>3, <2>1 DEF D!SetSpeed, D!DeadReversal, D!High, D!Low, MotorInv
<1> QED BY <1>1, <1>2, <1>3 DEF D!Next

(* Where a shaft of four positions a turn stands after up to two counts. *)
LEMMA Quarter == ASSUME NEW s \in Int, NEW by \in -2 .. 2 PROVE
  /\ s % 4 \in 0 .. 3
  /\ by = 0 => (s + by) % 4 = s % 4
  /\ by = 1 => (s + by) % 4 = IF s % 4 = 3 THEN 0 ELSE (s % 4) + 1
  /\ by = -1 => (s + by) % 4 = IF s % 4 = 0 THEN 3 ELSE (s % 4) - 1
  /\ by \in {-2, 2} => (s + by) % 4 = IF s % 4 < 2 THEN (s % 4) + 2 ELSE (s % 4) - 2
  OBVIOUS

LEMMA Parity == ASSUME NEW k \in Int, NEW by \in {-2, 2}, k % 2 = 0 PROVE (k + by) % 2 = 0
  OBVIOUS

LEMMA DecoderStep == ASSUME DecoderInv, E!Next PROVE DecoderInv'
<1>0. Shafts \subseteq Int /\ Positions \subseteq Int
    BY SignalsAssumption
<1>1. ASSUME NEW p \in Positions, E!SetPosition(p) PROVE DecoderInv'
  <2>1. /\ encoder' = [encoder EXCEPT !.position = p]
        /\ home' = shaft - p /\ errorsThen' = encoder.errorCount
        /\ shaft' = shaft /\ lastStep' = lastStep
    BY <1>1 DEF E!SetPosition
  <2>2. E!CountsKept'
    BY <1>0, <2>1 DEF E!CountsKept, E!Off, E!Missed, DecoderInv
  <2> QED BY <1>0, <2>1, <2>2 DEF DecoderInv, E!Channels
<1>2. ASSUME NEW by \in -2 .. 2, E!Turn(by) PROVE DecoderInv'
  <2> DEFINE new == E!Channels(shaft + by)
  <2>1. /\ shaft' = shaft + by /\ shaft' \in Int /\ encoder' = E!Update(new)
        /\ lastStep' = IF by \in {-1, 1} THEN by ELSE lastStep
        /\ UNCHANGED <<home, errorsThen>>
    BY <1>0, <1>2 DEF E!Turn
  <2>9. /\ encoder \in [state : 0 .. 3, position : Int, direction : -1 .. 1, errorCount : Int]
        /\ E!Off \in Int /\ E!Missed \in Int /\ lastStep \in -1 .. 1
    BY DEF DecoderInv, E!Off, E!Missed
  <2>2. encoder.state = E!Channels(shaft) /\ new \in 0 .. 3 /\ new = E!Channels(shaft')
    BY <2>1, Quarter DEF DecoderInv, E!Channels
  <2>3. CASE by \in {-2, 2}
    <3>1. E!Diagonal(new)
      BY <2>2, <2>3, Quarter DEF E!Diagonal, E!Channels, DecoderInv
    <3>2. encoder' = [encoder EXCEPT !.errorCount = @ + 1, !.state = new]
      BY <2>1, <3>1 DEF E!Update, E!AfterError
    <3>3. /\ encoder' \in [state : 0 .. 3, position : Int, direction : -1 .. 1, errorCount : Int]
          /\ encoder'.position = encoder.position /\ encoder'.direction = encoder.direction
          /\ encoder'.errorCount = encoder.errorCount + 1 /\ encoder'.state = new
      <4> HIDE DEF new
      <4>1. encoder.errorCount + 1 \in Int /\ new \in 0 .. 3
        BY <2>2, <2>9
      <4> QED BY <4>1, <2>9, <3>2
    <3>4. E!Off' = E!Off + by /\ E!Missed' = E!Missed + 2 /\ lastStep' = lastStep
      BY <2>1, <2>3, <3>3 DEF E!Off, E!Missed, DecoderInv
    <3>5. E!Off' % 2 = 0
      BY <2>3, <2>9, <3>4, Parity DEF DecoderInv, E!CountsKept
    <3>6. E!Off' \in -E!Missed' .. E!Missed'
      BY <2>3, <2>9, <3>4 DEF DecoderInv, E!CountsKept
    <3>7. E!CountsKept'
      BY <3>3, <3>4, <3>5, <3>6 DEF DecoderInv, E!CountsKept
    <3>8. home' \in Int /\ errorsThen' \in Int /\ lastStep' \in -1 .. 1
      BY <2>1, <2>9, <3>4 DEF DecoderInv
    <3> QED BY <2>1, <2>2, <3>3, <3>7, <3>8 DEF DecoderInv
  <2>4. CASE by \in -1 .. 1
    <3>1. ~E!Diagonal(new)
      BY <2>2, <2>4, Quarter DEF E!Diagonal, E!Channels, DecoderInv
    <3>2. E!StepTable[(encoder.state * 4) + new + 1] = by
      <4>1. shaft % 4 \in 0 .. 3 /\ shaft \in Int
        BY Quarter DEF DecoderInv
      <4>2. CASE by = 0
        BY <2>2, <4>1, <4>2, Quarter DEF E!StepTable, E!Channels
      <4>3. CASE by = 1
        BY <2>2, <4>1, <4>3, Quarter DEF E!StepTable, E!Channels
      <4>4. CASE by = -1
        BY <2>2, <4>1, <4>4, Quarter DEF E!StepTable, E!Channels
      <4> QED BY <2>4, <4>2, <4>3, <4>4
    <3>3. encoder' = [encoder EXCEPT !.position = @ + by, !.state = new,
                          !.direction = IF by # 0 THEN by ELSE @]
      BY <2>1, <3>1, <3>2 DEF E!Update, E!AfterStep
    <3>4. /\ encoder' \in [state : 0 .. 3, position : Int, direction : -1 .. 1, errorCount : Int]
          /\ encoder'.position = encoder.position + by /\ encoder'.state = new
          /\ encoder'.direction = IF by # 0 THEN by ELSE encoder.direction
          /\ encoder'.errorCount = encoder.errorCount
      <4> HIDE DEF new
      <4>1. encoder.position + by \in Int /\ new \in 0 .. 3 /\ by \in -1 .. 1
        BY <2>2, <2>4, <2>9
      <4> QED BY <4>1, <2>9, <3>3
    <3>5. E!Off' = E!Off /\ E!Missed' = E!Missed /\ lastStep' = encoder'.direction
      BY <2>1, <2>4, <3>4 DEF E!Off, E!Missed, E!CountsKept, DecoderInv
    <3> QED BY <2>1, <2>2, <2>4, <3>4, <3>5 DEF DecoderInv, E!CountsKept
  <2> QED BY <2>3, <2>4
<1> QED BY <1>1, <1>2 DEF E!Next

-----------------------------------------------------------------------------
SignalsInv == InputInv /\ DecoderInv /\ MotorInv

LEMMA InitSignals == SampledInit => SignalsInv
<1> SUFFICES ASSUME SampledInit PROVE SignalsInv
    OBVIOUS
<1> USE SignalsAssumption
<1>1. InputInv
    BY DEF SampledInit, I!Init, InputInv, I!Debounced
<1>2. DecoderInv
  <2>1. /\ shaft \in 0 .. 3 /\ home = shaft /\ errorsThen = 0 /\ lastStep = 0
        /\ encoder = [state |-> E!Channels(shaft), position |-> 0, direction |-> 0, errorCount |-> 0]
    BY DEF SampledInit, E!Init
  <2>2. E!Channels(shaft) \in 0 .. 3
    BY <2>1, Quarter DEF E!Channels
  <2> QED BY <2>1, <2>2 DEF DecoderInv, E!CountsKept, E!Off, E!Missed
<1>3. MotorInv
  <2>1. /\ motor = [duty |-> 0, state |-> "NO"] /\ high = FALSE /\ low = FALSE
        /\ pwm = 0 /\ motorPc = "idle" /\ from = "none" /\ commanded = FALSE
    BY DEF SampledInit, D!Init
  <2>2. motor.state = "NO" /\ motor.duty = 0 /\ 0 \in 0 .. Full
    BY <2>1
  <2>3. ~D!High(motor.state) /\ ~D!Low(motor.state)
    BY <2>2 DEF D!High, D!Low
  <2>4. D!High(motor.state) \in BOOLEAN /\ D!Low(motor.state) \in BOOLEAN
    BY DEF D!High, D!Low
  <2>5. D!DeadReversal
    BY <2>1, <2>2, <2>3, <2>4, Zenon DEF D!DeadReversal
  <2> QED BY <2>1, <2>2, <2>5 DEF MotorInv, D!States
<1> QED BY <1>1, <1>2, <1>3 DEF SignalsInv

LEMMA NextSignals == SignalsInv /\ [SampledNext]_sampledVars => SignalsInv'
<1> SUFFICES ASSUME SignalsInv, [SampledNext]_sampledVars PROVE SignalsInv'
    OBVIOUS
<1>1. InputInv'
  <2>1. CASE I!Next
    BY <2>1, InputStep DEF SignalsInv
  <2>2. CASE UNCHANGED inputVars
    BY <2>2 DEF SignalsInv, InputInv, inputVars, I!Debounced
  <2> QED BY <2>1, <2>2 DEF SampledNext, sampledVars, Timer, Input, Decoder, Motor, Ramp, Controller
<1>2. DecoderInv'
  <2>1. CASE E!Next
    BY <2>1, DecoderStep DEF SignalsInv
  <2>2. CASE UNCHANGED encoderVars
    BY <2>2 DEF SignalsInv, DecoderInv, encoderVars, E!Channels, E!CountsKept, E!Off, E!Missed
  <2> QED BY <2>1, <2>2 DEF SampledNext, sampledVars, Timer, Input, Decoder, Motor, Ramp, Controller
<1>3. MotorInv'
  <2>1. CASE D!Next
    BY <2>1, MotorStep DEF SignalsInv
  <2>2. CASE UNCHANGED motorVars
    BY <2>2 DEF SignalsInv, MotorInv, motorVars, D!DeadReversal, D!High, D!Low
  <2> QED BY <2>1, <2>2 DEF SampledNext, sampledVars, Timer, Input, Decoder, Motor, Ramp, Controller
<1> QED BY <1>1, <1>2, <1>3 DEF SignalsInv

(* Whatever the samples: a debounced level and each of its rises, a position *)
(* that missed steps never put out of step, a bridge that is not reversed    *)
(* under power.                                                              *)
THEOREM SignalsAreKept == SampledSpec => []SignalsKept
<1>1. SignalsInv => SignalsKept
    BY DEF SignalsInv, InputInv, DecoderInv, MotorInv, SignalsKept
<1> QED BY <1>1, InitSignals, NextSignals, PTL DEF SampledSpec

-----------------------------------------------------------------------------
(* Once an iteration has seen the limits, what they bound is inside. *)
ControllerInv ==
    /\ pid.gains \in Gains /\ pid.limits \in Limits
    /\ pid = [gains |-> pid.gains, limits |-> pid.limits, output |-> pid.output,
              error |-> pid.error, lastError |-> pid.lastError,
              partP |-> pid.partP, partI |-> pid.partI, partD |-> pid.partD]
    /\ pid.partI \in Int /\ pid.error \in Int /\ pid.lastError \in Int
    /\ ~tightened => /\ P!Inside(pid.partI, pid.limits.i)
                     /\ P!Inside(pid.output, pid.limits.out)

LEMMA ClampInside ==
    ASSUME NEW v \in Int, NEW q \in Pairs
    PROVE  /\ P!Inside(P!Clamp(v, q), q) /\ P!Clamp(v, q) \in Int
           /\ P!Inside(v, q) => P!Clamp(v, q) = v
           /\ q[1] \in Int /\ q[2] \in Int
BY DEF P!Inside, P!Clamp, Pairs

(* Clamped, a sum moves the way its term goes or stands at the limit. *)
LEMMA ClampMoves ==
    ASSUME NEW v \in Int, NEW e \in Int, NEW q \in Pairs, P!Inside(v, q)
    PROVE  LET after == P!Clamp(v + e, q)
           IN  /\ after > v => e > 0
               /\ after < v => e < 0
               /\ e > 0 => after > v \/ after = q[2]
               /\ e < 0 => after < v \/ after = q[1]
BY DEF P!Inside, P!Clamp, Pairs

LEMMA ControlStep ==
    ASSUME ControllerInv, NEW error \in P!Word, P!Control(error)
    PROVE  /\ ControllerInv' /\ ~tightened' /\ pid'.error = error
           /\ pid'.partI = P!Clamp(pid.partI + error, pid.limits.i)
           /\ pid'.limits = pid.limits
<1> USE ControllerAssumption
<1>1. PICK d \in P!Derivatives(error) :
        /\ pid' = [pid EXCEPT !.error = error, !.lastError = error,
                              !.partP = P!Clamp(error, pid.limits.p), !.partI = P!Integral(error),
                              !.partD = d,
                              !.output = P!Output(P!Clamp(error, pid.limits.p), P!Integral(error), d)]
        /\ tightened' = FALSE
    BY DEF P!Control
<1>2. error \in Int
    BY DEF P!Word
<1>3. /\ pid.limits.p \in Pairs /\ pid.limits.i \in Pairs /\ pid.limits.d \in Pairs /\ pid.limits.out \in Pairs
      /\ pid.gains.kp \in Int /\ pid.gains.ki \in Int /\ pid.gains.kd \in Int
    BY DEF ControllerInv
<1>4. d \in Int
  <2>1. PICK c \in Int : d = P!Clamp(c, pid.limits.d)
    BY <1>2 DEF P!Derivatives, P!Word, ControllerInv
  <2> QED BY <1>3, <2>1, ClampInside
<1>5. /\ P!Integral(error) \in Int /\ P!Inside(P!Integral(error), pid.limits.i)
      /\ P!Integral(error) = P!Clamp(pid.partI + error, pid.limits.i)
  <2>1. pid.partI + error \in Int
    BY <1>2 DEF ControllerInv
  <2> QED BY <1>3, <2>1, ClampInside DEF P!Integral
<1>6. P!Inside(P!Output(P!Clamp(error, pid.limits.p), P!Integral(error), d), pid.limits.out)
  <2> DEFINE p == P!Clamp(error, pid.limits.p)
             i == P!Integral(error)
             sum == (pid.gains.kp * p) + (pid.gains.ki * i) + (pid.gains.kd * d)
  <2>1. p \in Int /\ i \in Int
    BY <1>2, <1>3, <1>5, ClampInside
  <2> HIDE DEF p, i
  <2>2. pid.gains.kp * p \in Int /\ pid.gains.ki * i \in Int /\ pid.gains.kd * d \in Int
    BY <1>3, <1>4, <2>1
  <2>3. sum \in Int
    BY <2>2
  <2> HIDE DEF sum
  <2>4. sum \div Scale \in Int
    BY <2>3
  <2>5. P!Output(p, i, d) = P!Clamp(sum \div Scale, pid.limits.out)
    BY DEF P!Output, sum
  <2> QED BY <1>3, <2>4, <2>5, ClampInside DEF p, i
<1>7. /\ pid'.gains = pid.gains /\ pid'.limits = pid.limits
      /\ pid'.error = error /\ pid'.lastError = error
      /\ pid'.partI = P!Integral(error)
      /\ pid'.output = P!Output(P!Clamp(error, pid.limits.p), P!Integral(error), d)
      /\ pid' = [gains |-> pid'.gains, limits |-> pid'.limits, output |-> pid'.output,
              error |-> pid'.error, lastError |-> pid'.lastError,
              partP |-> pid'.partP, partI |-> pid'.partI, partD |-> pid'.partD]
    BY <1>1 DEF ControllerInv
<1> QED BY <1>1, <1>2, <1>5, <1>6, <1>7 DEF ControllerInv

LEMMA ChangeStep ==
    ASSUME ControllerInv,
           \/ \E g \in Gains : P!ChangeCoefficients(g)
           \/ \E l \in Limits : P!ChangeLimits(l)
    PROVE  /\ ControllerInv'
           /\ pid' = pid \/ pid'.gains # pid.gains \/ tightened'
           /\ ~tightened' => ~tightened
<1>1. ASSUME NEW g \in Gains, P!ChangeCoefficients(g)
      PROVE  /\ ControllerInv'
             /\ pid' = pid \/ pid'.gains # pid.gains
             /\ tightened' = tightened
  <2>1. /\ pid'.gains = g /\ pid'.limits = pid.limits
        /\ pid'.error = pid.error /\ pid'.lastError = pid.lastError
        /\ pid'.partI = pid.partI /\ pid'.partP = pid.partP /\ pid'.partD = pid.partD
        /\ pid'.output = pid.output
        /\ pid' = [gains |-> pid'.gains, limits |-> pid'.limits, output |-> pid'.output,
                   error |-> pid'.error, lastError |-> pid'.lastError,
                   partP |-> pid'.partP, partI |-> pid'.partI, partD |-> pid'.partD]
      BY <1>1 DEF P!ChangeCoefficients, ControllerInv
  <2>2. tightened' = tightened
      BY <1>1 DEF P!ChangeCoefficients
  <2>3. pid'.gains = pid.gains => pid' = pid
      BY <2>1 DEF ControllerInv
  <2> QED BY <2>1, <2>2, <2>3 DEF ControllerInv
<1>2. ASSUME NEW l \in Limits, P!ChangeLimits(l)
      PROVE  ControllerInv' /\ tightened'
  <2>1. /\ pid'.gains = pid.gains /\ pid'.limits = l
        /\ pid'.error = pid.error /\ pid'.lastError = pid.lastError
        /\ pid'.partI = pid.partI
        /\ pid' = [gains |-> pid'.gains, limits |-> pid'.limits, output |-> pid'.output,
                   error |-> pid'.error, lastError |-> pid'.lastError,
                   partP |-> pid'.partP, partI |-> pid'.partI, partD |-> pid'.partD]
        /\ tightened' = TRUE
      BY <1>2 DEF P!ChangeLimits, ControllerInv
  <2> QED BY <2>1 DEF ControllerInv
<1> QED BY <1>1, <1>2

LEMMA InitController == SampledInit => ControllerInv
<1> SUFFICES ASSUME SampledInit PROVE ControllerInv
    OBVIOUS
<1>1. PICK g \in Gains, l \in Limits :
        /\ pid = [gains |-> g, limits |-> l, output |-> l.out[1], error |-> 0, lastError |-> 0,
                  partP |-> 0, partI |-> 0, partD |-> 0]
        /\ tightened = TRUE
    BY DEF SampledInit, P!Init
<1> QED BY <1>1 DEF ControllerInv

LEMMA NextController == ControllerInv /\ [SampledNext]_sampledVars => ControllerInv'
<1> SUFFICES ASSUME ControllerInv, [SampledNext]_sampledVars PROVE ControllerInv'
    OBVIOUS
<1>1. CASE P!Next
    BY <1>1, ControlStep, ChangeStep DEF P!Next
<1>2. CASE UNCHANGED pidVars
    BY <1>2 DEF ControllerInv, pidVars, P!Inside
<1> QED BY <1>1, <1>2 DEF SampledNext, sampledVars, Timer, Input, Decoder, Motor, Ramp, Controller

(* Whatever errors came and however the gains and limits were changed: the   *)
(* accumulator and the output end an iteration inside their limits, and an   *)
(* error that moves the accumulator away from a limit moves it at once.      *)
THEOREM ControllerKeepsLimits == SampledSpec => P!KeepsLimits
<1> DEFINE Bounded ==
        ~tightened' => /\ P!Inside(pid'.partI, pid'.limits.i)
                       /\ P!Inside(pid'.output, pid'.limits.out)
           Moves ==
        ~tightened /\ ~tightened' /\ pid'.limits = pid.limits /\ pid'.gains = pid.gains
          => /\ pid'.partI > pid.partI => pid'.error > 0
             /\ pid'.partI < pid.partI => pid'.error < 0
             /\ pid'.error > 0 => pid'.partI > pid.partI \/ pid'.partI = pid'.limits.i[2]
             /\ pid'.error < 0 => pid'.partI < pid.partI \/ pid'.partI = pid'.limits.i[1]
<1>1. ControllerInv /\ ControllerInv' /\ [SampledNext]_sampledVars => [Bounded /\ Moves]_(P!vars)
  <2> SUFFICES ASSUME ControllerInv, ControllerInv', [SampledNext]_sampledVars, ~UNCHANGED P!vars
               PROVE  Bounded /\ Moves
      OBVIOUS
  <2>1. Bounded
      BY DEF ControllerInv
  <2>2. P!Next
      BY DEF SampledNext, sampledVars, Timer, Input, Decoder, Motor, Ramp, Controller, pidVars, P!vars
  <2>3. ASSUME NEW error \in P!Word, P!Control(error) PROVE Moves
    <3>1. pid'.error = error /\ pid'.partI = P!Clamp(pid.partI + error, pid.limits.i)
        BY <2>3, ControlStep
    <3>2. error \in Int /\ pid.partI \in Int /\ pid.limits.i \in Pairs
        BY ControllerAssumption DEF P!Word, ControllerInv
    <3>3. SUFFICES ASSUME ~tightened, pid'.limits = pid.limits PROVE Moves
        OBVIOUS
    <3> QED BY <3>1, <3>2, <3>3, ClampMoves DEF ControllerInv
  <2>4. ASSUME \/ \E g \in Gains : P!ChangeCoefficients(g)
               \/ \E l \in Limits : P!ChangeLimits(l)
        PROVE  Moves
    <3>1. tightened' \/ pid' = pid \/ pid'.gains # pid.gains
        BY <2>4, ChangeStep
    <3>2. pid' = pid => tightened'
      <4>1. tightened' # tightened \/ pid' # pid
        BY DEF P!vars
      <4> QED BY <2>4, <4>1 DEF P!ChangeCoefficients, P!ChangeLimits
    <3> QED BY <3>1, <3>2
  <2> QED BY <2>1, <2>2, <2>3, <2>4 DEF P!Next
<1>2. SampledSpec => [][Bounded /\ Moves]_(P!vars)
    BY <1>1, InitController, NextController, PTL DEF SampledSpec
<1>3. [Bounded /\ Moves]_(P!vars) =>
        [LET before == pid.partI
             after == pid'.partI
             iterated == /\ ~tightened /\ ~tightened' /\ pid'.limits = pid.limits
                         /\ pid'.gains = pid.gains
         IN  /\ ~tightened' => /\ P!Inside(pid'.partI, pid'.limits.i)
                               /\ P!Inside(pid'.output, pid'.limits.out)
             /\ iterated =>
                 /\ after > before => pid'.error > 0
                 /\ after < before => pid'.error < 0
                 /\ pid'.error > 0 => after > before \/ after = pid.limits.i[2]
                 /\ pid'.error < 0 => after < before \/ after = pid.limits.i[1]]_(P!vars)
    OBVIOUS
<1> QED BY <1>2, <1>3, PTL DEF P!KeepsLimits

-----------------------------------------------------------------------------
(* rampSquareRoot.  Its bit is the square of a power of two s, and what it   *)
(* has of the root, r, is kept times 2 * s; the rest is what r leaves of the *)
(* value.                                                                    *)

LEMMA PowerHalved ==
    ASSUME NEW s \in Nat \ {0}, PowerOfTwo(s), s # 1
    PROVE  \E h \in Nat \ {0} : s = 2 * h /\ PowerOfTwo(h)
<1>1. s % s = 0
  <2>1. s = s * 1 + 0 /\ 0 \in 0 .. s - 1
      OBVIOUS
  <2> QED BY <2>1, ModIs
<1>2. s % 2 = 0
    BY <1>1 DEF PowerOfTwo
<1>3. PICK h \in Nat \ {0} : s = 2 * h
  <2>1. s = 2 * (s \div 2) /\ s \div 2 \in Nat \ {0}
      BY <1>2
  <2> QED BY <2>1
<1>4. ASSUME NEW d \in 2 .. h, h % d = 0 PROVE d % 2 = 0
  <2> DEFINE q == h \div d
  <2>1. h = d * q + 0 /\ q \in Int /\ d \in Nat \ {0}
      BY <1>3, <1>4
  <2> HIDE DEF q
  <2>2. s = d * (2 * q) + 0 /\ 2 * q \in Int /\ 0 \in 0 .. d - 1
    <3>1. d * (2 * q) = 2 * (d * q) /\ d * q \in Int
        BY <2>1, Z3
    <3> QED BY <1>3, <2>1, <3>1
  <2>3. s % d = 0
      BY <2>1, <2>2, ModIs
  <2>4. d \in 2 .. s
      BY <1>3, <1>4
  <2> QED BY <2>3, <2>4 DEF PowerOfTwo
<1> QED BY <1>3, <1>4 DEF PowerOfTwo

(* How far the root of value has come. *)
RootAt(x, value) ==
    \E r \in Nat :
        /\ r * r + x.rest = value
        /\ \/ x.bit = 0 /\ x.root = r /\ (value < 4 * TopBit => value < (r + 1) * (r + 1))
           \/ \E s \in Nat \ {0} :
                /\ PowerOfTwo(s) /\ x.bit = s * s /\ x.root = 2 * (s * r)
                /\ value < 4 * TopBit => value < (r + 2 * s) * (r + 2 * s)

(* One bit: s is decided, and the new root is larger by s or the same. *)
LEMMA RootDecides ==
    ASSUME NEW r \in Nat, NEW s \in Nat \ {0}, NEW rest \in Nat, NEW value \in Nat,
           r * r + rest = value, NEW n \in Nat,
           n = IF rest >= 2 * (s * r) + s * s THEN r + s ELSE r
    PROVE  /\ n * n + (IF rest >= 2 * (s * r) + s * s THEN rest - (2 * (s * r) + s * s) ELSE rest) = value
           /\ value < (r + 2 * s) * (r + 2 * s) => value < (n + s) * (n + s)
<1>1. /\ (r + s) * (r + s) = r * r + 2 * (s * r) + s * s
      /\ r * r \in Nat /\ s * r \in Nat /\ s * s \in Nat
    BY Z3
<1>2. r + 2 * s = (r + s) + s
    OBVIOUS
<1> QED BY <1>1, <1>2

LEMMA RootHalves ==
    ASSUME NEW r \in Nat, NEW s \in Nat \ {0}
    PROVE  /\ (2 * (s * r)) \div 2 = s * r /\ (s * s) \div 4 < s * s
           /\ (s = 1 => (s * s) \div 4 = 0)
           /\ \A h \in Nat : s = 2 * h => (s * s) \div 4 = h * h
<1>1. s * r \in Nat /\ s * s \in Nat /\ s * s > 0
    BY Z3
<1>2. (2 * (s * r)) \div 2 = s * r
    BY <1>1
<1>3. (s * s) \div 4 < s * s
    BY <1>1
<1>4. s = 1 => s * s = 1
    OBVIOUS
<1>5. ASSUME NEW h \in Nat, s = 2 * h PROVE (s * s) \div 4 = h * h
  <2>1. s * s = 4 * (h * h) /\ h * h \in Nat
      BY <1>5, Z3
  <2> QED BY <2>1
<1> QED BY <1>2, <1>3, <1>4, <1>5

RootNext(x) ==
    LET half == x.root \div 2
        take == x.rest >= x.root + x.bit
    IN  [root |-> IF take THEN half + x.bit ELSE half,
         rest |-> IF take THEN x.rest - (x.root + x.bit) ELSE x.rest,
         bit  |-> x.bit \div 4]

LEMMA RootMoves ==
    ASSUME NEW value \in Nat, NEW x \in R!Roots, x.bit # 0, TopBit \in Nat
    PROVE  /\ RootNext(x) \in R!Roots /\ RootNext(x).bit < x.bit
           /\ RootAt(x, value) => RootAt(RootNext(x), value)
<1> DEFINE y == RootNext(x)
<1>1. /\ x.root \in Nat /\ x.rest \in Nat /\ x.bit \in 1 .. TopBit
      /\ y.bit = x.bit \div 4
      /\ y.root = IF x.rest >= x.root + x.bit THEN x.root \div 2 + x.bit ELSE x.root \div 2
      /\ y.rest = IF x.rest >= x.root + x.bit THEN x.rest - (x.root + x.bit) ELSE x.rest
      /\ y = [root |-> y.root, rest |-> y.rest, bit |-> y.bit]
    BY DEF R!Roots, RootNext
<1> HIDE DEF y
<1>2. y.root \in Nat /\ y.rest \in Nat /\ y.bit \in 0 .. TopBit /\ y.bit < x.bit
    BY <1>1
<1>3. y \in R!Roots
    BY <1>1, <1>2 DEF R!Roots
<1>4. ASSUME RootAt(x, value) PROVE RootAt(y, value)
  <2>1. PICK r \in Nat, s \in Nat \ {0} :
          /\ r * r + x.rest = value
          /\ PowerOfTwo(s) /\ x.bit = s * s /\ x.root = 2 * (s * r)
          /\ value < 4 * TopBit => value < (r + 2 * s) * (r + 2 * s)
      BY <1>1, <1>4 DEF RootAt
  <2> DEFINE take == x.rest >= x.root + x.bit
             n == IF take THEN r + s ELSE r
  <2>2. n \in Nat /\ n * n + y.rest = value
        /\ (value < 4 * TopBit => value < (n + s) * (n + s))
      BY <1>1, <2>1, RootDecides
  <2>3. y.root = s * n /\ (s = 1 => y.bit = 0) /\ \A h \in Nat : s = 2 * h => y.bit = h * h
    <3>1. s * (r + s) = s * r + s * s /\ s * r \in Nat /\ s * s \in Nat
        BY Z3
    <3>2. x.root \div 2 = s * r
        BY <2>1, RootHalves
    <3>3. y.root = s * n
        BY <1>1, <2>1, <3>1, <3>2
    <3>4. (s = 1 => y.bit = 0) /\ \A h \in Nat : s = 2 * h => y.bit = h * h
        BY <1>1, <2>1, RootHalves
    <3> QED BY <3>3, <3>4
  <2> HIDE DEF n
  <2>4. CASE s = 1
    <3>1. y.root = n /\ y.bit = 0 /\ (value < 4 * TopBit => value < (n + 1) * (n + 1))
        BY <2>2, <2>3, <2>4
    <3> QED BY <2>2, <3>1 DEF RootAt
  <2>5. CASE s # 1
    <3>1. PICK h \in Nat \ {0} : s = 2 * h /\ PowerOfTwo(h)
        BY <2>1, <2>5, PowerHalved
    <3>2. y.bit = h * h
        BY <2>3, <3>1
    <3>3. y.root = 2 * (h * n)
      <4>1. (2 * h) * n = 2 * (h * n)
          BY <2>2, Z3
      <4> QED BY <2>3, <3>1, <4>1
    <3>4. value < 4 * TopBit => value < (n + 2 * h) * (n + 2 * h)
        BY <2>2, <3>1
    <3> QED BY <2>2, <3>1, <3>2, <3>3, <3>4 DEF RootAt
  <2> QED BY <2>4, <2>5
<1> QED BY <1>2, <1>3, <1>4 DEF y

(* rampSquareRoot takes the largest integer whose square does not exceed the *)
(* value, as its comment says, if the value is below four times the first    *)
(* bit; and never one whose square does exceed it.                           *)
LEMMA RootIs ==
    ASSUME NEW value \in Nat
    PROVE  \E r \in Nat : /\ R!SquareRoot(value) = r /\ r * r <= value
                          /\ value < 4 * TopBit => value < (r + 1) * (r + 1)
<1> DEFINE base == {x \in R!Roots : x.bit = 0}
           res == [x \in R!Roots |-> x.root]
           next == [x \in R!Roots |-> RootNext(x)]
           size == [x \in R!Roots |-> x.bit]
           Is(g) == g = [x \in R!Roots |-> IF x.bit = 0 THEN x.root ELSE g[RootNext(x)]]
           h == CHOOSE g : Is(g)
           start == [root |-> 0, rest |-> value, bit |-> TopBit]
<1>0. PICK top \in 1 .. TopBit : TopBit = top * top /\ PowerOfTwo(top)
    BY RampAssumption
<1>00. TopBit \in Nat /\ top \in Nat \ {0}
  <2>1. top \in Nat \ {0}
      BY <1>0 DEF PowerOfTwo
  <2>2. top * top \in Nat
      BY <2>1
  <2> QED BY <1>0, <2>1, <2>2
<1>1. R!SquareRoot(value) = h[start]
    BY Zenon DEF R!SquareRoot, R!RootFrom, R!Roots, RootNext
<1> HIDE DEF h
<1>2. /\ size \in [R!Roots -> 0 .. TopBit]
      /\ \A x \in R!Roots : x \notin base => next[x] \in R!Roots /\ size[next[x]] < size[x]
  <2>1. size \in [R!Roots -> 0 .. TopBit]
      BY DEF R!Roots
  <2>2. ASSUME NEW x \in R!Roots, x \notin base PROVE next[x] \in R!Roots /\ size[next[x]] < size[x]
    <3>1. RootNext(x) \in R!Roots /\ RootNext(x).bit < x.bit
        BY <1>00, <2>2, RootMoves
    <3> QED BY <3>1
  <2> QED BY <2>1, <2>2
<1>3. Is(h)
  <2> DEFINE f == [x \in R!Roots |-> x]
  <2>1. PICK g : /\ g = [x \in R!Roots |-> g[x]]
                 /\ \A x \in R!Roots : g[x] = IF x \in base THEN res[x]
                                            ELSE IF x \in R!Roots THEN g[next[x]] ELSE f[x][g[next[x]]]
    <3> HIDE DEF size, base, res, next, f
    <3>1. RecursionHasResult(R!Roots, base, res, R!Roots, next, f)
        BY <1>00, <1>2, Recursion
    <3> QED BY <3>1 DEF RecursionHasResult
  <2>2. Is(g)
    <3>1. \A x \in R!Roots : g[x] = IF x.bit = 0 THEN x.root ELSE g[RootNext(x)]
        BY <2>1
    <3> QED BY <2>1, <3>1
  <2> HIDE DEF Is
  <2> QED BY <2>2 DEF h
<1>4. start \in R!Roots /\ RootAt(start, value)
  <2>1. start \in R!Roots
      BY <1>00 DEF R!Roots
  <2>2. /\ 0 * 0 + value = value /\ 2 * (top * 0) = 0
        /\ (value < 4 * TopBit => value < (0 + 2 * top) * (0 + 2 * top))
    <3>1. (0 + 2 * top) * (0 + 2 * top) = 4 * (top * top)
        BY <1>00, Z3
    <3> QED BY <1>0, <1>00, <3>1
  <2> QED BY <1>0, <1>00, <2>1, <2>2 DEF RootAt
<1> DEFINE Holds == {x \in R!Roots : RootAt(x, value)}
           Out == {r \in Nat : r * r <= value /\ (value < 4 * TopBit => value < (r + 1) * (r + 1))}
<1>5. \A x \in Holds : h[x] \in Out
  <2>1. \A x \in R!Roots : h[x] = IF x \in base THEN res[x] ELSE h[next[x]]
    <3>1. \A x \in R!Roots : h[x] = IF x.bit = 0 THEN x.root ELSE h[RootNext(x)]
        BY <1>3
    <3> QED BY <3>1
  <2>2. ASSUME NEW x \in Holds, x \notin base PROVE next[x] \in Holds
    <3>1. RootNext(x) \in R!Roots /\ RootAt(RootNext(x), value)
        BY <1>00, <2>2, RootMoves
    <3> QED BY <3>1
  <2>3. ASSUME NEW x \in Holds, x \in base PROVE res[x] \in Out
    <3>1. x \in R!Roots /\ x.bit = 0 /\ x.rest \in Nat /\ RootAt(x, value)
        BY <2>3 DEF R!Roots
    <3>2. PICK r \in Nat :
            /\ r * r + x.rest = value
            /\ \/ x.root = r /\ (value < 4 * TopBit => value < (r + 1) * (r + 1))
               \/ \E s \in Nat \ {0} : x.bit = s * s
        BY <3>1 DEF RootAt
    <3>3. \A s \in Nat \ {0} : s * s # 0
        OBVIOUS
    <3>4. x.root = r /\ (value < 4 * TopBit => value < (r + 1) * (r + 1))
        BY <3>1, <3>2, <3>3
    <3>5. r * r <= value
        BY <3>1, <3>2
    <3> QED BY <3>1, <3>4, <3>5
  <2> HIDE DEF size, base, res, next
  <2>4. \A x \in Holds : x \in R!Roots
      OBVIOUS
  <2>5. MovesOn(Holds, Out, TopBit, size, base, res, next, h)
    <3> HIDE DEF Holds, Out
    <3> QED BY <1>2, <2>1, <2>2, <2>3, <2>4 DEF MovesOn
  <2> HIDE DEF Holds, Out
  <2> QED BY <1>00, <2>5, MovingOn
<1>6. h[start] \in Out
    BY <1>4, <1>5
<1> QED BY <1>1, <1>6

-----------------------------------------------------------------------------
(* rampIterationi32.  A velocity heads for a target that is left away, and   *)
(* is one from which the ramp can brake: the distance that braking takes is  *)
(* at most what is left and a little more than one step.                     *)
Heads(left, v, a, limit) ==
    \/ left >= 0 /\ v >= 0 /\ v * v <= a * (2 * left + v + limit)
    \/ left <= 0 /\ v <= 0 /\ v * v <= a * (limit - 2 * left - v)

(* One step of the velocity v to the desired d.                              *)
Closer(v, d, a) == IF d - v > a THEN v + a ELSE IF d - v < - a THEN v - a ELSE d

(* A step from inside the limits to inside the limits stays inside them.     *)
LEMMA CloserInside ==
    ASSUME NEW limit \in Nat, NEW v \in - limit .. limit, NEW d \in - limit .. limit, NEW a \in Nat
    PROVE  /\ Closer(v, d, a) \in - limit .. limit
           /\ R!Abs(Closer(v, d, a) - v) <= a
           /\ Closer(- v, - d, a) = - Closer(v, d, a)
           /\ v >= 0 /\ d >= 0 => Closer(v, d, a) >= 0
BY DEF Closer, R!Abs

(* On the way up: s is the velocity from which the target is still in reach. *)
LEMMA Forward ==
    ASSUME NEW limit \in Nat, NEW a \in Nat \ {0}, NEW left \in Nat, NEW v \in 0 .. limit,
           NEW s \in Nat, s * s <= 2 * a * left,
           v * v <= a * (2 * left + v + limit),
           NEW d, d = IF s > limit THEN limit ELSE s,
           NEW w, w = Closer(v, d, a)
    PROVE  /\ w \in 0 .. limit
           /\ w >= left => v * v <= a * (limit + 3 * v)
           /\ w < left => w * w <= a * (2 * (left - w) + w + limit)
<1>1. d \in 0 .. limit /\ d <= s
    OBVIOUS
<1>2. w \in 0 .. limit
    BY <1>1 DEF Closer
<1>3. CASE d - v < - a
  <2>1. w = v - a /\ w \in Nat
      BY <1>1, <1>2, <1>3 DEF Closer
  <2>2. (v - a) * (v - a) = v * v - 2 * (a * v) + a * a
      BY Z3
  <2>3. /\ a * (2 * left + v + limit) = 2 * (a * left) + a * v + a * limit
        /\ a * (2 * (left - w) + w + limit) = 2 * (a * left) - 2 * (a * w) + a * w + a * limit
        /\ a * (limit + 3 * v) = a * limit + 3 * (a * v)
        /\ a * w = a * v - a * a
        /\ a * left \in Nat /\ a * v \in Nat /\ a * limit \in Nat /\ a * a \in Nat /\ a * w \in Nat
        /\ v * v \in Nat
      BY <1>2, <2>1, Z3
  <2>4. w * w <= a * (2 * (left - w) + w + limit)
      BY <2>1, <2>2, <2>3
  <2>5. ASSUME w >= left PROVE v * v <= a * (limit + 3 * v)
    <3>1. a * left <= a * w
        BY <1>2, <2>5, Times
    <3> QED BY <2>3, <3>1
  <2> QED BY <1>2, <2>4, <2>5
<1>4. CASE ~ d - v < - a
  <2>1. w <= d /\ v <= w + a
      BY <1>1, <1>4 DEF Closer
  <2>2. w * w <= 2 * a * left
    <3>1. w \in Nat /\ w <= s
        BY <1>1, <1>2, <2>1
    <3>2. w * w <= s * w /\ s * w <= s * s
      <4>1. w * w <= w * s /\ s * w <= s * s
        <5>1. CASE w = 0
            BY <5>1
        <5>2. CASE w # 0
            BY <3>1, <5>2, Times
        <5> QED BY <5>1, <5>2
      <4>2. w * s = s * w
          BY <3>1
      <4> QED BY <4>1, <4>2
    <3>3. w * w \in Nat /\ s * w \in Nat /\ s * s \in Nat /\ 2 * a * left \in Nat
        BY <3>1
    <3> QED BY <3>2, <3>3
  <2>3. ASSUME w < left PROVE w * w <= a * (2 * (left - w) + w + limit)
    <3>1. a * (2 * (left - w) + w + limit) = 2 * a * left + a * (limit - w)
        BY <1>2, Z3
    <3>2. a * (limit - w) \in Nat /\ w * w \in Nat /\ 2 * a * left \in Nat
        BY <1>2
    <3> QED BY <2>2, <3>1, <3>2
  <2>4. ASSUME w >= left PROVE v * v <= a * (limit + 3 * v)
    <3>1. w <= 2 * a
      <4>1. SUFFICES ASSUME w > 2 * a PROVE FALSE
          BY <1>2
      <4>2. w \in Nat \ {0} /\ left \in Nat /\ 2 * a \in Nat \ {0}
          BY <1>2, <4>1
      <4>3. (2 * a) * left <= (2 * a) * w
          BY <2>4, <4>2, Times
      <4>4. w * (2 * a) + w <= w * w
          BY <4>1, <4>2, Times
      <4>5. w * (2 * a) = (2 * a) * w /\ (2 * a) * left = 2 * a * left
          BY <4>2
      <4>6. w * (2 * a) \in Nat /\ w * w \in Nat /\ 2 * a * left \in Nat
          BY <4>2
      <4> QED BY <2>2, <4>2, <4>3, <4>4, <4>5, <4>6
    <3>2. v <= 3 * a
        BY <1>2, <2>1, <3>1
    <3>3. v * v <= 3 * (a * v)
      <4>1. CASE v = 0
          BY <4>1
      <4>2. CASE v # 0
        <5>1. v * v <= v * (3 * a)
            BY <3>2, <4>2, Times
        <5>2. v * (3 * a) = 3 * (a * v)
            BY Z3
        <5> QED BY <5>1, <5>2
      <4> QED BY <4>1, <4>2
    <3>4. a * (limit + 3 * v) = a * limit + 3 * (a * v) /\ a * limit \in Nat /\ a * v \in Nat
          /\ v * v \in Nat
        BY Z3
    <3> QED BY <3>3, <3>4
  <2> QED BY <1>2, <2>3, <2>4
<1> QED BY <1>3, <1>4

(* Either way. *)
LEMMA Approach ==
    ASSUME NEW limit \in Nat, NEW a \in Nat \ {0}, NEW left \in Int, NEW v \in - limit .. limit,
           NEW s \in Nat, s * s <= 2 * a * R!Abs(left),
           NEW speed, speed = IF s > limit THEN limit ELSE s,
           NEW d, d = IF left < 0 THEN - speed ELSE speed,
           NEW w, w = Closer(v, d, a), Heads(left, v, a, limit)
    PROVE  /\ R!Abs(w) >= R!Abs(left) =>
                R!Abs(v) * R!Abs(v) <= a * (limit + 3 * R!Abs(v))
           /\ R!Abs(w) < R!Abs(left) =>
                /\ Heads(left - w, w, a, limit)
                /\ R!Between(0, w, left)
<1>1. w \in - limit .. limit
  <2>1. d \in - limit .. limit
      OBVIOUS
  <2> QED BY <2>1, CloserInside
<1>2. CASE left >= 0 /\ v >= 0 /\ v * v <= a * (2 * left + v + limit)
  <2>1. R!Abs(left) = left /\ R!Abs(v) = v /\ d = speed /\ left \in Nat /\ v \in 0 .. limit
      BY <1>2 DEF R!Abs
  <2>2. /\ w \in 0 .. limit
        /\ w >= left => v * v <= a * (limit + 3 * v)
        /\ w < left => w * w <= a * (2 * (left - w) + w + limit)
      BY <1>2, <2>1, Forward
  <2>3. R!Abs(w) = w
      BY <2>2 DEF R!Abs
  <2>4. ASSUME w < left
        PROVE  left - w >= 0 /\ w >= 0 /\ w * w <= a * (2 * (left - w) + w + limit)
      BY <2>2, <2>4
  <2>5. w < left => R!Between(0, w, left)
      BY <2>1, <2>2 DEF R!Between
  <2> QED BY <2>1, <2>2, <2>3, <2>4, <2>5 DEF Heads
<1>3. CASE left < 0 /\ v <= 0 /\ v * v <= a * (limit - 2 * left - v)
  <2> DEFINE l == - left
             u == - v
             x == - w
  <2>1. /\ R!Abs(left) = l /\ R!Abs(v) = u /\ - d = speed /\ l \in Nat /\ u \in 0 .. limit
        /\ left = - l /\ v = - u /\ w = - x /\ x \in - limit .. limit
      BY <1>1, <1>3 DEF R!Abs
  <2>2. x = Closer(u, speed, a)
    <3>1. d \in - limit .. limit
        BY <2>1
    <3>2. Closer(- v, - d, a) = - Closer(v, d, a)
        BY <3>1 DEF Closer
    <3> QED BY <2>1, <3>2
  <2>3. u * u <= a * (2 * l + u + limit)
    <3>1. u * u = v * v /\ 2 * l + u + limit = limit - 2 * left - v
        BY Z3
    <3> QED BY <1>3, <3>1
  <2>4. s * s <= 2 * a * l
      BY <2>1
  <2> HIDE DEF l, u, x
  <2>5. /\ x \in 0 .. limit
        /\ x >= l => u * u <= a * (limit + 3 * u)
        /\ x < l => x * x <= a * (2 * (l - x) + x + limit)
      BY <2>1, <2>2, <2>3, <2>4, Forward
  <2>6. R!Abs(w) = x
      BY <2>1, <2>5 DEF R!Abs
  <2>7. ASSUME x < l
        PROVE  left - w <= 0 /\ w <= 0 /\ w * w <= a * (limit - 2 * (left - w) - w)
    <3>1. w * w = x * x
        BY <2>1, <2>5, Z3
    <3>2. limit - 2 * (left - w) - w = 2 * (l - x) + x + limit
        BY <2>1
    <3> QED BY <2>1, <2>5, <2>7, <3>1, <3>2
  <2>8. x < l => R!Between(0, w, left)
      BY <2>1, <2>5 DEF R!Between
  <2> QED BY <2>1, <2>5, <2>6, <2>7, <2>8 DEF Heads
<1>4. CASE left = 0 /\ v <= 0 /\ v * v <= a * (limit - 2 * left - v)
  <2> DEFINE u == - v
  <2>1. R!Abs(left) = 0 /\ R!Abs(v) = u /\ u \in Nat /\ v = - u /\ ~ R!Abs(w) < 0
      BY <1>1, <1>4 DEF R!Abs
  <2> HIDE DEF u
  <2>2. u * u = v * v /\ limit - 2 * left - v = limit + u
      BY <1>4, <2>1
  <2>3. a * (limit + 3 * u) = a * (limit + u) + 2 * (a * u) /\ a * u \in Nat /\ a * (limit + u) \in Nat
        /\ u * u \in Nat
      BY <2>1, Z3
  <2>4. u * u <= a * (limit + 3 * u)
      BY <1>4, <2>2, <2>3
  <2> QED BY <2>1, <2>4
<1> QED BY <1>2, <1>3, <1>4 DEF Heads

(* What the ramp is, and that it can brake if it was sent off from rest to   *)
(* the target it has.                                                        *)
RampInv ==
    /\ ramp \in [maxVelocity : Nat \ {0}, maxAcceleration : Nat \ {0}, position : Int,
                 velocity : Int, arrived : BOOLEAN]
    /\ target \in Targets
    /\ R!Abs(ramp.velocity) <= ramp.maxVelocity
    /\ ramp.arrived => ramp.velocity = 0 /\ ramp.position = target * One
    /\ calm => \/ ramp.arrived
               \/ Heads(target * One - ramp.position, ramp.velocity, ramp.maxAcceleration,
                        ramp.maxVelocity)

LEMMA InitRamp == SampledInit => RampInv
<1> SUFFICES ASSUME SampledInit PROVE RampInv
    OBVIOUS
<1>1. PICK v \in Velocities, a \in Accelerations, start \in Targets :
        /\ v > 0 /\ a > 0 /\ target = start
        /\ ramp = [maxVelocity |-> v, maxAcceleration |-> a, position |-> start * One,
                   velocity |-> 0, arrived |-> TRUE]
    BY DEF SampledInit, R!Init
<1>2. v \in Nat \ {0} /\ a \in Nat \ {0} /\ start * One \in Int
    BY <1>1, RampAssumption
<1> QED BY <1>1, <1>2 DEF RampInv, R!Abs

(* What one call does (module Ramp). *)
Limited ==
    LET speed == R!Abs(ramp.velocity)
    IN  /\ R!Abs(ramp'.velocity) <= ramp.maxVelocity
        /\ R!Abs(ramp'.position - ramp.position) <= ramp.maxVelocity
        /\ ~ramp'.arrived => R!Abs(ramp'.velocity - ramp.velocity) <= ramp.maxAcceleration
        /\ ramp'.arrived => ramp'.position = target' * One /\ ramp'.velocity = 0
        /\ calm' => R!Between(ramp.position, ramp'.position, target' * One)
        /\ calm' /\ ramp'.arrived =>
             speed * speed <= ramp.maxAcceleration * (ramp.maxVelocity + 3 * speed)

LEMMA IterationStep ==
    ASSUME RampInv, NEW t \in Targets, R!Iteration(t)
    PROVE  RampInv' /\ Limited
<1>1. PICK limit \in Nat \ {0}, a \in Nat \ {0}, v \in Int, p \in Int :
        /\ limit = ramp.maxVelocity /\ a = ramp.maxAcceleration
        /\ v = ramp.velocity /\ p = ramp.position
    BY DEF RampInv
<1>2. PICK left \in Int : left = (t * One) - ramp.position /\ t * One = p + left
  <2>1. t * One \in Int
      BY RampAssumption
  <2> QED BY <1>1, <2>1
<1>3. R!Abs(v) <= limit /\ v \in - limit .. limit /\ (ramp.arrived => v = 0)
    BY <1>1 DEF RampInv, R!Abs
<1>4. PICK s \in Nat : s = R!SquareRoot(2 * a * R!Abs(left)) /\ s * s <= 2 * a * R!Abs(left)
  <2>1. 2 * a * R!Abs(left) \in Nat
      BY DEF R!Abs
  <2> QED BY <2>1, RootIs
<1>5. PICK speed \in Nat : speed = IF s > limit THEN limit ELSE s
    BY <1>1
<1>6. PICK d \in - limit .. limit : d = R!Desired(left) /\ d = IF left < 0 THEN - speed ELSE speed
    BY <1>1, <1>2, <1>4, <1>5 DEF R!Desired
<1>7. PICK w : w = R!Velocity(R!Desired(left)) /\ w = Closer(v, d, a)
    BY <1>1, <1>6 DEF R!Velocity, Closer
<1>8. w \in - limit .. limit /\ R!Abs(w - v) <= a
    BY <1>3, <1>7, CloserInside
<1>9. calm' => Heads(left, v, a, limit)
  <2>1. SUFFICES ASSUME calm' PROVE Heads(left, v, a, limit)
      OBVIOUS
  <2>2. CASE ramp.arrived
    <3>1. /\ v = 0 /\ 0 * 0 = 0
          /\ left >= 0 => a * (2 * left + 0 + limit) >= 0
          /\ left <= 0 => a * (limit - 2 * left - 0) >= 0
        BY <1>3, <2>2
    <3> QED BY <3>1 DEF Heads
  <2>3. CASE ~ramp.arrived
    <3>1. calm /\ t = target
        BY <2>1, <2>3 DEF R!Iteration
    <3> QED BY <1>1, <1>2, <2>3, <3>1 DEF RampInv
  <2> QED BY <2>2, <2>3
<1>10. calm' =>
         /\ R!Abs(w) >= R!Abs(left) => R!Abs(v) * R!Abs(v) <= a * (limit + 3 * R!Abs(v))
         /\ R!Abs(w) < R!Abs(left) => Heads(left - w, w, a, limit) /\ R!Between(0, w, left)
    BY <1>1, <1>3, <1>4, <1>5, <1>6, <1>7, <1>9, Approach
<1>11. target' = t /\ (calm' \/ ~calm')
    BY DEF R!Iteration
<1>12. CASE R!Arrives(w, left)
  <2>1. /\ ramp' = [ramp EXCEPT !.position = p + left, !.velocity = 0, !.arrived = TRUE]
        /\ R!Abs(w) >= R!Abs(left)
      BY <1>2, <1>7, <1>12 DEF R!Iteration, R!Arrives
  <2>2. ramp' = [maxVelocity |-> limit, maxAcceleration |-> a, position |-> p + left,
                 velocity |-> 0, arrived |-> TRUE]
      BY <1>1, <2>1 DEF RampInv
  <2>3. RampInv'
    <3>1. R!Abs(0) <= limit /\ p + left \in Int
        BY DEF R!Abs
    <3> QED BY <1>2, <1>11, <2>2, <3>1 DEF RampInv
  <2>4. R!Abs(0) <= limit /\ R!Abs(p + left - p) <= limit
      BY <1>8, <2>1 DEF R!Abs
  <2>5. R!Between(p, p + left, p + left)
      BY DEF R!Between
  <2> QED BY <1>1, <1>2, <1>10, <1>11, <2>1, <2>2, <2>3, <2>4, <2>5 DEF Limited
<1>13. CASE ~R!Arrives(w, left)
  <2>1. /\ ramp' = [ramp EXCEPT !.position = p + w, !.velocity = w, !.arrived = FALSE]
        /\ R!Abs(w) < R!Abs(left)
    <3>1. ramp' = [ramp EXCEPT !.position = p + w, !.velocity = w, !.arrived = FALSE]
        BY <1>1, <1>2, <1>7, <1>13 DEF R!Iteration, RampInv
    <3>2. R!Abs(w) < R!Abs(left)
        BY <1>8, <1>13 DEF R!Arrives, R!Abs
    <3> QED BY <3>1, <3>2
  <2>2. ramp' = [maxVelocity |-> limit, maxAcceleration |-> a, position |-> p + w,
                 velocity |-> w, arrived |-> FALSE]
      BY <1>1, <2>1 DEF RampInv
  <2>3. R!Abs(w) <= limit /\ R!Abs(p + w - p) <= limit
      BY <1>8 DEF R!Abs
  <2>4. RampInv'
    <3>1. target' * One - ramp'.position = left - w
        BY <1>2, <1>8, <1>11, <2>2
    <3>2. calm' => Heads(left - w, w, a, limit)
        BY <1>10, <2>1
    <3>3. w \in Int /\ p + w \in Int
        BY <1>8
    <3> QED BY <1>11, <2>2, <2>3, <3>1, <3>2, <3>3 DEF RampInv
  <2>5. calm' => R!Between(p, p + w, p + left)
    <3>1. R!Between(0, w, left) => R!Between(p, p + w, p + left)
        BY <1>8 DEF R!Between
    <3> QED BY <1>10, <2>1, <3>1
  <2> QED BY <1>1, <1>2, <1>8, <1>11, <2>2, <2>3, <2>4, <2>5 DEF Limited
<1> QED BY <1>12, <1>13

LEMMA NextRamp ==
    RampInv /\ [SampledNext]_sampledVars => RampInv' /\ [Limited]_(R!vars)
<1> SUFFICES ASSUME RampInv, [SampledNext]_sampledVars PROVE RampInv' /\ [Limited]_(R!vars)
    OBVIOUS
<1>1. CASE R!Follow
  <2>1. PICK t \in IF kept THEN {target} ELSE Targets : R!Iteration(t)
      BY <1>1 DEF R!Follow
  <2>2. t \in Targets
      BY <2>1 DEF RampInv
  <2> QED BY <2>1, <2>2, IterationStep
<1>2. CASE R!Keep
  <2>1. UNCHANGED <<ramp, target, calm>>
      BY <1>2 DEF R!Keep
  <2>2. RampInv'
      BY <2>1 DEF RampInv
  <2>3. PICK limit \in Nat \ {0}, a \in Nat \ {0}, v \in Int, p \in Int, goal \in Int :
          /\ limit = ramp.maxVelocity /\ a = ramp.maxAcceleration
          /\ v = ramp.velocity /\ p = ramp.position /\ goal = target * One
      BY RampAssumption DEF RampInv
  <2>4. /\ R!Abs(v) <= limit /\ R!Abs(p - p) <= limit /\ R!Abs(v - v) <= a
        /\ ramp.arrived => p = goal /\ v = 0
        /\ R!Between(p, p, goal)
      BY <2>3 DEF RampInv, R!Abs, R!Between
  <2>5. v = 0 => R!Abs(v) * R!Abs(v) <= a * (limit + 3 * R!Abs(v))
    <3>1. R!Abs(0) = 0 /\ a * (limit + 3 * 0) \in Nat
        BY DEF R!Abs
    <3> QED BY <3>1
  <2>6. Limited
      BY <2>1, <2>3, <2>4, <2>5 DEF Limited
  <2> QED BY <2>2, <2>6
<1>3. CASE UNCHANGED R!vars
    BY <1>3 DEF RampInv, R!vars
<1> QED BY <1>1, <1>2, <1>3
        DEF SampledNext, sampledVars, Timer, Input, Decoder, Motor, Ramp, Controller, R!Next, rampVars, R!vars

(* Whatever the limits, the unit and the targets: a ramp keeps to its        *)
(* velocity and its acceleration, never passes a target it was sent to from  *)
(* rest, and has braked for it when it arrives.                              *)
THEOREM RampKeepsLimits == SampledSpec => R!KeepsLimits
<1>1. SampledSpec => [][Limited]_(R!vars)
    BY InitRamp, NextRamp, PTL DEF SampledSpec
<1>2. [Limited]_(R!vars) =>
        [LET speed == R!Abs(ramp.velocity)
         IN  /\ R!Abs(ramp'.velocity) <= ramp.maxVelocity
             /\ R!Abs(ramp'.position - ramp.position) <= ramp.maxVelocity
             /\ ~ramp'.arrived => R!Abs(ramp'.velocity - ramp.velocity) <= ramp.maxAcceleration
             /\ ramp'.arrived => ramp'.position = target' * One /\ ramp'.velocity = 0
             /\ calm' => R!Between(ramp.position, ramp'.position, target' * One)
             /\ calm' /\ ramp'.arrived =>
                  speed * speed <= ramp.maxAcceleration * (ramp.maxVelocity + 3 * speed)]_(R!vars)
    BY DEF Limited
<1> QED BY <1>1, <1>2, PTL DEF R!KeepsLimits

(* The limits of the ramp and of the controller together.                    *)
THEOREM LimitsAreKept == SampledSpec => LimitsKept
BY RampKeepsLimits, ControllerKeepsLimits DEF LimitsKept
=============================================================================
