------------------------- MODULE SafetyLayersProofs --------------------------
(***************************************************************************)
(* The two layers over a transport that is not trusted.  comsafe, for      *)
(* every sequence modulus and every timeout: what its receiver promises    *)
(* with ticks between its stores, and how many of them it takes before an  *)
(* expired channel can call itself good.  comsec, for any key material     *)
(* that keeps its own rule: it implements a channel of whole frames, each  *)
(* taken once but for those of a session resumed after a reset, and uses   *)
(* no nonce twice.                                                         *)
(***************************************************************************)
EXTENDS MCSafetyLayers, Counting

LEMMA TypeInit == Init => TypeOK
<1> SUFFICES ASSUME Init PROVE TypeOK
    OBVIOUS
<1>1. /\ rxSequence \in 0..SeqMod - 1 /\ timeoutCounter \in 0..timeout
      /\ errorCount \in 0..CountMod - 1 /\ register \in 0..CountMod - 1
      /\ ticks \in 0..TicksPerCall /\ silence \in 0..SilenceCap
    BY SafeAssumption DEF Init, SilenceCap
<1> QED BY <1>1 DEF Init, TypeOK, Labels, Errors

(* The main loop's steps write numbers only in a few places. *)
LEMMA TypeCheckFrame ==
    ASSUME TypeOK, NEW f \in Frame, CheckFrame(f)
    PROVE  TypeOK'
<1> USE SafeAssumption DEF SilenceCap
<1>1. CASE RefuseFrame(f)
    BY <1>1 DEF RefuseFrame, vars, fields, TypeOK
<1>2. CASE RejectFrame(f)
  <2>1. Verdict(f) \in Errors \union {"NONE"}
      BY DEF Verdict, Errors
  <2> QED BY <1>2, <2>1 DEF RejectFrame, fields, TypeOK, Labels
<1>3. CASE AcceptFrame(f)
  <2>1. rxSequence' \in 0..SeqMod - 1 /\ silence' \in 0..SilenceCap
      BY <1>3 DEF AcceptFrame, Frame
  <2> QED BY <1>3, <2>1 DEF AcceptFrame, TypeOK, Labels
<1> QED BY <1>1, <1>2, <1>3 DEF CheckFrame

LEMMA TypeMain ==
    ASSUME TypeOK, Reset \/ Continue
    PROVE  TypeOK'
<1> USE SafeAssumption DEF SilenceCap
<1>1. CASE Reset
  <2>1. silence' \in 0..SilenceCap
      BY <1>1 DEF Reset
  <2> QED BY <1>1, <2>1 DEF Reset, TypeOK, Labels
<1>2. CASE AcceptClearTimer \/ ResetTimer
  <2>1. timeoutCounter' \in 0..timeout
      BY <1>2 DEF AcceptClearTimer, ResetTimer
  <2> QED BY <1>2, <2>1 DEF AcceptClearTimer, ResetTimer, TypeOK, Labels
<1>3. CASE AcceptSetOk \/ FailError \/ FailState \/ ResetError
    BY <1>3 DEF AcceptSetOk, FailError, FailState, ResetError, TypeOK, Labels
<1>4. CASE AcceptClearError \/ ResetArmed
  <2>1. ticks' \in 0..TicksPerCall
      BY <1>4 DEF AcceptClearError, ResetArmed
  <2> QED BY <1>4, <2>1 DEF AcceptClearError, ResetArmed, TypeOK, Labels
<1>5. CASE FailLoad
    BY <1>5 DEF FailLoad, fields, TypeOK, Labels
<1>6. CASE FailStore
  <2>1. /\ ticks' \in 0..TicksPerCall /\ errorCount' \in 0..CountMod - 1
        /\ register' \in 0..CountMod - 1
      BY <1>6 DEF FailStore, TypeOK
  <2> QED BY <1>6, <2>1 DEF FailStore, TypeOK, Labels
<1> QED BY <1>1, <1>2, <1>3, <1>4, <1>5, <1>6 DEF Continue

(* What a tick does, in the terms the proofs need. *)
LEMMA TickEffect ==
    ASSUME TypeOK, Tick
    PROVE  /\ UNCHANGED <<rxSequence, rxArmed, pc, reason, register>>
           /\ timeoutCounter' =
                IF timeoutCounter < timeout THEN timeoutCounter + 1 ELSE timeoutCounter
           /\ silence' = IF silence < SilenceCap THEN silence + 1 ELSE silence
           /\ timeoutCounter < timeout /\ timeoutCounter + 1 >= timeout => state' = "FAILED"
           /\ state' \in {state, "FAILED"} /\ lastError' \in {lastError, "TIMEOUT"}
           /\ errorCount' \in {errorCount, (errorCount + 1) % CountMod}
           /\ pc # "idle" => ticks < TicksPerCall /\ ticks' = ticks + 1
           /\ pc = "idle" => ticks' = ticks
BY DEF Tick, Running, Expires

LEMMA TypeTick ==
    ASSUME TypeOK, Tick
    PROVE  TypeOK'
<1> USE SafeAssumption DEF SilenceCap
<1>1. timeoutCounter' \in 0..timeout /\ silence' \in 0..SilenceCap
    BY TickEffect DEF TypeOK
<1>2. errorCount' \in 0..CountMod - 1
    BY TickEffect DEF TypeOK
<1>3. ticks' \in 0..TicksPerCall
    BY TickEffect DEF TypeOK
<1> QED BY <1>1, <1>2, <1>3, TickEffect DEF TypeOK, Errors

(* The watchdog counter never passes the timeout, so it cannot wrap round    *)
(* and let a channel that failed start counting again.                       *)
THEOREM TypeCorrect == Spec => []TypeOK
<1>1. TypeOK /\ [Next]_vars => TypeOK'
  <2>1. TypeOK /\ UNCHANGED vars => TypeOK'
      BY DEF vars, fields, TypeOK
  <2> QED BY <2>1, TypeCheckFrame, TypeMain, TypeTick DEF Next
<1> QED BY TypeInit, <1>1, PTL DEF Spec

-----------------------------------------------------------------------------
(* A channel that is OK is watched, if its calls are shorter than its        *)
(* timeout.                                                                  *)

Watched ==
    /\ pc \in {"setOk", "clearError"} => timeoutCounter <= ticks
    /\ state = "OK" => timeoutCounter < timeout

LEMMA WatchedStep ==
    ASSUME TicksPerCall < timeout, TypeOK, Watched, [Next]_vars
    PROVE  Watched'
<1> USE SafeAssumption DEF SilenceCap
<1>1. CASE UNCHANGED vars
    BY <1>1 DEF vars, fields, Watched
<1>2. ASSUME NEW f \in Frame, CheckFrame(f)
      PROVE  Watched'
  <2>1. /\ pc' \in {"idle", "failError", "clearTimer"}
        /\ UNCHANGED <<state, timeoutCounter>>
      BY <1>2 DEF CheckFrame, RefuseFrame, RejectFrame, AcceptFrame, vars, fields
  <2> QED BY <2>1 DEF Watched
<1>3. CASE Reset \/ ResetError \/ FailError \/ FailState \/ FailLoad \/ FailStore \/ ResetArmed
  <2>1. /\ pc' \notin {"setOk", "clearError"} /\ timeoutCounter' = timeoutCounter
        /\ state' = "OK" => state = "OK"
      BY <1>3 DEF Reset, ResetError, FailError, FailState, FailLoad, FailStore, ResetArmed,
                  fields
  <2> QED BY <2>1 DEF Watched
<1>4. CASE AcceptClearTimer \/ ResetTimer
  <2>1. timeoutCounter' = 0 /\ ticks' = ticks
      BY <1>4 DEF AcceptClearTimer, ResetTimer
  <2> QED BY <2>1 DEF Watched, TypeOK
<1>5. CASE AcceptSetOk
  <2>1. timeoutCounter' = timeoutCounter /\ ticks' = ticks /\ timeoutCounter <= ticks
      BY <1>5 DEF AcceptSetOk, Watched
  <2> QED BY <2>1 DEF Watched, TypeOK
<1>6. CASE AcceptClearError
    BY <1>6 DEF AcceptClearError, Watched
<1>7. CASE Tick
  <2>1. pc' \in {"setOk", "clearError"} => timeoutCounter' <= ticks'
      BY <1>7, TickEffect DEF Watched, TypeOK
  <2>2. state' = "OK" => timeoutCounter' < timeout
      BY <1>7, TickEffect DEF Watched, TypeOK
  <2> QED BY <2>1, <2>2 DEF Watched
<1> QED BY <1>1, <1>2, <1>3, <1>4, <1>5, <1>6, <1>7 DEF Next, Continue

(* While fewer ticks than the timeout fit inside one call of the main loop,  *)
(* a channel is never CS_OK with a watchdog that has expired.                *)
THEOREM OkImpliesWatched ==
    ASSUME TicksPerCall < timeout
    PROVE  Spec => []OkIsWatched
<1>1. Init => Watched
    BY SafeAssumption DEF Init, Watched
<1>2. TypeOK /\ Watched /\ [Next]_vars => Watched'
    BY TicksPerCall < timeout, WatchedStep
<1>3. Watched => OkIsWatched
    BY DEF Watched, OkIsWatched
<1> QED BY TypeCorrect, <1>1, <1>2, <1>3, PTL DEF Spec

-----------------------------------------------------------------------------
(* The watchdog's counter is never further behind the silence than the ticks *)
(* of one call.                                                              *)

Measured ==
    /\ silence <= timeoutCounter + TicksPerCall
    /\ pc \in {"clearTimer", "resetError", "resetTimer"} => silence <= ticks

LEMMA MeasuredStep ==
    ASSUME TypeOK, Measured, [Next]_vars
    PROVE  Measured'
<1> USE SafeAssumption
<1>1. CASE UNCHANGED vars
    BY <1>1 DEF vars, fields, Measured
<1>2. ASSUME NEW f \in Frame, CheckFrame(f)
      PROVE  Measured'
  <2>1. CASE RefuseFrame(f)
      BY <2>1 DEF RefuseFrame, vars, fields, Measured
  <2>2. CASE RejectFrame(f)
      BY <2>2 DEF RejectFrame, fields, Measured
  <2>3. CASE AcceptFrame(f)
      BY <2>3 DEF AcceptFrame, Measured, TypeOK
  <2> QED BY <1>2, <2>1, <2>2, <2>3 DEF CheckFrame
<1>3. CASE Reset
    BY <1>3 DEF Reset, Measured, TypeOK
<1>4. CASE AcceptClearTimer \/ ResetTimer
  <2>1. timeoutCounter' = 0 /\ silence' = silence /\ pc' \in {"setOk", "resetArmed"}
      BY <1>4 DEF AcceptClearTimer, ResetTimer
  <2>2. silence <= TicksPerCall
      BY <1>4 DEF AcceptClearTimer, ResetTimer, Measured, TypeOK
  <2> QED BY <2>1, <2>2 DEF Measured
<1>5. CASE \/ AcceptSetOk \/ AcceptClearError \/ FailError \/ FailState \/ FailLoad
           \/ FailStore \/ ResetArmed
  <2>1. /\ pc' \notin {"clearTimer", "resetError", "resetTimer"}
        /\ UNCHANGED <<silence, timeoutCounter>>
      BY <1>5 DEF AcceptSetOk, AcceptClearError, FailError, FailState, FailLoad, FailStore,
                  ResetArmed, fields
  <2> QED BY <2>1 DEF Measured
<1>6. CASE ResetError
    BY <1>6 DEF ResetError, Measured
<1>7. CASE Tick
  <2>1. silence' <= timeoutCounter' + TicksPerCall
      BY <1>7, TickEffect DEF Measured, TypeOK, SilenceCap
  <2>2. pc' \in {"clearTimer", "resetError", "resetTimer"} => silence' <= ticks'
      BY <1>7, TickEffect DEF Measured, TypeOK
  <2> QED BY <2>1, <2>2 DEF Measured
<1> QED BY <1>1, <1>2, <1>3, <1>4, <1>5, <1>6, <1>7 DEF Next, Continue

(* CS_OK means that a frame passed every check less than timeout ticks ago,  *)
(* the ticks of one call apart.                                              *)
THEOREM OkImpliesFresh ==
    ASSUME TicksPerCall < timeout
    PROVE  Spec => []OkIsFresh
<1>1. Init => Measured
    BY SafeAssumption DEF Init, Measured
<1>2. TypeOK /\ Measured /\ [Next]_vars => Measured'
    BY MeasuredStep
<1>3. TypeOK /\ Measured /\ OkIsWatched => OkIsFresh
    BY SafeAssumption DEF Measured, OkIsWatched, OkIsFresh, TypeOK
<1>4. Spec => []OkIsWatched
    BY TicksPerCall < timeout, OkImpliesWatched
<1> QED BY TypeCorrect, <1>1, <1>2, <1>3, <1>4, PTL DEF Spec

-----------------------------------------------------------------------------
(* A channel that has failed under a call that accepts a frame has seen a    *)
(* tick since the call began.                                                *)
FailedDuring == pc \in {"clearTimer", "setOk"} /\ state = "FAILED" => ticks > 0

LEMMA FailedDuringStep ==
    ASSUME TypeOK, FailedDuring, [Next]_vars
    PROVE  FailedDuring'
<1>1. CASE UNCHANGED vars
    BY <1>1 DEF vars, fields, FailedDuring
<1>2. ASSUME NEW f \in Frame, CheckFrame(f)
      PROVE  FailedDuring'
    BY <1>2 DEF CheckFrame, RefuseFrame, RejectFrame, AcceptFrame, OutOfService, vars,
                fields, FailedDuring
<1>3. CASE AcceptClearTimer
    BY <1>3 DEF AcceptClearTimer, FailedDuring
<1>4. CASE Reset \/ (Continue /\ ~AcceptClearTimer)
  <2>1. pc' \notin {"clearTimer", "setOk"}
      BY <1>4 DEF Reset, Continue, AcceptSetOk, AcceptClearError, FailError, FailState,
                  FailLoad, FailStore, ResetError, ResetTimer, ResetArmed
  <2> QED BY <2>1 DEF FailedDuring
<1>5. CASE Tick
    BY <1>5, TickEffect DEF FailedDuring, TypeOK
<1> QED BY <1>1, <1>2, <1>3, <1>4, <1>5 DEF Next, Continue

(* CS_FAILED is left by comsafeReset, and otherwise only by a call during    *)
(* which a tick came.                                                        *)
THEOREM FailedUntilReset == Spec => FailedIsSticky
<1>1. Init => FailedDuring
    BY DEF Init, FailedDuring
<1>2. TypeOK /\ FailedDuring /\ [Next]_vars => FailedDuring'
    BY FailedDuringStep
<1>3. ASSUME FailedDuring, [Next]_vars, state = "FAILED", state' # "FAILED"
      PROVE  Reset \/ (pc = "setOk" /\ ticks > 0)
  <2>1. ASSUME NEW f \in Frame, CheckFrame(f)
        PROVE  state' = state
      BY <2>1 DEF CheckFrame, RefuseFrame, RejectFrame, AcceptFrame, vars, fields
  <2>2. Continue /\ ~AcceptSetOk => state' \in {state, "FAILED"}
      BY DEF Continue, AcceptClearTimer, AcceptClearError, FailError, FailState, FailLoad,
             FailStore, ResetError, ResetTimer, ResetArmed, fields
  <2>3. AcceptSetOk => pc = "setOk" /\ ticks > 0
      BY <1>3 DEF AcceptSetOk, FailedDuring
  <2>4. Tick => state' \in {state, "FAILED"}
      BY DEF Tick
  <2>5. UNCHANGED vars => state' = state
      BY DEF vars, fields
  <2> QED BY <1>3, <2>1, <2>2, <2>3, <2>4, <2>5 DEF Next, Continue
<1> QED BY TypeCorrect, <1>1, <1>2, <1>3, PTL DEF Spec, FailedIsSticky

-----------------------------------------------------------------------------
(* comsafe over a transport (module ComSafeLink). *)

LinkTypes ==
    /\ txSequence \in 0 .. SeqMod - 1 /\ built \in 0 .. Rate
    /\ inFlight \subseteq InTransit /\ behind \in 0 .. MaxBehind

(* A frame in the transport is as many frames old as its number is behind    *)
(* the sender's, and no more than its age allows.                            *)
FramesAged ==
    \A f \in inFlight : /\ (f.seq + f.newer + 1) % SeqMod = txSequence
                        /\ f.newer + 1 <= Rate * f.age + built

Resetting == pc \in {"resetError", "resetTimer", "resetArmed"}

(* So is the frame accepted last, while the channel is in service.           *)
BehindCounts ==
    rxArmed =>
      /\ behind < MaxBehind => (rxSequence + behind + 1) % SeqMod = txSequence
      /\ ~ Resetting /\ silence < SilenceCap
           => behind + 1 <= Rate * (MaxDelay + silence) + built

InService ==
    rxArmed /\ ~ Resetting /\ pc \notin {"clearTimer", "setOk"} => state # "INIT"

LinkInv ==
    /\ TypeOK /\ Watched /\ Measured
    /\ LinkTypes /\ FramesAged /\ BehindCounts /\ InService /\ skipped = 0

LEMMA LinkConstants ==
    /\ SeqMod \in Nat \ {0} /\ timeout \in Nat \ {0} /\ TicksPerCall \in Nat
    /\ Rate \in Nat \ {0} /\ MaxDelay \in Nat
    /\ MaxBehind \in Nat /\ MaxBehind > SeqMod
<1>1. Rate * (timeout + MaxDelay + 2) \in Nat /\ Rate * (timeout + MaxDelay + 2) > 0
  <2>1. timeout + MaxDelay + 2 \in Nat /\ 0 < timeout + MaxDelay + 2 /\ Rate \in Nat \ {0}
      BY SafeAssumption, LinkAssumption
  <2>2. Rate * 0 = 0 /\ 0 \in Nat
      BY <2>1
  <2>3. Rate * 0 + Rate <= Rate * (timeout + MaxDelay + 2)
      BY <2>1, <2>2, Times
  <2>4. Rate * (timeout + MaxDelay + 2) \in Nat
      BY <2>1, Times
  <2> QED BY <2>1, <2>2, <2>3, <2>4
<1> QED BY <1>1, SafeAssumption, LinkAssumption DEF MaxBehind

(* One frame more: the sender's number and the distance go along.            *)
LEMMA OneMore ==
    ASSUME NEW s \in 0 .. SeqMod - 1, NEW n \in Nat, NEW t, (s + n + 1) % SeqMod = t
    PROVE  (s + (n + 1) + 1) % SeqMod = NextSequence(t)
<1>1. s + n + 1 \in Nat /\ 1 \in Nat /\ s + (n + 1) + 1 = (s + n + 1) + 1
    BY LinkConstants
<1>2. (((s + n + 1) % SeqMod) + 1) % SeqMod = ((s + n + 1) + 1) % SeqMod
    BY <1>1, LinkConstants, ModAdd
<1> QED BY <1>1, <1>2 DEF NextSequence

(* What the window is for: one frame can be the next of another only if none *)
(* was built between them.                                                   *)
LEMMA NextIsNext ==
    ASSUME NEW s \in 0 .. SeqMod - 1, NEW n \in Nat, NEW m \in Nat,
           (s + n + 1) % SeqMod = (((s + 1) % SeqMod) + m + 1) % SeqMod,
           n <= SeqMod, m + 1 < SeqMod
    PROVE  n = m + 1
<1>1. /\ s + 1 \in Nat /\ m + 1 \in Nat /\ s + n + 1 \in Nat /\ (s + 1) + (m + 1) \in Nat
      /\ (s + 1) % SeqMod \in 0 .. SeqMod - 1
    BY LinkConstants
<1>2. (((s + 1) % SeqMod) + (m + 1)) % SeqMod = ((s + 1) + (m + 1)) % SeqMod
    BY <1>1, LinkConstants, ModAdd
<1>3. ((s + 1) % SeqMod) + m + 1 = ((s + 1) % SeqMod) + (m + 1)
    BY <1>1
<1>4. (s + n + 1) % SeqMod = ((s + 1) + (m + 1)) % SeqMod
    BY <1>2, <1>3
<1>5. s + n + 1 < (s + 1) + (m + 1) + SeqMod /\ (s + 1) + (m + 1) < s + n + 1 + SeqMod
    BY LinkConstants
<1>6. s + n + 1 = (s + 1) + (m + 1)
    BY <1>1, <1>4, <1>5, LinkConstants, ModClose
<1> QED BY <1>6

LEMMA LinkInitOK == LinkInit => LinkInv
<1> SUFFICES ASSUME LinkInit PROVE LinkInv
    OBVIOUS
<1>1. TypeOK
    BY TypeInit DEF LinkInit
<1>2. Watched /\ Measured
    BY LinkConstants DEF LinkInit, Init, Watched, Measured
<1>3. LinkTypes
    BY LinkConstants DEF LinkInit, LinkTypes
<1>4. FramesAged /\ BehindCounts /\ InService /\ skipped = 0
    BY DEF LinkInit, Init, FramesAged, BehindCounts, InService
<1> QED BY <1>1, <1>2, <1>3, <1>4 DEF LinkInv

(* The receiver's own fields keep what comsafe's proofs say of them.         *)
LEMMA ReceiverStep ==
    ASSUME WindowOK, LinkInv, [Next]_vars
    PROVE  TypeOK' /\ Watched' /\ Measured'
<1>1. TypeOK'
  <2>1. CASE UNCHANGED vars
      BY <2>1 DEF vars, fields, LinkInv, TypeOK
  <2> QED BY <2>1, TypeCheckFrame, TypeMain, TypeTick DEF Next, LinkInv
<1> QED BY <1>1, WatchedStep, MeasuredStep DEF LinkInv, WindowOK

(* The steps that leave the transport alone. *)
LEMMA LinkIdles ==
    ASSUME WindowOK, LinkInv, [Next]_vars,
           UNCHANGED <<txSequence, built, behind, skipped, rxSequence>>,
           inFlight' \subseteq inFlight,
           rxArmed' => rxArmed /\ (Resetting' \/ (~ Resetting /\ silence' = silence)),
           InService'
    PROVE  LinkInv'
<1>1. TypeOK' /\ Watched' /\ Measured'
    BY ReceiverStep
<1>2. LinkTypes' /\ FramesAged' /\ skipped' = 0
    BY DEF LinkInv, LinkTypes, FramesAged
<1>3. BehindCounts'
    BY DEF LinkInv, BehindCounts, SilenceCap
<1> QED BY <1>1, <1>2, <1>3 DEF LinkInv

LEMMA LinkContinues ==
    ASSUME WindowOK, LinkInv, LinkContinue \/ LinkReset
    PROVE  LinkInv'
<1>1. UNCHANGED <<txSequence, built, inFlight, behind, skipped>>
    BY DEF LinkContinue, LinkReset
<1>2. CASE LinkReset
  <2>1. Resetting' /\ UNCHANGED <<rxSequence, rxArmed>> /\ [Next]_vars
      BY <1>2 DEF LinkReset, Reset, Resetting, Next
  <2> QED BY <1>1, <2>1, LinkIdles DEF InService
<1>3. CASE LinkContinue
  <2>1. [Next]_vars
      BY <1>3 DEF LinkContinue, Next
  <2>2. CASE AcceptClearTimer \/ AcceptClearError \/ FailError \/ FailLoad \/ FailStore
    <3>1. /\ UNCHANGED <<rxSequence, rxArmed, state, silence>> /\ ~ Resetting /\ ~ Resetting'
          /\ pc' = "setOk" \/ pc \notin {"clearTimer", "setOk"}
        BY <2>2 DEF AcceptClearTimer, AcceptClearError, FailError, FailLoad, FailStore,
                    fields, Resetting
    <3> QED BY <1>1, <2>1, <3>1, LinkIdles DEF InService, LinkInv
  <2>3. CASE AcceptSetOk \/ FailState
    <3>1. UNCHANGED <<rxSequence, rxArmed, silence>> /\ ~ Resetting /\ state' # "INIT"
        BY <2>3 DEF AcceptSetOk, FailState, Resetting
    <3> QED BY <1>1, <2>1, <3>1, LinkIdles DEF InService
  <2>4. CASE ResetError \/ ResetTimer
    <3>1. UNCHANGED <<rxSequence, rxArmed>> /\ Resetting'
        BY <2>4 DEF ResetError, ResetTimer, Resetting
    <3> QED BY <1>1, <2>1, <3>1, LinkIdles DEF InService
  <2>5. CASE ResetArmed
    <3>1. rxSequence' = rxSequence /\ ~ rxArmed'
        BY <2>5 DEF ResetArmed
    <3> QED BY <1>1, <2>1, <3>1, LinkIdles DEF InService
  <2> QED BY <1>3, <2>2, <2>3, <2>4, <2>5 DEF LinkContinue, Continue
<1> QED BY <1>2, <1>3

LEMMA LinkLoses ==
    ASSUME WindowOK, LinkInv, Lose \/ UNCHANGED linkVars
    PROVE  LinkInv'
<1>1. /\ UNCHANGED <<vars, txSequence, built, behind, skipped>>
      /\ inFlight' \subseteq inFlight
    BY DEF Lose, linkVars
<1>2. UNCHANGED <<rxSequence, rxArmed, state, silence, pc>>
    BY <1>1 DEF vars, fields
<1> QED BY <1>1, <1>2, LinkIdles DEF LinkInv, InService, Resetting

(* A frame refused, rejected or not of this connection. *)
LEMMA LinkRejects ==
    ASSUME WindowOK, LinkInv, NEW f \in Frame, RefuseFrame(f) \/ RejectFrame(f),
           UNCHANGED <<txSequence, built, behind, skipped>>, inFlight' \subseteq inFlight
    PROVE  LinkInv'
<1>1. [Next]_vars
    BY DEF Next, CheckFrame
<1>2. /\ UNCHANGED <<rxSequence, rxArmed, state, silence>>
      /\ ~ Resetting /\ ~ Resetting' /\ pc = "idle"
    BY DEF RefuseFrame, RejectFrame, vars, fields, Resetting
<1> QED BY <1>1, <1>2, LinkIdles DEF LinkInv, InService

LEMMA LinkBuilds ==
    ASSUME WindowOK, LinkInv, BuildFrame
    PROVE  LinkInv'
<1> USE LinkConstants
<1>1. /\ built \in 0 .. Rate /\ built < Rate /\ built' = built + 1
      /\ txSequence \in 0 .. SeqMod - 1 /\ txSequence' = NextSequence(txSequence)
      /\ inFlight \subseteq InTransit /\ behind \in 0 .. MaxBehind /\ behind' = More(behind)
      /\ inFlight' = {[g EXCEPT !.newer = More(g.newer)] : g \in inFlight}
                       \union {[seq |-> txSequence, age |-> 0, newer |-> 0]}
      /\ UNCHANGED <<vars, skipped>>
    BY DEF BuildFrame, LinkInv, LinkTypes
<1>2. UNCHANGED <<rxSequence, rxArmed, state, silence, pc>>
    BY <1>1 DEF vars, fields
<1>3. TypeOK' /\ Watched' /\ Measured'
    BY <1>1, ReceiverStep
<1>4. \A n \in 0 .. MaxBehind : More(n) \in 0 .. MaxBehind
    BY DEF More
<1>5. ASSUME NEW g \in inFlight
      PROVE  /\ g \in InTransit /\ g.newer + 1 <= Rate * g.age + built
             /\ g.seq \in 0 .. SeqMod - 1 /\ g.newer \in Nat /\ g.newer < MaxBehind
             /\ (g.seq + g.newer + 1) % SeqMod = txSequence /\ Rate * g.age \in Nat
  <2>1. g \in InTransit
      BY <1>1
  <2>2. /\ g.age \in 0 .. MaxDelay /\ g.seq \in 0 .. SeqMod - 1 /\ g.newer \in 0 .. MaxBehind
      BY <2>1 DEF InTransit
  <2>3. /\ (g.seq + g.newer + 1) % SeqMod = txSequence /\ g.newer + 1 <= Rate * g.age + built
      BY DEF LinkInv, FramesAged
  <2>4. /\ Rate * g.age \in Nat /\ Rate * g.age <= Rate * MaxDelay
        /\ Rate * (MaxDelay + 1) = Rate * MaxDelay + Rate
        /\ Rate * MaxDelay \in Nat
      BY <2>2, Times
  <2>5. g.newer < MaxBehind
      BY <1>1, <2>2, <2>3, <2>4 DEF WindowOK
  <2> QED BY <2>1, <2>2, <2>3, <2>4, <2>5
<1>6. LinkTypes'
  <2>1. NextSequence(txSequence) \in 0 .. SeqMod - 1
      BY <1>1 DEF NextSequence
  <2>2. [seq |-> txSequence, age |-> 0, newer |-> 0] \in InTransit
      BY <1>1 DEF InTransit
  <2>3. ASSUME NEW g \in inFlight
        PROVE  [g EXCEPT !.newer = More(g.newer)] \in InTransit
      BY <1>1, <1>4 DEF InTransit
  <2> QED BY <1>1, <1>4, <2>1, <2>2, <2>3 DEF LinkTypes
<1>7. FramesAged'
  <2>1. ASSUME NEW g \in inFlight
        PROVE  LET f == [g EXCEPT !.newer = More(g.newer)]
               IN  /\ (f.seq + f.newer + 1) % SeqMod = txSequence'
                   /\ f.newer + 1 <= Rate * f.age + built'
    <3> DEFINE f == [g EXCEPT !.newer = More(g.newer)]
    <3>1. f.seq = g.seq /\ f.age = g.age /\ f.newer = g.newer + 1
        BY <1>5 DEF InTransit, More
    <3>2. (g.seq + (g.newer + 1) + 1) % SeqMod = txSequence'
        BY <1>1, <1>5, OneMore
    <3>3. (g.newer + 1) + 1 <= Rate * g.age + built'
        BY <1>1, <1>5
    <3> HIDE DEF f
    <3> QED BY <3>1, <3>2, <3>3 DEF f
  <2>2. /\ (txSequence + 0 + 1) % SeqMod = txSequence'
        /\ 0 + 1 <= Rate * 0 + built'
    <3>1. txSequence + 0 + 1 = txSequence + 1 /\ Rate * 0 = 0
        BY <1>1
    <3> QED BY <1>1, <3>1 DEF NextSequence
  <2>3. ASSUME NEW f \in inFlight'
        PROVE  /\ (f.seq + f.newer + 1) % SeqMod = txSequence'
               /\ f.newer + 1 <= Rate * f.age + built'
    <3>1. CASE f = [seq |-> txSequence, age |-> 0, newer |-> 0]
      <4>1. f.seq = txSequence /\ f.age = 0 /\ f.newer = 0
          BY <3>1
      <4> QED BY <2>2, <4>1
    <3>2. CASE f \in {[g EXCEPT !.newer = More(g.newer)] : g \in inFlight}
      <4>1. PICK g \in inFlight : f = [g EXCEPT !.newer = More(g.newer)]
          BY <3>2
      <4> QED BY <2>1, <4>1
    <3> QED BY <1>1, <3>1, <3>2
  <2> QED BY <2>3 DEF FramesAged
<1>8. BehindCounts'
  <2> SUFFICES ASSUME rxArmed' PROVE BehindCounts'
      BY DEF BehindCounts
  <2>1. rxArmed /\ rxSequence \in 0 .. SeqMod - 1 /\ behind \in Nat
      BY <1>1, <1>2 DEF LinkInv, TypeOK
  <2>2. behind' < MaxBehind => (rxSequence' + behind' + 1) % SeqMod = txSequence'
    <3>1. SUFFICES ASSUME behind' < MaxBehind
                   PROVE  (rxSequence' + behind' + 1) % SeqMod = txSequence'
        OBVIOUS
    <3>2. behind < MaxBehind /\ behind' = behind + 1
        BY <1>1, <3>1 DEF More
    <3>3. (rxSequence + behind + 1) % SeqMod = txSequence
        BY <2>1, <3>2 DEF LinkInv, BehindCounts
    <3> QED BY <1>1, <1>2, <2>1, <3>2, <3>3, OneMore
  <2>3. ASSUME ~ Resetting', silence' < SilenceCap'
        PROVE  behind' + 1 <= Rate * (MaxDelay' + silence') + built'
    <3>1. ~ Resetting /\ silence < SilenceCap
        BY <1>2, <2>3 DEF Resetting, SilenceCap
    <3>2. behind + 1 <= Rate * (MaxDelay + silence) + built
        BY <2>1, <3>1 DEF LinkInv, BehindCounts
    <3>3. behind' <= behind + 1 /\ behind' \in Nat
        BY <1>1, <1>4 DEF More
    <3>4. Rate * (MaxDelay + silence) \in Nat
      <4>1. MaxDelay + silence \in Nat
          BY DEF LinkInv, TypeOK, SilenceCap
      <4> QED BY <4>1, Times
    <3> QED BY <1>1, <1>2, <2>1, <3>2, <3>3, <3>4
  <2> QED BY <2>2, <2>3 DEF BehindCounts
<1>9. InService'
    BY <1>2 DEF LinkInv, InService, Resetting
<1> QED BY <1>1, <1>3, <1>6, <1>7, <1>8, <1>9 DEF LinkInv

LEMMA LinkTicks ==
    ASSUME WindowOK, LinkInv, LinkTick
    PROVE  LinkInv'
<1> USE LinkConstants
<1>1. /\ Tick /\ built' = 0 /\ UNCHANGED <<txSequence, behind, skipped>>
      /\ inFlight' = {[f EXCEPT !.age = f.age + 1] : f \in {g \in inFlight : g.age < MaxDelay}}
      /\ built \in 0 .. Rate /\ inFlight \subseteq InTransit /\ TypeOK
    BY DEF LinkTick, LinkInv, LinkTypes
<1>2. TypeOK' /\ Watched' /\ Measured'
    BY <1>1, ReceiverStep DEF Next
<1>3. /\ UNCHANGED <<rxSequence, rxArmed, pc>> /\ state' \in {state, "FAILED"}
      /\ silence' = IF silence < SilenceCap THEN silence + 1 ELSE silence
      /\ silence \in Nat
    BY <1>1 DEF Tick, TypeOK, SilenceCap
<1>4. ASSUME NEW f \in inFlight'
      PROVE  /\ f \in InTransit /\ (f.seq + f.newer + 1) % SeqMod = txSequence'
             /\ f.newer + 1 <= Rate * f.age + built'
  <2>1. PICK g \in inFlight : g.age < MaxDelay /\ f = [g EXCEPT !.age = g.age + 1]
      BY <1>1
  <2>2. g \in InTransit /\ g.age \in 0 .. MaxDelay /\ g.newer \in 0 .. MaxBehind
      BY <1>1 DEF InTransit
  <2>3. f \in InTransit /\ f.seq = g.seq /\ f.newer = g.newer /\ f.age = g.age + 1
      BY <2>1, <2>2 DEF InTransit
  <2>4. /\ (g.seq + g.newer + 1) % SeqMod = txSequence
        /\ g.newer + 1 <= Rate * g.age + built
      BY DEF LinkInv, FramesAged
  <2>5. Rate * (g.age + 1) = Rate * g.age + Rate /\ Rate * g.age \in Nat
      BY <2>2, Times
  <2> QED BY <1>1, <2>2, <2>3, <2>4, <2>5
<1>5. LinkTypes' /\ FramesAged'
    BY <1>1, <1>4 DEF LinkTypes, FramesAged, LinkInv
<1>6. ASSUME rxArmed', ~ Resetting', silence' < SilenceCap'
      PROVE  behind' + 1 <= Rate * (MaxDelay' + silence') + built'
  <2>1. silence < SilenceCap /\ silence' = silence + 1 /\ ~ Resetting /\ rxArmed
      BY <1>3, <1>6 DEF Resetting, SilenceCap
  <2>2. behind + 1 <= Rate * (MaxDelay + silence) + built /\ behind \in Nat
      BY <2>1 DEF LinkInv, BehindCounts, LinkTypes
  <2>3. /\ Rate * ((MaxDelay + silence) + 1) = Rate * (MaxDelay + silence) + Rate
        /\ Rate * (MaxDelay + silence) \in Nat
    <3>1. MaxDelay + silence \in Nat
        BY <1>3
    <3> QED BY <3>1, Times
  <2>4. (MaxDelay + silence) + 1 = MaxDelay + silence'
      BY <1>3, <2>1
  <2> QED BY <1>1, <2>2, <2>3, <2>4
<1>7. BehindCounts'
    BY <1>1, <1>3, <1>6 DEF BehindCounts, LinkInv
<1>8. InService'
    BY <1>3 DEF LinkInv, InService, Resetting
<1> QED BY <1>1, <1>2, <1>5, <1>7, <1>8 DEF LinkInv

(* The step the window is about: a frame that is accepted after another was  *)
(* built next after it.                                                      *)
LEMMA LinkAccepts ==
    ASSUME WindowOK, LinkInv, NEW f \in inFlight, AcceptFrame(Good(f)),
           inFlight' \subseteq inFlight, UNCHANGED <<txSequence, built>>,
           skipped' = (IF rxArmed THEN behind - f.newer - 1 ELSE 0), behind' = f.newer
    PROVE  LinkInv'
<1> USE LinkConstants
<1>1. /\ f \in InTransit /\ f.seq \in 0 .. SeqMod - 1 /\ f.newer \in 0 .. MaxBehind
      /\ f.age \in 0 .. MaxDelay /\ built \in 0 .. Rate /\ behind \in 0 .. MaxBehind
      /\ rxSequence \in 0 .. SeqMod - 1
    BY DEF LinkInv, LinkTypes, InTransit, TypeOK
<1>2. (f.seq + f.newer + 1) % SeqMod = txSequence /\ f.newer + 1 <= Rate * f.age + built
    BY DEF LinkInv, FramesAged
<1>3. /\ pc = "idle" /\ state # "FAILED" /\ rxSequence' = f.seq /\ rxArmed'
      /\ silence' = 0 /\ pc' = "clearTimer"
      /\ rxArmed => f.seq = (rxSequence + 1) % SeqMod
    BY DEF AcceptFrame, OutOfService, Verdict, Good, OutOfSequence, Expected
<1>4. TypeOK' /\ Watched' /\ Measured'
  <2>1. Good(f) \in Frame
      BY <1>1 DEF Good, Frame
  <2> QED BY <2>1, ReceiverStep DEF Next, CheckFrame
<1>5. Rate * f.age <= Rate * MaxDelay /\ Rate * f.age \in Nat /\ Rate * MaxDelay \in Nat
      /\ Rate * (MaxDelay + 1) = Rate * MaxDelay + Rate
    BY <1>1, Times
<1>6. LinkTypes' /\ FramesAged'
    BY <1>1 DEF LinkInv, LinkTypes, FramesAged
<1>7. BehindCounts'
  <2>1. f.newer + 1 <= Rate * (MaxDelay + 0) + built
      BY <1>1, <1>2, <1>5
  <2> QED BY <1>2, <1>3, <2>1 DEF BehindCounts
<1>8. ASSUME rxArmed
      PROVE  behind = f.newer + 1
  <2>1. state = "OK"
      BY <1>3, <1>8 DEF LinkInv, InService, Resetting, TypeOK
  <2>2. silence \in Nat /\ silence + 1 <= timeout + TicksPerCall /\ silence < SilenceCap
      BY <2>1 DEF LinkInv, Watched, Measured, TypeOK, SilenceCap
  <2>3. behind + 1 <= Rate * (MaxDelay + silence) + built
      BY <1>3, <1>8, <2>2 DEF LinkInv, BehindCounts, Resetting
  <2>4. /\ Rate * (MaxDelay + silence) + Rate <= Rate * (MaxDelay + timeout + TicksPerCall)
        /\ Rate * (MaxDelay + silence) \in Nat
        /\ Rate * (MaxDelay + timeout + TicksPerCall) \in Nat
    <3>1. /\ MaxDelay + silence \in Nat /\ MaxDelay + timeout + TicksPerCall \in Nat
          /\ MaxDelay + silence < MaxDelay + timeout + TicksPerCall
        BY <2>2
    <3> QED BY <3>1, Times
  <2>5. behind <= SeqMod /\ behind < MaxBehind
      BY <1>1, <2>3, <2>4 DEF WindowOK
  <2>6. f.newer + 1 < SeqMod
      BY <1>1, <1>2, <1>5 DEF WindowOK
  <2>7. (rxSequence + behind + 1) % SeqMod = (((rxSequence + 1) % SeqMod) + f.newer + 1) % SeqMod
      BY <1>2, <1>3, <1>8, <2>5 DEF LinkInv, BehindCounts
  <2>8. behind \in Nat /\ f.newer \in Nat
      BY <1>1
  <2> HIDE LinkConstants
  <2> QED BY <1>1, <2>5, <2>6, <2>7, <2>8, NextIsNext
<1>9. skipped' = 0
    BY <1>1, <1>8
<1>10. InService'
    BY <1>3 DEF InService
<1> QED BY <1>4, <1>6, <1>7, <1>9, <1>10 DEF LinkInv

LEMMA LinkStep ==
    ASSUME WindowOK, LinkInv, [LinkNext]_linkVars
    PROVE  LinkInv'
<1>1. CASE Arrive
  <2>1. PICK f \in inFlight :
           /\ CheckFrame(Good(f))
           /\ inFlight' \in {inFlight, inFlight \ {f}}
           /\ IF pc' = "clearTimer"
                THEN /\ skipped' = IF rxArmed THEN behind - f.newer - 1 ELSE 0
                     /\ behind' = f.newer
                ELSE UNCHANGED <<skipped, behind>>
           /\ UNCHANGED <<txSequence, built>>
      BY <1>1 DEF Arrive
  <2>2. inFlight' \subseteq inFlight
      BY <2>1
  <2>3. CASE AcceptFrame(Good(f))
    <3>1. pc' = "clearTimer"
        BY <2>3 DEF AcceptFrame
    <3> QED BY <2>1, <2>2, <2>3, <3>1, LinkAccepts
  <2>4. CASE RefuseFrame(Good(f)) \/ RejectFrame(Good(f))
    <3>1. pc' # "clearTimer"
        BY <2>4 DEF RefuseFrame, RejectFrame, vars
    <3>2. Good(f) \in Frame
        BY DEF Good, Frame, InTransit, LinkInv, LinkTypes
    <3> QED BY <2>1, <2>2, <2>4, <3>1, <3>2, LinkRejects
  <2> QED BY <2>1, <2>3, <2>4 DEF CheckFrame
<1>2. CASE ArriveBad
  <2>1. PICK f \in Frame : ~ (f.lengthOk /\ f.checkOk /\ f.idOk) /\ CheckFrame(f)
      BY <1>2 DEF ArriveBad
  <2>2. ~ AcceptFrame(f)
      BY <2>1 DEF AcceptFrame, Verdict
  <2> QED BY <1>2, <2>1, <2>2, LinkRejects DEF CheckFrame, ArriveBad
<1> QED BY <1>1, <1>2, LinkBuilds, LinkLoses, LinkTicks, LinkContinues DEF LinkNext

(* The banner's promise, for every sequence modulus, rate, delay and         *)
(* timeout inside the window: a frame accepted after another is the very     *)
(* next one the sender built.                                                *)
THEOREM NothingGoesMissing == LinkSpec => []WindowSuffices
<1>1. CASE ~ WindowOK
  <2>1. WindowSuffices
      BY <1>1 DEF WindowSuffices
  <2> QED BY <2>1, PTL
<1>2. CASE WindowOK
  <2>1. LinkInit => LinkInv
      BY LinkInitOK
  <2>2. LinkInv /\ [LinkNext]_linkVars => LinkInv'
      BY <1>2, LinkStep
  <2>3. LinkInv => WindowSuffices
      BY DEF LinkInv, WindowSuffices, NothingMissed
  <2> QED BY <2>1, <2>2, <2>3, PTL DEF LinkSpec
<1> QED BY <1>1, <1>2

-----------------------------------------------------------------------------
(* comsec. *)

Sessions == {Materials[g].session : g \in DOMAIN Materials}
Keys == {Materials[g].key : g \in DOMAIN Materials}

SecFields ==
    [sessionId : Sessions, txCounter : 0 .. CounterMax, rxCounter : 0 .. CounterMax,
     rxArmed : BOOLEAN, rxPayload : Payloads \union {<<>>},
     rejectCount : 0 .. CountMod - 1, lastError : Sec!Errors]

Said == [key : Keys, id : Sessions, counter : 0 .. CounterMax, payload : Payloads]

FrameOf(says) ==
    [id |-> says.id, counter |-> says.counter, payload |-> says.payload,
     tag |-> Sec!Mac(says.key, says.id, says.counter, says.payload)]

(* The generation a frame was built in: materials differ in key or session.  *)
Under(says, g) == says.key = Materials[g].key /\ says.id = Materials[g].session

SecTypes ==
    /\ sender \in SecFields /\ receiver \in SecFields
    /\ txMaterial \in DOMAIN Materials /\ rxMaterial \in DOMAIN Materials
    /\ sender.sessionId = Materials[txMaterial].session
    /\ receiver.sessionId = Materials[rxMaterial].session
    /\ sent \in Seq(Said) /\ frames \in Seq({FrameOf(says) : says \in Said})
    /\ Len(frames) = Len(sent) /\ \A i \in DOMAIN sent : frames[i] = FrameOf(sent[i])
    /\ last \in 0 .. Len(sent) /\ begun \in 0 .. Len(sent)

(* The sender goes through the generations in order, and in one of them its  *)
(* counter only grows.                                                       *)
SentInOrder ==
    /\ \A i \in DOMAIN sent : /\ \E g \in 1 .. txMaterial : Under(sent[i], g)
                              /\ Under(sent[i], txMaterial) => sent[i].counter <= sender.txCounter
    /\ \A i, j \in DOMAIN sent :
         i < j => \A g, h \in DOMAIN Materials :
                    Under(sent[i], g) /\ Under(sent[j], h)
                      => /\ g <= h
                         /\ g = h => sent[i].counter < sent[j].counter

(* What was taken before a session began is of an earlier generation. *)
Earlier(n) == n # 0 => \E g \in 1 .. rxMaterial - 1 : Under(sent[n], g)

(* An armed guard stands at the last frame taken; one that is not has taken  *)
(* nothing in this generation that still counts.                             *)
GuardStands ==
    /\ receiver.rxArmed => /\ last # 0 /\ Under(sent[last], rxMaterial)
                           /\ receiver.rxCounter = sent[last].counter
    /\ ~ receiver.rxArmed => Earlier(last)
    /\ Earlier(begun)

SecInv == SecTypes /\ SentInOrder /\ GuardStands

LEMMA SecConstants ==
    /\ Len(Materials) \in Nat \ {0} /\ DOMAIN Materials = 1 .. Len(Materials)
    /\ CounterMax \in Nat /\ CountMod \in Nat \ {0}
BY MaterialsAssumption, CounterAssumption, SafeAssumption

(* The key and the session id tell the generation. *)
LEMMA OneGeneration ==
    ASSUME NEW says, NEW g \in DOMAIN Materials, NEW h \in DOMAIN Materials,
           Under(says, g), Under(says, h)
    PROVE  g = h
BY MaterialsAssumption DEF Under

LEMMA FreshFields ==
    ASSUME NEW id \in Sessions
    PROVE  Sec!Fresh(id) \in SecFields
BY SecConstants DEF SecFields, Sec!Fresh, Sec!Errors

LEMMA RekeyFields ==
    ASSUME NEW d \in SecFields, NEW id \in Sessions, NEW c \in 0 .. CounterMax
    PROVE  /\ Sec!Rekey(d, id, c) \in SecFields
           /\ Sec!Rekey(d, id, c).sessionId = id /\ Sec!Rekey(d, id, c).txCounter = c
           /\ ~ Sec!Rekey(d, id, c).rxArmed
<1>1. 0 \in 0 .. CounterMax
    BY SecConstants
<1>2. Sec!Fresh(id) \in SecFields /\ Sec!Fresh(id).sessionId = id /\ ~ Sec!Fresh(id).rxArmed
    BY FreshFields DEF Sec!Fresh
<1>3. d.rejectCount \in 0 .. CountMod - 1
    BY DEF SecFields
<1> QED BY <1>2, <1>3 DEF Sec!Rekey, SecFields

LEMMA SecInitOK == Sec!Init => SecInv /\ Sec!Channel!Init
<1> SUFFICES ASSUME Sec!Init PROVE SecInv /\ Sec!Channel!Init
    OBVIOUS
<1>1. 1 \in DOMAIN Materials /\ Materials[1].session \in Sessions
    BY SecConstants DEF Sessions
<1>2. sender \in SecFields /\ receiver \in SecFields
    BY <1>1, FreshFields DEF Sec!Init
<1>3. /\ sender.sessionId = Materials[1].session /\ receiver.sessionId = Materials[1].session
      /\ ~ receiver.rxArmed
    BY DEF Sec!Init, Sec!Fresh
<1>4. /\ sent = <<>> /\ frames = <<>> /\ Len(sent) = 0 /\ DOMAIN sent = {} /\ last = 0 /\ begun = 0
      /\ txMaterial = 1 /\ rxMaterial = 1 /\ handed = <<>>
    BY DEF Sec!Init
<1>5. SecTypes
    BY <1>1, <1>2, <1>3, <1>4 DEF SecTypes
<1>6. SentInOrder /\ GuardStands
    BY <1>3, <1>4 DEF SentInOrder, GuardStands, Earlier
<1> QED BY <1>4, <1>5, <1>6 DEF SecInv, Sec!Channel!Init

-----------------------------------------------------------------------------
(* The sender. *)

LEMMA SecBuilds ==
    ASSUME SecInv, NEW payload \in Payloads, Sec!BuildAccepted(payload),
           UNCHANGED <<receiver, txMaterial, rxMaterial, begun>>
    PROVE  /\ SecInv' /\ Sec!Channel!Send
           /\ \A i \in DOMAIN sent : Sec!Nonce(sent[i]) # Sec!Nonce(sent'[Len(sent')])
<1> DEFINE counter == (sender.txCounter + 1) % (CounterMax + 1)
           says == [key |-> Materials[txMaterial].key, id |-> sender.sessionId,
                    counter |-> counter, payload |-> payload]
           n == Len(sent)
<1> USE SecConstants
<1>1. /\ sender \in SecFields /\ txMaterial \in DOMAIN Materials /\ sent \in Seq(Said)
      /\ n \in Nat /\ DOMAIN sent = 1 .. n /\ Len(frames) = n
      /\ sender.sessionId = Materials[txMaterial].session
    BY DEF SecInv, SecTypes
<1>a. /\ \A i \in 1 .. n : sent[i].counter \in 0 .. CounterMax
      /\ sender.txCounter \in 0 .. CounterMax
  <2>1. ASSUME NEW i \in 1 .. n PROVE sent[i] \in Said
      BY <1>1
  <2>2. ASSUME NEW i \in 1 .. n PROVE sent[i].counter \in 0 .. CounterMax
      BY <2>1 DEF Said
  <2>3. sender.txCounter \in 0 .. CounterMax
      BY <1>1 DEF SecFields
  <2> QED BY <2>2, <2>3
<1>2. counter = sender.txCounter + 1 /\ counter \in 0 .. CounterMax
  <2>1. sender.txCounter \in 0 .. CounterMax /\ sender.txCounter # CounterMax
      BY <1>1 DEF SecFields, Sec!BuildAccepted, Sec!Spent
  <2>2. \A x \in 0 .. CounterMax - 1 : (x + 1) % (CounterMax + 1) = x + 1
      OBVIOUS
  <2> QED BY <2>1, <2>2
<1>3. /\ sender' = [sender EXCEPT !.txCounter = counter]
      /\ sent' = Append(sent, says) /\ frames' = Append(frames, FrameOf(says))
      /\ UNCHANGED <<handed, last, receiver, txMaterial, rxMaterial, begun>>
    BY DEF Sec!BuildAccepted, FrameOf
<1>4. says \in Said /\ Under(says, txMaterial) /\ says.counter = counter
    BY <1>1, <1>2 DEF Said, Under, Keys, Sessions
<1> HIDE DEF counter, says
<1>5. /\ sender' \in SecFields /\ sender'.sessionId = sender.sessionId
      /\ sender'.txCounter = counter
    BY <1>1, <1>2, <1>3 DEF SecFields
<1>6. /\ sent' \in Seq(Said) /\ Len(sent') = n + 1 /\ DOMAIN sent' = 1 .. n + 1
      /\ sent'[n + 1] = says /\ \A i \in 1 .. n : sent'[i] = sent[i]
    BY <1>1, <1>3, <1>4
<1>7. SecTypes'
  <2>1. frames \in Seq({FrameOf(s) : s \in Said}) /\ FrameOf(says) \in {FrameOf(s) : s \in Said}
      BY <1>4 DEF SecInv, SecTypes
  <2>2. /\ frames' \in Seq({FrameOf(s) : s \in Said}) /\ Len(frames') = n + 1
        /\ frames'[n + 1] = FrameOf(says) /\ \A i \in 1 .. n : frames'[i] = frames[i]
      BY <1>1, <1>3, <2>1
  <2>3. \A i \in DOMAIN sent' : frames'[i] = FrameOf(sent'[i])
      BY <1>1, <1>6, <2>2 DEF SecInv, SecTypes
  <2>4. last' \in 0 .. Len(sent') /\ begun' \in 0 .. Len(sent')
      BY <1>1, <1>3, <1>6 DEF SecInv, SecTypes
  <2> QED BY <1>1, <1>3, <1>5, <1>6, <2>2, <2>3, <2>4 DEF SecInv, SecTypes
<1>8. SentInOrder'
  <2>1. ASSUME NEW i \in 1 .. n
        PROVE  /\ \E g \in 1 .. txMaterial : Under(sent[i], g)
               /\ Under(sent[i], txMaterial) => sent[i].counter < counter
    <3>1. sent[i].counter \in 0 .. CounterMax /\ sender.txCounter \in 0 .. CounterMax
        BY <1>a
    <3> QED BY <1>1, <1>2, <3>1 DEF SecInv, SentInOrder
  <2>2. ASSUME NEW i \in DOMAIN sent'
        PROVE  /\ \E g \in 1 .. txMaterial' : Under(sent'[i], g)
               /\ Under(sent'[i], txMaterial') => sent'[i].counter <= sender'.txCounter
    <3>1. CASE i = n + 1
        BY <1>1, <1>2, <1>3, <1>4, <1>5, <1>6, <3>1
    <3>2. CASE i \in 1 .. n
      <4>1. sent'[i] = sent[i] /\ sent[i].counter \in 0 .. CounterMax
          BY <1>1, <1>a, <1>6, <3>2
      <4> QED BY <1>2, <1>3, <1>5, <2>1, <3>2, <4>1
    <3> QED BY <1>6, <3>1, <3>2
  <2>3. ASSUME NEW i \in DOMAIN sent', NEW j \in DOMAIN sent', i < j,
               NEW g \in DOMAIN Materials, NEW h \in DOMAIN Materials,
               Under(sent'[i], g), Under(sent'[j], h)
        PROVE  g <= h /\ (g = h => sent'[i].counter < sent'[j].counter)
    <3>1. i \in 1 .. n /\ sent'[i] = sent[i]
        BY <1>1, <1>6, <2>3
    <3>2. CASE j = n + 1
      <4>1. h = txMaterial
          BY <1>1, <1>4, <1>6, <2>3, <3>2, OneGeneration
      <4>2. PICK k \in 1 .. txMaterial : Under(sent[i], k)
          BY <2>1, <3>1
      <4>3. k \in DOMAIN Materials
          BY <1>1
      <4>4. g = k
          BY <2>3, <3>1, <4>2, <4>3, OneGeneration
      <4>5. g <= h
          BY <4>1, <4>4, <1>1
      <4> QED BY <1>4, <1>6, <2>1, <2>3, <3>1, <3>2, <4>1, <4>5
    <3>3. CASE j \in 1 .. n
      <4>1. sent'[j] = sent[j] /\ j \in DOMAIN sent /\ i \in DOMAIN sent
          BY <1>1, <1>6, <3>1, <3>3
      <4> QED BY <2>3, <3>1, <4>1 DEF SecInv, SentInOrder
    <3> QED BY <1>6, <3>2, <3>3
  <2> QED BY <2>2, <2>3 DEF SentInOrder, Under
<1>9. GuardStands'
  <2>1. (last # 0 => sent'[last] = sent[last]) /\ (begun # 0 => sent'[begun] = sent[begun])
      BY <1>1, <1>6 DEF SecInv, SecTypes
  <2> QED BY <1>3, <2>1 DEF SecInv, GuardStands, Earlier, Under
<1>10. Sec!Channel!Send
    BY <1>3, <1>4 DEF Sec!Channel!Send, Said, Keys, Sessions
<1>11. ASSUME NEW i \in DOMAIN sent PROVE Sec!Nonce(sent[i]) # Sec!Nonce(sent'[Len(sent')])
  <2>1. sent'[Len(sent')] = says
      BY <1>6
  <2>2. sent[i].counter \in 0 .. CounterMax /\ sender.txCounter \in 0 .. CounterMax
      BY <1>1, <1>a
  <2>3. Under(sent[i], txMaterial) => sent[i].counter <= sender.txCounter
      BY DEF SecInv, SentInOrder
  <2>4. ASSUME sent[i].key = says.key, sent[i].id = says.id, sent[i].counter = says.counter
        PROVE  FALSE
      BY <1>2, <1>4, <2>2, <2>3, <2>4 DEF Under
  <2> QED BY <2>1, <2>4 DEF Sec!Nonce
<1> QED BY <1>7, <1>8, <1>9, <1>10, <1>11 DEF SecInv

(* The steps of the sender that build nothing. *)
LEMMA SecSenderIdles ==
    ASSUME SecInv, sender' \in SecFields, sender'.sessionId = sender.sessionId,
           sender'.txCounter = sender.txCounter,
           UNCHANGED <<receiver, txMaterial, rxMaterial, begun, frames, sent, handed, last>>
    PROVE  SecInv' /\ UNCHANGED Sec!Channel!vars
<1>1. SecTypes'
    BY DEF SecInv, SecTypes
<1>2. SentInOrder' /\ GuardStands'
    BY DEF SecInv, SentInOrder, GuardStands, Earlier, Under
<1> QED BY <1>1, <1>2 DEF SecInv, Sec!Channel!vars

(* Its next generation. *)
LEMMA SecSenderMoves ==
    ASSUME SecInv, Sec!RekeySender
    PROVE  SecInv' /\ UNCHANGED Sec!Channel!vars
<1> USE SecConstants
<1>1. /\ txMaterial + 1 \in DOMAIN Materials /\ txMaterial' = txMaterial + 1
      /\ UNCHANGED <<receiver, rxMaterial, begun, frames, sent, handed, last>>
      /\ sender \in SecFields
    BY DEF Sec!RekeySender, Sec!channel, SecInv, SecTypes
<1>2. PICK c \in 0 .. CounterMax :
        sender' = Sec!Rekey(sender, Materials[txMaterial + 1].session, c)
  <2>1. sender.txCounter \in 0 .. CounterMax
      BY <1>1 DEF SecFields
  <2> QED BY <2>1 DEF Sec!RekeySender
<1>3. /\ sender' \in SecFields
      /\ sender'.sessionId = Materials[txMaterial + 1].session
    BY <1>1, <1>2, RekeyFields DEF Sessions
<1>4. SecTypes'
    BY <1>1, <1>3 DEF SecInv, SecTypes
<1>5. ASSUME NEW i \in DOMAIN sent
      PROVE  /\ \E g \in 1 .. txMaterial + 1 : Under(sent[i], g)
             /\ ~ Under(sent[i], txMaterial + 1)
  <2>1. PICK g \in 1 .. txMaterial : Under(sent[i], g)
      BY DEF SecInv, SentInOrder
  <2>2. g \in DOMAIN Materials /\ g # txMaterial + 1 /\ g \in 1 .. txMaterial + 1
      BY <1>1, <2>1 DEF SecInv, SecTypes
  <2> QED BY <1>1, <2>1, <2>2, OneGeneration
<1>6. SentInOrder'
    BY <1>1, <1>5 DEF SecInv, SentInOrder, Under
<1>7. GuardStands'
    BY <1>1 DEF SecInv, GuardStands, Earlier, Under
<1> QED BY <1>1, <1>4, <1>6, <1>7 DEF SecInv, Sec!Channel!vars

-----------------------------------------------------------------------------
(* The receiver. *)

(* A frame that passes every check is one that was built, in the generation  *)
(* the receiver is in and later than the last it took.                       *)
LEMMA SecAccepts ==
    ASSUME SecInv, NEW i \in DOMAIN frames, NEW frame \in Sec!Altered(frames[i]),
           Sec!AcceptFrame(i, frame), UNCHANGED <<sender, txMaterial, rxMaterial, begun, frames>>
    PROVE  SecInv' /\ Sec!Channel!Hand
<1> USE SecConstants
<1> DEFINE s == sent[i]
           key == Materials[rxMaterial].key
<1>1. /\ i \in DOMAIN sent /\ i \in 1 .. Len(sent) /\ s \in Said /\ frames[i] = FrameOf(s)
      /\ rxMaterial \in DOMAIN Materials /\ last \in 0 .. Len(sent) /\ Len(sent) \in Nat
      /\ receiver.sessionId = Materials[rxMaterial].session /\ receiver \in SecFields
    BY DEF SecInv, SecTypes
<1>2. /\ frame.tag = Sec!Mac(key, frame.id, frame.counter, frame.payload)
      /\ frame.id = receiver.sessionId
      /\ receiver.rxArmed => ~ (frame.counter <= receiver.rxCounter)
    BY DEF Sec!AcceptFrame, Sec!Verdict, Sec!OtherSession, Sec!Replay
<1>3. frame.tag = frames[i].tag
    BY <1>1 DEF Sec!Altered, FrameOf
<1>4. /\ key = s.key /\ frame.id = s.id /\ frame.counter = s.counter /\ frame.payload = s.payload
    BY <1>1, <1>2, <1>3 DEF FrameOf, Sec!Mac
<1>5. Under(s, rxMaterial)
    BY <1>1, <1>2, <1>4 DEF Under
<1>6. s.counter \in 0 .. CounterMax /\ s.payload \in Payloads
    BY <1>1 DEF Said
<1>7. last < i
  <2>1. CASE last = 0
      BY <1>1, <2>1
  <2>2. CASE last # 0 /\ receiver.rxArmed
    <3>1. /\ Under(sent[last], rxMaterial) /\ sent[last].counter = receiver.rxCounter
          /\ last \in DOMAIN sent /\ sent[last] \in Said
        BY <1>1, <2>2 DEF SecInv, GuardStands, SecTypes
    <3>2. sent[last].counter \in 0 .. CounterMax
        BY <3>1 DEF Said
    <3>3. sent[last].counter < s.counter
        BY <1>2, <1>4, <1>6, <2>2, <3>1, <3>2
    <3>4. i < last => s.counter < sent[last].counter
        BY <1>1, <1>5, <3>1 DEF SecInv, SentInOrder
    <3> QED BY <1>1, <1>6, <3>2, <3>3, <3>4
  <2>3. CASE last # 0 /\ ~ receiver.rxArmed
    <3>1. PICK g \in 1 .. rxMaterial - 1 : Under(sent[last], g)
        BY <2>3 DEF SecInv, GuardStands, Earlier
    <3>2. g \in DOMAIN Materials /\ g < rxMaterial /\ last \in DOMAIN sent
        BY <1>1, <2>3, <3>1 DEF SecInv, SecTypes
    <3>3. i # last
        BY <1>1, <1>5, <3>1, <3>2, OneGeneration
    <3>4. i < last => rxMaterial <= g
        BY <1>1, <1>5, <3>1, <3>2 DEF SecInv, SentInOrder
    <3> QED BY <1>1, <3>2, <3>3, <3>4
  <2> QED BY <2>1, <2>2, <2>3
<1>8. /\ receiver' = [receiver EXCEPT !.rxPayload = s.payload, !.rxCounter = s.counter,
                                      !.rxArmed = TRUE, !.lastError = "NONE"]
      /\ handed' = Append(handed, [key |-> s.key, id |-> s.id, counter |-> s.counter,
                                    payload |-> s.payload])
      /\ last' = i /\ sent' = sent
    BY <1>4 DEF Sec!AcceptFrame
<1>9. [key |-> s.key, id |-> s.id, counter |-> s.counter, payload |-> s.payload] = s
    BY <1>1 DEF Said
<1>10. Sec!Channel!Hand
    BY <1>1, <1>7, <1>8, <1>9 DEF Sec!Channel!Hand
<1>11. /\ receiver' \in SecFields /\ receiver'.rxArmed /\ receiver'.rxCounter = s.counter
       /\ receiver'.sessionId = receiver.sessionId
    BY <1>1, <1>6, <1>8 DEF SecFields, Sec!Errors
<1>12. SecTypes'
    BY <1>1, <1>8, <1>11 DEF SecInv, SecTypes
<1>13. SentInOrder'
    BY <1>8 DEF SecInv, SentInOrder, Under
<1>14. GuardStands'
    BY <1>1, <1>5, <1>8, <1>11 DEF SecInv, GuardStands, Earlier, Under
<1> QED BY <1>10, <1>12, <1>13, <1>14 DEF SecInv

LEMMA SecRejects ==
    ASSUME SecInv, NEW frame, Sec!RejectFrame(frame),
           UNCHANGED <<sender, txMaterial, rxMaterial, begun, frames>>
    PROVE  SecInv' /\ UNCHANGED Sec!Channel!vars
<1> USE SecConstants
<1>1. UNCHANGED <<sent, handed, last>>
    BY DEF Sec!RejectFrame, Sec!channel
<1>2. Sec!Verdict(frame) \in Sec!Errors
    BY DEF Sec!Verdict, Sec!Errors
<1>3. /\ receiver' \in SecFields /\ receiver'.sessionId = receiver.sessionId
      /\ receiver'.rxArmed = receiver.rxArmed /\ receiver'.rxCounter = receiver.rxCounter
  <2>1. receiver \in SecFields /\ receiver.rejectCount \in 0 .. CountMod - 1
      BY DEF SecInv, SecTypes, SecFields
  <2>2. (receiver.rejectCount + 1) % CountMod \in 0 .. CountMod - 1
      BY <2>1
  <2>3. receiver' = [receiver EXCEPT !.lastError = Sec!Verdict(frame),
                                     !.rejectCount = (receiver.rejectCount + 1) % CountMod]
      BY DEF Sec!RejectFrame
  <2> QED BY <1>2, <2>1, <2>2, <2>3 DEF SecFields
<1>4. SecTypes'
    BY <1>1, <1>3 DEF SecInv, SecTypes
<1>5. SentInOrder' /\ GuardStands'
    BY <1>1, <1>3 DEF SecInv, SentInOrder, GuardStands, Earlier, Under
<1> QED BY <1>1, <1>4, <1>5 DEF SecInv, Sec!Channel!vars

LEMMA SecReceiverMoves ==
    ASSUME SecInv, Sec!RekeyReceiver \/ Sec!RestartReceiver
    PROVE  SecInv' /\ UNCHANGED Sec!Channel!vars
<1> USE SecConstants
<1>1. /\ rxMaterial + 1 \in DOMAIN Materials /\ rxMaterial' = rxMaterial + 1
      /\ begun' = last /\ UNCHANGED <<sender, txMaterial, frames, sent, handed, last>>
      /\ receiver \in SecFields /\ 0 \in 0 .. CounterMax
    BY DEF Sec!RekeyReceiver, Sec!RestartReceiver, Sec!channel, SecInv, SecTypes
<1>2. PICK d \in SecFields :
        receiver' = Sec!Rekey(d, Materials[rxMaterial + 1].session, 0)
  <2>1. Sec!Fresh(Materials[1].session) \in SecFields
      BY FreshFields DEF Sessions
  <2> QED BY <1>1, <2>1 DEF Sec!RekeyReceiver, Sec!RestartReceiver
<1>3. /\ receiver' \in SecFields /\ ~ receiver'.rxArmed
      /\ receiver'.sessionId = Materials[rxMaterial + 1].session
    BY <1>1, <1>2, RekeyFields DEF Sessions
<1>4. SecTypes'
    BY <1>1, <1>3 DEF SecInv, SecTypes
<1>5. SentInOrder'
    BY <1>1 DEF SecInv, SentInOrder, Under
<1>6. last # 0 => \E g \in 1 .. rxMaterial : Under(sent[last], g)
  <2>1. rxMaterial \in 1 .. Len(Materials)
      BY DEF SecInv, SecTypes
  <2>2. rxMaterial \in 1 .. rxMaterial /\ \A g \in 1 .. rxMaterial - 1 : g \in 1 .. rxMaterial
      BY <2>1
  <2>3. CASE receiver.rxArmed
      BY <2>2, <2>3 DEF SecInv, GuardStands
  <2>4. CASE ~ receiver.rxArmed
      BY <2>2, <2>4 DEF SecInv, GuardStands, Earlier
  <2> QED BY <2>3, <2>4
<1>7. GuardStands'
  <2>1. rxMaterial' - 1 = rxMaterial
      BY <1>1 DEF SecInv, SecTypes
  <2> QED BY <1>1, <1>3, <1>6, <2>1 DEF GuardStands, Earlier, Under
<1> QED BY <1>1, <1>4, <1>5, <1>7 DEF SecInv, Sec!Channel!vars

(* A receiver that resumes its session is in the place it was in when the    *)
(* session began.                                                            *)
LEMMA SecReceiverResumes ==
    ASSUME SecInv, Sec!ResumeReceiver
    PROVE  SecInv' /\ sent' = sent
<1> USE SecConstants
<1>1. /\ last' = begun
      /\ UNCHANGED <<sender, txMaterial, rxMaterial, begun, frames, sent, handed>>
      /\ receiver \in SecFields /\ receiver.sessionId = Materials[rxMaterial].session
      /\ rxMaterial \in DOMAIN Materials /\ begun \in 0 .. Len(sent)
    BY DEF Sec!ResumeReceiver, SecInv, SecTypes
<1>2. /\ receiver' \in SecFields /\ receiver'.sessionId = receiver.sessionId
      /\ ~ receiver'.rxArmed
  <2>1. Sec!Fresh(Materials[1].session) \in SecFields
      BY FreshFields DEF Sessions
  <2>2. receiver.sessionId \in Sessions /\ receiver.txCounter \in 0 .. CounterMax
      BY <1>1 DEF SecFields
  <2> QED BY <2>1, <2>2, RekeyFields DEF Sec!ResumeReceiver
<1>3. SecTypes'
    BY <1>1, <1>2 DEF SecInv, SecTypes
<1>4. SentInOrder' /\ GuardStands'
    BY <1>1, <1>2 DEF SecInv, SentInOrder, GuardStands, Earlier, Under
<1> QED BY <1>1, <1>3, <1>4 DEF SecInv

-----------------------------------------------------------------------------
(* comsec is a channel. *)

(* What a step of comsec is to the channel, and that it uses no nonce twice. *)
ChannelStep == [Sec!Channel!Next \/ Sec!ResumeReceiver]_(Sec!channel)
NoNonceTwice ==
    \A i \in DOMAIN sent : sent' # sent => Sec!Nonce(sent[i]) # Sec!Nonce(sent'[Len(sent')])

LEMMA SecStep ==
    ASSUME SecInv, [Sec!Next]_sec
    PROVE  SecInv' /\ ChannelStep /\ NoNonceTwice
<1> USE SecConstants
<1>1. ASSUME UNCHANGED Sec!Channel!vars
      PROVE  ChannelStep /\ NoNonceTwice
    BY <1>1 DEF Sec!Channel!vars, Sec!channel, ChannelStep, NoNonceTwice
<1>2. CASE UNCHANGED sec
  <2>1. SecInv'
      BY <1>2 DEF sec, SecInv, SecTypes, SentInOrder, GuardStands, Earlier, Under
  <2>2. UNCHANGED Sec!Channel!vars
      BY <1>2 DEF sec, Sec!Channel!vars
  <2> QED BY <1>1, <2>1, <2>2
<1>3. CASE Sec!BuildFrame
  <2>1. CASE Sec!BuildExhausted \/ \E payload \in Payloads : Sec!BuildTooLong(payload)
    <3>1. /\ sender' \in SecFields /\ sender'.sessionId = sender.sessionId
          /\ sender'.txCounter = sender.txCounter
          /\ UNCHANGED <<frames, sent, handed, last>>
      <4>1. sender \in SecFields
          BY DEF SecInv, SecTypes
      <4>2. PICK e \in Sec!Errors : sender' = [sender EXCEPT !.lastError = e]
          BY <2>1 DEF Sec!BuildExhausted, Sec!BuildTooLong, Sec!Errors
      <4>3. UNCHANGED <<frames, sent, handed, last>>
          BY <2>1 DEF Sec!BuildExhausted, Sec!BuildTooLong, Sec!channel
      <4> QED BY <4>1, <4>2, <4>3 DEF SecFields
    <3> QED BY <1>1, <1>3, <3>1, SecSenderIdles DEF Sec!BuildFrame, Sec!callers
  <2>2. ASSUME NEW payload \in Payloads, Sec!BuildAccepted(payload)
        PROVE  SecInv' /\ ChannelStep /\ NoNonceTwice
      BY <1>3, <2>2, SecBuilds
      DEF Sec!BuildFrame, Sec!callers, Sec!Channel!Next, ChannelStep, NoNonceTwice
  <2> QED BY <1>3, <2>1, <2>2 DEF Sec!BuildFrame
<1>4. CASE Sec!CheckFrame
  <2>0. PICK i \in DOMAIN frames : \E frame \in Sec!Altered(frames[i]) :
          Sec!RejectFrame(frame) \/ Sec!AcceptFrame(i, frame)
      BY <1>4 DEF Sec!CheckFrame
  <2>1. PICK frame \in Sec!Altered(frames[i]) :
          Sec!RejectFrame(frame) \/ Sec!AcceptFrame(i, frame)
      BY <2>0
  <2>2. UNCHANGED <<sender, txMaterial, rxMaterial, begun, frames>>
      BY <1>4 DEF Sec!CheckFrame, Sec!callers
  <2>3. CASE Sec!RejectFrame(frame)
      BY <1>1, <2>2, <2>3, SecRejects
  <2>4. CASE Sec!AcceptFrame(i, frame)
    <3>1. SecInv' /\ Sec!Channel!Hand
        BY <2>2, <2>4, SecAccepts
    <3>2. sent' = sent
        BY <2>4 DEF Sec!AcceptFrame
    <3> QED BY <3>1, <3>2 DEF Sec!Channel!Next, ChannelStep, NoNonceTwice
  <2> QED BY <2>1, <2>3, <2>4
<1>5. CASE Sec!RekeySender
    BY <1>1, <1>5, SecSenderMoves
<1>6. CASE Sec!RekeyReceiver \/ Sec!RestartReceiver
    BY <1>1, <1>6, SecReceiverMoves
<1>7. CASE Sec!RestartSender
  <2>1. /\ sender.sessionId \in Sessions /\ sender.txCounter \in 0 .. CounterMax
        /\ Sec!Fresh(Materials[1].session) \in SecFields
    <3>1. Materials[1].session \in Sessions
        BY DEF Sessions
    <3>2. Sec!Fresh(Materials[1].session) \in SecFields
        BY <3>1, FreshFields
    <3>3. sender \in SecFields /\ txMaterial \in DOMAIN Materials
          /\ sender.sessionId = Materials[txMaterial].session
        BY DEF SecInv, SecTypes
    <3> QED BY <3>2, <3>3 DEF SecFields
  <2>2. /\ sender' \in SecFields /\ sender'.sessionId = sender.sessionId
        /\ sender'.txCounter = sender.txCounter
      BY <1>7, <2>1, RekeyFields DEF Sec!RestartSender
  <2>3. UNCHANGED <<receiver, txMaterial, rxMaterial, begun, frames, sent, handed, last>>
      BY <1>7 DEF Sec!RestartSender, Sec!channel, Sec!callers
  <2> QED BY <1>1, <2>2, <2>3, SecSenderIdles
<1>8. CASE Sec!ResumeReceiver
    BY <1>8, SecReceiverResumes DEF ChannelStep, NoNonceTwice
<1> QED BY <1>2, <1>3, <1>4, <1>5, <1>6, <1>7, <1>8 DEF Sec!Next

(* Whatever the transport loses, repeats, reorders or alters, and however    *)
(* the two ends change key material and are reset, the receiver of comsec    *)
(* takes frames that were sent, whole and in their order, none twice, and no *)
(* frame leaves under the key, session id and counter of an earlier one.     *)
(* Only a receiver that resumes its session after a reset may take frames of *)
(* that session again, and those of no earlier one: comsecRekey disarms its  *)
(* guard whatever session it is given.                                       *)
THEOREM ChannelIsAuthenticated == LayersSpec => AuthenticatedChannel
<1>1. LayersInit => SecInv /\ Sec!Channel!Init
    BY SecInitOK DEF LayersInit
<1>2. SecInv /\ [LayersNext]_layersVars
        => SecInv' /\ ChannelStep /\ [NoNonceTwice]_(Sec!vars)
  <2>1. [LayersNext]_layersVars => [Sec!Next]_sec
      BY DEF LayersNext, Safe, Linked, layersVars
  <2> QED BY <2>1, SecStep
<1>3. [][NoNonceTwice]_(Sec!vars) => Sec!NoneReused
    BY PTL DEF Sec!NoneReused, NoNonceTwice
<1> QED BY <1>1, <1>2, <1>3, PTL
      DEF LayersSpec, AuthenticatedChannel, Sec!IsChannel, ChannelStep
=============================================================================
