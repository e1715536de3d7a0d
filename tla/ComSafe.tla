------------------------------- MODULE ComSafe -------------------------------
(***************************************************************************)
(* The receiving half of comsafe: sequence, connection id, check and       *)
(* watchdog over a transport that is not trusted.  The main loop calls     *)
(* comsafeCheckFrame and comsafeReset, a periodic tick calls               *)
(* comsafeTimeoutCounter.  The tick may be an interrupt that comes between *)
(* the main loop's stores to the fields both write, TicksPerCall times     *)
(* during one call of the main loop; with 0 it never does.                 *)
(***************************************************************************)
EXTENDS Integers

CONSTANTS
    SeqMod,     \* sequence numbers: 256 in the code
    timeout,    \* ticks without a valid frame before the channel fails
    CountMod,   \* errorCount is a uint32_t: 2^32 in the code
    TicksPerCall \* ticks that may come during one call of the main loop

ASSUME SafeAssumption ==
    /\ SeqMod \in Nat /\ SeqMod > 1
    /\ timeout \in Nat \ {0}
    /\ CountMod \in Nat \ {0}
    /\ TicksPerCall \in Nat

VARIABLES
    rxSequence, rxArmed, state, lastError, timeoutCounter, errorCount,
    pc,         \* where the main loop stands in comsafeCheckFrame or comsafeReset
    reason,     \* comsafeFail's argument while the main loop is inside it
    register,   \* errorCount as ++errorCount loaded it
    ticks,      \* ticks that came during the call that is running
    (* History, read by the properties only. *)
    silence     \* ticks since the last accepted frame or reset, up to SilenceCap

fields == <<rxSequence, rxArmed, state, lastError, timeoutCounter, errorCount>>
vars == <<fields, pc, reason, register, ticks, silence>>

Errors == {"LENGTH", "CHECK", "ID", "SEQUENCE", "TIMEOUT"}
Labels == {"idle", "clearTimer", "setOk", "clearError",
           "failError", "failState", "failLoad", "failStore",
           "resetError", "resetTimer", "resetArmed"}

SilenceCap == timeout + TicksPerCall

(* A frame as the checks see it.  checkOk is computed = carried; a corrupted *)
(* frame is one that the caller's checksum tells from a good one.            *)
Frame == [lengthOk : BOOLEAN, checkOk : BOOLEAN, idOk : BOOLEAN, seq : 0..SeqMod - 1]

Init ==
    /\ rxSequence = 0 /\ rxArmed = FALSE
    /\ state = "INIT" /\ lastError = "NONE"
    /\ timeoutCounter = 0 /\ errorCount = 0
    /\ pc = "idle" /\ reason = "NONE" /\ register = 0
    /\ ticks = 0 /\ silence = 0

-----------------------------------------------------------------------------
(* comsafeCheckFrame. *)

ExpectedAgain == rxSequence  \* mutant: the frame already seen
Expected == (rxSequence + 1) % SeqMod

OutOfSequence(f) == rxArmed /\ f.seq # Expected

(* The checks in the order they run; the first that fails names the error. *)
Verdict(f) ==
    IF ~f.lengthOk THEN "LENGTH"
    ELSE IF ~f.checkOk THEN "CHECK"
    ELSE IF ~f.idOk THEN "ID"
    ELSE IF OutOfSequence(f) THEN "SEQUENCE"
    ELSE "NONE"

OutOfServiceNever == FALSE  \* mutant: a failed channel goes on checking
OutOfService == state = "FAILED"

RefuseFrame(f) == pc = "idle" /\ OutOfService /\ UNCHANGED vars

RejectFrame(f) ==
    /\ pc = "idle" /\ ~OutOfService
    /\ Verdict(f) # "NONE"
    /\ reason' = Verdict(f)
    /\ pc' = "failError"
    /\ UNCHANGED <<fields, register, ticks, silence>>

(* The payload, rxSequence and rxArmed are the main loop's own; the stores  *)
(* that follow are to fields the tick reads or writes.                      *)
AcceptFrame(f) ==
    /\ pc = "idle" /\ ~OutOfService
    /\ Verdict(f) = "NONE"
    /\ rxSequence' = f.seq /\ rxArmed' = TRUE
    /\ silence' = 0
    /\ pc' = "clearTimer"
    /\ UNCHANGED <<state, lastError, timeoutCounter, errorCount, reason, register, ticks>>

AcceptClearTimer ==
    /\ pc = "clearTimer" /\ pc' = "setOk"
    /\ timeoutCounter' = 0
    /\ UNCHANGED <<rxSequence, rxArmed, state, lastError, errorCount,
                   reason, register, ticks, silence>>

AcceptSetOk ==
    /\ pc = "setOk" /\ pc' = "clearError"
    /\ state' = "OK"
    /\ UNCHANGED <<rxSequence, rxArmed, lastError, timeoutCounter, errorCount,
                   reason, register, ticks, silence>>

AcceptClearError ==
    /\ pc = "clearError" /\ pc' = "idle" /\ ticks' = 0
    /\ lastError' = "NONE"
    /\ UNCHANGED <<rxSequence, rxArmed, state, timeoutCounter, errorCount,
                   reason, register, silence>>

CheckFrame(f) == RefuseFrame(f) \/ RejectFrame(f) \/ AcceptFrame(f)

-----------------------------------------------------------------------------
(* comsafeFail, called from the main loop: three stores, the last of them a  *)
(* read-modify-write.                                                        *)

FailError ==
    /\ pc = "failError" /\ pc' = "failState"
    /\ lastError' = reason
    /\ reason' = "NONE"
    /\ UNCHANGED <<rxSequence, rxArmed, state, timeoutCounter, errorCount,
                   register, ticks, silence>>

FailState ==
    /\ pc = "failState" /\ pc' = "failLoad"
    /\ state' = "FAILED"
    /\ UNCHANGED <<rxSequence, rxArmed, lastError, timeoutCounter, errorCount,
                   reason, register, ticks, silence>>

FailLoad ==
    /\ pc = "failLoad" /\ pc' = "failStore"
    /\ register' = errorCount
    /\ UNCHANGED <<fields, reason, ticks, silence>>

FailStore ==
    /\ pc = "failStore" /\ pc' = "idle" /\ ticks' = 0
    /\ errorCount' = (register + 1) % CountMod
    /\ register' = 0
    /\ UNCHANGED <<rxSequence, rxArmed, state, lastError, timeoutCounter,
                   reason, silence>>

-----------------------------------------------------------------------------
(* comsafeReset. *)

Reset ==
    /\ pc = "idle" /\ pc' = "resetError"
    /\ state' = "INIT"
    /\ silence' = 0
    /\ UNCHANGED <<rxSequence, rxArmed, lastError, timeoutCounter, errorCount,
                   reason, register, ticks>>

ResetError ==
    /\ pc = "resetError" /\ pc' = "resetTimer"
    /\ lastError' = "NONE"
    /\ UNCHANGED <<rxSequence, rxArmed, state, timeoutCounter, errorCount,
                   reason, register, ticks, silence>>

ResetTimer ==
    /\ pc = "resetTimer" /\ pc' = "resetArmed"
    /\ timeoutCounter' = 0
    /\ UNCHANGED <<rxSequence, rxArmed, state, lastError, errorCount,
                   reason, register, ticks, silence>>

ResetArmed ==
    /\ pc = "resetArmed" /\ pc' = "idle" /\ ticks' = 0
    /\ rxArmed' = FALSE
    /\ UNCHANGED <<rxSequence, state, lastError, timeoutCounter, errorCount,
                   reason, register, silence>>

-----------------------------------------------------------------------------
(* comsafeTimeoutCounter; comsafeFail inside it is not interrupted. *)

ExpiresLate(count) == count > timeout  \* mutant: one tick late, so never
Expires(count) == count >= timeout

RunningAlways == timeoutCounter >= 0  \* mutant: the counter does not stop
Running == timeoutCounter < timeout

Tick ==
    /\ \/ pc = "idle" /\ UNCHANGED ticks
       \/ pc # "idle" /\ ticks < TicksPerCall /\ ticks' = ticks + 1
    /\ silence' = IF silence < SilenceCap THEN silence + 1 ELSE silence
    /\ IF Running
         THEN /\ timeoutCounter' = timeoutCounter + 1
              /\ IF Expires(timeoutCounter + 1)
                   THEN /\ lastError' = "TIMEOUT"
                        /\ state' = "FAILED"
                        /\ errorCount' = (errorCount + 1) % CountMod
                   ELSE UNCHANGED <<lastError, state, errorCount>>
         ELSE UNCHANGED <<timeoutCounter, lastError, state, errorCount>>
    /\ UNCHANGED <<rxSequence, rxArmed, pc, reason, register>>

Continue ==
    \/ AcceptClearTimer \/ AcceptSetOk \/ AcceptClearError
    \/ FailError \/ FailState \/ FailLoad \/ FailStore
    \/ ResetError \/ ResetTimer \/ ResetArmed

Next ==
    \/ \E f \in Frame : CheckFrame(f)
    \/ Reset
    \/ Continue
    \/ Tick

Spec == Init /\ [][Next]_vars

(* The tick keeps coming and the main loop finishes what it has begun; no    *)
(* peer has to send and no caller has to reset.                              *)
FairSpec == Spec /\ WF_vars(Tick) /\ WF_vars(Continue)

-----------------------------------------------------------------------------
(* Every field keeps its type, and the watchdog counter never runs past the  *)
(* timeout, so it cannot wrap and rearm the channel.                         *)
TypeOK ==
    /\ rxSequence \in 0..SeqMod - 1 /\ rxArmed \in BOOLEAN
    /\ state \in {"INIT", "OK", "FAILED"}
    /\ lastError \in Errors \union {"NONE"}
    /\ timeoutCounter \in 0..timeout
    /\ errorCount \in 0..CountMod - 1 /\ register \in 0..CountMod - 1
    /\ ticks \in 0..TicksPerCall
    /\ pc \in Labels /\ reason \in Errors \union {"NONE"}
    /\ silence \in 0..SilenceCap

(* What comsafeCheckFrame's comment says: a failed channel stays in          *)
(* CS_FAILED until comsafeReset.                                             *)
FailedStays == [][state = "FAILED" /\ state' # "FAILED" => Reset]_vars

(* What the code keeps of it: only a call during which a tick came can take  *)
(* the channel out of CS_FAILED without comsafeReset.  No frame offered to a *)
(* channel that has failed brings it back.                                   *)
FailedIsSticky ==
    [][state = "FAILED" /\ state' # "FAILED"
         => Reset \/ (pc = "setOk" /\ ticks > 0)]_vars

(* comsafeGetState's promise: CS_OK means that a frame passed every check    *)
(* less than timeout ticks ago, not counting the ticks of the call that      *)
(* checked it.                                                               *)
OkIsFresh == pc = "idle" /\ state = "OK" => silence < timeout + TicksPerCall

(* The same promise seen from the watchdog: a channel in CS_OK is one whose  *)
(* watchdog has not expired since.  An expired one never fires again, so a   *)
(* channel that is CS_OK with it would stay CS_OK whatever the peer does.    *)
OkIsWatched == pc = "idle" /\ state = "OK" => timeoutCounter < timeout

(* The case no frame can report: a channel whose peer has gone quiet leaves  *)
(* CS_OK, unless a frame is accepted (silence = 0) after all.                *)
SilenceDetected == state = "OK" ~> (state # "OK" \/ silence = 0)
=============================================================================
