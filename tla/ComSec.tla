------------------------------- MODULE ComSec -------------------------------
(***************************************************************************)
(* comsec between two ends: a sender that builds authenticated frames, a   *)
(* transport that may give the receiver any frame ever built, any number   *)
(* of times, in any order or never, whole or altered, and the receiver     *)
(* that checks it.  Each end has a comsec_t and moves to the next key      *)
(* material by itself, with comsecRekey, as its doc asks: the sender never *)
(* to a session id and counter used with the same key before.  Either end  *)
(* may be reset; it then goes on under new material, or resumes the        *)
(* session it had with comsecRekey, as the doc of comsecInit asks.         *)
(***************************************************************************)
EXTENDS Integers, Sequences

CONSTANTS
    Materials,      \* the key and session id of each generation, in order
    Payloads,       \* what the sender is given to send
    TagSize, RxSize, TxSize,
    CounterMax,     \* the counter that is never passed: 2^32 - 1 in the code
    CountMod,       \* rejectCount is a uint32_t: 2^32 in the code
    MaxFrames,      \* bound on the frames built
    MaxResumes      \* bound on the resets after which the receiver resumes

VARIABLES
    sender, receiver,           \* the fields of the two ends that change
    txMaterial, rxMaterial,     \* the generation each end is in
    frames,     \* the frames built, as they left
    (* History, read by the properties only. *)
    sent,       \* what each of them says, in order
    handed,     \* what the receiver took, in order
    last,       \* the place in sent of the last frame taken
    begun,      \* where last was when the receiver's session began
    resumes     \* how often the receiver has resumed a session

channel == <<sent, handed, last>>
callers == <<txMaterial, rxMaterial, begun, resumes>>
vars == <<sender, receiver, frames, channel, callers>>

Header == 6
Errors == {"NONE", "LENGTH", "TAG", "SESSION", "REPLAY", "EXHAUSTED"}

(* The installed function, a keyed code over the header and the payload:     *)
(* different bytes or another key give another tag.                          *)
Mac(key, id, counter, payload) == <<key, id, counter, payload>>

Overhead == Header + TagSize
FrameLength(frame) == Overhead + Len(frame.payload)

(* comsecInit and, in a generation, comsecRekey. *)
Fresh(id) ==
    [sessionId |-> id, txCounter |-> 0, rxCounter |-> 0, rxArmed |-> FALSE,
     rxPayload |-> <<>>, rejectCount |-> 0, lastError |-> "NONE"]
RekeyClearingCounter(driver, id, counter) == \* mutant: the session starts at zero
    [Fresh(id) EXCEPT !.rejectCount = driver.rejectCount]
Rekey(driver, id, counter) ==
    [Fresh(id) EXCEPT !.txCounter = counter, !.rejectCount = driver.rejectCount]

Init ==
    /\ TxSize > Overhead /\ RxSize # 0
    /\ sender = Fresh(Materials[1].session) /\ receiver = Fresh(Materials[1].session)
    /\ txMaterial = 1 /\ rxMaterial = 1
    /\ frames = <<>> /\ sent = <<>> /\ handed = <<>> /\ last = 0
    /\ begun = 0 /\ resumes = 0

-----------------------------------------------------------------------------
(* comsecBuildFrame. *)

SpentNever == FALSE  \* mutant: the counter starts again
Spent == sender.txCounter = CounterMax

BuildExhausted ==
    /\ Spent
    /\ sender' = [sender EXCEPT !.lastError = "EXHAUSTED"]
    /\ UNCHANGED <<frames, channel>>

BuildTooLong(payload) ==
    /\ ~ Spent /\ Len(payload) + Overhead > TxSize
    /\ sender' = [sender EXCEPT !.lastError = "LENGTH"]
    /\ UNCHANGED <<frames, channel>>

BuildAccepted(payload) ==
    LET counter == (sender.txCounter + 1) % (CounterMax + 1)
        id == sender.sessionId
        key == Materials[txMaterial].key
        says == [key |-> key, id |-> id, counter |-> counter, payload |-> payload]
    IN  /\ ~ Spent /\ Len(payload) + Overhead <= TxSize
        /\ Len(frames) < MaxFrames
        /\ sender' = [sender EXCEPT !.txCounter = counter]
        /\ frames' = Append(frames, [id |-> id, counter |-> counter, payload |-> payload,
                                     tag |-> Mac(key, id, counter, payload)])
        /\ sent' = Append(sent, says)
        /\ UNCHANGED <<handed, last>>

BuildFrame ==
    /\ \/ BuildExhausted
       \/ \E payload \in Payloads : BuildTooLong(payload) \/ BuildAccepted(payload)
    /\ UNCHANGED <<receiver, callers>>

-----------------------------------------------------------------------------
(* comsecCheckFrame. *)

(* What the transport makes of a frame: one field of it is another, or it is *)
(* cut down to a header and a tag.                                           *)
Altered(frame) ==
    {frame, [frame EXCEPT !.payload = <<>>]}
        \cup {[frame EXCEPT !.payload = p] : p \in Payloads}
        \cup {[frame EXCEPT !.counter = c] : c \in 0 .. CounterMax}
        \cup {[frame EXCEPT !.id = Materials[g].session] : g \in DOMAIN Materials}

ReplayOfOlder(frame) == \* mutant: the counter of the last one passes again
    receiver.rxArmed /\ frame.counter < receiver.rxCounter
Replay(frame) == receiver.rxArmed /\ frame.counter <= receiver.rxCounter

OtherSessionNever(frame) == FALSE  \* mutant: the session id is not compared
OtherSession(frame) == frame.id # receiver.sessionId

(* The checks in the order they run; the first that fails names the error.   *)
Verdict(frame) ==
    CASE FrameLength(frame) <= Overhead -> "LENGTH"
      [] FrameLength(frame) - Overhead > RxSize -> "LENGTH"
      [] frame.tag # Mac(Materials[rxMaterial].key, frame.id, frame.counter, frame.payload) -> "TAG"
      [] OtherSession(frame) -> "SESSION"
      [] Replay(frame) -> "REPLAY"
      [] OTHER -> "NONE"

RejectFrame(frame) ==
    /\ Verdict(frame) # "NONE"
    /\ receiver' = [receiver EXCEPT !.lastError = Verdict(frame),
                                    !.rejectCount = (@ + 1) % CountMod]
    /\ UNCHANGED channel

AcceptFrame(i, frame) ==
    /\ Verdict(frame) = "NONE"
    /\ receiver' = [receiver EXCEPT !.rxPayload = frame.payload, !.rxCounter = frame.counter,
                                    !.rxArmed = TRUE, !.lastError = "NONE"]
    /\ handed' = Append(handed, [key |-> Materials[rxMaterial].key, id |-> frame.id,
                                 counter |-> frame.counter, payload |-> frame.payload])
    /\ last' = i
    /\ UNCHANGED sent

CheckFrame ==
    /\ \E i \in DOMAIN frames : \E frame \in Altered(frames[i]) :
         RejectFrame(frame) \/ AcceptFrame(i, frame)
    /\ UNCHANGED <<sender, frames, callers>>

-----------------------------------------------------------------------------
(* The caller of each end. *)

(* Under a new key the counter may start anywhere; the same key carries on.  *)
RekeySender ==
    LET old == Materials[txMaterial]
        new == Materials[txMaterial + 1]
    IN  /\ txMaterial < Len(Materials) /\ txMaterial' = txMaterial + 1
        /\ \E counter \in IF new.key = old.key THEN {sender.txCounter} ELSE 0 .. CounterMax :
             sender' = Rekey(sender, new.session, counter)
        /\ UNCHANGED <<receiver, rxMaterial, begun, resumes, frames, channel>>

RekeyReceiver ==
    /\ rxMaterial < Len(Materials) /\ rxMaterial' = rxMaterial + 1
    /\ receiver' = Rekey(receiver, Materials[rxMaterial + 1].session, 0)
    /\ begun' = last
    /\ UNCHANGED <<sender, txMaterial, resumes, frames, channel>>

(* The sender is reset and resumes its session with the counter it had.      *)
RestartSender ==
    /\ sender' = Rekey(Fresh(Materials[1].session), sender.sessionId, sender.txCounter)
    /\ UNCHANGED <<receiver, frames, channel, callers>>

(* The receiver is reset: its guard is gone, and it goes on under new        *)
(* material.                                                                 *)
RestartReceiver ==
    /\ rxMaterial < Len(Materials) /\ rxMaterial' = rxMaterial + 1
    /\ receiver' = Rekey(Fresh(Materials[1].session), Materials[rxMaterial + 1].session, 0)
    /\ begun' = last
    /\ UNCHANGED <<sender, txMaterial, resumes, frames, channel>>

(* The receiver is reset and resumes its session with the counter it had,    *)
(* which is the one it sends under: the guard of what it receives is gone,   *)
(* and last goes back to where the session began.                            *)
ResumeReceiver ==
    /\ resumes < MaxResumes /\ resumes' = resumes + 1
    /\ receiver' = Rekey(Fresh(Materials[1].session), receiver.sessionId, receiver.txCounter)
    /\ last' = begun
    /\ UNCHANGED <<sender, txMaterial, rxMaterial, begun, frames, sent, handed>>

Next ==
    \/ BuildFrame \/ CheckFrame
    \/ RekeySender \/ RekeyReceiver
    \/ RestartSender \/ RestartReceiver \/ ResumeReceiver

Spec == Init /\ [][Next]_vars

-----------------------------------------------------------------------------
(* No frame leaves under the key, session and counter of an earlier one. *)
Nonce(says) == <<says.key, says.id, says.counter>>
NoneReused ==
    [][\A i \in DOMAIN sent :
           sent' # sent => Nonce(sent[i]) # Nonce(sent'[Len(sent')])]_vars

(* Whatever the transport loses, repeats, reorders or alters, and however    *)
(* the two ends change key material and are reset, the receiver takes        *)
(* frames that were sent, whole and in their order, none twice; and the      *)
(* counter stops rather than be used again.  With one exception, which the   *)
(* code makes: a receiver that resumes its session after a reset has lost    *)
(* its guard, and frames of that session, of no earlier one, may come again. *)
Channel == INSTANCE FrameChannel WITH
    Payloads <- [key : {m.key : m \in {Materials[g] : g \in DOMAIN Materials}},
                 id : {m.session : m \in {Materials[g] : g \in DOMAIN Materials}},
                 counter : 0 .. CounterMax, payload : Payloads]
IsChannel ==
    /\ Channel!Init /\ [][Channel!Next \/ ResumeReceiver]_channel
    /\ NoneReused

(* No frame is taken twice, the receiver's resets included: the claim of     *)
(* comsecInit, that a session resumed with comsecRekey keeps its guard, and  *)
(* of comsecCheckFrame, that no counter is accepted twice.                   *)
TakenOnce ==
    \A i, j \in DOMAIN handed : i # j => Nonce(handed[i]) # Nonce(handed[j])
=============================================================================
