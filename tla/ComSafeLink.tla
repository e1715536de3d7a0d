----------------------------- MODULE ComSafeLink -----------------------------
(***************************************************************************)
(* A comsafe sender, a transport that loses, repeats, reorders, corrupts   *)
(* and misdelivers frames, and the comsafe receiver of module ComSafe.     *)
(* The transport may hold a frame back, but not for more than MaxDelay     *)
(* ticks; the sender builds at most Rate frames between two ticks.         *)
(***************************************************************************)
EXTENDS ComSafe, FiniteSets

CONSTANTS
    Rate,        \* frames the sender may build between two ticks
    MaxDelay,    \* ticks a frame may spend in the transport
    MaxInFlight  \* bound on the frames in the transport at one time

ASSUME LinkAssumption ==
    /\ Rate \in Nat \ {0} /\ MaxDelay \in Nat /\ MaxInFlight \in Nat \ {0}

VARIABLES
    txSequence,  \* the sender's counter
    built,       \* frames built since the last tick
    inFlight,    \* frames in the transport
    behind,      \* frames built since the one accepted last, up to MaxBehind
    skipped      \* frames missed at the last accepted one that was not the first

linkVars == <<vars, txSequence, built, inFlight, behind, skipped>>

(* More frames than can be built while a frame is live or the watchdog runs. *)
MaxBehind == Rate * (timeout + MaxDelay + 2) + SeqMod

(* age: ticks in the transport; newer: frames built after it, up to MaxBehind. *)
InTransit == [seq : 0..SeqMod - 1, age : 0..MaxDelay, newer : 0..MaxBehind]

More(n) == IF n < MaxBehind THEN n + 1 ELSE n

LinkInit ==
    /\ Init
    /\ txSequence = 0 /\ built = 0 /\ inFlight = {} /\ behind = 0 /\ skipped = 0

-----------------------------------------------------------------------------
(* comsafeBuildFrame: the sequence advances with every frame built.          *)
NextSequence(s) == (s + 1) % SeqMod

BuildFrame ==
    /\ built < Rate /\ Cardinality(inFlight) < MaxInFlight
    /\ inFlight' = {[g EXCEPT !.newer = More(g.newer)] : g \in inFlight}
                     \union {[seq |-> txSequence, age |-> 0, newer |-> 0]}
    /\ txSequence' = NextSequence(txSequence)
    /\ built' = built + 1
    /\ behind' = More(behind)
    /\ UNCHANGED <<vars, skipped>>

(* A frame the transport loses: it leaves without arriving. *)
Lose ==
    /\ \E f \in inFlight : inFlight' = inFlight \ {f}
    /\ UNCHANGED <<vars, txSequence, built, behind, skipped>>

(* What the checks see of a frame that arrives as it was built. *)
Good(f) == [lengthOk |-> TRUE, checkOk |-> TRUE, idOk |-> TRUE, seq |-> f.seq]

(* Any frame in the transport may be next, and may stay there to come again. *)
Arrive ==
    \E f \in inFlight :
        /\ CheckFrame(Good(f))
        /\ inFlight' \in {inFlight, inFlight \ {f}}
        /\ IF pc' = "clearTimer"
             THEN /\ skipped' = IF rxArmed THEN behind - f.newer - 1 ELSE 0
                  /\ behind' = f.newer
             ELSE UNCHANGED <<skipped, behind>>
        /\ UNCHANGED <<txSequence, built>>

(* A damaged frame, or one from another sender. *)
ArriveBad ==
    /\ \E f \in Frame : ~(f.lengthOk /\ f.checkOk /\ f.idOk) /\ CheckFrame(f)
    /\ UNCHANGED <<txSequence, built, inFlight, behind, skipped>>

LinkTick ==
    /\ Tick
    /\ inFlight' = {[f EXCEPT !.age = f.age + 1] : f \in {g \in inFlight : g.age < MaxDelay}}
    /\ built' = 0
    /\ UNCHANGED <<txSequence, behind, skipped>>

LinkReset == Reset /\ UNCHANGED <<txSequence, built, inFlight, behind, skipped>>

LinkContinue == Continue /\ UNCHANGED <<txSequence, built, inFlight, behind, skipped>>

LinkNext ==
    \/ BuildFrame \/ Lose \/ Arrive \/ ArriveBad
    \/ LinkTick \/ LinkReset \/ LinkContinue

LinkSpec == LinkInit /\ [][LinkNext]_linkVars

-----------------------------------------------------------------------------
(* A frame accepted after another is the very next one the sender built:     *)
(* nothing lost, repeated or out of order goes unnoticed.                    *)
NothingMissed == skipped = 0

(* When it holds.  A frame may not come back under the sequence that is      *)
(* expected next, while it lives and while the watchdog runs; a tick that    *)
(* comes during a call may not count for the watchdog, and there are fewer   *)
(* of those than its timeout.                                                *)
WindowOK ==
    /\ TicksPerCall < timeout
    /\ Rate * (MaxDelay + 1) < SeqMod
    /\ Rate * (MaxDelay + timeout + TicksPerCall) < SeqMod + 2

(* The banner says of any timeout that the watchdog trips long before the    *)
(* sequence stops being able to tell.  With the timeout and the transport's  *)
(* delay inside that window the two together do miss nothing.                *)
WindowSuffices == WindowOK => NothingMissed
=============================================================================
