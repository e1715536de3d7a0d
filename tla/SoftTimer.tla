------------------------------ MODULE SoftTimer ------------------------------
(***************************************************************************)
(* One softtimer: softtimerTick is called from a fixed rate interrupt, the *)
(* other functions from the main loop.  The fields they share are volatile *)
(* and the main loop writes them one store at a time, so TicksPerCall      *)
(* ticks may come between the stores of one call; with 0 none does.        *)
(***************************************************************************)
EXTENDS Integers

CONSTANTS
    Periods,    \* the periods softtimerInit and softtimerChangePeriod are given
    AgeMod,     \* ticks are counted modulo a common multiple of the periods
    TicksPerCall

ASSUME TimerAssumption ==
    /\ Periods \subseteq Nat \ {0}
    /\ AgeMod \in Nat \ {0}
    /\ \A p \in Periods : AgeMod % p = 0
    /\ TicksPerCall \in Nat

VARIABLES
    mode, period, counter, state, expired,
    pc,         \* where the main loop stands in a call
    ticks,      \* ticks that came during the call that is running
    (* History, read by the properties only. *)
    age,        \* ticks counted since the main loop cleared the counter, modulo AgeMod
    unreported, \* the timer has expired since it was last reported or started
    settled     \* no tick came inside the call that last started it

fields == <<mode, period, counter, state, expired>>
vars == <<fields, pc, ticks, age, unreported, settled>>

Modes == {"ONESHOT", "PERIODIC"}
States == {"STOPPED", "RUNNING", "EXPIRED"}
Labels == {"idle", "startFlag", "startState", "clearFlag", "clearCounter"}

(* softtimerInit: a zero period and an unknown mode are refused. *)
Init ==
    /\ mode \in Modes /\ period \in Periods
    /\ counter = 0 /\ state = "STOPPED" /\ expired = FALSE
    /\ pc = "idle" /\ ticks = 0
    /\ age = 0 /\ unreported = FALSE /\ settled = TRUE

-----------------------------------------------------------------------------
(* The main loop. *)

StartCounter ==
    /\ pc = "idle" /\ pc' = "startFlag"
    /\ counter' = 0 /\ age' = 0 /\ settled' = FALSE
    /\ UNCHANGED <<mode, period, state, expired, ticks, unreported>>

StartFlag ==
    /\ pc = "startFlag" /\ pc' = "startState"
    /\ expired' = FALSE /\ unreported' = FALSE
    /\ UNCHANGED <<mode, period, counter, state, ticks, age, settled>>

StartState ==
    /\ pc = "startState" /\ pc' = "idle" /\ ticks' = 0
    /\ state' = "RUNNING"
    /\ settled' = (ticks = 0)
    /\ UNCHANGED <<mode, period, counter, expired, age, unreported>>

StopForgets ==  \* mutant: a stop discards the expiry nobody has read
    /\ pc = "idle"
    /\ state' = "STOPPED" /\ expired' = FALSE
    /\ UNCHANGED <<mode, period, counter, pc, ticks, age, unreported, settled>>

Stop ==
    /\ pc = "idle"
    /\ state' = "STOPPED"
    /\ UNCHANGED <<mode, period, counter, expired, pc, ticks, age, unreported, settled>>

(* softtimerExpired: it returns the flag it reads and clears it in a         *)
(* statement of its own, whatever it read.                                   *)
ReadExpired(answer) ==
    /\ pc = "idle" /\ pc' = "clearFlag"
    /\ answer = expired
    /\ unreported' = (unreported /\ ~answer)
    /\ UNCHANGED <<fields, ticks, age, settled>>

ClearNothing ==  \* mutant: the read does not consume the expiry
    /\ pc = "clearFlag" /\ pc' = "idle" /\ ticks' = 0
    /\ unreported' = (unreported /\ ticks = 0)
    /\ UNCHANGED <<fields, age, settled>>

ClearAndRestart ==  \* mutant: polling the timer restarts its count
    /\ pc = "clearFlag" /\ pc' = "idle" /\ ticks' = 0
    /\ expired' = FALSE /\ counter' = 0
    /\ unreported' = (unreported /\ ticks = 0)
    /\ UNCHANGED <<mode, period, state, age, settled>>

(* An expiry that came in between is lost, as the comment says.              *)
ClearExpired ==
    /\ pc = "clearFlag" /\ pc' = "idle" /\ ticks' = 0
    /\ expired' = FALSE
    /\ unreported' = (unreported /\ ticks = 0)
    /\ UNCHANGED <<mode, period, counter, state, age, settled>>

ChangePeriod(p) ==
    /\ pc = "idle" /\ pc' = "clearCounter"
    /\ period' = p /\ settled' = FALSE
    /\ UNCHANGED <<mode, counter, state, expired, ticks, age, unreported>>

CarryCounter ==  \* mutant: the new period inherits the old count
    /\ pc = "clearCounter" /\ pc' = "idle" /\ ticks' = 0
    /\ age' = 0 /\ settled' = TRUE
    /\ UNCHANGED <<fields, unreported>>

ChangeClearCounter ==
    /\ pc = "clearCounter" /\ pc' = "idle" /\ ticks' = 0
    /\ counter' = 0 /\ age' = 0 /\ settled' = TRUE
    /\ UNCHANGED <<mode, period, state, expired, unreported>>

-----------------------------------------------------------------------------
(* softtimerTick, which nothing the main loop does interrupts. *)

ReachedLate(count) == count > period  \* mutant: one tick too many
Reached(count) == count >= period

CountOn ==
    /\ ~Reached(counter + 1)
    /\ counter' = counter + 1
    /\ UNCHANGED <<state, expired, unreported>>

ExpireRunningOn ==  \* mutant: a one shot keeps counting
    /\ Reached(counter + 1)
    /\ expired' = TRUE /\ unreported' = TRUE
    /\ counter' = IF mode = "PERIODIC" THEN counter + 1 - period ELSE counter + 1
    /\ UNCHANGED state

Expire ==
    /\ Reached(counter + 1)
    /\ expired' = TRUE /\ unreported' = TRUE
    /\ \/ /\ mode = "PERIODIC"
          /\ counter' = counter + 1 - period /\ UNCHANGED state
       \/ /\ mode = "ONESHOT"
          /\ counter' = counter + 1 /\ state' = "EXPIRED"

Tick ==
    /\ \/ pc = "idle" /\ UNCHANGED ticks
       \/ pc # "idle" /\ ticks < TicksPerCall /\ ticks' = ticks + 1
    /\ \/ /\ state = "RUNNING"
          /\ age' = (age + 1) % AgeMod
          /\ CountOn \/ Expire
       \/ /\ state # "RUNNING"
          /\ UNCHANGED <<counter, state, expired, age, unreported>>
    /\ UNCHANGED <<mode, period, pc, settled>>

Continue == StartFlag \/ StartState \/ ClearExpired \/ ChangeClearCounter

Next ==
    \/ StartCounter
    \/ Stop
    \/ \E answer \in BOOLEAN : ReadExpired(answer)
    \/ \E p \in Periods : ChangePeriod(p)
    \/ Continue
    \/ Tick

Spec == Init /\ [][Next]_vars

(* The timer interrupt is periodic, and a call that was begun returns. *)
FairSpec == Spec /\ WF_vars(Tick) /\ WF_vars(Continue)

-----------------------------------------------------------------------------
(* Every field keeps its type, and a one shot that has expired no longer     *)
(* counts: the counter passes no period by more than the ticks of one call,  *)
(* which keeps a uint32_t from wrapping.                                     *)
TypeOK ==
    /\ mode \in Modes /\ period \in Periods
    /\ state \in States /\ expired \in BOOLEAN
    /\ counter \in Nat /\ \E p \in Periods : counter <= p + TicksPerCall
    /\ pc \in Labels /\ ticks \in 0..TicksPerCall
    /\ age \in 0..AgeMod - 1 /\ unreported \in BOOLEAN /\ settled \in BOOLEAN

(* softtimerTick's comment on the reload: the counter is always below the    *)
(* period on entry, so that subtracting the period clears it.  It is, unless *)
(* a tick comes inside softtimerChangePeriod, between the new period and the *)
(* cleared counter, or has expired a one shot under its own softtimerStart.  *)
(* Expiries keep their phase: one comes on every period-th tick counted      *)
(* since the start or the change of period and on no other, however many of  *)
(* them the main loop missed or how late it read the flag.                   *)
OnTime ==
    [][Tick /\ state = "RUNNING" /\ settled =>
           /\ counter < period
           /\ (age + 1) % period = 0 <=> counter' = 0 \/ state' = "EXPIRED"]_vars

(* softtimerExpired's promise: no expiry is reported twice, none is that a   *)
(* start has discarded, and none is lost across stops, changes of period and *)
(* late reads, but the one its comment names.                                *)
NoneLost == pc = "idle" => (unreported <=> expired)

(* A running timer expires or is stopped, unless the main loop keeps         *)
(* starting it or changing its period.                                       *)
Restarted == pc \in {"startFlag", "clearCounter"}
ExpiresEventually == state = "RUNNING" ~> (expired \/ state # "RUNNING" \/ Restarted)
=============================================================================
