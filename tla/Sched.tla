-------------------------------- MODULE Sched --------------------------------
(***************************************************************************)
(* The cooperative task table.  schedTick is called from a fixed rate      *)
(* interrupt, schedRun from the main loop; schedAddTask and schedEnable    *)
(* are called from the main loop or by a task that schedRun is running.    *)
(* The interrupt may come between any two stores of the main loop.         *)
(***************************************************************************)
EXTENDS Integers, FiniteSets

CONSTANTS
    length,     \* entries the caller's table holds
    Periods,    \* periods schedAddTask is given
    AgeMod,     \* ticks are counted modulo a common multiple of the periods
    CountMod    \* overrunCount is a uint32_t: 2^32 in the code

ASSUME SchedAssumption ==
    /\ length \in Nat \ {0}
    /\ Periods \subseteq Nat \ {0}
    /\ AgeMod \in Nat \ {0}
    /\ \A p \in Periods : AgeMod % p = 0
    /\ CountMod \in Nat \ {0}

Slots == 0..length - 1

VARIABLES
    period, counter, due, enabled,  \* tasks[i]
    count, overrunCount,
    pc,         \* where the main loop stands
    slot,       \* schedRun's i; length when no run is in progress
    target,     \* schedEnable's index
    switch,     \* schedEnable's enabled
    (* History, read by the properties only. *)
    age,        \* ticks an entry counted since it was added or enabled, modulo AgeMod
    waiting,    \* its period elapsed after its last call began
    outstanding \* periods elapsed less calls begun and dropped, modulo CountMod

entry == <<period, counter, due, enabled>>
main == <<pc, slot, target, switch>>
history == <<age, waiting, outstanding>>
vars == <<entry, count, overrunCount, main, history>>

Labels == {"idle", "scan", "call", "task", "dropDue", "setEnabled"}

Init ==
    /\ period = [i \in Slots |-> 0] /\ counter = [i \in Slots |-> 0]
    /\ due = [i \in Slots |-> FALSE] /\ enabled = [i \in Slots |-> FALSE]
    /\ count = 0 /\ overrunCount = 0
    /\ pc = "idle" /\ slot = length /\ target = 0 /\ switch = FALSE
    /\ age = [i \in Slots |-> 0] /\ waiting = [i \in Slots |-> FALSE]
    /\ outstanding = 0

Table == 0..count - 1

-----------------------------------------------------------------------------
(* schedTick: one pass over the table, which the main loop cannot interrupt. *)

Counted == {i \in Table : enabled[i]}

ReachedLate(i) == counter[i] + 1 > period[i]  \* mutant: one tick too many
Reached(i) == counter[i] + 1 >= period[i]

OverrunAnyway == {i \in Counted : Reached(i) /\ pc = "task"}  \* mutant: blames a long task
Overrun == {i \in Counted : Reached(i) /\ due[i]}

Elapsed == {i \in Counted : (age[i] + 1) % period[i] = 0}

Tick ==
    /\ counter' = [i \in Slots |-> IF i \notin Counted THEN counter[i]
                                   ELSE IF Reached(i) THEN counter[i] + 1 - period[i]
                                   ELSE counter[i] + 1]
    /\ due' = [i \in Slots |-> due[i] \/ (i \in Counted /\ Reached(i))]
    /\ overrunCount' = (overrunCount + Cardinality(Overrun)) % CountMod
    /\ age' = [i \in Slots |-> IF i \in Counted THEN (age[i] + 1) % AgeMod ELSE age[i]]
    /\ waiting' = [i \in Slots |-> waiting[i] \/ i \in Elapsed]
    /\ outstanding' = (outstanding + Cardinality(Elapsed)) % CountMod
    /\ UNCHANGED <<period, enabled, count, main>>

-----------------------------------------------------------------------------
(* schedRun. *)

BeginRun ==
    /\ pc = "idle" /\ pc' = "scan"
    /\ slot' = 0
    /\ UNCHANGED <<entry, count, overrunCount, target, switch, history>>

(* The loop reads count again on every turn, so it reaches a task that an    *)
(* earlier one has just added.                                               *)
ScanEntry ==
    /\ pc = "scan" /\ slot < count
    /\ \/ /\ due[slot] /\ enabled[slot]
          /\ pc' = "call" /\ UNCHANGED slot
       \/ /\ ~(due[slot] /\ enabled[slot])
          /\ slot' = slot + 1 /\ UNCHANGED pc
    /\ UNCHANGED <<entry, count, overrunCount, target, switch, history>>

EndRun ==
    /\ pc = "scan" /\ slot >= count
    /\ pc' = "idle" /\ slot' = length
    /\ UNCHANGED <<entry, count, overrunCount, target, switch, history>>

(* The flag is cleared, then the task is called. *)
CallTask ==
    /\ pc = "call" /\ pc' = "task"
    /\ due' = [due EXCEPT ![slot] = FALSE]
    /\ waiting' = [waiting EXCEPT ![slot] = FALSE]
    /\ outstanding' = (outstanding + CountMod - 1) % CountMod
    /\ UNCHANGED <<period, counter, enabled, count, overrunCount, slot, target, switch, age>>

TaskReturnErasing ==  \* mutant: the flag is cleared again when the task returns
    /\ pc = "task" /\ pc' = "scan"
    /\ slot' = slot + 1
    /\ due' = [due EXCEPT ![slot] = FALSE]
    /\ UNCHANGED <<period, counter, enabled, count, overrunCount, target, switch, history>>

TaskReturnLast ==  \* mutant: one task per call of schedRun
    /\ pc = "task" /\ pc' = "idle"
    /\ slot' = length
    /\ UNCHANGED <<entry, count, overrunCount, target, switch, history>>

TaskReturn ==
    /\ pc = "task" /\ pc' = "scan"
    /\ slot' = slot + 1
    /\ UNCHANGED <<entry, count, overrunCount, target, switch, history>>

-----------------------------------------------------------------------------
(* The caller's side, from the loop or from inside a task. *)

MayCall == pc \in {"idle", "task"}
ReturnLabel == IF slot < length THEN "task" ELSE "idle"

(* schedAddTask fills an entry the tick cannot see yet; ++count shows it.    *)
AddTask(p) ==
    /\ MayCall /\ count < length
    /\ period' = [period EXCEPT ![count] = p]
    /\ counter' = [counter EXCEPT ![count] = 0]
    /\ due' = [due EXCEPT ![count] = FALSE]
    /\ enabled' = [enabled EXCEPT ![count] = TRUE]
    /\ count' = count + 1
    /\ age' = [age EXCEPT ![count] = 0]
    /\ UNCHANGED <<overrunCount, main, waiting, outstanding>>

(* schedEnable, three stores: the counter, the due flag, the switch.         *)
Enable(i, on) ==
    /\ MayCall /\ i \in Table
    /\ pc' = "dropDue" /\ target' = i /\ switch' = on
    /\ counter' = [counter EXCEPT ![i] = 0]
    /\ age' = [age EXCEPT ![i] = 0]
    /\ UNCHANGED <<period, due, enabled, count, overrunCount, slot, waiting, outstanding>>

DropDueWhenOff ==  \* mutant: only a task that is switched off loses its mark
    /\ pc = "dropDue" /\ pc' = "setEnabled"
    /\ due' = [due EXCEPT ![target] = switch /\ @]
    /\ outstanding' = IF waiting[target] THEN (outstanding + CountMod - 1) % CountMod ELSE outstanding
    /\ waiting' = [waiting EXCEPT ![target] = FALSE]
    /\ UNCHANGED <<period, counter, enabled, count, overrunCount, slot, target, switch, age>>

DropDue ==
    /\ pc = "dropDue" /\ pc' = "setEnabled"
    /\ due' = [due EXCEPT ![target] = FALSE]
    /\ outstanding' = IF waiting[target] THEN (outstanding + CountMod - 1) % CountMod ELSE outstanding
    /\ waiting' = [waiting EXCEPT ![target] = FALSE]
    /\ UNCHANGED <<period, counter, enabled, count, overrunCount, slot, target, switch, age>>

SetEnabled ==
    /\ pc = "setEnabled" /\ pc' = ReturnLabel
    /\ enabled' = [enabled EXCEPT ![target] = switch]
    /\ target' = 0 /\ switch' = FALSE
    /\ UNCHANGED <<period, counter, due, count, overrunCount, slot, history>>

-----------------------------------------------------------------------------
Continue == ScanEntry \/ EndRun \/ CallTask \/ DropDue \/ SetEnabled

Next ==
    \/ Tick
    \/ BeginRun \/ TaskReturn \/ Continue
    \/ \E p \in Periods : AddTask(p)
    \/ \E i \in Slots, on \in BOOLEAN : Enable(i, on)

Spec == Init /\ [][Next]_vars

(* The main loop calls schedRun again and again, whatever else it calls in   *)
(* between; a task returns in the end; what the library has begun goes on.   *)
(* No tick need ever come.                                                   *)
FairSpec == Spec /\ WF_vars(Continue) /\ SF_vars(BeginRun) /\ SF_vars(TaskReturn)

-----------------------------------------------------------------------------
(* Every field keeps its type; an entry that counts is inside its period,    *)
(* and a run in progress is inside the table.                                *)
TypeOK ==
    /\ period \in [Slots -> Periods \union {0}]
    /\ due \in [Slots -> BOOLEAN] /\ enabled \in [Slots -> BOOLEAN]
    /\ \A i \in Slots : counter[i] = 0 \/ counter[i] \in 1..period[i] - 1
    /\ count \in 0..length /\ overrunCount \in 0..CountMod - 1
    /\ pc \in Labels /\ slot \in 0..length
    /\ pc \in {"call", "task"} => slot < count
    /\ target \in Slots /\ switch \in BOOLEAN
    /\ age \in [Slots -> 0..AgeMod - 1] /\ waiting \in [Slots -> BOOLEAN]
    /\ outstanding \in 0..CountMod - 1

(* A tick that lands during a task, or between schedRun's test and its       *)
(* clear, costs no call: a task whose period elapsed after its last call     *)
(* began is due.                                                             *)
ElapsedIsDue == \A i \in Slots : waiting[i] => due[i]

(* No task is called but for a period of its own that elapsed since it was   *)
(* added or last enabled: one that is switched off and on again waits a full *)
(* period, wherever a tick lands inside schedEnable.                         *)
CalledWhenElapsed == [][CallTask => waiting[slot] /\ enabled[slot]]_vars

(* schedGetOverrunCount's promise: no elapsed period is swallowed.  Each one *)
(* was run, is still due, was dropped by schedEnable, or was counted.        *)
OverrunsCounted ==
    outstanding = (overrunCount + Cardinality({i \in Slots : due[i]})) % CountMod

(* A task that is due is called, or switched over, in the end: one that is   *)
(* due on every tick does not starve those behind it.  (A tick between       *)
(* schedEnable's last two stores leaves a task off and marked; the mark is   *)
(* dropped when it is switched on again.)                                    *)
EveryDueRuns == \A i \in Slots : due[i] /\ enabled[i] ~> ~due[i] \/ ~enabled[i]
=============================================================================
