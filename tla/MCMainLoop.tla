----------------------------- MODULE MCMainLoop ------------------------------
(***************************************************************************)
(* The two modules that decide what a main loop runs next, each at work in *)
(* behaviours of its own: sched by time and fsm by events.                 *)
(***************************************************************************)
EXTENDS Sched, Sequences

CONSTANTS Tables, InitialStates, Events, MaxDepth

(* A transition table is an array. *)
ASSUME TablesAssumption == \A t \in Tables : Len(t) \in Nat /\ DOMAIN t = 1 .. Len(t)

VARIABLES
    atWork,     \* the module this behaviour is about
    table, driver, calls, flat

F == INSTANCE Fsm
fsm == <<table, driver, calls, flat>>
loopVars == <<atWork, vars, fsm>>

(* The table of a machine that is not at work is one of them, for size. *)
LoopInit ==
    /\ atWork \in {"sched", "fsm"} /\ Init /\ F!Init
    /\ atWork = "sched" => /\ table = CHOOSE t \in Tables : TRUE
                           /\ driver.state = CHOOSE s \in InitialStates : TRUE

Tasks(action) == atWork = "sched" /\ action /\ UNCHANGED <<atWork, fsm>>
Machine(action) == atWork = "fsm" /\ action /\ UNCHANGED <<atWork, vars>>

LoopNext == Tasks(Next) \/ Machine(F!Next)

(* Sched's fairness (module Sched).  A machine waits for its events. *)
LoopSpec ==
    /\ LoopInit /\ [][LoopNext]_loopVars
    /\ WF_loopVars(Tasks(Continue))
    /\ SF_loopVars(Tasks(BeginRun)) /\ SF_loopVars(Tasks(TaskReturn))

-----------------------------------------------------------------------------
(* Nested events are taken as if they were offered one after another (module *)
(* Fsm).                                                                     *)
EventsInOrder == F!FlatRun

-----------------------------------------------------------------------------
(* Values for TLC: every table of three rows over two states and two events, *)
(* duplicate rows, rows that stay and missing rows among them.               *)
MCRows == [from : {"a", "b"}, event : {"x", "y"}, to : {"a", "b"}, acts : BOOLEAN]
MCTables == {t \in [1 .. 3 -> MCRows] : t[1].acts}
=============================================================================
