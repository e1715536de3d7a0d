--------------------------------- MODULE Fsm ---------------------------------
(***************************************************************************)
(* The table driven state machine.  fsmDispatch calls the action of the    *)
(* row that fired, and an action may offer events of its own, reset the    *)
(* machine and return: dispatches nest up to MaxDepth.                     *)
(***************************************************************************)
EXTENDS Naturals, Sequences

CONSTANTS
    Tables,     \* transition tables: sequences of rows [from, event, to, acts]
    InitialStates,
    Events,
    MaxDepth,   \* bound on the calls in progress
    CountMod    \* rejectCount is a uint32_t: 2^32 in the code

VARIABLES
    table,
    driver,     \* state, initialState and rejectCount of the fsm_t
    calls,      \* the dispatches that are running an action, the outermost first:
                \* the rows they fired
    flat        \* History: the machine that takes each event as a whole when it is offered

vars == <<table, driver, calls, flat>>

(* acts is FALSE where the row's action is NULL. *)
Init ==
    /\ table \in Tables
    /\ \E s \in InitialStates :
         driver = [state |-> s, initialState |-> s, rejectCount |-> 0]
    /\ calls = <<>>
    /\ flat = [state |-> driver.state, rejected |-> 0]

-----------------------------------------------------------------------------
Matches(event) == {i \in DOMAIN table : table[i].from = driver.state /\ table[i].event = event}

LastMatch(event) == CHOOSE i \in Matches(event) : \A k \in Matches(event) : k <= i  \* mutant: no break
FirstMatch(event) == CHOOSE i \in Matches(event) : \A k \in Matches(event) : i <= k

(* The abstract machine: a function of state and event, stopped where none   *)
(* of the rows applies.                                                      *)
Row(state, event) ==
    LET rows == {i \in DOMAIN table : <<table[i].from, table[i].event>> = <<state, event>>}
    IN  IF rows = {} THEN 0 ELSE CHOOSE i \in rows : \A k \in rows : i <= k
FlatTakes(event) ==
    LET row == Row(flat.state, event)
    IN  IF row = 0 THEN [flat EXCEPT !.rejected = (@ + 1) % CountMod]
        ELSE [flat EXCEPT !.state = table[row].to]

FireStateLast(row) ==  \* mutant: the state changes after the action
    IF table[row].acts
    THEN calls' = Append(calls, row) /\ UNCHANGED driver
    ELSE driver' = [driver EXCEPT !.state = table[row].to] /\ UNCHANGED calls

(* The state changes, then the action is called if there is one. *)
Fire(row) ==
    /\ driver' = [driver EXCEPT !.state = table[row].to]
    /\ calls' = IF table[row].acts THEN Append(calls, row) ELSE calls

RejectSilently == UNCHANGED <<driver, calls>>  \* mutant: not counted
Reject ==
    /\ driver' = [driver EXCEPT !.rejectCount = (@ + 1) % CountMod]
    /\ UNCHANGED calls

Dispatch(event) ==
    /\ Len(calls) < MaxDepth
    /\ \/ Matches(event) # {} /\ Fire(FirstMatch(event))
       \/ Matches(event) = {} /\ Reject
    /\ flat' = FlatTakes(event)
    /\ UNCHANGED table

ReturnStoring ==  \* mutant: the state is stored again when the action returns
    /\ calls # <<>>
    /\ driver' = [driver EXCEPT !.state = table[calls[Len(calls)]].to]
    /\ calls' = SubSeq(calls, 1, Len(calls) - 1)
    /\ UNCHANGED <<table, flat>>

(* An action returns, and its dispatch answers TRUE. *)
Return ==
    /\ calls # <<>> /\ calls' = SubSeq(calls, 1, Len(calls) - 1)
    /\ UNCHANGED <<table, driver, flat>>

Reset ==
    /\ driver' = [driver EXCEPT !.state = driver.initialState]
    /\ flat' = [flat EXCEPT !.state = driver.initialState]
    /\ UNCHANGED <<table, calls>>

Next == (\E event \in Events : Dispatch(event)) \/ Return \/ Reset

-----------------------------------------------------------------------------
(* The banner's promise on nested events.  However dispatches nest in one    *)
(* another's actions, the machine is where the events, taken one after       *)
(* another in the order they were offered, lead through the first matching   *)
(* rows, and has counted the ones that no row accepted, resets and all.      *)
FlatRun == driver.state = flat.state /\ driver.rejectCount = flat.rejected
=============================================================================
