------------------------------- MODULE BinInp -------------------------------
(***************************************************************************)
(* bininp, a binary input that takes over a level once it has stood for    *)
(* more than filterCount samples in a row, and remembers that it rose      *)
(* until it is asked.                                                      *)
(***************************************************************************)
EXTENDS Integers

CONSTANTS FilterCounts  \* the filterCount values bininpInit is given

VARIABLES
    driver,     \* the bininp_t
    seen        \* History: the last level, how often in a row (up to filterCount + 1),
                \* the level that last stood long enough, and whether it rose unread

vars == <<driver, seen>>

Init ==
    /\ \E n \in FilterCounts :
         driver = [filterCount |-> n, filterCounter |-> 0, output |-> FALSE, rising |-> FALSE]
    /\ seen = [level |-> FALSE, run |-> 0, stood |-> FALSE, rose |-> FALSE]

-----------------------------------------------------------------------------
AcceptsEarly(count) == count >= driver.filterCount  \* mutant: one sample short
Accepts(count) == count > driver.filterCount

AgainKeeping == driver  \* mutant: a sample of the old level does not start over
Again == [driver EXCEPT !.filterCounter = 0]

Noted(level) ==
    LET run == IF level # seen.level THEN 1
               ELSE IF seen.run > driver.filterCount THEN seen.run ELSE seen.run + 1
        stood == IF run > driver.filterCount THEN level ELSE seen.stood
    IN  [level |-> level, run |-> run, stood |-> stood,
         rose |-> seen.rose \/ (stood /\ ~seen.stood)]

Update(level) ==
    /\ \/ level = driver.output /\ driver' = Again
       \/ /\ level # driver.output /\ ~Accepts(driver.filterCounter + 1)
          /\ driver' = [driver EXCEPT !.filterCounter = @ + 1]
       \/ /\ level # driver.output /\ Accepts(driver.filterCounter + 1)
          /\ driver' = [driver EXCEPT !.rising = @ \/ ~driver.output,
                                      !.output = level, !.filterCounter = 0]
    /\ seen' = Noted(level)

GetRisingValue ==
    /\ driver' = [driver EXCEPT !.rising = FALSE]
    /\ seen' = [seen EXCEPT !.rose = FALSE]

Next == (\E level \in BOOLEAN : Update(level)) \/ GetRisingValue

-----------------------------------------------------------------------------
(* bininpInit's promise: the output is the level that last persisted for     *)
(* filterCount + 1 updates in a row, whatever bounced between; and no rise   *)
(* of it goes unreported or is reported twice.                               *)
Debounced == driver.output = seen.stood /\ driver.rising = seen.rose
=============================================================================
