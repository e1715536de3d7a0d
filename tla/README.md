# Formal models of esclib

esclib is a freestanding C library for small controllers: no operating system,
no heap, no dependency between its modules. Every module is a struct the caller
owns and functions that take a pointer to it. What makes it interesting to a
model checker is not any one function but who calls it: the library is written
for programs with three contexts of execution

  * a **receive interrupt** that hands a byte to a protocol,
  * a **tick interrupt** of fixed rate that counts timeouts, timers and tasks
    and steps the shift register drivers,
  * the **main loop**, which evaluates, pops, sends and runs tasks, and which
    either interrupt may preempt between any two of its memory accesses.

The struct members the contexts share are `volatile` or plain integers; there
is no lock anywhere. The comments in the code argue, store by store, why that
is enough. These modules take the same code store by store and check the
argument.

## Inventory

| component | state it keeps | operations (who calls them) | what is hard about it |
|---|---|---|---|
| `comstxetx` byte framing | receive buffer and index, open / escape / ready flags, timeout counter, reject count | `Receive` (rx interrupt), `TimeoutCounter` (tick), `Evaluate`, `BuildFrame` (main loop) | the main loop reads and gives back a buffer the interrupts fill and discard; noise on the line |
| `comgenbuf` packet queue | byte ring, head, tail, used, count, dropCount | `Push` (interrupt), `Pop`, `Flush`, `PeekLength` (main loop) | two contexts update `used` and `count`; three indices wrap inside headers and payloads |
| `comsafe` safety layer | expected sequence, armed flag, state, error, watchdog counter, error count | `CheckFrame`, `Reset`, `BuildFrame` (main loop), `TimeoutCounter` (tick) | the watchdog fires inside `CheckFrame` and `Reset`; one byte of sequence number |
| `softtimer` | mode, period, counter, state, flag | `Tick` (tick), `Start`, `Stop`, `Expired`, `ChangePeriod` (main loop) | expiry inside a call; phase of a periodic timer |
| `sched` task table | entries (period, counter, due, enabled), count, overrun count | `Tick` (tick), `Run`, `AddTask`, `Enable` (main loop and the tasks `Run` calls) | table walked by the tick while `Run` and tasks change it; starvation |
| `hc595` output shift register | transfer state, phase, bit / byte / step indices | `Interrupt` (tick), `Start`, `OneShot` (main loop or another interrupt) | two ways of driving the same pins, kept apart by one byte |
| `hc597` input shift register | as `hc595`, with a load pulse and the array that is read into | as `hc595`, and a `Start` from an interrupt between two steps of `OneShot` | as `hc595`, and the array is zeroed and filled in place by the interrupt |
| `circBuf` typed rings | write and read pointer, status, behaviour | `Add`, `Read`, `GetLength`, `GetStatus` | equal pointers mean full or empty; the oldest element is overwritten or the newest refused |
| `commodbus` Modbus RTU receiver | receive buffer and index, silence counter, ready / overrun / dropped flags, reject and ignored counts | `Receive` (rx interrupt), `TimeoutCounter` (tick), `Evaluate`, `BuildFrame` (main loop) | a frame ends by silence; what arrives while one waits is dropped and counted |
| `comat` AT command receiver | receive and reply buffers and indices, ready flag, timeout counter | as `commodbus` | a two byte prefix, a line end of two bytes, a reply that must be the line's own |
| `comsec` encryption layer | keys, session id, counters, armed flag, last error | `BuildFrame`, `CheckFrame`, `Rekey` at either end | replayed, reordered and forged frames; the end of the counter; two ends that change keys at different times |
| `cobs`, `crc*`, `checksum`, `pack`, `text` | none | codecs and conversions | inverse of each other at the limits |
| `search`, `sort`, `q16` | none | pure functions | boundaries, saturation |
| `fsm` state machine | state, reject count | `Dispatch`, `Reset` (main loop and the actions `Dispatch` calls) | an action that dispatches before it returns |
| `bininp`, `encoder`, `dcmotor` | level, count and rise; position and errors; bridge state and duty | one update per sample, a getter or a command | bounce; a missed step of unknown direction; a reversal under power |
| `ramp`, `pid`, `hysteresis` | position and velocity; accumulator and last error | one iteration per period, changes of limits and gains | rounding, retargeting, windup |
| filters | a window, a running sum, an accumulator | one sample at a time | window and sum drifting apart, rounding that stops short |
| `basicmath`, `interp`, `basicarray` | none | pure functions | widths of sums and differences, rounding |
| matrices, statistics, complex numbers, cordic, biquad, alphabeta, goertzel, hysteresis, logic | none, a filter's last values, or one bit | pure functions and one sample at a time, in floating point and, but for `matrixlib` and `goertzel`, on integers too (`cordic` and `logic` only on integers) | width and rounding |

Interactions. The modules never call each other; the caller's code joins them
(`sample/FramedLink`, `test/Integration_Test`). A frame of `comsafe` is the
payload of `comstxetx`; the interrupt that completes a frame pushes it into a
`comgenbuf` that the main loop pops; `softtimer`, `sched`, `comsafe` and
`comstxetx` share one tick. Callbacks (`checksum`, `packetProcess`, the pins of
the drivers, tasks) run in the context of the function that calls them.

What makes each correct: no index outside the caller's array; a frame or a
packet arrives whole, once and in order, or is counted as refused; a timeout
neither comes early nor fails to come; a state that says *safe* (`CS_OK`, done,
due) is never older than it claims; nothing stays busy or open for ever.

## Modules

| module | what it models |
|---|---|
| `ComStxEtx` | the receiver of comstxetx. `Receive(b)` is one action per way through `comstxetxReceive`, `TimeoutCounter` the tick, and `Evaluate` seven steps: the check, the dispatch, and each of the five stores that give the receiver back. The check is an operator constant. |
| `FrameChannel` | what a framed link promises: whole packets, in order, none twice, none invented, any of them lost |
| `StxEtxLink` | `comstxetxBuildFrame`, a serial line that loses, changes and inserts bytes, and `ComStxEtx` at its end. `Channel == INSTANCE FrameChannel` |
| `PacketQueue` | what comgenbuf promises: a first-in first-out queue with a byte budget |
| `ComGenBuf` | comgenbuf with each call as one step, on the byte ring itself: headers, wraps, copies |
| `ComGenBufIsr` | the consumer's calls access by access, with `Push` coming in between unless the caller masks it at that point (`Masked`); whole calls under one mask as well. `IsrQueue == INSTANCE PacketQueue WITH ...` |
| `ComSafe` | the receiver of comsafe: the check in the order of its tests, `comsafeFail` in both contexts with its `++` as a load and a store, `Reset`, and the tick between any two stores |
| `ComSafeLink` | `comsafeBuildFrame` and a transport that loses, repeats, reorders, damages and delays frames |
| `ComModbus` | commodbus: the three contexts, `Evaluate` store by store, and `BuildFrame` as what a handed over frame must be |
| `ComAt` | comat: the same contexts, with the reply it sends |
| `MCReceivers` | `ComStxEtx`, `ComModbus` and `ComAt`, one at work in each behaviour |
| `ReceiversProofs` | the three receivers' invariants, `StxEtxLink`'s for a clean frame, and that it implements `FrameChannel` |
| `ComSec` | a sender, a transport that may deliver any frame ever sent, whole or altered, and a receiver, each rekeyed and reset by itself: an end that was reset goes on under new material or resumes the session it had. `Channel == INSTANCE FrameChannel WITH ...` |
| `MCSafetyLayers` | `ComSafe`, `ComSafeLink` and `ComSec` |
| `SafetyLayersProofs` | theorems of `ComSafe` and `ComSafeLink`, and that `ComSec` implements `FrameChannel` but for resumed sessions |
| `CircBuf` | the typed rings: one module, three widths. `Queue == INSTANCE BoundedQueue` |
| `BoundedQueue` | what a circBuf promises: a bounded queue that drops its oldest or refuses its newest element |
| `MCBuffers` | `ComGenBufIsr` and `CircBuf` |
| `BuffersProofs` | the ring invariant of `ComGenBuf`, and that `ComGenBufIsr` and `CircBuf` implement their queues |
| `SoftTimer` | one timer, the main loop's calls store by store against its tick |
| `BinInp`, `Encoder`, `DcMotor` | the debounced input; the decoder and the shaft it is fixed to; the bridge, pin by pin |
| `Ramp`, `Pid` | the integer ramp with its root, and the integer controller with its widths |
| `MCSampled` | `SoftTimer` and the five modules above it that a caller steps at a fixed rate |
| `SampledProofs` | theorems of all of them |
| `Sched` | the task table: `schedRun`'s scan, the tasks it calls, `schedAddTask` and `schedEnable` from either place, the tick anywhere |
| `Fsm` | `fsmDispatch` row by row, with actions that dispatch, reset and return |
| `MCMainLoop` | `Sched` and `Fsm` |
| `MainLoopProofs` | theorems of both |
| `Hc595` | the driver, its pins and the chain of registers behind them: a rising shift clock shifts, a rising latch clock shows |
| `Hc597` | the input driver, its pins, the latches and the chain |
| `ShiftRegisters` | `Hc595` and `Hc597` |
| `ShiftRegistersProofs` | what an output and an input transfer that says done has done |
| `AlgorithmsProofs` | that sorting and searching are right, for arrays of every length, and that cobs reads back what it writes, for payloads and frames of every length |
| `Counting` | lemmas for the proofs: counts that start again at a modulus, products, induction over the natural numbers, and recursion with a measure |
| `Cobs` | both passes of the decoder and the encoder of cobs, and the puts and gets of pack, as operators over a byte of `Base` values |
| `Crc` | crc8, crc16, crc32 and checksum as operators; a CRC register is the set of its one bits, the tables are the literals of the source |
| `Sort` | sort and search: a loop is a fold over its index or a recursion over its bounds |
| `Q16` | q16 over a signed word of `WordBits` bits |
| `Text` | hex, base64, decimal and fixed point, written and read, on characters |
| `Filters` | median, maf, fir, rms, slew, deadband and the integer emaf: a state and a step each |
| `Basics` | basicmath, interp and basicarray over words |
| `MCAlgorithms` | calls of those seven on arguments that grow an element at a time, and what the results must be |

An `MC...` module also gives the constants the values a `.cfg` cannot say. One
that joins several components has a variable `atWork`, chosen in the initial
state: the components share no state in the code, and so each has behaviours of
its own in which the others stand still in one of their initial states. The
properties of each are the component's, under one name per kind
(`FramesKept`, `SignalsKept`, `LimitsKept`, ...), which is a conjunction of named
parts.

Names are the source's wherever TLA+ allows it: a VARIABLE is a struct member,
an action a function or one of its ways, and a function whose stores are seen
from another context is one action per store, named for what it stores. A
program counter `pc` says where the main loop stands in such a function.
Interrupts run to completion and do not nest. Variables marked *History* record
what the properties speak of and no action reads them in a guard. Operators
marked *mutant* are the same definition with a plausible mistake in it; each
property names one that breaks it.

What is abstracted. Byte values come from a small alphabet. Checks (CRC) are an
arbitrary function of the payload in `ComStxEtx`, and in `ComSafe` the outcome
of the comparison. Arguments a function refuses without effect (NULL, zero
lengths) are not called with. The stateless modules run on a smaller byte, word,
run length and Adler modulus, in the code's proportions; the CRCs and Fletcher
at their own widths. Sorting compares integers, so a nan in a float array is
outside. Counters that wrap do so at a constant instead of
2^32. Stores happen in program order and an aligned word is read and written at
once: `volatile` and the targets of the library give the first for the volatile
members and the second for all; where the code relies on it for a plain member
the model does too.

## Runs

Each run is small enough to be exhaustive. "Violation" runs check what a
comment of the code says and the code does not do.

| run | bounds | what it shows |
|---|---|---|
| `StxEtx_receiver` | comstxetx: 4 byte values, a buffer of 4, timeout 1. commodbus: 3 byte values, a buffer of 5, silence 2. comat: 5 characters, a buffer of 5, timeout 1, two replies | all safety and liveness of three receivers with both interrupts between any two steps of `Evaluate`. comstxetx's buffer of 4 holds a payload byte, its check and the cell that is written but never part of a frame; the four byte values are the three framing bytes and one other. commodbus has its own address, the broadcast and another's, the shortest frame and one byte more, and an overrun; its check has two different bytes, so that their order matters. comat has its prefix, its two line end characters and one other, in lines with one character of content at most. `FramesKept`: commodbus hands over only what `BuildFrame` makes, settles every frame and every dropped run exactly once, and ends a frame by silence of the line alone; comat hands over whole lines, within their budget, and sends the reply of that line. `FramesEnd`: none stays in the middle of a frame. |
| `StxEtx_restart` | same | violation: "every frame starts with the full rxTimeout budget" (comstxetx.c:317) fails for a frame that an STX restarts. It holds for one that opened on an idle receiver, which is what the first part of `BudgetKept` says; the second is that no open frame outlives its budget. A frame whose STX comes between the last two stores of `Evaluate` ("late") is the other exception. |
| `StxEtxLink_line` | 3 frames of at most 3 bytes, 2 faults (at most 2 frames then), timeout 1, buffer of 5 | a packet that starts on a receiver in step arrives whole after any noise; without faults the link implements `FrameChannel` although frames overlap, time out and are joined in the middle. The payloads are the empty packet, the framing bytes as data, and one that the sender's buffer of 11 takes and the receiver's has no room for; the model's check weighs positions, so that a receiver that joins the middle of a packet would not take its tail for a packet. Three frames are one handed over, one held and one on the line. |
| `ComGenBufIsr_masked` | comgenbuf: ring of 9 bytes, base 2, packets of 1 to 3 bytes. circBuf: capacities 0 to 3, two elements of each width, both behaviours | the two contexts implement `PacketQueue`, and the ring is in order whenever the main loop is outside. With base 2 a length of two or three needs both header bytes; 9 is a multiple of no packet's cost but 3, so headers, payloads and copies all straddle the end. `RingIsQueue`: a circBuf implements `BoundedQueue`; a capacity of one is full and empty at every step, none is what `Init` refuses. |
| `ComSafe_channel` | comsafe: timeout 2, one tick inside each call, sequence modulo 4; with its transport: delay 2, rate 1, three frames in flight. comsec: three generations of keys, counters up to 2, three frames, one resumed session, payloads of which one does not fit the receiver and one no frame | a CS_OK channel is watched and recent, a failed one stays failed but for one store, silence is detected. `WindowSuffices`: an accepted frame is the direct successor of the one before, while rate, delay, timeout and ticks inside a call satisfy `WindowOK`; these bounds are on its edge: with a sequence modulo 3 a frame goes missing unseen. `AuthenticatedChannel`: comsec implements `FrameChannel`, and no key, session and counter are ever used twice; a receiver that resumes its session after a reset is the exception, and may take the frames of that session, of no earlier one, again. Of the three generations two share a key and two a session id, so that every single difference is met; three frames with counters up to two reach the counter's end. |
| `ComSafe_sticky` | same timeout | violation: "leaves it there until comsafeReset" (comsafe.c:250): a timeout inside `CheckFrame` is overwritten by the store of `CS_OK` |
| `ComSec_resume` | same | violation: "A caller resuming a session across a reset must use comsecRekey with the counter it left off at, or the replay guard starts again from nothing" (comsec.c:159) and "what must never happen is the same counter being accepted twice" (comsec.c:305): `comsecRekey` disarms the receiver (485) whatever session it is given, so one that resumes as it is told to takes a frame again that it took before the reset |
| `SoftTimer_timer` | softtimer: periods 1 to 3, one tick inside each call. bininp: filter counts 0 to 2. encoder: a shaft of nine counts, three errors. dcmotor: a duty of two parts, with not-a-number and out of range. ramp: four targets, two velocities, three accelerations, a unit of four. pid: a word of -7 to 7, two sets of gains and limits | expiries keep their phase, and none is reported twice or lost but the one the comment names. `SignalsKept`: a debounced level is the one that last stood long enough and each rise is reported once; the position is off by two for each reported error at most and by nothing else; a bridge is never put against a motor driven the other way but at zero duty. `LimitsKept`: velocity and acceleration stay in their limits, the setpoint neither passes its target nor turns, and has braked when it arrives; accumulator and output stay in theirs and leave them on the first error of the other sign. `EndsEventually`: a running timer expires, and a ramp arrives once its target stays. Periods of one, the ends of each width and every retarget are among the values. |
| `Sched_table` | sched: two entries, periods 1 and 2. fsm: every table of three rows over two states and two events, dispatches nested three deep | two entries give an earlier one that could starve a later, one added by the other, and a slot that a scan reaches while it is added. `EventsInOrder`: nested dispatches leave the machine where the events, one after another, would; three rows have duplicates, rows that stay and missing ones. |
| `Hc595_single` | 2 bytes of 2 bits, of either register | with an interrupt that starts transfers too, but never inside a call of the main loop: done means that the outputs showed the array whole and nothing but whole arrays before, after `3 * bits + 2` calls (`DoneIsDone`). Two by two has an inner and a last bit and byte, which is all the roll-over distinguishes. `ReadsWhole`: the input register's array holds the levels of one load, after `bits + 1` calls. `TransfersEnd`: a transfer of either register, once begun, is done. |
| `Hc595_shared` | same, that interrupt comes anywhere | violation: "safe to call from any context, including another interrupt" (hc595_drv.c:332): the test of the state and the stores come apart |
| `Algorithms_calls` | frames of up to 6 bytes of 4 values; 3 octets of {0, 1, 255}; arrays of 5 of the words -32, -1, 0, 2, 31; all pairs of words of 6 bits, 3 of them behind the point; every number of 10 bits, 5 of them behind the point; strings of up to 5 digits, 4 characters; 6 samples | what each stateless function returns, against a definition of what it should: `FramesInvert`, `OctetsKept`, `OrderedAndFound` and `ResultsNearest`, each a conjunction of named parts. With `Base` 4 the longest COBS run is 2, so a payload has full runs at its start, inside and at its end. The tables are compared for all 256 indices. Errors are all pairs of bits and all bursts of 5 bits in 24. Arrays have up to five elements with every pattern of ties, enough for a heap of three levels. A text is read exactly when it spells a number the word can hold, at both ends of the word; six samples wrap every window, with repeated and extreme values. |

Fairness. The tick is weakly fair: it is a hardware timer, and so is
`hc595Interrupt`. The main loop is weakly fair in what it has begun
(`Continue`, `LinkContinue`), and in the `Evaluate` of a receiver, which the samples call on every turn.
The call that steps a ramp keeps coming, and so do `hc597Interrupt` and the steps
of a begun `hc597OneShot`. `schedRun` is called again and again whatever else the loop does, and tasks
return: strong fairness of `BeginRun` and `TaskReturn`, since between them the
loop may call `schedEnable`. Nothing is assumed of a peer, a line or a caller's
`Reset`. Deadlock is checked everywhere but in `StxEtxLink_line`, where the
bound on frames and faults ends the run, and `Algorithms_calls`, where the
length of an argument does; there all properties are safety.

### Conditions the runs brought out

The properties hold under conditions that the code leaves to its caller:

  * `comgenbuf`: `used -= ...` and `--count` in `Pop` are a load and a store on
    members that `Push` also updates. The producing interrupt must be held off
    at least from each of those two stores back to its load, and during
    `Flush` (`UpdatesMasked`). Nothing else of `Pop` needs it: packets may be
    pushed while one is copied out. Without the mask an update is lost
    (the mutant `InterruptAlways`).
  * `comsafe`: fewer ticks than the timeout must fit inside one call of
    `comsafeCheckFrame`. Otherwise the watchdog can expire inside it, be
    overwritten, and never fire again, since it fires on one tick only.
    `errorCount++` in two contexts may lose one.
  * `comsafe`: the watchdog catches a gap of a whole turn of sequence numbers
    only if `Rate * (MaxDelay + timeout + TicksPerCall) < SeqMod + 2`,
    `Rate * (MaxDelay + 1) < SeqMod` and `TicksPerCall < timeout`; nothing in
    the code relates the timeout to the sending rate. A tick inside
    a call ages the channel, but the store that clears the watchdog may come
    after it.
  * `softtimer`: a tick between the two stores of `softtimerChangePeriod` may
    expire the timer at once, and the comment that the counter is always below
    the period then fails for that tick.
  * `checksum`: Fletcher16 does not see two octets change places that are
    congruent modulo 255 (0 and 255), and `ReorderingSeen` says exactly that;
    the same holds of Adler's modulus, which in the code no octet reaches.
  * `comstxetx`: a receive buffer of the smallest size `comstxetxInit` accepts
    holds no frame.
  * `commodbus`: a frame whose bytes come partly before and partly after
    `Evaluate` gives the buffer back is counted when it is dropped and again
    when its rest fails the check; the comment (commodbus.c:71) says once. A
    frame is therefore settled per run of dropped bytes in `EveryFrameSettled`.
  * `comat`: a line that begins between the stores that give the receiver back
    (comat.c:207 to 209) has its ticks cleared by the last of them.
  * `comsec`: no frame is taken twice as long as the receiver is not rekeyed to
    the key and session it has. The comment of `comsecInit` tells a caller that
    resumes a session across a reset to do just that (comsec.c:159), and
    `comsecRekey` disarms the receiver also then (485), as its own note
    says (469) for the new key it has in mind; it takes a counter to send
    from and none to receive from, so no call puts the guard back.
    `ComSec_resume` shows the frame that is taken twice; the rest of
    the receiver's promise holds (`AuthenticatedChannel`). A receiver that moves
    to another key or session id after a reset keeps it whole.
  * `encoder`: a missed transition leaves the position off by two counts, where
    the comment (encoder.c:112) says one; two of opposite direction cancel, and
    the error count still says two. The shaft must turn by at most two counts
    between samples.
  * `ramp`: the velocity limit holds whatever the caller does with the target.
    The last change of velocity, on arrival, is not bounded by the acceleration,
    and for a target that stayed put since the ramp was at rest it is by
    `v * v <= a * (V + 3 * v)`: near the root of `maxAcceleration * maxVelocity`, so it
    grows with the ratio of the two (eleven accelerations at a ratio of a
    hundred). The envelope at the distance left is what the ramp may have
    after this step, and it decides by what it had before.
  * `pid`: the difference of two errors at opposite ends of the word overflows
    it, which is undefined in C; the runs keep the errors inside.
  * `interp`, `mathMapi32`, `mathLerpi32`: the step from the lower value, taken
    in a wider word, is cast to `int32_t` and added (interp.c:346,
    basicmath.c:904 and 980). When it does not fit the cast changes it and the sum
    of a step so changed and a value it was meant for overflows, which is undefined, and which the
    sanitized build of `.github/workflows/ci.yml:57` would stop at. The comments
    at interp.c:301-304 and basicmath.c:951-953 speak of values whose span fills an
    `int32_t`. The model gives any word there (`Signed`), and `ResultsNearest` claims
    nothing of it (`StepFits`). The sums, means, medians and ranges of
    `int32_t` arrays are treated alike: every partial sum or difference has to fit.
  * `fir`: the fixed point copy casts the shifted accumulator to `int32_t`
    (fir.c:264 and 318), so taps whose gain exceeds one may give the low bits
    of a larger result, of either sign; `FirIsConvolution` says which.
  * `bininp`: `bininpGetRisingValue` reads and clears in two accesses; it and
    `bininpUpdate` are called from one context.

## Proofs

A run checks a small instance; a theorem here holds for every value of the
constants. The proofs are in eight modules, each of which extends the module
that a run checks, so that theorem and run speak of one definition. Constants are
constrained by the named ASSUMEs beside their declarations, and all a further
theorem needs is in its statement: `CircBufIsQueue` has `Given`, `LinkIsChannel` `TailsFail`, the two
theorems on `ComGenBufIsr` have `UpdatesMasked`, those on `Hc595` and `Hc597`
`~IrqNests`, `OkImpliesWatched` and `OkImpliesFresh` `TicksPerCall < timeout`.
Each of the last three is a condition the code leaves to its caller and a run
shows to be needed.

Almost none of the properties is inductive. Each component has an invariant that
is, named below; it was first checked by TLC on the run's instance.

`ReceiversProofs`, for every alphabet, buffer size, budget and check:

  * `ReceiverInv` (comstxetx). That an index never leaves the buffer needs what
    the flags say of each other at every step of `Evaluate`, above all that the
    interrupts leave a ready frame alone, and that the flags are down before the
    ready flag is. From it `TypeCorrect`, `CheckedIsHandedOver`, `FrameIsHeld`,
    `FramesAreSettled` and `WholeBudget`, the last with the relation between the
    counter and the age of the frame for each origin.
  * `ModbusInv` and `LineInv` (commodbus, comat) say what `Evaluate` has tested
    at each of its stores, which frame or line was begun under its last one, and,
    for comat, where the bytes AT and the line end stand. They give `FramesAreKept`.
  * `OnLineInv` (`StxEtxLink`): while a frame is clean the receiver has stored a
    beginning of packet and check, and the wire carries exactly the stuffing of
    the rest. `CleanFramesArrive` follows. The frame is a concatenation of pieces
    of one or two bytes, one per byte of the packet, so the proof first shows where
    each piece stands in it (`Pieces`, `PlacesAre`), by induction over the length.
  * `ChannelInv` (`StxEtxLink`, while the line has made no fault): an open receiver has
    stored what came after the STX it opened at, which is the frame's or, if it
    was busy or timed out when the frame began, one among the data; and the
    wire carries the stuffing of the rest (`InSync`). A frame that waits is therefore a tail of
    the packet sent last (`Holding`). `LinkIsChannel`, that `StxEtxLink` implements
    `FrameChannel`, needs that no proper tail of that kind passes the check:
    `TailsFail` is its one hypothesis, and the run's constants satisfy it
    (`TailsAssumption`).

`BuffersProofs`, for every storage size, byte base and set of packets: `RingOK`
says that the ring is a stretch of cells that starts at the tail, in which the
packets lie one after the other and byte for byte, and is inductive as it
stands for whole calls (`RingInvariant`). Access by access it is not: between the
move of the tail and the store to `used` the stretch starts where the tail *was*,
and until the store to `count` the count is one too large. `IsrInv` says so
for each label; `RingFrom(t)` is the part of `RingOK` that a push preserves
wherever the stretch starts. From it `IdleRing` and, with a refinement mapping
in which a `Pop` takes effect at its store to `used` and a `Flush` at its first
store, `QueueRefinement`.

`CircBufIsQueue`, in the same module and for every capacity and every set of
elements, and `RingQueue`, which is that theorem of the instance in `MCBuffers`:
`RingInv` says that the pointers are inside and that the status is `NOTEMPTY`
exactly when they differ. That is all it takes: with it the length and the
offset of each element are functions of four numbers, and each way through
`Add` and `Read` is a lemma on those numbers (`Adding`, `Displacing`, ...). The
refinement maps every call to one step of `BoundedQueue`.

`SafetyLayersProofs`, for every sequence modulus, timeout, rate and delay:

  * `ComSafe`: `TypeCorrect` and `FailedUntilReset` without assumption,
    `OkImpliesWatched` and `OkImpliesFresh` for fewer ticks in a call than the
    timeout.
  * `ComSafeLink`: `NothingGoesMissing`. `LinkInv` bounds, by the rate and what is
    known of ages, how many frames were built after each frame in the transport
    and after the one accepted last; their numbers are as far apart modulo the
    sequence. `WindowOK` keeps both distances below a turn, so equal
    numbers are equal frames. This proof is where the ticks inside a
    call entered `WindowOK`: such a tick ages the channel, but the store that
    clears the watchdog may come after it.
  * `ComSec`: `ChannelIsAuthenticated`, for every key material in which
    no two generations have both key and session id in common, which is what
    `comsecRekey` asks of its caller, and any number of resets of either end. A
    step is one of `FrameChannel`, or a receiver that resumes its session and may
    then take the frames of that session again (`ResumeReceiver`); what was taken
    before the session began is of an earlier generation and stays out
    (`Earlier`). `SecInv`: in one generation the
    sender's counter only grows, and an armed receiver stands at the last frame
    it took (`GuardStands`). A frame that authenticates was therefore built in the
    receiver's generation, and after the last one taken. The cipher is
    external: a tag names what it was made from.

`SampledProofs`: `TimerInv` has the types, where the counter stands while a tick is
inside `Start` or `ChangePeriod` (`Near`), what is unreported in the middle
of `Expired` (`Reports`), and that the counter of a timer no call was changing is
its age modulo the period (`Phase`). From it `TypeCorrect`, `NoneIsLost`
and `ExpiresOnTime`, for every set of periods and any number of ticks
inside a call. `SignalsAreKept` has an invariant for each of the debounced
input (the counter is the run of the other level), the decoder (the state is the
shaft's channels, and the position is off by what the errors allow) and the
bridge (pin by pin). `LimitsAreKept` joins `RampKeepsLimits` and `ControllerKeepsLimits`.
The ramp needs to know that it can still brake: with `l` left to go,
`v * v <= a * (2 * l + v + V)` (`Heads`). A step that brakes as hard as it may keeps
exactly that, term by term, and every other step leaves a velocity below the envelope; on arrival it is
the bound above (`Forward`, and `Approach` for both directions). The envelope is an integer root, found
bit by bit: `RootAt` says that the root so far, r, leaves `value - r * r`, and that r and
the bits not yet tried reach past the root, so that `rampSquareRoot` returns the largest
integer whose square does not exceed its value (`RootIs`). For that the first bit has to
be the square of a power of two (`RampAssumption`).

`MainLoopProofs`: `SchedInv` says of every entry in use that its counter is the
ticks it has counted modulo its period, of every other that it is blank, where
the scan stands and what it has tested there, that the marks are the promises
(`waiting = due`), and that the count of elapsed periods balances. The balance
is the part with a history: it is a sum over a set of entries that one tick
changes all over, so the proof takes the cardinality of the entries that become
due and of those that overrun. From it `TypeCorrect`, `NoCallIsLost`,
`NoOverrunIsLost` and `CallsAreDue`, for every length of the table.
`EventsAreTakenInOrder` holds for every transition table: it compares the driver,
whatever its actions dispatch, with a flat run of the same events.

`ShiftRegistersProofs`, for any number of bytes of any number of bits:
`OutputInv` ties the chain to the indices. It says how many bits of the array the
chain ends in and how many calls that took, by index and step for a stepped
transfer and by label for a blocking one. From it `OutputTypes`, `ArmingIsUnseen`
and `DoneIsWhatItSays`. `InputInv` splits one load between the array and the chain:
the first bits are read, the others are still in the chain, and the rest of the
byte begun is zero. From it `ReadIsWhole`.

`AlgorithmsProofs`: `SortsAndSearchesRight`, for arrays of any length of words of
any width. Two assumptions stand beside the constants: what `sort.c` and `search.c` are
given are words (`ValuesAssumption`), and a word has twice as many values as it has
that are not negative (`PowersAssumption`, true of any width above zero, but the prover knows nothing
of a power whose exponent is a constant). A loop of the source is a fold or a recursion, and
each has a rule: what holds before the loop and is kept by a turn holds after
(`LoopKeeps`), and what a turn of a recursion keeps holds where it ends
(`MovingOn`). The invariants are those a reader of the C would write at the head of
its loops:

  * `SortSelection`: the part before the index is in order and nothing after it
    is smaller (`Smallest`, `SelectionTurn`).
  * `SortBubble`: after the pass with index `i` the last elements are settled, and equal
    elements have not changed places (`BubblePassSettles`).
  * `SortInsertion`: the part before the index is in order with ties in the order of
    arrival; the place found lies behind the last element that is not larger
    (`PlaceFound`, `InsertionTurn`).
  * `SortHeap`: every parent from the index on is at least its children, but for one
    place while an element sifts down (`SiftTurn`, `SiftDownSifts`,
    `Heapified`); then the top is the largest of the heap, and all behind the heap is in
    order and no smaller (`HeapTop`, `HeapTurn`).
  * the two bounds and `SearchBinary`: what lies left of the interval is too small, what lies
    right of it too large, and the interval shrinks (`LowerWithinFound`, `UpperWithinFound`,
    `BinaryFinds`). In `SearchClosest` the distance of two words is computed
    modulo the word's range and is the plain one even where the difference does
    not fit (`DistanceIsPlain`), and the neighbour it reports is the first of
    the nearest (`ClosestFound`, `FirstNearestIsMin`).

`FramesAreInverted`, in the same module, is about the frames of `cobs.c`, for a byte of any size
above two and frames of any length. It rests on what is assumed of every byte
(`BytesAssumption`). What the encoder and the two passes of
the decoder have in common is the relation `Reads`: a set of pairs, a place in the
frame and a place in the payload, that holds the two starts and goes on from
every code byte to the next, where the bytes between agree and a
delimiter stands for a run that is neither full nor last.

  * A frame that reads as `q` is validated to the length of `q` and filled to `q`
    (`ReadsIsValidated`, `ReadsIsWritten`), along the recursion of each pass,
    from the end of the frame backwards. And a frame the first pass finds sound reads as
    what the second writes, so that the second, which tests no capacity, writes as
    many bytes as the first has counted (`SoundIsRead`).
  * The encoder's invariant (`Encoding`): the finished part reads as the bytes taken before
    the open run, holds no zero, and is longer than they are by at most the number of full runs, which
    is what `cobsEncodedSize` allows for (`EncodedReads`).
  * For the other direction the encoder is run on what a frame without a zero reads
    (`Following`): it has written the frame up to a code byte and holds some of
    the run behind it. At the end it has written the frame again, or the frame
    and the code byte of an empty run, if the frame ends with a full one
    (`FollowingEnds`).

`Counting` has the arithmetic the others share, and induction over the natural
numbers as a fact about a set that holds zero and every successor (`CountingUp`),
which comes from the least element of a set (`LeastNatural`). The library's
theorems on recursive functions take operators and so are out of reach;
`Recursion` builds such a function, given as the functions that make up its body, from a
measure that falls at every call, and `BuildingUp` says that its values are in a set
that every turn keeps.

Only model-checked:

  * everything about liveness: `FramesEnd`, `SilenceDetected`, `EndsEventually`,
    `EveryDueRuns` and `TransfersEnd`, which the proof system does not reach;
  * `OctetsKept` and `ResultsNearest` of `MCAlgorithms`. The parts about
    CRCs compare 256 literals with eight shifts each, which is computation rather
    than proof; the others would each need the induction that the sorts and the
    frames have, over the bytes of a number, the digits of a text or the history of a filter.

## Not modelled

  * Floating point: `matrixlib`, `goertzel`, and the float copies of `statistic`,
    `complex`, `basicmatrix`, `biquad`, `alphabeta`, `hysteresis`, `pid`, `ramp` and
    `emaf`, whose `emafu32` has a float accumulator too. They are right or wrong
    by rounding, for which TLA+ has no arithmetic. Where a float copy of `median`, `maf`,
    `fir`, `rms`, `slew`, `deadband`, `basicmath` or `interp` is modelled, it is over
    exact numbers.
  * Integer code left out: `cordic`, which is integer throughout; the integer copies
    of `biquad` (biquad.c:430-622), `alphabeta` (alphabeta.c:160-318) and
    `hysteresis` (hysteresis.c:108-239); those in `statistic`, `complex` and
    `basicmatrix`; and the flip-flops of `logic`. Of the components with
    integer copies, `pid`, `ramp` and `emafi32` have theirs modelled. What is left
    out keeps at most a filter's last values or one bit, and what could be wrong with it
    is the width or the rounding of a formula.
  * Receive and tick interrupts that nest in one another. The samples do not
    nest them; a port that does has to mask one in the other
    (comstxetx.c:337).
  * Builds that reorder stores to members that are not `volatile`
    (`schedAddTask` publishes an entry by its last store, sched.c:145).
  * Arguments a function refuses without effect. One such refusal comes late:
    `comsecCheckFrame` reads `driver->tagSize` (comsec.c:322) before it tests
    `driver`.
  * Getters, tests, samples, templates and scripts, which were read for what
    they say of the code.

## What could follow

The stack as one model, as `sample/FramedLink` wires it: sender, line,
`ComStxEtx`, `ComGenBufIsr` and `ComSafe`, implementing a channel of accepted
packets. The inverses of `pack` and `text` for every word and
length, with the rules for recursion in `Counting`.
