# SSD1315 driver: verification project

TLA+ models of the SSD1315 OLED driver (`src/SSD1315.cpp`, `include/ssd1315/`)
and of the bus transports of its examples, TLC configurations that check them on
small instances, and TLAPS proofs of the properties that hold for every panel
and configuration. Paths of the code are relative to the repository.

## 1. The system

One `SSD1315` object drives one controller over I2C. It is single threaded and
never sleeps on its own: the owner calls it, passes the time in, and supplies
one bus callback. A call runs to completion, so what interleaves is

* the **owner's calls**, in any legal order, including drawing, cancelling,
  force-clearing, detaching or resetting the panel in the middle of a transfer;
* the **outcome of every bus transaction**: done, address NACK (nothing
  happened), or a data NACK, timeout or bus error (the bytes may have arrived or
  not, and the driver cannot read the controller back);
* the **clock samples** the owner passes to the polls.

Below the bus callback there is real concurrency: the transports of the examples
share the bus with other tasks.

### Components

| component | state | operations | what makes it correct |
|---|---|---|---|
| lifecycle | `_attached`, `_initialized`, configuration, `_buffer` | `attach`, `detach`, `end`; `begin` and `recover` as sequences | a binding starts from nothing known; it holds live memory of the right size; a failed call keeps it |
| configuration validation | - | `_validateConfig`, `applyPanelProfile` | only geometries that the rest can handle |
| operation machine | `_operation*`: kind, state, phase, effect, transaction count, deadline | eight `start*`, `pollOperation`, `cancelOperation`, `takeOperationResult` | one owner of the bus; a result is kept until taken; its effect is honest; every operation ends |
| flush engine | `_flush*`: phase, page, column range, generation, bytes, error | `requestFlush`, `pollFlush`, `tick`, `waitFlush` | what was drawn during the transfer is not lost; a failed rewrite can be repeated; a job never waits for ever |
| page-buffer iteration | `_inPageIteration`, the window's first page | `firstPage`, `nextPage` | a window is on the glass before the next one is selected; each outcome reaches health once |
| dirty tracking | dirty column range and generation per page, `_gddramSynchronized` | the drawing primitives, `clear`, `clearDirty`, `clearDirtyIfIdle`, `markAllDirty` | a claimed baseline means that every differing cell is recorded dirty |
| panel power and controls | `_panelPowerState`, `_powerState`, `_sleeping`, `_scrollActive`, `_controlStateDirty` | `setSleep`, `setFlipX`, register setters, `stopScroll`, raw commands, `invalidatePanelState` | ON, OFF, scrolling and sleeping are claimed only when the controller is known to be so |
| controller settings | `_config`, `_allPixelsOn`, `_verticalScrollRows` | the init table, the setters, hardware scroll | what the owner was told is in force is in force |
| health | `DriverState`, consecutive failures, lifetime counters | `_updateHealth` | the state is the classification of the counter; an outcome counts once; counters saturate |
| clock arithmetic | deadlines and guards as `uint32_t` | `_deadlineReached`, `tickPowerOn`, the blocking loops | nothing ends early or outlasts its bound, across the rollover |
| transfer geometry | chunk, column and page pointers | chunk sizing in `pollFlush` | the bytes land where the frame says |
| drawing, text, bitmap | the framebuffer | primitives with clipping | pixels as defined, nothing outside the buffer, every change dirty |
| bus transports | mutex, handles, bus lines | `wireWrite`, `initIdfI2c`, `initWire` | definite results are true; what is taken is given back; every call returns in time |
| CLIs, tools, command table | example owners, host scripts, constants | - | outside the driver |

### How they interact

Everything in the driver is in one object and communicates through shared
fields:

* an operation of kind FLUSH or RESYNC **owns a job** of the flush engine while
  it is in its flush phase; the legacy calls own it otherwise, and an unconsumed
  result keeps everybody else off the bus (`_checkDirectI2cAdmission`);
* page-buffer iteration runs one job per window and **publishes its outcome
  later** (`nextPage`), or has it published by whichever call takes over;
* **two state machines describe one power**: `PanelPowerState` (what the panel
  shows) and `PowerState` (the display-on guard), advanced by `tickPowerOn` on
  one path and by an operation's DISPLAY_ON_DELAY phase on the other;
* stopping a scroll, changing the remap, reinitializing or invalidating
  **discards the baseline** that waking relies on;
* the driver gives each bus callback a **timeout computed from a sample taken
  before it**, and the transport must fit waiting for the bus and the transfer
  into it;
* `attach` may be called again on a bound object, also with a buffer that lies
  in the storage the object is about to free.

### What is hard

`PROJECT.json` lists the hazards with their lines. In short: draws between two
chunks or two windows; failures, cancellations and deadlines between two
commands of a sequence; ambiguous outcomes; outcomes published late by another
call; claims (`gddramSynchronized`, power, sleeping) that outlive the facts;
waits that nothing ends; counters and clocks at their limits; clipping off every
side of the display; a mutex got when the time is already spent; a target left
in the middle of a byte.

## 2. Modules

| module | models | extends |
|---|---|---|
| `SSD1315State` | the state of the object and of the controller, types, ownership tests, panel helpers, health, dirty tracking | |
| `FlushEngine` | the flush job one transaction at a time, legacy polling and waiting, the framebuffer mutators, page-buffer iteration | `SSD1315State` |
| `Operations` | admission, every phase of `pollOperation`, the ways an operation ends | `FlushEngine` |
| `PanelControl` | direct commands, raw commands, the guard's ticks, reset notices | `Operations` |
| `SSD1315Driver` | attach and detach, the next-state relation over all calls, fairness, and all properties of the driver | `PanelControl` |
| `OperationContract` | the abstract specification: what an owner may rely on who knows nothing of phases | |
| `SSD1315Contract` | the refinement mapping from the driver to the contract | `SSD1315Driver` |
| `Clock`, `Timing` | 32-bit clock arithmetic; every timer and blocking call in real time | `Timing` extends `Clock` |
| `Transfer` | chunks, buffer offsets and windows against the controller's address pointers and memory | |
| `Raster`, `Drawing` | the geometry as pure operators; the drawing calls on the RAM buffer | `Drawing` extends `Raster` |
| `Config` | `_validateConfig` as a predicate, the defaults and the presets | |
| `Attachment` | attach, begin and detach on the heap and the owner's memory | `Config` |
| `Settings` | the registers of the controller against what the driver remembers and the owner was told | `Config` |
| `HealthCounters` | the saturating counters and the state read off them | |
| `IdfTransport`, `WireTransport` | the two transports of the examples | |
| `MCDriver`, `MCContract`, `MCTiming`, `MCTransfer`, `MCDrawing` | the instances for TLC | their component |
| `Bookkeeping`, `MCBookkeeping` | composes `HealthCounters`, `Attachment` and `Settings`, which share no state: a behaviour follows one of them, its `subject`; and its instance | `HealthCounters`, `Config` |
| `MCTransports` | both transports: a program is built for one `platform` | `IdfTransport` |
| `SSD1315Driver_proofs`, `SSD1315Frame_proofs`, `SSD1315Contract_proofs` | the theorems about the driver (section 5): types, power, ownership of the bus, effects and control flags; the baseline; the contract and health | their component; the last two extend the first |
| `Timing_proofs`, `Transfer_proofs`, `Transports_proofs`, `Bookkeeping_proofs`, `Drawing_proofs` | the theorems about the other components | their component |

The driver's own modules abstract the data away (a cell is *stale* or not) and
keep all of the control. `Transfer`, `Drawing`, `Settings`, `Timing`,
`Attachment` and `HealthCounters` each take one sort of data that the driver's
modules abstract, and keep the control that this data depends on.

### The driver: state

| variable | code |
|---|---|
| `panel` | `_attached`, `_initialized`, `_sleeping`, `_scrollActive`, `_panelPowerState` (`power`), `_powerState` and its latch (`guard`, `latched`), `_controlStateDirty` |
| `frame` | the per-page dirty range (`dirty`), `_gddramSynchronized` (`synced`), the iteration flag and window |
| `flush` | the job: state, page range, columns left, whether a mutator raced with the page (`raced`, the generation comparison), cells sent (`_flushBytesCompleted`), start latch, attempted transaction, outcome published, last error |
| `op` | `OperationProgress` and the unconsumed `OperationResult` |
| `health` | `DriverState` and the consecutive failures |
| `device` | the controller: display on, scroll running, cells that may differ from the drawn frame; the driver never reads it |
| `pending` | ghost: flush outcomes reached and not published |

### The driver: how actions correspond to the code

* **One public call, or one bus transaction of a call that makes several, is one
  action.** Nothing can run between two transactions of one poll but the
  controller, so a poll with a budget of N transactions is N polls with the same
  clock sample; checking all budgets of one covers them.
* `late` is the set of timers (guard or delay, flush timeout, operation
  deadline) that the clock sample of a poll finds elapsed. Every combination is
  allowed; only the order in which the code tests them matters.
* Each `Poll...` action is one phase of `pollOperation`: `tickPowerOn` first,
  then the deadline test, then the phase's transaction with its four outcomes.
* Outcomes: `OK`, `NACK`, and an ambiguous failure that was `LOST` or `APPLIED`.
  The driver's reaction to the last two is the same; the controller's is not.
* `Draw` marks an arbitrary column range of a page of the selected window; a
  primitive that spans pages is several draws. `DrawAll` is `clear` and `fill`.
  `requestFlushRect` is a draw's marking followed by `RequestFlush`.
* `begin`, `recover`, `start*Scroll` and `waitFlush` are loops of the calls that
  are actions; their own exits are `BlockingOperationStalls` and
  `WaitFlushGivesUp`.
* `stale` is conservative: a cell is dropped from it only when its byte arrives
  with the content it has now; rotation and raw commands put all cells back.
* A raw command that may have arrived may do anything to the display, the scroll
  and GDDRAM. A panel that was never spoken to may be in any state.
* `discarded` and `forgot` are ghosts that record what the owner force-cleared,
  so that the properties can say what the driver still answers for.

Abstractions: `_dirtyGeneration` is the flag `raced` (a 32-bit counter
compared for equality); the failure counter is counted up to the threshold and
the transaction count up to 2 (`TxCap`), since nothing compares them with more;
the display-on delay is exempt from the operation's deadline in the code and so
here; fields that are only read while a job runs are cleared when it ends.
Left out: request identities, the last error's text, timestamps, `probe`
(changes no state) and the text of statuses. Branches the code cannot reach are
not modelled: the range sanitizing of `_requestFlushInternal` (a recorded range
is never empty or out of bounds) and the zero-delay branch of `tickPowerOn`.

### The contract

`OperationContract` has four variables: the operation as its owner sees it
(`job`), who may use the bus (`owner`), the modeled power (`power`) and whether
the display is lit (`glass`). An operation works, and then succeeds or fails
with an effect that is honest about its transactions; the power, unless UNKNOWN,
is the state of the glass; only an operation about power changes it, and one
that succeeds says what it is now. `SSD1315Contract` gives the mapping. Two
things are hidden: the effect while the operation runs, and the power from the
first to the last step of an initialization, where the driver still shows the
old value although the panel is already being reprogrammed; an owner can rely on
nothing there, so the mapping shows UNKNOWN.

### The other components

*Timing.* `now` is real time and never rolls over; the driver sees
`Sample(now)`, an unsigned word of `Modulus` values. `poll` is the poll that is
executing: each of its attempts takes any time up to the timeout that the driver
gave it (`Attempt`), computed from the sample that the poll began with. `wait`
is the blocking call that is executing (`waitFlush`, or an operation run by
`recover` or `start*Scroll`), one action per statement of its loop: the head
test, the poll, the judgement whether the loop made progress. `Elapse` lets time
pass between calls and in the yield hook. While a timer runs it must be looked
at once in half a rollover, 24.8 days, or signed differences mean nothing. The
flush phase of a cooperative operation goes through the same statements as a
legacy job (src/SSD1315.cpp:2102-2115), with the same timer: `Timing` has that
timer once, on the legacy job, and an operation in it carries only its deadline.
That the flush phase of an operation can time out at any poll, and what follows,
is `PollFlushPhaseTimeout` of `Operations`.

*Transfer.* A byte is the set of display pages drawn into it, so a byte that
arrives at the wrong page is told by what it holds. `regs` are the address
window and the pointers of the controller, which advance with every byte
that arrives and wrap inside the window; a failed transaction may have delivered
any prefix. Both a full framebuffer and a window that does not divide the
display are initial states.

*Raster and Drawing.* `Raster` translates the clip rectangle, Cohen-Sutherland
clipping with its limit on the number of clips (`MaxClips`) followed by
Bresenham's loop, the circle's octant, the text layout with its `int16_t` limit
and the buffer address. `Drawing` has one action per drawing call, which changes
`buffer` and `dirty` and records, in `call`, the pixels that the arguments mean,
computed by independent definitions (for lines, circles and discs the pixels
themselves, which `LineIsTheSegment` and `CirclesAreRound` then judge), and the
arguments that these properties need. `SentBit` finds a byte as the flush engine
does, not as the primitives do. The loops of lines, circles and texts are recursive
functions from the number of rounds to the state of the loop's variables
(`ClipLoop`, `LineLoop`, `CircleLoop`, `TextLoop`, `WidthLoop`), by `ClipStep`,
`LineStep` and so on. Clipping may take `MaxClips` rounds and the raster as many as the
line has columns and rows; a loop that is over stays where it is.

*Config and Attachment.* `Attachment` keeps the blocks on the heap, the object's
buffer and whether it is its own. An allocation may fail and may return any free
block; borrowed memory is the owner's, or lies in what `getBuffer()` returned.
`begin()` attaches first and then refuses or runs; `NeedsClock` and
`BlockingRefused` are its own guards. `ApplyPanelProfile` changes what the owner
is preparing.

*Settings.* `device` holds the registers, `config`, `allPixelsOn`,
`scrollActive` and `scrollRows` what the driver remembers, `asked` what the
owner was last told is in force. Initialization sends its 17 transactions one
per poll; a failed transaction of several commands may have taken effect up to
any prefix. Codes are encoded as the driver does and decoded as the controller
does.

*HealthCounters.* `seen` is a ghost that counts without limit.

*IdfTransport.* A call enters, waits for the mutex in whole ticks of the RTOS,
attempts the transfer with what is left of its timeout, and returns. `live` is
what the RTOS and the I2C driver have allocated, against the handles.

*WireTransport.* `initWire()` on two open-drain lines: wait for the clock, up
to nine pulses, a STOP condition, the check that both lines are high, all under
one deadline; the target may be found anywhere in a byte that it sends or
receives. `write` is the callback, which takes the lock of the Wire library,
queues the bytes and may have to end a transmission that was truncated.

External, modelled from how the code uses it: the controller, the RTOS and I2C
drivers, the Wire library and the target on the bus.

### Constants and their assumptions

`ConfigAssumption` (`SSD1315State`) states what `_validateConfig` and `attach`
guarantee: a positive number of pages and columns, a RAM window no taller than
the display, a positive offline threshold, and an init sequence whose step 0 is
DISPLAY_OFF and which contains SCROLL_DEACTIVATE later on (in the code 17
transactions, with SCROLL_DEACTIVATE in step 13; no property depends on the
length, and the driver's runs use 2). That the code does guarantee it is
`AdmittedIsUsable` of `Attachment`. The other modules name their assumptions
likewise: `ClockAssumption` (an even modulus, without which a signed difference
has no meaning), `TimingAssumption` (durations of at most half the modulus),
`BookkeepingAssumption` (the configurations that an owner passes have the types of
`struct Config`, in which a member of an enumeration may hold a value that is no
enumerator; the controller resets to some value of each register; those that the
settings are attached with are valid, since `Attachment` refuses the others),
`TransferAssumption` (positive sizes, a write that holds two bytes, and a width of
at most `MAX_WIDTH`, 128, so that no page is as wide as a clean range is off it:
the range 255..0), `RasterAssumption` (positive sizes, a window no taller than the
display, glyphs that fit their cells, and an `INT16_MAX`, 32767, beyond the display, a
cell and a text of `TEXT_MAX_CHARS`, 512, characters of 6 columns, as it is in the code),
`InputAssumption` (coordinates are integers, texts are sequences), `HealthAssumption` (the threshold fits
the counter: both are bytes in the code), `IdfAssumption`
and `WireAssumption` (positive times; no task or user is the value `NOBODY` that stands
for a free lock), the last two checked by `TransportsAssumption`.

## 3. Properties and runs

All runs explore every order of calls, bus outcomes and clock samples that their
constants allow. There are no state constraints: bounds are guards, named in the
constants of the module (`MaxCalls`, `MaxFaults`, `MaxTime`, ...).

| run | instance | checks |
|---|---|---|
| `full_frame` | 2 pages x 1 column, full framebuffer, delay, charge pump and flush timeout on, threshold 1 | power, control and GDDRAM claims, ownership, effects |
| `page_iteration` | 2 pages x 1 column, one-page window, no delay, no pump, no timeout, threshold 2 | types, windows shown, publication by any call, DEGRADED and OFFLINE |
| `progress` | 1 cell, delay on, flush timeout off | every polled job and operation ends; the driver implements its contract |
| `drawing` | 4 x 6 pixels, bytes of 2 bits: 3 pages behind a window of 2 | what is drawn, in every window, and what is marked dirty |
| `transfer` | 3 pages of 2 columns, buffers of 3 or 2 pages, chunks of 1 or 2 bytes, 2 changes, 1 failure | where bytes land, nothing forgotten, baselines complete |
| `timing` | 8 clock samples, from time 6 to 13, so that the clock rolls over | timers and blocking calls |
| `bookkeeping` | threshold 2 with a counter limit of 3; 4 bytes of owner memory and 8 of heap; settings in 5 calls with 1 failure | counters, binding, settings |
| `transports` | 2 tasks, timeouts of 1 to 3 ms, time in half milliseconds, a tick of 2 ms; a recovery under a deadline of 2 ms | results, resources, termination of the transports |
| `clear_dirty_certifies` | as `full_frame` | finding 1 (violation) |
| `timeout_without_callback` | 1 cell, timeout and delay on | finding 2 (violation) |
| `guard_without_clock` | no clock hook, 16 clock samples | finding 3 (violation) |
| `small_discs` | as `drawing` | finding 4 (violation) |

Properties, by the question they ask:

* *Is the claimed power the real one?* `PowerModel` (the two machines agree),
  `PowerDuringOperation` (what each phase relies on), `PowerTruth` (ON and OFF
  are what the glass shows), `ControlTruth` (the sleep and scroll flags are the
  controller's, unless marked in doubt), `DelayIsFull` (ON is not claimed before
  the delay is over).
* *Is the claimed baseline real?* `SyncSound`, `BaselineRebuildable`,
  `WindowsBehindShown`, `NoStaleWake` (the driver's own DISPLAY_ON never reveals
  an old frame), `NoDataWhileScrolling`; byte by byte `RightPage`,
  `CleanIsShown`, `BaselineIsWhole`.
* *Who owns the bus?* `JobOwnership`, `ResultKept`, `FlushNeverBlocked`.
* *Is what is reported true?* `EffectHonest`, `OutcomePublishedOnce`,
  `HealthMatchesCounter`, `StateIsEarned`, `SettingsAreTrue`, and of the
  transports `ResultsAreTrue`.
* *Does the driver keep what its header promises?* `ContractKept`.
* *Is the picture the one asked for?* `DrawsWhatWasAsked`, `ChangesAreDirty`,
  `LineIsTheSegment`, `CirclesAreRound`, `TextIsCoherent`, `BitmapReadInBounds`.
* *Is memory, and what works, safe?* `FramebufferIsSound`, `WhatWorksIsKept`,
  `BusIsGivenBack`.
* *Does it end, and not too early?* `FlushEnds`, `OperationEnds`, `WaitsEnd`,
  `CallsReturnInTime`, `AttemptsEndInTime`, `NothingEndsEarly`.

Every property has a mutant of a mapped definition (a dropped guard, a missing
reset, an off-by-one) that TLC finds to break it under the same configuration.

### Why the bounds are enough

*Driver.* Two pages are the least with a page before and a page after another,
so that a job goes on, fails half-way, or is raced before, on or after its page;
two windows are the least with a window behind and a last one. Partial ranges,
chunks that end inside a page and draws between two chunks need two columns, with
which the driver has too many states to check: `transfer` has them, byte by byte,
and the proofs hold for every width. So a draw between two chunks of one page
(the race of `_dirtyGeneration`) does not occur in the runs of the driver:
`CleanIsShown` of `transfer` and the theorem `CleanBytesAreShown` are about it.
A third page adds a job whose range does not reach the last page while the whole
frame becomes dirty behind it; that, and every larger panel, is what the proofs of
the baseline cover (section 5). The init sequence needs a
first step, a SCROLL_DEACTIVATE and a last step, which two steps give. Timers
are nondeterministic, so no time bound is needed. The options that are off in
one run are on in another. The contract speaks of no cell, so one is enough.

*Drawing.* 4 x 6 pixels have a window that is full, one that is half empty,
pages of more than one row, and rectangles, lines and circles that touch none,
one or all sides. Coordinates lie on both sides of every border, endpoints up to
three pixels away in every direction, circles are larger than the display. One
call per behaviour is enough because no call reads the buffer, and the dirty
record only to extend it; so both the buffer (blank or filled) and the record
(clean, or the first column dirty) vary in the initial states instead.

*Transfer.* Two columns and chunks of one or two bytes cut a page everywhere;
three pages in windows of two leave half of the last window unused; two changes
are a draw before and a draw during a transfer, or two that race; a second
failure meets the state that the first one left, ERROR.

*Timing.* With eight samples, half a rollover is four steps and every duration
of the instance fits it; from 6 to 13 the clock rolls over once, before, inside
or after every timer. Only differences of samples matter.

*Bookkeeping.* Limits of 3 and 5 are passed by 8 outcomes. Five bytes of owner
memory followed by eight of heap let a borrowed buffer lie inside, outside,
across the end of, or inside an old block. Every field of a configuration is
tried off its range and the fields with arithmetic next to their limits. The
subjects share no state, so that a product of the three would add no behaviour.

*Transports.* Two tasks are a holder and a waiter. Half milliseconds and a tick
of 2 ms are the least in which a wait, a millisecond and a tick end apart. The
target is found in any of its states. No result of the ESP-IDF backend is a NACK,
because `mapEspError` reports every failure that it cannot tell apart as a bus
error; the clause of `ResultsAreTrue` on a NACK is exercised by the Wire backend
only.

### Fairness

*Driver.* `LiveSpec` assumes that the owner keeps polling with an advancing
clock: weak fairness of the legacy polls and of the operation's polls in which a
display-on guard or delay that runs is found elapsed. That is the loop the
driver is written for (README.md:125 calls `tick(millis())` in it;
include/ssd1315/SSD1315.h:345 has the owner "keep polling until it completes or
cancel explicitly"), and a clock that advances passes any fixed delay. Nothing
is assumed of the bus, of the deadlines or of any other call; the run has no
flush timeout, so jobs end because they are served and not because they are
killed. The owner may draw, clear, cancel, start again and detach for ever in
between. The properties are of the form `[]<>~...`: a job or operation does not
run for ever, although a new one may follow it. Their limit: one column and one
page, so an endless sequence of races on a larger panel is covered only by the
page order of a job, which never goes back.

*Timing.* Weak fairness of `WaitStep` (a blocking call that executes goes on)
and of `Attempts` (the transport's callbacks return). The clock is **not**
assumed to advance: that is what the stall guard is for.

*Transports.* On ESP-IDF, strong fairness of `Tick` (time goes on however busy
the tasks are: the scheduler does not run forever inside zero time) and weak
fairness of each task's `Progress` (a task that the RTOS woke runs; the mutex
goes to somebody). With Wire, weak fairness of the recovery's own steps, whatever the
lines do, and of each user's `Progress` once it has begun. Nothing is assumed of a
stretched line or a target.

## 4. Findings

1. **`clearDirty()` under a full rewrite certifies discarded data**
   (`clear_dirty_certifies`). A rewrite counts bytes sent; when it has sent all of
   them it sets `_gddramSynchronized`. A page drawn after it was sent and then
   force-cleared is no longer dirty, so the snapshot calls GDDRAM synchronized
   and a wake is admitted, although the panel shows the old page. `SyncSound`
   and `NoStaleWake` are therefore stated up to the cells the owner force-cleared
   under a running job (`discarded`).
2. **A legacy flush timeout without a transaction changes health**
   (`timeout_without_callback`). `_failFlush` publishes a failure also when the
   job only waited for the display-on guard, while the README says that zero-I2C
   deadlines leave health alone. Cooperative operations do so.
3. **Without a clock hook, a scroll ends the display-on guard**
   (`guard_without_clock`). `setSleep(false)` starts the guard and `tick()`
   latches it with the owner's sample. `startHorizontalScroll()` needs no
   `Config::nowMs` and then polls with the sample 0, so that the guard sees an
   unsigned difference of almost 2^32 and ends at once: the panel counts as ON
   before its delay is over. With the hook set, `DelayIsFull` holds (`timing`).
4. **Discs of radius 1, 2 and 3 lack their leftmost pixel** (`small_discs`). In the
   row of the centre `fillCircle()` skips the mirrored spans, because "at y == 0 the
   mirrored spans repeat the same two columns" (src/SSD1315.cpp:3193). The one through
   the centre does; the other is the pixel at `cx - r`, which is drawn only if the next
   row is as wide as the first, from radius 4 on. `drawCircle()` of the same radius
   draws it. `CirclesAreRound` excepts exactly that pixel (`LeftOut`).

Observed while modelling, with no document that says otherwise:

* After the last `nextPage()` the window index is 0 while the buffer still holds
  the last window. An owner that draws and flushes there, without a
  `firstPage()`, sends that content to window 0. `Transfer` lets the owner of a
  page-mode driver draw inside iterations only, and `RightPage` says so.
* `drawCircle()` is not the textbook midpoint circle: some pixels lie up to one
  and a half pixels inside. `CirclesAreRound` states the bounds it does keep.
* `setVerticalScrollArea()` is admitted under a running vertical scroll and may
  leave its offset outside the new area. `SettingsAreTrue` therefore speaks of
  the offset when the scroll starts.

## 5. Proofs

All theorems are proved by TLAPS for every value of the constants that the named
assumptions admit: any geometry, any threshold, any option, any number of pages,
columns and init steps; any width of the counters.

| theorem | property | how |
|---|---|---|
| `TypeCorrect` | `TypeOK` | directly inductive: one lemma per group of calls, under it one step per action; the window index needs that a window that is not the last has a successor (`NextWindowExists`) |
| `ResultIsKept` | `ResultKept` | no invariant needed: every admission excludes an unconsumed result, and polls are of active operations |
| `PowerIsModelled`, `OperationKnowsThePower` | `PowerModel`, `PowerDuringOperation` | `PowerInv`, below |
| `OneOwner`, `JobsAreNeverBlocked` | `JobOwnership`, `FlushNeverBlocked` | `JobInv`, below |
| `PowerIsTrue`, `EffectIsHonest` | `PowerTruth`, `EffectHonest` | `TruthInv`, below |
| `ControlIsTrue`, `NoDataIsRotated` | `ControlTruth`, `NoDataWhileScrolling` | `ControlInv`, below |
| `BaselineIsSound`, `BaselineCanBeRebuilt`, `WindowsAreShown` | `SyncSound`, `BaselineRebuildable`, `WindowsBehindShown` | `FrameInv`, below |
| `NothingOldIsRevealed` | `NoStaleWake` | `FrameInv`, and that an operation about to send DISPLAY_ON knows its panel |
| `DriverKeepsContract` | `ContractKept` | step simulation under `TruthInv`, below |
| `OutcomesArePublishedOnce`, `HealthIsClassified` | `OutcomePublishedOnce`, `HealthMatchesCounter` | `HealthInv`, below |
| `StateAlwaysEarned`, `CountersAreExact` | `StateIsEarned`; `TypeOK` and `TotalsAreExact` of `HealthCounters` | the counters follow the exact numbers up to their limits |
| `FramebufferStaysSound` | `FramebufferIsSound` | `BindingInv`, below |
| `WorkingIsKept` | `WhatWorksIsKept` | an action property; from `BindingInv` and that a `begin()` whose tests pass runs |
| `SettingsStayTrue` | `SettingsAreTrue` | `SettingsInv`, below |
| `DelaysAreFull` | `DelayIsFull`, if `GuardIsTimed` | of which moment each kept sample is, and how far from now that moment is; below |
| `AttemptsEndOnTime` | `AttemptsEndInTime`, if `ShortCalls` | the same, and that a wait and a flush were within their bounds at the last sample |
| `NothingGivesUpEarly` | `NothingEndsEarly` | the same; an action property |
| `BytesLandRight`, `CleanBytesAreShown`, `BaselinesAreWhole` | `RightPage`, `CleanIsShown`, `BaselineIsWhole` | `TransferInv`, below |
| `TransportsTellTheTruth`, `TransportsGiveBack` | `ResultsAreTrue`, `BusIsGivenBack` | `TransportsInv`, below |
| `CallsDrawWhatTheyMean`, `CallsMarkWhatTheyChange` | `DrawsWhatWasAsked`, `ChangesAreDirty` | action properties; one lemma per drawing call, below |
| `LinesAreTheirSegments` | `LineIsTheSegment` | by induction over the clips and over the raster's rounds, below |
| `CirclesStayRound`, `TextsFitTogether`, `BitmapsAreReadInBounds` | `CirclesAreRound`, `TextIsCoherent`, `BitmapReadInBounds` | by induction over the rounds of the code's loops, below |

*`PowerInv`.* `PowerModel` alone is not inductive: a panel may be STARTING
because an operation waits out its delay, and when that operation ends the model
must not keep STARTING. So the invariant also says which phases mean which power
(`PowerDuring`): DISPLAY_ON is sent to a panel that is off, the delay belongs to
a WAKE or RESYNC that has used the bus - so that terminating it invalidates the
power - and no phase outlives its operation; and which kinds go through which
phase (`PhaseOfKind`). The two properties are proved together because each
needs the other: the phases give the power when a command succeeds, and the
power being off keeps the guard's tick from changing it in between.

*`JobInv`.* A job is admitted on an initialized panel whose control state is
known, and no call that could change this is admitted while it runs; with
`PowerInv` that leaves ON and OFF, which take data, and STARTING, in which the
guard runs. For a job of an operation, the operation's admission (or the end of
its init sequence) leaves only ON and OFF.

*`TruthInv`* is `JobInv` with two more parts. `EffectSafe`: while an operation
runs it has touched the controller exactly when it counts a transaction, and the
phases that only a success leads to are entered after one; without the second
fact a failure in such a phase might report NONE. `LitSafe`: the power that is
shown agrees with the glass; from the first to the last step of an
initialization the old value is still stored, so that the fact is about the power
shown (`ShownPower`) and not about the one stored.

*`ControlInv`* is `TruthInv`, with the flags tied to the controller (`TracksSafe`)
whenever the control state is known and no initialization has begun; a begun one
changes the controller command by command and the flags only at its end, so that
until then its step counter says whether the scroll has been stopped. With that,
a job never runs while GDDRAM rotates: it is admitted on a panel whose scroll
flag is off, and no command is admitted beside it.

*`FrameInv`* says what the driver's records have to do with the cells of GDDRAM
that do not show the drawn frame (`device.stale`). It is the invariant that
`SyncSound` and the others need to become inductive:

* `BaselineSafe`: under a claimed baseline every cell is `Covered`: it shows the
  drawn frame, is recorded dirty, or is the owner's (`discarded`). This has to hold
  also while a scroll is known to rotate the cells, since stopping that scroll is
  what marks them (`RotationSafe`);
* `SentSafe`, `PageSafe`: what a job has sent is covered and lies before what it
  has yet to send; on the page it is sending only the rest can be old, unless a
  mutator raced with it. That is why the page's record may be reset when the job
  leaves it (`AfterPage`), and why a job that sent every cell may claim a baseline;
* `RewriteSafe`: without a baseline the whole frame is recorded, and a job that is
  under way has sent what no longer is and goes on to the last page; so a job that
  ends either claims the baseline or has its record restored
  (`AbandonedRewrite`);
* `IterationSafe`: no cell of the windows behind an iteration is old, and what is
  old in its own window is recorded; an iteration and a scroll operation exclude
  each other, and a scroll that still runs when it starts finds its first window
  unsent.

The proof of each step first shows what the step leaves of these claims: steps that
leave GDDRAM alone (`QuietFrame`), that end a job (`AbandonedFrame`), send a chunk
(`PartialFrame`, `FinishedFrame`), draw (`DrawnFrame`), drop every claim
(`DoubtfulFrame`, `UnclaimedFrame`) or mark the whole frame (`MarkedFrame`).

*`DriverKeepsContract`.* From `TruthInv` before and after a step, each action of
the driver is shown to be one of the contract's, or to change none of its four
variables. The lemmas follow the contract's actions: how an admission, a step of
work, each way to end, a flush and a direct command look through the mapping.

*`HealthInv`* says where an outcome may be owed. During an operation, only by a
resync whose frame is sent and whose DISPLAY_ON or delay is not over: its own end
publishes one outcome for both. Between operations, only by the window of an
iteration that is not over: every call that could bury it publishes it first.
`pending` counts exactly what is owed between operations. `HealthSafe` adds that
an uninitialized driver is UNINIT.

*`Bookkeeping_proofs`* has one invariant for each of the three parts. Each counter is the least of the exact number and its
limit, and a verdict exists only on an initialized driver. `StateIsEarned` needs
that the threshold is within the run counter's limit, so that saturation does
not stop short of OFFLINE.

`BindingInv` adds types to `FramebufferIsSound`, and that an object without a binding
owns no memory. The proof is about arithmetic: `OverlapIsExact` (the test of
`byteRangesOverlap` says exactly whether two ranges share a byte), `AcceptedIsSound`
(an external buffer that passes that test outlives the block which the same call
frees), `RequiredIsPositive` (no admissible configuration needs an empty buffer), and
`StoredIsUsable`. For `WorkingIsKept`, `AcceptedBeginRuns` says that `begin()` tests before
`attach()` whatever its blocking operation could be refused for, so that the old panel
is not lost for nothing; `ProfileIsValid` goes through the presets field by field.

`SettingsInv` has to speak of the registers while an operation is between two
transactions, where `SettingsAreTrue` is silent:

* `Told`: what the owner was told of each register is what the driver remembers; for the
  effects, which have no field in the configuration, once it is initialized;
* `Held`: without doubt the controller holds what was told, also half-way through a
  scroll operation, and in an initialization until its first transaction;
* `Programming`: an initialization has programmed the registers of the steps behind it,
  and nothing else is admitted that could change them. `StepOf` names the step of each
  register; `InitStepPrograms` goes through the 17 transactions and shows that the
  codes decode to what the configuration says (`DecodedFields`), so that
  `ReplayedIsProgrammed` can close the sequence: what it has sent is what is told.

A failed transaction may have changed the registers up to any of its commands; the
invariant survives because each failure leaves doubt, except for an address that was
not acknowledged in a raw command, after which nothing has arrived (`ExecutedNothing`).
An offset is tested against the area that the driver remembers; that
`ScrollStartsInArea` holds of the controller's area is `Held` at the admission, and
`AreaStays` during the scroll.

*`Timing_proofs`.* The driver compares words of a clock that wraps; the theorems
speak of real time. The bridge is a handful of lemmas about `%` that hold for any
even modulus: an unsigned difference is at most the time that passed, and exactly
that within one turn (`ElapsedIsAtMost`, `ElapsedIsExact`); a signed comparison is
right up to half a turn on either side (`DeadlineNotEarly`, `DeadlineNotLate`). Each
invariant then says of which moment a kept sample is: `WaitSamples` for blocking
calls, `GuardInv` for the delay after DISPLAY_ON, in the guard and in the phase of an
operation, `FlushSamples` for the timeout of a flush, `DeadlineInv` for the deadline
of an operation; `InTimeInv` adds how far from the last sample the time may be.
Two hypotheses are needed, each named and each the reason of something in the
README already:

* `GuardIsTimed`: there is a clock hook, or no delay. The excluded case is finding 3,
  where `DelayIsFull` is false.
* `ShortCalls`: the clock does not wrap within the horizon, or the attempts of one
  poll and the budgets of the waits fit in half a turn (24.8 days). The model lets half
  a turn pass between two looks at a timer; a wait whose budget is longer than
  that could wrap past its end unnoticed.

`NothingGivesUpEarly` needs neither: a timer that ends has run, whatever the durations.

*`TransferInv`.* `CleanIsShown` and `BaselineIsWhole` speak of bytes at rest; they
become inductive with what a job is in the middle of. `JobSafe`: the job sends a part
of what is recorded of its page, all of it unless a draw raced, and from SET_PAGE on
the controller's window is the job's and its column pointer the job's column. `SentSafe`:
what was sent of the page is there. `RewriteSafe` is the counting argument of the
driver made exact: a job can send at most every byte of the pages before its own, so
one that has sent as many bytes as those pages have has written each of them, and a
byte that differs now was drawn since and is recorded. That is why a count of bytes may
certify a baseline. `IterationSafe` is its counterpart for page-buffer iteration, window by
window; `WindowSafe` and `RamSafe` tie pages to the window of a small buffer, which is
what `RightPage` needs. The next dirty page and the hull of a changed page are least
elements of sets of naturals, which exist because `<` is well-founded.

*`TransportsInv`* is a conjunction for the two platforms, of which a program has one.
`IdfInv`: the handles are what is allocated, the mutex's holder is the task that is
sending, and the outcome of a call says what its attempt did; a wait in ticks that ends
never outlasts the timeout by more than the rounding that the code accounts for.
`WireInv`: `LinesOfStatement` says which line each statement of the recovery holds;
`TargetFollows` computes where the target is in its byte from where it was found and the
falling clocks since, so that after nine pulses and the STOP condition a target that
could let go has (`TargetIsFree`); a lock is held exactly inside a write.

*`Drawing_proofs`.* The invariant of the state is small (`Placed`: a window of the
display, recorded ranges of its columns; `CallInv`: what is claimed of the last call);
the work is in the operators.

* *Where a pixel is.* `AddressIsSent`: the byte and the bit that the primitives compute
  from the row in the window are those that the flush engine finds from the page
  (`RowPlace`, `RowInWindow`: quotients and remainders of rows, pages and windows);
  `BitsDiffer`: no two pixels of a window share a bit; `SentIsInBuffer`.
  So painting pixels lights exactly them (`PaintIsSound`), and `MarksCover` says that
  marking rectangles records them and forgets nothing. Each call is then an instance:
  `ClipKeepsPixels` for whatever is a rectangle, `EdgesAreBorder` for outlines,
  `OutlineIsAsked` for the bounding box test of circles, `RunIsLayout` for texts.
* *Loops.* A recursive function is a definition by `CHOOSE`: `LoopRuns` shows that the
  states of a loop exist, and `EveryRound` that what holds of the first round, and of
  the next if of one, holds of all, because a set of rounds without it would have a least
  member (`<` is well-founded on the naturals). The induction theorems of the library,
  which take an operator as a parameter, are not needed for that.
* *Lines.* Everything is counted along the line: `Columns` and `Rows` from the first
  endpoint in the direction of the second, which is at `<<w, h>>`, so that the eight
  directions are one (`Frame`, `CodesAlong`). A point `<<u, v>>` is off the line by
  `w * v - h * u`, as many parts of the longer of w and h.
  - *Clipping bends nothing.* Each crossing is computed from the original endpoints, so
    that a clipped end is `Rounded`: at most half a pixel off. Bresenham's error term is
    the exact lag of the row behind the column (`OnRaster`), so that each pixel is at
    most half a pixel off the clipped line (`Balanced`); `RasterReachesEnd` is the loop
    invariant, and also says that each column and row on the way is visited.
    Together the two halves could make a whole pixel. They do not: the first end
    is rounded up by exactly a half only on the border that the line enters the display
    by (`Settled`); the other end is ahead of it, and a raster that goes the way of the line
    takes its ties to the other side (`RasterIsNear`). That is why `FollowsSegment` says *less
    than* a pixel (`LineFollows`).
  - *Clipping loses nothing.* For any point of the segment on the display, the first end
    stays behind it and the second one ahead of it (`Behind`, `Encloses`); so no clip sees
    both ends beyond one border, and each clip settles one of the four borders for good
    (`Todo`): the clip that the loop counts is one that was still to do, four suffice
    (`ClippedEncloses`), and the pixels of the column or row of the point between the ends
    are drawn (`LineCovers`). A comment in `drawLine()` leaves open whether the loop's limit
    could be met by rounding; for a line that has a point on the display it cannot.
* *Circles.* `OnCircle` is the loop's invariant: `Near` keeps x^2 + y^2 - r^2 between
  3 - 3r and r, and the error term is what is left of it. `StepStaysOnCircle` is the
  algebra of one round. A disc is the chords of the arms (`DiscIsChords`), and
  `MirroredSpansRepeat`, `LeftmostIsDrawn` and `LeftmostIsLost` say which pixel the row of
  the centre loses, and from which radius on none (finding 4).
* *Texts.* The cursor after i characters is the layout's column and line of the next
  (`RunIsLayout`); the width is that of the widest run, and no cell reaches beyond it;
  a text cut in two continues at the cursor that the first part returned, also where
  that is saturated, since nothing is visible from there on.
* *Bitmaps.* A pixel of the clipped area lies in a row below the height and a byte
  below the padded width, so its byte is below their product.

Only model-checked is liveness (`FlushEnds`, `OperationEnds`, `WaitsEnd`, and the
termination part of `CallsReturnInTime`), which needs fairness and ENABLED, out of the
prover's reach here. Every invariant and every other action property of the passing
runs is a theorem.

## 6. Not modelled, and why

* The command lines of the examples (`examples/01_basic_bringup_cli`,
  `examples/espidf_basic`) parse lines, print, and call the operations that are
  modelled; the interactions they can cause are a subset of those of an
  arbitrary owner. `HealthDiag.h` prints snapshots, `BoardConfig.h` is constants.
* The host tools, tests and release scripts are outside the driver.
* `CommandTable.h` and the status texts are constants without state.
* Inside modelled components: which of several failing checks gives the status
  code, request identities, timestamps of the last outcomes, texts, and the
  shapes of the glyphs other than where they are put (one sample glyph).
* An owner's loop that recovers from failures until the panel is lit: the driver
  promises no retry, so its liveness would be a property of the example.

## 7. Running

    tlc -workers 2 -config MCDriverFull.cfg MCDriver.tla
    tlc -workers 2 -config MCTransports.cfg MCTransports.tla
    tlapm SSD1315Driver_proofs.tla

`full_frame`, `progress` and `transports` take one to two minutes on two workers,
the others less than a minute. `SSD1315Frame_proofs` and `SSD1315Contract_proofs`
build on `SSD1315Driver_proofs`; the other proof modules are independent. Together they
take some half an hour.
