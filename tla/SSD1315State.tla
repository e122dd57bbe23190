---------------------------- MODULE SSD1315State ----------------------------
(***************************************************************************)
(* The state of one SSD1315 driver object (class SSD1315,                  *)
(* include/ssd1315/SSD1315.h) and the helpers its handlers share.          *)
(*                                                                         *)
(* The driver is single threaded: one call runs to completion before the   *)
(* next one starts, so one public call, or one bus transaction of a call   *)
(* that makes several, is one action.  What interleaves is the owner's     *)
(* calls (any legal order), the outcome of every bus transaction, and the  *)
(* clock samples the owner passes in.                                      *)
(***************************************************************************)
EXTENDS Integers

CONSTANTS
  TotalPages,        \* GDDRAM pages, Config::height / 8
  Width,             \* columns of a page, Config::width
  PagesPerBuffer,    \* Config::pageBufferPages: pages held in RAM at a time
  InitSteps,         \* INIT_STEP_COUNT: transactions of the init sequence
  ScrollOffStep,     \* the init step that carries SCROLL_DEACTIVATE
  OfflineThreshold,  \* Config::offlineThreshold
  HasDisplayOnDelay, \* Config::displayOnDelayMs # 0
  HasChargePump,     \* Config::chargePumpVoltage # OFF
  HasFlushTimeout    \* Config::flushTimeoutMs # 0

\* _validateConfig() admits only such geometries; attach() raises a zero
\* offline threshold to one; step 0 of the sequence is DISPLAY_OFF.
ASSUME ConfigAssumption ==
  /\ TotalPages \in Nat \ {0}
  /\ Width \in Nat \ {0}
  /\ PagesPerBuffer \in 1..TotalPages
  /\ InitSteps \in Nat
  /\ ScrollOffStep \in 1..(InitSteps - 1)
  /\ OfflineThreshold \in Nat \ {0}
  /\ HasDisplayOnDelay \in BOOLEAN
  /\ HasChargePump \in BOOLEAN
  /\ HasFlushTimeout \in BOOLEAN

VARIABLES
  panel,    \* lifecycle flags and the modeled panel power
  frame,    \* dirty tracking, synchronization claim, page-buffer window
  flush,    \* the flush engine's job
  op,       \* the one cooperative operation and its unconsumed result
  health,   \* DriverState and the consecutive-failure counter
  device,   \* what the controller really does; the driver cannot read it
  pending   \* flush outcomes reached and not yet published to health

vars == <<panel, frame, flush, op, health, device, pending>>

-----------------------------------------------------------------------------
\* Geometry

Pages == 0..(TotalPages - 1)
Cols == 0..(Width - 1)
Cells == Pages \X Cols
PageMode == PagesPerBuffer < TotalPages
Windows == 0..(TotalPages - 1)

\* The pages the RAM buffer covers while window w is selected.
WindowPages(w) ==
  IF PageMode
  THEN {p \in Pages : w * PagesPerBuffer <= p /\ p < (w + 1) * PagesPerBuffer}
  ELSE Pages

-----------------------------------------------------------------------------
\* Types

Powers == {"UNKNOWN", "OFF", "STARTING", "ON"}
Guards == {"OFF", "INIT_DELAY", "READY"}
FlushPhases == {"SET_COL", "SET_PAGE", "SEND_DATA"}
FlushStates == FlushPhases \cup {"IDLE", "DONE", "ERROR"}
Kinds == {"INITIALIZE", "FLUSH", "SLEEP", "WAKE", "RESYNC", "SHUTDOWN", "SCROLL"}
ControlPhases == {"INITIALIZE_COMMAND", "DISPLAY_OFF", "DISPLAY_ON",
                  "DISPLAY_ON_DELAY", "CHARGE_PUMP_OFF", "SCROLL_DEACTIVATE",
                  "SCROLL_CONFIGURE", "SCROLL_ACTIVATE"}
Terminal == {"SUCCEEDED", "FAILED", "CANCELLED", "TIMED_OUT"}
Effects == {"NONE", "CONFIRMED", "PARTIAL", "INDETERMINATE"}

\* _transactionCount is only compared with 0 and 1: counted up to TxCap.
TxCap == 2

PanelType ==
  [attached : BOOLEAN, initialized : BOOLEAN, sleeping : BOOLEAN,
   scrolling : BOOLEAN, power : Powers, guard : Guards, latched : BOOLEAN,
   controlDirty : BOOLEAN]

FrameType ==
  [dirty : [Pages -> SUBSET Cols], synced : BOOLEAN, iterating : BOOLEAN,
   window : Windows]

\* left: columns of the current page still to send; raced: the page was marked
\* dirty after the job latched its generation; sent: cells transferred by the
\* job; tx: the job attempted a transaction (_flushTransactionCount # 0).
FlushType ==
  [state : FlushStates, page : Pages, last : Pages, left : SUBSET Cols,
   raced : BOOLEAN, sent : SUBSET Cells, started : BOOLEAN, tx : BOOLEAN,
   accounted : BOOLEAN, failed : BOOLEAN]

\* flushPhase stands for the three flush phases of OperationPhase, which
\* _syncOperationFromFlush() copies from the flush job; touched is a ghost: a
\* transaction of this operation changed the controller.
OpType ==
  [kind : Kinds \cup {"NO_OP"}, state : {"IDLE", "ACTIVE"} \cup Terminal,
   phase : ControlPhases \cup {"IDLE", "FLUSH_PHASE", "COMPLETE"},
   effect : Effects, tx : 0..TxCap, deadline : BOOLEAN, step : 0..(InitSteps - 1),
   latched : BOOLEAN, touched : BOOLEAN]

HealthType ==
  [state : {"UNINIT", "READY", "DEGRADED", "OFFLINE"},
   fails : 0..OfflineThreshold]

\* lit: the display is on; rotating: hardware scroll runs; stale: cells whose
\* GDDRAM byte may differ from the frame the application drew; discarded:
\* stale cells whose dirty record the owner force-cleared under a running job;
\* forgot: the owner force-cleared dirty data and has not redrawn the whole
\* frame since, with no job under way.
DeviceType ==
  [lit : BOOLEAN, rotating : BOOLEAN, stale : SUBSET Cells,
   discarded : SUBSET Cells, forgot : BOOLEAN]

-----------------------------------------------------------------------------
\* Bus transactions.  OK and NACK (address NACK, nothing received) are certain;
\* data NACK, timeout and bus error are not: the controller may have LOST or
\* APPLIED the bytes.

Outcomes == {"OK", "NACK", "LOST", "APPLIED"}
TookEffect(o) == o \in {"OK", "APPLIED"}
Ambiguous(o) == o \in {"LOST", "APPLIED"}

\* Wrong: an address NACK is reported as ambiguous only with a prefix.
EffectForFailureMutant(o, hasConfirmedPrefix) ==
  IF o = "NACK" \/ ~hasConfirmedPrefix THEN "NONE" ELSE "INDETERMINATE"

\* What a failed transaction proves about the whole operation.
EffectForFailure(o, hasConfirmedPrefix) ==
  IF Ambiguous(o) THEN "INDETERMINATE"
  ELSE IF hasConfirmedPrefix THEN "PARTIAL" ELSE "NONE"

-----------------------------------------------------------------------------
\* Ownership

OperationActive == op.state = "ACTIVE"
OperationResultReady == op.state \in Terminal
IsFlushing == flush.state \in FlushPhases

\* _checkDirectI2cAdmission(), and the same test in attach() and firstPage().
DirectI2cAdmitted == ~OperationActive /\ ~OperationResultReady /\ ~IsFlushing

NoOperation ==
  [kind |-> "NO_OP", state |-> "IDLE", phase |-> "IDLE", effect |-> "NONE",
   tx |-> 0, deadline |-> FALSE, step |-> 0, latched |-> FALSE,
   touched |-> FALSE]

\* Fields of a job that are only read while it runs are cleared when it ends.
IdleFlush ==
  [state |-> "IDLE", page |-> 0, last |-> 0, left |-> {}, raced |-> FALSE,
   sent |-> {}, started |-> FALSE, tx |-> FALSE, accounted |-> FALSE,
   failed |-> FALSE]

-----------------------------------------------------------------------------
\* Panel power

InvalidatePower(p) ==
  [p EXCEPT !.power = "UNKNOWN", !.guard = "OFF", !.latched = FALSE]

\* isControlStateUncertainError() holds of every transport failure.
MarkControlDirty(p) == [p EXCEPT !.controlDirty = TRUE]

DisplayIsOff(p) == [p EXCEPT !.power = "OFF", !.guard = "OFF", !.sleeping = TRUE]

\* tickPowerOn(): the first sample starts the display-on guard, a later one
\* that finds it elapsed ("guard" \in late) ends it.  INIT_DELAY is only
\* entered with a nonzero delay.
TickPowerOn(p, late) ==
  CASE p.guard # "INIT_DELAY" -> p
    [] p.guard = "INIT_DELAY" /\ ~p.latched -> [p EXCEPT !.latched = TRUE]
    [] p.guard = "INIT_DELAY" /\ p.latched /\ "guard" \in late ->
         [p EXCEPT !.guard = "READY", !.latched = FALSE,
                   !.power = IF p.sleeping THEN @ ELSE "ON"]
    [] OTHER -> p

-----------------------------------------------------------------------------
\* Health.  _updateHealth() never runs while an operation is active, and the
\* counter is only compared with the threshold: it is counted up to it.

\* Wrong: the state is derived from the previous one, not from the counter.
HealthAfterMutant(h, ok, initialized) ==
  LET n == IF ok THEN 0
           ELSE IF h.fails < OfflineThreshold THEN h.fails + 1 ELSE h.fails
  IN  [fails |-> n,
       state |-> IF ok THEN "READY"
                 ELSE IF h.state = "READY" THEN "DEGRADED"
                 ELSE IF n = OfflineThreshold THEN "OFFLINE" ELSE h.state]

HealthAfter(h, ok, initialized) ==
  LET n == IF ok THEN 0
           ELSE IF h.fails < OfflineThreshold THEN h.fails + 1 ELSE h.fails
  IN  [fails |-> n,
       state |-> IF ~initialized THEN h.state
                 ELSE IF ok THEN "READY"
                 ELSE IF n >= OfflineThreshold THEN "OFFLINE" ELSE "DEGRADED"]

\* A flush outcome that nobody has published yet.
OutcomeUnpublished(f) == f.state \in {"DONE", "ERROR"} /\ ~f.accounted

HealthWithOutcome(f) ==
  IF OutcomeUnpublished(f) /\ ~OperationActive
  THEN HealthAfter(health, f.state = "DONE", panel.initialized) ELSE health

PendingWithOutcome(f) ==
  IF OutcomeUnpublished(f) /\ ~OperationActive THEN pending - 1 ELSE pending

-----------------------------------------------------------------------------
\* Dirty tracking

\* A page keeps one column range: the hull of everything marked on it.
Hull(S) == {c \in Cols : \E a, b \in S : a <= c /\ c <= b}

MarkDirty(d, p, S) == [d EXCEPT ![p] = Hull(@ \cup S)]

\* markAllDirty(): every page of the selected window, every column.
MarkAllDirty(d, w) == [p \in Pages |-> IF p \in WindowPages(w) THEN Cols ELSE d[p]]

NothingDirty == [p \in Pages |-> {}]
DirtyPages(d) == {p \in Pages : d[p] # {}}
DirtyCells(d) == {c \in Cells : c[2] \in d[c[1]]}
IsDirty == DirtyPages(frame.dirty) # {}

\* Every mark bumps the page's generation: the running job sees it as a race.
RacedBy(marked) ==
  IF IsFlushing /\ flush.page \in marked THEN [flush EXCEPT !.raced = TRUE] ELSE flush

\* A rewrite from scratch: nothing in GDDRAM is known to show the new frame.
AllStale == [device EXCEPT !.stale = Cells, !.discarded = {}, !.forgot = FALSE]
=============================================================================
