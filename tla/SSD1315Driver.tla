---------------------------- MODULE SSD1315Driver ----------------------------
(***************************************************************************)
(* The driver: its lifecycle (attach, detach), the next-state relation     *)
(* over all calls its owner may make, and what makes it correct.           *)
(***************************************************************************)
EXTENDS PanelControl

DetachedPanel ==
  [attached |-> FALSE, initialized |-> FALSE, sleeping |-> TRUE, scrolling |-> FALSE,
   power |-> "UNKNOWN", guard |-> "OFF", latched |-> FALSE, controlDirty |-> FALSE]

DetachedFrame ==
  [dirty |-> NothingDirty, synced |-> FALSE, iterating |-> FALSE, window |-> 0]

NewHealth == [state |-> "UNINIT", fails |-> 0]

\* A panel the driver never spoke to may be in any state.
Init ==
  /\ panel = DetachedPanel
  /\ frame = DetachedFrame
  /\ flush = IdleFlush
  /\ op = NoOperation
  /\ health = NewHealth
  /\ device \in [lit : BOOLEAN, rotating : BOOLEAN, stale : {Cells}, discarded : {{}},
                 forgot : {FALSE}]
  /\ pending = 0

\* attach(): a new binding; what an iteration had not published is dropped with
\* the counters of the old one.
Attach ==
  /\ DirectI2cAdmitted
  /\ panel' = [DetachedPanel EXCEPT !.attached = TRUE]
  /\ frame' = [DetachedFrame EXCEPT !.dirty = MarkAllDirty(NothingDirty, 0)]
  /\ flush' = IdleFlush
  /\ health' = NewHealth
  /\ device' = AllStale
  /\ pending' = 0
  /\ UNCHANGED op

\* detach(), end(): at any time, without a bus transaction.
Detach ==
  /\ panel' = DetachedPanel
  /\ frame' = DetachedFrame
  /\ flush' = IdleFlush
  /\ op' = NoOperation
  /\ health' = NewHealth
  /\ device' = AllStale
  /\ pending' = 0

-----------------------------------------------------------------------------
\* The timers a clock sample can find elapsed.
Timers ==
  (IF panel.guard = "INIT_DELAY" \/ op.phase = "DISPLAY_ON_DELAY" THEN {"guard"} ELSE {})
    \cup (IF IsFlushing THEN {"flush"} ELSE {})
    \cup (IF op.deadline THEN {"deadline"} ELSE {})

Lifecycle == Attach \/ Detach

PollOperation(late) ==
  \/ PollDeadline(late)
  \/ PollFlushPhaseTimeout(late)
  \/ PollEmptyFlush(late)
  \/ PollDisplayOnRejected(late)
  \/ PollDelayStarts(late)
  \/ PollDelayEnds(late)
  \/ \E o \in Outcomes :
       \/ PollInitialize(late, o)
       \/ PollDisplayOff(late, o)
       \/ PollChargePumpOff(late, o)
       \/ PollDisplayOn(late, o)
       \/ PollScrollDeactivate(late, o)
       \/ PollScrollConfigure(late, o)
       \/ PollScrollActivate(late, o)
       \/ \E k \in Cols : PollFlushPhase(late, o, k)

OperationCall ==
  \/ \E kind \in Kinds, deadline \in BOOLEAN : StartOperation(kind, deadline)
  \/ \E late \in SUBSET Timers : PollOperation(late)
  \/ CancelOperation
  \/ BlockingOperationStalls
  \/ TakeOperationResult

PollFlush(late) ==
  \/ PollFlushTimeout(late)
  \/ PollFlushWaits(late)
  \/ PollFlushEnded(late)
  \/ \E o \in Outcomes, k \in Cols : PollFlushSends(late, o, k)

FlushCall ==
  \/ RequestFlush
  \/ \E late \in SUBSET Timers : PollFlush(late)
  \/ WaitFlushGivesUp

FrameCall ==
  \/ \E p \in Pages, a, b \in Cols : Draw(p, {a, b})
  \/ DrawAll
  \/ ClearDirty
  \/ ClearDirtyIfIdle
  \/ FirstPage
  \/ NextPageReportsFailure
  \/ NextPageAfterWindow
  \/ NextPageSendsWindow

ControlCall ==
  \/ \E o \in Outcomes :
       \/ SetRegister(o)
       \/ \E changed \in BOOLEAN : SetFlipX(o, changed)
       \/ StopScroll(o)
       \/ SleepNow(o)
       \/ WakeNow(o)
       \/ SendRawCommand(o)
  \/ \E late \in SUBSET Timers : TickPanelGuard(late)
  \/ \E really \in BOOLEAN : PanelReset(really)

Next == Lifecycle \/ OperationCall \/ FlushCall \/ FrameCall \/ ControlCall

Spec == Init /\ [][Next]_vars

\* The owner keeps polling (tick(), pollFlush(), pollOperation()) with a clock
\* that advances: the display-on guard is not found unelapsed for ever.  No
\* fairness is assumed of the bus, of the timeouts or of any other call.
Overdue == {late \in SUBSET Timers : "guard" \in Timers => "guard" \in late}

LiveSpec ==
  /\ Spec
  /\ WF_vars(\E late \in Overdue : PollFlush(late))
  /\ WF_vars(\E late \in Overdue : PollOperation(late))
-----------------------------------------------------------------------------
\* Every variable keeps the type its C++ counterpart has.
TypeOK ==
  /\ panel \in PanelType
  /\ frame \in FrameType
  /\ flush \in FlushType
  /\ op \in OpType
  /\ health \in HealthType
  /\ device \in DeviceType
  /\ pending \in Int

-----------------------------------------------------------------------------
\* Panel power

\* While an init sequence has begun, the modeled power is not yet revised.
InitSequenceBegun ==
  OperationActive /\ op.phase = "INITIALIZE_COMMAND" /\ op.tx # 0

\* The display-on guard and the modeled power move together, whichever of the
\* two paths (setSleep() or an operation) turned the panel on; a panel whose
\* power is unknown after initialization admits neither wake nor flush.
PowerModel ==
  /\ panel.guard = "READY" <=> panel.power = "ON"
  /\ panel.guard = "INIT_DELAY" => panel.power = "STARTING" /\ ~panel.sleeping
  /\ panel.power = "STARTING" =>
       panel.guard = "INIT_DELAY" \/ op.phase = "DISPLAY_ON_DELAY"
  /\ panel.initialized /\ panel.power = "UNKNOWN" => panel.controlDirty

\* What an operation may rely on in each phase: it sends DISPLAY_ON, a resync's
\* frame and the charge-pump command only to a panel it knows to be off, and
\* the panel that waits out the delay is the one that this operation started.
PowerDuringOperation ==
  /\ op.phase \in ControlPhases \cup {"FLUSH_PHASE"} => OperationActive
  /\ op.phase \in {"DISPLAY_ON", "CHARGE_PUMP_OFF"} => panel.power = "OFF"
  /\ op.kind = "RESYNC" /\ InFlushPhase => panel.power = "OFF"
  /\ op.phase = "DISPLAY_ON_DELAY" =>
       /\ panel.power = "STARTING" /\ panel.guard = "OFF"
       /\ op.kind \in {"WAKE", "RESYNC"} /\ op.tx # 0

\* A modeled power of ON or OFF is what the glass shows, after every failed,
\* ambiguous, cancelled or raw command (panelPowerState() claims it).
PowerTruth ==
  ~InitSequenceBegun =>
    /\ panel.power \in {"ON", "STARTING"} => device.lit
    /\ panel.power = "OFF" => ~device.lit

\* controlStateDirty() is the only doubt there is: without it, and between
\* operations, the sleep and scroll flags are the controller's.
ControlTruth ==
  panel.initialized /\ ~panel.controlDirty /\ ~OperationActive =>
    /\ panel.sleeping <=> ~device.lit
    /\ panel.scrolling <=> device.rotating

\* A flush job never waits for something that no poll can bring about: the
\* panel takes data, or its display-on guard is running; an operation's own job
\* never waits at all.
FlushNeverBlocked ==
  IsFlushing =>
    /\ PanelAcceptsData(panel) \/ panel.guard = "INIT_DELAY"
    /\ OperationActive => PanelAcceptsData(panel)

-----------------------------------------------------------------------------
\* GDDRAM against the framebuffer

\* A full-frame baseline (gddramSynchronized) means that every cell that may
\* differ from the drawn frame is recorded dirty, whatever was drawn during a
\* transfer, failed half-way or was rotated; the owner answers for dirty data
\* it force-cleared under a running job.
SyncSound ==
  panel.attached /\ frame.synced /\ ~panel.controlDirty /\ ~panel.scrolling =>
    device.stale \subseteq DirtyCells(frame.dirty) \cup device.discarded

\* With a full framebuffer, a lost baseline can always be rebuilt by one more
\* flush: all of the frame is dirty, unless the owner force-cleared it.
BaselineRebuildable ==
  /\ panel.initialized /\ ~PageMode /\ ~frame.synced
  /\ ~panel.controlDirty /\ ~IsFlushing /\ ~device.forgot
  => DirtyCells(frame.dirty) = Cells

\* While an iteration runs, the windows behind it are on the glass, and so is
\* the current one once its flush is done and nothing raced with it.
WindowsBehindShown ==
  frame.iterating =>
    LET shown == {p \in Pages : \E w \in Windows :
                    /\ p \in WindowPages(w)
                    /\ \/ w < frame.window
                       \/ w = frame.window /\ flush.state = "DONE" /\ ~IsDirty}
    IN  device.stale \cap (shown \X Cols) = {}

\* The driver's own DISPLAY_ON never reveals a frame that is not the drawn one;
\* raw commands are the owner's business.
NoStaleWake ==
  [][~device.lit /\ device'.lit =>
       device.stale \subseteq device.discarded \/ \E o \in Outcomes : SendRawCommand(o)]_vars

\* No GDDRAM data leaves while the controller rotates GDDRAM, whatever became
\* of the commands that start and stop the scroll.
NoDataWhileScrolling == IsFlushing => ~device.rotating

-----------------------------------------------------------------------------
\* Ownership, results and health

\* One owner of the bus at a time: an operation in its flush phase runs the
\* job, any other operation and any unconsumed result exclude one.
JobOwnership ==
  /\ OperationActive => (IsFlushing <=> InFlushPhase)
  /\ OperationResultReady => ~IsFlushing

\* A result stays until the owner takes it or drops the binding.
ResultKept ==
  [][OperationResultReady => op' = op \/ op' = NoOperation]_vars

\* The effect a result reports is what the transactions did: NONE only if none
\* reached the controller, CONFIRMED only on success, and a successful prefix
\* is never reported as no effect.
EffectHonest ==
  OperationResultReady =>
    /\ op.effect = "NONE" => ~op.touched
    /\ op.effect = "PARTIAL" => op.touched
    /\ op.effect = "CONFIRMED" <=> op.state = "SUCCEEDED"

\* Each flush outcome is published to health exactly once, by the call that
\* first takes over after it; only an iteration's window may wait for it.
OutcomePublishedOnce ==
  LET owed == OutcomeUnpublished(flush) /\ ~OperationActive
  IN  /\ pending = IF owed THEN 1 ELSE 0
      /\ owed => frame.iterating

\* DriverState is the classification of the failure counter, through
\* shutdowns, re-initializations and cancelled resyncs.
HealthMatchesCounter ==
  /\ health.state = "READY" => panel.initialized /\ health.fails = 0
  /\ health.state = "DEGRADED" => health.fails \in 1..(OfflineThreshold - 1)
  /\ health.state = "OFFLINE" => health.fails >= OfflineThreshold
  /\ ~panel.initialized => health.state = "UNINIT"

-----------------------------------------------------------------------------
\* Liveness, under LiveSpec

\* A flush job that is polled ends, whatever is drawn, cleared or detached
\* meanwhile: it never waits for a guard that no poll completes.
FlushEnds == []<>~IsFlushing

\* A polled operation ends without its deadline: every phase sends, fails or
\* waits for the display-on delay only.
OperationEnds == []<>~OperationActive

-----------------------------------------------------------------------------
\* What the comments and the README promise beyond the code

\* README "Health": zero-I2C deadlines do not change health.
HealthNeedsTransaction ==
  [][IsFlushing /\ ~flush.tx /\ ~OperationActive /\ flush'.failed /\ ~flush'.tx
       => health' = health]_vars

\* clearDirty(): "Discarded window data cannot certify a full frame."
DiscardedDataNotCertified ==
  panel.attached /\ frame.synced /\ ~panel.controlDirty /\ ~panel.scrolling =>
    device.discarded = {}
=============================================================================
