----------------------------- MODULE Operations -----------------------------
(***************************************************************************)
(* The cooperative operation machine: start*(), pollOperation(),           *)
(* cancelOperation() and takeOperationResult().  One operation at a time   *)
(* owns the hardware from its admission until the owner takes its result.  *)
(***************************************************************************)
EXTENDS FlushEngine

\* The panel as the poll finds it: tickPowerOn() runs before anything else.
Ticked(late) == TickPowerOn(panel, late)

CountTx == IF op.tx < TxCap THEN op.tx + 1 ELSE op.tx

InFlushPhase == op.phase = "FLUSH_PHASE"

\* Wrong: an unconsumed result does not keep the next operation out.
OperationAdmittedMutant(kind) ==
  /\ panel.attached
  /\ kind = "RESYNC" => ~PageMode
  /\ ~OperationActive /\ ~IsFlushing
  /\ kind = "SCROLL" => ~frame.iterating
  /\ kind \notin {"INITIALIZE", "RESYNC", "SHUTDOWN"} => panel.initialized
  /\ kind \in {"FLUSH", "WAKE", "SCROLL"} => ~panel.controlDirty
  /\ kind = "WAKE" => panel.power = "OFF" /\ ~IsDirty /\ frame.synced
  /\ kind = "FLUSH" => panel.power \in {"ON", "OFF"}

\* Wrong: a wake is admitted whatever the modeled power.
OperationAdmittedWakeMutant(kind) ==
  /\ panel.attached
  /\ kind = "RESYNC" => ~PageMode
  /\ LegacyOwner /\ ~IsFlushing
  /\ kind = "SCROLL" => ~frame.iterating
  /\ kind \notin {"INITIALIZE", "RESYNC", "SHUTDOWN"} => panel.initialized
  /\ kind \in {"FLUSH", "WAKE", "SCROLL"} => ~panel.controlDirty
  /\ kind = "WAKE" => ~IsDirty /\ frame.synced
  /\ kind = "FLUSH" => panel.power \in {"ON", "OFF"}

\* INITIALIZE, RESYNC and SHUTDOWN are admitted whatever the panel's state.
OperationAdmitted(kind) ==
  /\ panel.attached
  /\ kind = "RESYNC" => ~PageMode
  /\ LegacyOwner /\ ~IsFlushing
  /\ kind = "SCROLL" => ~frame.iterating
  /\ kind \notin {"INITIALIZE", "RESYNC", "SHUTDOWN"} => panel.initialized
  /\ kind \in {"FLUSH", "WAKE", "SCROLL"} => ~panel.controlDirty
  /\ kind = "WAKE" => panel.power = "OFF" /\ ~IsDirty /\ frame.synced
  /\ kind = "FLUSH" => panel.power \in {"ON", "OFF"}

FirstPhase(kind) ==
  CASE kind \in {"INITIALIZE", "RESYNC"} -> "INITIALIZE_COMMAND"
    [] kind \in {"SLEEP", "SHUTDOWN"} -> "DISPLAY_OFF"
    [] kind = "SCROLL" -> "SCROLL_DEACTIVATE"
    [] kind = "WAKE" -> "DISPLAY_ON"
    [] kind = "FLUSH" -> IF IsDirty THEN "FLUSH_PHASE" ELSE "IDLE"

NewOperation(kind, deadline) ==
  [NoOperation EXCEPT !.kind = kind, !.state = "ACTIVE", !.phase = FirstPhase(kind),
                      !.deadline = deadline]

\* _startOperation(): the window outcome an iteration still owes is published
\* first.  A flush that the scrolling panel refuses leaves no operation behind.
StartOperation(kind, deadline) ==
  /\ OperationAdmitted(kind)
  /\ health' = SettledHealth
  /\ pending' = SettledPending
  /\ \/ /\ kind # "FLUSH"
        /\ flush' = SettledFlush
        /\ op' = NewOperation(kind, deadline)
     \/ /\ kind = "FLUSH" /\ (FlushRefused \/ ~IsDirty)
        /\ flush' = ConsumedFlush
        /\ op' = IF FlushRefused THEN op ELSE NewOperation(kind, deadline)
     \/ /\ kind = "FLUSH" /\ ~FlushRefused
        /\ flush' \in Job(frame.dirty)
        /\ op' = NewOperation(kind, deadline)
  /\ UNCHANGED <<panel, frame, device>>

-----------------------------------------------------------------------------
\* How an operation ends

EndOperation(state, effect, touched) ==
  [NoOperation EXCEPT !.kind = op.kind, !.state = state, !.phase = "COMPLETE",
                      !.effect = effect, !.touched = touched]

\* _finishOperation(): publishes one success, if the operation used the bus.
FinishOperation(h, f, touched, tx) ==
  /\ op' = EndOperation("SUCCEEDED", "CONFIRMED", touched)
  /\ health' = IF tx = 0 THEN h ELSE HealthAfter(h, TRUE, panel'.initialized)
  /\ flush' = IF op.kind \in {"FLUSH", "RESYNC"} THEN [f EXCEPT !.accounted = TRUE] ELSE f

\* Wrong: the operation ends and its job runs on.
JobAfterFailureRunsOnMutant(f) == f

\* What _failOperation() does to the flush job f of the operation: a running
\* job ends in error; a resync's completed job belongs to the operation.
JobAfterFailure(f) ==
  IF op.kind \in {"FLUSH", "RESYNC"} /\ InFlushPhase
  THEN [EndJob("ERROR") EXCEPT !.accounted = TRUE]
  ELSE IF op.kind = "RESYNC" /\ f.state = "DONE"
          /\ op.phase \in {"DISPLAY_ON", "DISPLAY_ON_DELAY"}
       THEN [f EXCEPT !.accounted = TRUE]
       ELSE f

\* A command of the operation failed with o; prefix: an earlier one succeeded.
CommandFails(o, prefix) ==
  /\ op' = EndOperation("FAILED", EffectForFailure(o, prefix), op.touched \/ TookEffect(o))
  /\ health' = HealthAfter(health, FALSE, panel.initialized)
  /\ flush' = JobAfterFailure(flush)

\* A command of the operation succeeded and next is the phase it leads to.
CommandSucceeds(next) ==
  /\ op' = [op EXCEPT !.phase = next, !.effect = "PARTIAL", !.tx = CountTx,
                      !.touched = TRUE, !.latched = FALSE]
  /\ UNCHANGED <<health, flush>>

ControlSequence == op.kind \in {"INITIALIZE", "RESYNC", "WAKE", "SHUTDOWN", "SCROLL"}

\* Wrong: a terminated reinitialization keeps the modeled power.
TerminatedPanelMutant(p) ==
  IF ~ControlSequence \/ op.tx = 0 THEN p
  ELSE IF op.kind = "WAKE"
       THEN MarkControlDirty(InvalidatePower(p)) ELSE MarkControlDirty(p)

\* What is known of the panel after a control sequence stopped half-way.
TerminatedPanel(p) ==
  IF ~ControlSequence \/ op.tx = 0 THEN p
  ELSE IF op.kind \in {"INITIALIZE", "RESYNC", "WAKE"}
       THEN MarkControlDirty(InvalidatePower(p)) ELSE MarkControlDirty(p)

TerminatedFrame ==
  LET f == IF op.kind \in {"INITIALIZE", "RESYNC"} /\ op.tx # 0
           THEN [frame EXCEPT !.synced = FALSE] ELSE frame
  IN  IF op.kind \in {"FLUSH", "RESYNC"} /\ InFlushPhase THEN AbandonedRewrite(f) ELSE f

\* _terminateOperation(): cancellation, deadline and stall; no transaction.
\* Cancellation is not a health outcome.
Terminate(state, p) ==
  /\ panel' = TerminatedPanel(p)
  /\ frame' = TerminatedFrame
  /\ flush' = JobAfterFailure(flush)
  /\ op' = EndOperation(state, IF op.tx = 0 THEN "NONE" ELSE "PARTIAL", op.touched)
  /\ health' = IF state = "CANCELLED" \/ op.tx = 0
               THEN health ELSE HealthAfter(health, FALSE, panel.initialized)
  /\ UNCHANGED <<device, pending>>

-----------------------------------------------------------------------------
\* The controller's response to the driver's own commands

ApplyDisplayOff(d) == [d EXCEPT !.lit = FALSE]
ApplyDisplayOn(d) == [d EXCEPT !.lit = TRUE]
ApplyScrollOn(d) == [d EXCEPT !.rotating = TRUE]

\* A running scroll has rotated GDDRAM: no cell is where it was written.
ApplyScrollOff(d) ==
  [d EXCEPT !.rotating = FALSE, !.stale = IF d.rotating THEN Cells ELSE @]

ApplyInitStep(d, step) ==
  IF step = 0 THEN ApplyDisplayOff(d)
  ELSE IF step = ScrollOffStep THEN ApplyScrollOff(d) ELSE d

-----------------------------------------------------------------------------
\* pollOperation()

DeadlineHit(late) == op.deadline /\ "deadline" \in late

\* The display-on delay is exempt from the deadline and has actions of its own.
Polls(late) ==
  /\ OperationActive
  /\ op.phase # "DISPLAY_ON_DELAY"
  /\ ~DeadlineHit(late)
  /\ UNCHANGED pending

PollDeadline(late) ==
  /\ OperationActive
  /\ op.phase # "DISPLAY_ON_DELAY"
  /\ DeadlineHit(late)
  /\ Terminate("TIMED_OUT", Ticked(late))

\* _pollInitializePhase(): the first attempt ends any page iteration; the last
\* success leaves an initialized, dark panel whose GDDRAM is unknown.
PollInitialize(late, o) ==
  /\ Polls(late)
  /\ op.phase = "INITIALIZE_COMMAND"
  /\ LET last == op.step + 1 = InitSteps
         fr == [frame EXCEPT !.iterating = FALSE]
         all == MarkAllDirty(frame.dirty, frame.window)
         d == IF TookEffect(o) THEN ApplyInitStep(device, op.step) ELSE device
     IN  \/ /\ o # "OK"
            /\ panel' = MarkControlDirty(InvalidatePower(panel))
            /\ frame' = fr
            /\ device' = d
            /\ CommandFails(o, op.tx # 0)
         \/ /\ o = "OK" /\ ~last
            /\ panel' = Ticked(late)
            /\ frame' = fr
            /\ device' = d
            /\ op' = [op EXCEPT !.step = @ + 1, !.effect = "PARTIAL", !.tx = CountTx,
                                !.touched = TRUE]
            /\ UNCHANGED <<health, flush>>
         \/ /\ o = "OK" /\ last
            /\ panel' = [Ticked(late) EXCEPT !.initialized = TRUE, !.sleeping = TRUE,
                           !.scrolling = FALSE, !.power = "OFF", !.guard = "OFF",
                           !.controlDirty = FALSE]
            /\ frame' = [fr EXCEPT !.dirty = all, !.synced = FALSE]
            /\ device' = [d EXCEPT !.forgot = FALSE, !.discarded = {}]
            /\ IF op.kind = "INITIALIZE"
               THEN FinishOperation(health, flush, TRUE, 1)
               ELSE /\ flush' \in Job(all)
                    /\ op' = [op EXCEPT !.phase = "FLUSH_PHASE", !.effect = "PARTIAL",
                                        !.tx = CountTx, !.touched = TRUE]
                    /\ UNCHANGED health

\* The flush phase advances the operation's own job.  Admission leaves nothing
\* to wait for: the panel is on, or off and known (see FlushNeverBlocked).
PollFlushPhase(late, o, k) ==
  /\ Polls(late)
  /\ InFlushPhase
  /\ ~JobTimesOut(late)
  /\ panel' = Ticked(late)
  /\ PanelAcceptsData(panel')
  /\ FlushTransaction(o, k)
  /\ LET touched == op.touched \/ TookEffect(o)
     IN  \/ /\ flush'.state = "ERROR"
            /\ op' = EndOperation("FAILED", EffectForFailure(o, op.tx # 0), touched)
            /\ health' = HealthAfter(health, FALSE, panel.initialized)
         \/ /\ flush'.state = "DONE" /\ op.kind = "FLUSH"
            /\ op' = EndOperation("SUCCEEDED", "CONFIRMED", touched)
            /\ health' = HealthAfter(health, TRUE, panel.initialized)
         \/ /\ flush'.state \in FlushPhases \/ (flush'.state = "DONE" /\ op.kind = "RESYNC")
            /\ op' = [op EXCEPT !.effect = "PARTIAL", !.tx = CountTx, !.touched = touched,
                        !.phase = IF flush'.state = "DONE" THEN "DISPLAY_ON" ELSE @]
            /\ UNCHANGED health

\* The job's own timeout; with no transaction attempted it is not a health
\* outcome of the operation.
PollFlushPhaseTimeout(late) ==
  /\ Polls(late)
  /\ InFlushPhase
  /\ JobTimesOut(late)
  /\ panel' = Ticked(late)
  /\ FailFlush(FALSE)
  /\ op' = EndOperation("FAILED", IF op.tx = 0 THEN "NONE" ELSE "PARTIAL", op.touched)
  /\ health' = IF op.tx = 0 THEN health ELSE HealthAfter(health, FALSE, panel.initialized)
  /\ UNCHANGED device

\* A flush operation admitted on a clean frame completes without a transaction.
PollEmptyFlush(late) ==
  /\ Polls(late)
  /\ op.phase = "IDLE"
  /\ panel' = Ticked(late)
  /\ FinishOperation(health, flush, FALSE, 0)
  /\ UNCHANGED <<frame, device>>

PollDisplayOff(late, o) ==
  /\ Polls(late)
  /\ op.phase = "DISPLAY_OFF"
  /\ device' = IF TookEffect(o) THEN ApplyDisplayOff(device) ELSE device
  /\ \/ /\ o # "OK"
        /\ panel' = MarkControlDirty(InvalidatePower(panel))
        /\ CommandFails(o, op.tx # 0)
     \/ /\ o = "OK" /\ op.kind = "SHUTDOWN" /\ HasChargePump
        /\ panel' = DisplayIsOff(Ticked(late))
        /\ CommandSucceeds("CHARGE_PUMP_OFF")
     \/ /\ o = "OK" /\ op.kind = "SHUTDOWN" /\ ~HasChargePump
        /\ panel' = [DisplayIsOff(Ticked(late)) EXCEPT !.initialized = FALSE]
        /\ FinishOperation([health EXCEPT !.state = "UNINIT"], flush, TRUE, 1)
     \/ /\ o = "OK" /\ op.kind = "SLEEP"
        /\ panel' = DisplayIsOff(Ticked(late))
        /\ FinishOperation(health, flush, TRUE, 1)
  /\ UNCHANGED frame

PollChargePumpOff(late, o) ==
  /\ Polls(late)
  /\ op.phase = "CHARGE_PUMP_OFF"
  /\ IF o = "OK"
     THEN /\ panel' = [Ticked(late) EXCEPT !.initialized = FALSE, !.power = "OFF"]
          /\ FinishOperation([health EXCEPT !.state = "UNINIT"], flush, TRUE, 1)
     ELSE /\ panel' = MarkControlDirty(Ticked(late))
          /\ CommandFails(o, TRUE)
  /\ UNCHANGED <<frame, device>>

\* Wrong: the operation waits for the frame to become clean.
PollDisplayOnRejectedMutant(late) ==
  /\ Polls(late)
  /\ op.phase = "DISPLAY_ON"
  /\ IsDirty \/ ~frame.synced
  /\ panel' = Ticked(late)
  /\ UNCHANGED <<frame, flush, op, health, device>>

\* The frame is checked again just before DISPLAY_ON: the owner may have drawn
\* since the admission or since the resync's flush.
PollDisplayOnRejected(late) ==
  /\ Polls(late)
  /\ op.phase = "DISPLAY_ON"
  /\ IsDirty \/ ~frame.synced
  /\ panel' = Ticked(late)
  /\ flush' = JobAfterFailure(flush)
  /\ op' = EndOperation("FAILED", IF op.tx = 0 THEN "NONE" ELSE "PARTIAL", op.touched)
  /\ UNCHANGED <<frame, health, device>>

PollDisplayOn(late, o) ==
  /\ Polls(late)
  /\ op.phase = "DISPLAY_ON"
  /\ ~IsDirty /\ frame.synced
  /\ device' = IF TookEffect(o) THEN ApplyDisplayOn(device) ELSE device
  /\ \/ /\ o # "OK"
        /\ panel' = MarkControlDirty(InvalidatePower(panel))
        /\ CommandFails(o, op.tx # 0)
     \/ /\ o = "OK" /\ HasDisplayOnDelay
        /\ panel' = [Ticked(late) EXCEPT !.sleeping = FALSE, !.power = "STARTING"]
        /\ CommandSucceeds("DISPLAY_ON_DELAY")
     \/ /\ o = "OK" /\ ~HasDisplayOnDelay
        /\ panel' = [Ticked(late) EXCEPT !.sleeping = FALSE, !.power = "ON",
                                         !.guard = "READY"]
        /\ FinishOperation(health, flush, TRUE, 1)
  /\ UNCHANGED frame

\* The first sample after DISPLAY_ON starts the delay, so bus time never counts.
PollDelayStarts(late) ==
  /\ OperationActive
  /\ op.phase = "DISPLAY_ON_DELAY" /\ ~op.latched
  /\ panel' = Ticked(late)
  /\ op' = [op EXCEPT !.latched = TRUE]
  /\ UNCHANGED <<frame, flush, health, device, pending>>

PollDelayEnds(late) ==
  /\ OperationActive
  /\ op.phase = "DISPLAY_ON_DELAY" /\ op.latched
  /\ "guard" \in late
  /\ panel' = [Ticked(late) EXCEPT !.power = "ON", !.guard = "READY"]
  /\ FinishOperation(health, flush, TRUE, 1)
  /\ UNCHANGED <<frame, device, pending>>

PollScrollDeactivate(late, o) ==
  /\ Polls(late)
  /\ op.phase = "SCROLL_DEACTIVATE"
  /\ device' = IF TookEffect(o) THEN ApplyScrollOff(device) ELSE device
  /\ IF o = "OK"
     THEN /\ panel' = [Ticked(late) EXCEPT !.scrolling = FALSE]
          /\ frame' = OnScrollDeactivated
          /\ CommandSucceeds("SCROLL_CONFIGURE")
     ELSE /\ panel' = MarkControlDirty(Ticked(late))
          /\ CommandFails(o, op.tx # 0)
          /\ UNCHANGED frame

PollScrollConfigure(late, o) ==
  /\ Polls(late)
  /\ op.phase = "SCROLL_CONFIGURE"
  /\ IF o = "OK"
     THEN /\ panel' = Ticked(late)
          /\ CommandSucceeds("SCROLL_ACTIVATE")
     ELSE /\ panel' = MarkControlDirty(Ticked(late))
          /\ CommandFails(o, TRUE)
  /\ UNCHANGED <<frame, device>>

PollScrollActivate(late, o) ==
  /\ Polls(late)
  /\ op.phase = "SCROLL_ACTIVATE"
  /\ device' = IF TookEffect(o) THEN ApplyScrollOn(device) ELSE device
  /\ IF o = "OK"
     THEN /\ panel' = [Ticked(late) EXCEPT !.scrolling = TRUE]
          /\ FinishOperation(health, flush, TRUE, 1)
     ELSE /\ panel' = MarkControlDirty(Ticked(late))
          /\ CommandFails(o, TRUE)
  /\ UNCHANGED frame

-----------------------------------------------------------------------------
\* The owner's other calls

CancelOperation ==
  /\ OperationActive
  /\ Terminate("CANCELLED", panel)

\* The blocking facades (recover(), begin(), start*Scroll()) give up when the
\* clock stands still; only the display-on delay can make them wait for it.
\* Their other steps are start, poll and take.
BlockingOperationStalls ==
  /\ OperationActive
  /\ op.kind = "RESYNC" /\ ~op.deadline
  /\ op.phase = "DISPLAY_ON_DELAY" /\ op.latched
  /\ Terminate("TIMED_OUT", panel)

TakeOperationResult ==
  /\ OperationResultReady
  /\ op' = NoOperation
  /\ UNCHANGED <<panel, frame, flush, health, device, pending>>
=============================================================================
