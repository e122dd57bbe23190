---------------------------- MODULE PanelControl ----------------------------
(***************************************************************************)
(* The calls that send one command at once: sleep and wake, segment        *)
(* remap, the register setters, stopping a scroll, raw commands - and the  *)
(* owner's notice that the panel was reset behind the driver's back.       *)
(***************************************************************************)
EXTENDS Operations

\* One tracked direct write with outcome o: the older window outcome is
\* published before the write's own.
TrackedWrite(o) ==
  /\ DirectI2cAdmitted
  /\ panel.initialized
  /\ health' = HealthAfter(SettledHealth, o = "OK", panel.initialized)
  /\ pending' = SettledPending
  /\ flush' = SettledFlush
  /\ UNCHANGED op

\* The panel after a setter's write: any failure leaves the control state open.
AfterSetter(o) == IF o = "OK" THEN panel ELSE MarkControlDirty(panel)

\* setContrast, setInvert, setFlipY, setAllPixelsOn, setVerticalScrollArea,
\* setFadeMode and setZoom write registers that no other state depends on.
SetRegister(o) ==
  /\ TrackedWrite(o)
  /\ panel' = AfterSetter(o)
  /\ UNCHANGED <<frame, device>>

\* setFlipX(): changed tells whether the remap differs from the current one.
\* GDDRAM keeps the old orientation, so a change needs the frame again.
SetFlipX(o, changed) ==
  /\ TrackedWrite(o)
  /\ changed => ~frame.iterating
  /\ panel' = AfterSetter(o)
  /\ IF o = "OK" /\ changed
     THEN /\ frame' = [frame EXCEPT !.synced = FALSE,
                                    !.dirty = MarkAllDirty(@, frame.window)]
          /\ device' = AllStale
     ELSE UNCHANGED <<frame, device>>

StopScroll(o) ==
  /\ TrackedWrite(o)
  /\ panel' = IF o = "OK" THEN [panel EXCEPT !.scrolling = FALSE] ELSE MarkControlDirty(panel)
  /\ frame' = IF o = "OK" THEN OnScrollDeactivated ELSE frame
  /\ device' = IF TookEffect(o) THEN ApplyScrollOff(device) ELSE device

\* setSleep(TRUE)
SleepNow(o) ==
  /\ TrackedWrite(o)
  /\ panel' = IF o = "OK" THEN DisplayIsOff(panel) ELSE MarkControlDirty(InvalidatePower(panel))
  /\ device' = IF TookEffect(o) THEN ApplyDisplayOff(device) ELSE device
  /\ UNCHANGED frame

\* Wrong: waking looks at the dirty pages but not at the baseline.
WakeAdmittedMutant == ~panel.controlDirty /\ (panel.sleeping => ~IsDirty)

\* Only an actual off-to-on transition needs a synchronized clean frame.
WakeAdmitted == ~panel.controlDirty /\ (panel.sleeping => ~IsDirty /\ frame.synced)

WasModeledOn == ~panel.sleeping /\ panel.power = "ON" /\ panel.guard = "READY"

\* Wrong: the panel accepts data as soon as DISPLAY_ON was sent.
AwokenPanelMutant ==
  IF WasModeledOn THEN [panel EXCEPT !.sleeping = FALSE]
  ELSE [panel EXCEPT !.sleeping = FALSE, !.guard = "READY", !.latched = FALSE,
                     !.power = "STARTING"]

\* A panel that was not on already starts its display-on guard.
AwokenPanel ==
  IF WasModeledOn THEN [panel EXCEPT !.sleeping = FALSE]
  ELSE IF HasDisplayOnDelay
       THEN [panel EXCEPT !.sleeping = FALSE, !.guard = "INIT_DELAY", !.latched = FALSE,
                          !.power = "STARTING"]
       ELSE [panel EXCEPT !.sleeping = FALSE, !.guard = "READY", !.latched = FALSE,
                          !.power = "ON"]

\* setSleep(FALSE)
WakeNow(o) ==
  /\ TrackedWrite(o)
  /\ WakeAdmitted
  /\ panel' = IF o = "OK" THEN AwokenPanel ELSE MarkControlDirty(InvalidatePower(panel))
  /\ device' = IF TookEffect(o) THEN ApplyDisplayOn(device) ELSE device
  /\ UNCHANGED frame

\* tick() or a zero-budget poll that finds nothing else to do.
TickPanelGuard(late) ==
  /\ panel.guard = "INIT_DELAY"
  /\ OperationActive => ~DeadlineHit(late)
  /\ panel' = Ticked(late)
  /\ UNCHANGED <<frame, flush, op, health, device, pending>>

-----------------------------------------------------------------------------
\* invalidatePanelState(): an active operation is cancelled, a legacy job ends
\* without a health outcome.
Invalidated(p) == MarkControlDirty(InvalidatePower(p))
InvalidatedFrame(f) == [f EXCEPT !.synced = FALSE, !.iterating = FALSE]

InvalidatePanelState ==
  /\ panel' = Invalidated(panel)
  /\ \/ /\ OperationActive
        /\ frame' = InvalidatedFrame(TerminatedFrame)
        /\ flush' = JobAfterFailure(flush)
        /\ op' = EndOperation("CANCELLED", IF op.tx = 0 THEN "NONE" ELSE "PARTIAL",
                              op.touched)
        /\ UNCHANGED <<health, pending>>
     \/ /\ ~OperationActive
        /\ flush' = IF IsFlushing
                    THEN [EndJob("ERROR") EXCEPT !.accounted = TRUE] ELSE SettledFlush
        /\ health' = SettledHealth
        /\ pending' = SettledPending
        /\ frame' = InvalidatedFrame(frame)
        /\ UNCHANGED op

\* The owner reports that the panel was, or may have been, reset.
PanelReset(really) ==
  /\ InvalidatePanelState
  /\ device' = IF really
               THEN [AllStale EXCEPT !.lit = FALSE, !.rotating = FALSE] ELSE device

\* Wrong: only an acknowledged raw command counts as possibly executed.
AfterRawFailureMutant(o) == panel

\* _markRawCommandFailure(): an address NACK proves that nothing happened.
AfterRawFailure(o) == IF Ambiguous(o) THEN Invalidated(panel) ELSE panel

\* sendCommand*(), sendCommandList(): the driver does not interpret the bytes,
\* so one that may have arrived makes the panel unknown.
SendRawCommand(o) ==
  /\ TrackedWrite(o)
  /\ panel' = IF o = "OK" THEN Invalidated(panel) ELSE AfterRawFailure(o)
  /\ frame' = IF o = "NACK" THEN frame ELSE InvalidatedFrame(frame)
  /\ IF TookEffect(o)
     THEN \E lit, rotating, moved \in BOOLEAN :
            device' = [device EXCEPT !.lit = lit, !.rotating = rotating,
                                     !.stale = IF moved THEN Cells ELSE @]
     ELSE UNCHANGED device
=============================================================================
