----------------------------- MODULE FlushEngine -----------------------------
(***************************************************************************)
(* The flush engine (requestFlush, pollFlush, waitFlush), the framebuffer  *)
(* mutators that race with it, and page-buffer iteration (firstPage,       *)
(* nextPage), which runs one flush job per RAM window.                     *)
(*                                                                         *)
(* A poll is given one transaction: a poll with a larger budget behaves as *)
(* several polls with the same clock sample.  late is the set of timers    *)
(* that the poll's clock sample finds elapsed; a chunk may end at any      *)
(* column, since budgets and the transport's capacity bound it.            *)
(***************************************************************************)
EXTENDS SSD1315State

\* _initialized, not flushing, no ownership by the cooperative operation.
LegacyOwner == ~OperationActive /\ ~OperationResultReady

PageIterationOwnsFlushResult == frame.iterating /\ flush.state \in {"DONE", "ERROR"}

\* The first poll of a job latches its start and forgets older errors.
Started == [flush EXCEPT !.started = TRUE, !.failed = FALSE, !.accounted = FALSE]

\* A plain legacy job publishes its outcome as it ends; a page-iteration job
\* leaves that to nextPage(), a cooperative one to the operation's result.
OutcomeAccounted(s) ==
  IF OperationActive THEN s = "ERROR" \/ op.kind = "FLUSH" ELSE ~frame.iterating

EndJob(s) ==
  [IdleFlush EXCEPT !.state = s, !.failed = (s = "ERROR"), !.tx = flush.tx,
                    !.accounted = OutcomeAccounted(s)]

\* Before another call publishes or drops anything, the outcome of a completed
\* window that nextPage() has not seen yet is published and marked so.
SettlesIteration == PageIterationOwnsFlushResult /\ ~flush.accounted
SettledHealth == IF SettlesIteration THEN HealthWithOutcome(flush) ELSE health
SettledPending == IF SettlesIteration THEN PendingWithOutcome(flush) ELSE pending

\* Wrong: the outcome is published and not marked so.
SettledFlushMutant == flush

SettledFlush == IF SettlesIteration THEN [flush EXCEPT !.accounted = TRUE] ELSE flush

-----------------------------------------------------------------------------
\* One transaction of the running job

\* Wrong: a failed rewrite keeps only the pages it did not reach.
AbandonedRewriteMutant(f) == f

\* Without a baseline a failed full-frame rewrite starts over.
AbandonedRewrite(f) ==
  IF ~f.synced /\ ~PageMode THEN [f EXCEPT !.dirty = MarkAllDirty(@, f.window)] ELSE f

\* _failFlush()
FailFlush(attempted) ==
  /\ flush' = [EndJob("ERROR") EXCEPT !.tx = @ \/ attempted]
  /\ frame' = AbandonedRewrite(frame)

SendAddress(o) ==
  /\ flush.state \in {"SET_COL", "SET_PAGE"}
  /\ UNCHANGED device
  /\ IF o = "OK"
     THEN /\ flush' = [Started EXCEPT !.tx = TRUE,
                         !.state = IF @ = "SET_COL" THEN "SET_PAGE" ELSE "SEND_DATA"]
          /\ UNCHANGED frame
     ELSE FailFlush(TRUE)

\* Wrong: a page is clean once it was sent, whatever was drawn meanwhile.
AfterPageMutant == [frame.dirty EXCEPT ![flush.page] = {}]

\* The page that was just sent is clean unless a mutator raced with it.
AfterPage == IF flush.raced THEN frame.dirty ELSE [frame.dirty EXCEPT ![flush.page] = {}]

\* The page is complete: go on to the next dirty page of the job, or end it.  A
\* job that sent every cell of a full framebuffer establishes the baseline.
FinishPage(sent) ==
  LET rest == {p \in DirtyPages(AfterPage) : flush.page < p /\ p <= flush.last}
  IN  \/ /\ rest = {}
         /\ flush' = [EndJob("DONE") EXCEPT !.tx = TRUE]
         /\ frame' = [frame EXCEPT !.dirty = AfterPage,
                                   !.synced = @ \/ (~PageMode /\ sent = Cells)]
      \/ \E p \in rest :
           /\ \A q \in rest : p <= q
           /\ flush' = [Started EXCEPT !.state = "SET_COL", !.page = p, !.raced = FALSE,
                                       !.left = AfterPage[p], !.sent = sent]
           /\ frame' = [frame EXCEPT !.dirty = AfterPage]

SendData(o, k) ==
  LET chunk == {c \in flush.left : c <= k}
      now == {flush.page} \X chunk
      sent == flush.sent \cup now
  IN  /\ flush.state = "SEND_DATA"
      /\ k \in flush.left
      /\ IF o = "OK"
         THEN /\ device' = [device EXCEPT !.stale = @ \ now, !.discarded = @ \ now,
                                          !.forgot = @ /\ sent # Cells]
              /\ IF chunk = flush.left
                 THEN FinishPage(sent)
                 ELSE /\ flush' = [Started EXCEPT !.left = @ \ chunk, !.sent = sent]
                      /\ UNCHANGED frame
         ELSE FailFlush(TRUE) /\ UNCHANGED device

FlushTransaction(o, k) == SendAddress(o) \/ SendData(o, k)

\* A panel whose DISPLAY_OFF is command-confirmed, or that completed its
\* display-on guard, takes GDDRAM data.
PanelAcceptsData(p) == p.guard = "READY" \/ (~p.controlDirty /\ p.power = "OFF")

JobTimesOut(late) == HasFlushTimeout /\ flush.started /\ "flush" \in late

-----------------------------------------------------------------------------
\* Legacy polling

\* Publish the outcome of a job that just ended, if it is this call's to publish.
PublishJob ==
  LET ended == flush'.state \in {"DONE", "ERROR"}
      published == ended /\ flush'.accounted
  IN  /\ health' = IF published
                   THEN HealthAfter(health, flush'.state = "DONE", panel.initialized)
                   ELSE health
      /\ pending' = pending + (IF ended THEN 1 ELSE 0) - (IF published THEN 1 ELSE 0)

LegacyPoll(late) ==
  /\ LegacyOwner /\ panel.initialized /\ IsFlushing
  /\ panel' = TickPowerOn(panel, late)
  /\ UNCHANGED op

\* The job's timeout counts from its first poll, the guard's wait included.
PollFlushTimeout(late) ==
  /\ LegacyPoll(late)
  /\ JobTimesOut(late)
  /\ FailFlush(FALSE)
  /\ PublishJob
  /\ UNCHANGED device

PollFlushWaits(late) ==
  /\ LegacyPoll(late)
  /\ ~JobTimesOut(late)
  /\ ~PanelAcceptsData(panel')
  /\ flush' = Started
  /\ UNCHANGED <<frame, health, device, pending>>

PollFlushSends(late, o, k) ==
  /\ LegacyPoll(late)
  /\ ~JobTimesOut(late)
  /\ PanelAcceptsData(panel')
  /\ FlushTransaction(o, k)
  /\ PublishJob

\* What is left of a terminal job after its outcome was consumed.
ConsumedFlush ==
  IF flush.state \in {"DONE", "ERROR"}
  THEN [IdleFlush EXCEPT !.failed = (flush.state = "ERROR")] ELSE flush

\* _consumeTerminalFlush(): publish the outcome if nobody did, and forget the job.
ConsumeTerminalFlush ==
  /\ health' = HealthWithOutcome(flush)
  /\ pending' = PendingWithOutcome(flush)
  /\ flush' = ConsumedFlush

\* pollFlush() on an ended job; nextPage() owns the result of an iteration.
PollFlushEnded(late) ==
  /\ LegacyOwner /\ panel.initialized
  /\ flush.state \in {"DONE", "ERROR"}
  /\ panel' = TickPowerOn(panel, late)
  /\ IF PageIterationOwnsFlushResult
     THEN UNCHANGED <<flush, health, pending>>
     ELSE ConsumeTerminalFlush
  /\ UNCHANGED <<frame, op, device>>

\* waitFlush() gives up at its own deadline, or when the clock stalls: the job
\* fails there and, unless an iteration owns it, is consumed by the same call.
\* Its other steps are those of tick().
WaitFlushGivesUp ==
  /\ LegacyOwner /\ panel.initialized /\ IsFlushing
  /\ LET failed == [EndJob("ERROR") EXCEPT !.tx = flush.tx]
     IN  IF frame.iterating
         THEN /\ flush' = failed
              /\ pending' = pending + 1
              /\ UNCHANGED health
         ELSE /\ flush' = [IdleFlush EXCEPT !.failed = TRUE]
              /\ health' = HealthAfter(health, FALSE, panel.initialized)
              /\ UNCHANGED pending
  /\ frame' = AbandonedRewrite(frame)
  /\ UNCHANGED <<panel, op, device>>

-----------------------------------------------------------------------------
\* Requesting a job

\* The job that sends what d records; first and last bound its dirty pages.
\* A recorded range is never empty or out of bounds, so the sanitizing branch
\* of the code has nothing to do.
Job(d) ==
  {[IdleFlush EXCEPT !.state = "SET_COL", !.page = r[1], !.last = r[2], !.left = d[r[1]]] :
     r \in {r \in DirtyPages(d) \X DirtyPages(d) :
              \A p \in DirtyPages(d) : r[1] <= p /\ p <= r[2]}}

\* Wrong: a panel in an unknown control state takes a job.
FlushRefusedMutant == IsDirty /\ panel.scrolling

\* Wrong: a scrolling panel takes a job.
FlushRefusedScrollingMutant == panel.controlDirty

FlushRefused == panel.controlDirty \/ (IsDirty /\ panel.scrolling)

\* requestFlush(): consumes an ended job's outcome even when it then refuses.
RequestFlush ==
  /\ LegacyOwner /\ panel.initialized /\ ~IsFlushing
  /\ health' = HealthWithOutcome(flush)
  /\ pending' = PendingWithOutcome(flush)
  /\ IF FlushRefused \/ ~IsDirty
     THEN flush' = ConsumedFlush
     ELSE flush' \in Job(frame.dirty)
  /\ UNCHANGED <<panel, frame, op, device>>

-----------------------------------------------------------------------------
\* Framebuffer mutators

\* Every primitive draws into the pages of the selected window and marks the
\* columns it touched; one that spans pages does so page by page.
Draw(p, S) ==
  /\ panel.attached
  /\ p \in WindowPages(frame.window)
  /\ S # {}
  /\ frame' = [frame EXCEPT !.dirty = MarkDirty(@, p, S)]
  /\ flush' = RacedBy({p})
  /\ device' = [device EXCEPT !.stale = @ \cup ({p} \X S), !.discarded = @ \ ({p} \X S)]
  /\ UNCHANGED <<panel, op, health, pending>>

\* clear() and fill()
DrawAll ==
  LET cells == WindowPages(frame.window) \X Cols
  IN  /\ panel.attached
      /\ frame' = [frame EXCEPT !.dirty = MarkAllDirty(@, frame.window)]
      /\ flush' = RacedBy(WindowPages(frame.window))
      /\ device' = [device EXCEPT !.stale = @ \cup cells, !.discarded = @ \ cells,
                                  !.forgot = @ /\ IsFlushing]
      /\ UNCHANGED <<panel, op, health, pending>>

\* Wrong: stopping a scroll leaves the dirty record and the baseline alone.
OnScrollDeactivatedMutant == frame

\* _onScrollDeactivated(): GDDRAM was rotated, the whole frame must be sent again.
OnScrollDeactivated ==
  IF panel.scrolling
  THEN [frame EXCEPT !.synced = FALSE, !.iterating = FALSE,
                     !.dirty = MarkAllDirty(@, frame.window)]
  ELSE frame

\* clearDirty(): the owner's escape hatch, legal at any time.
ClearDirty ==
  /\ panel.attached
  /\ IsDirty
  /\ health' = SettledHealth
  /\ pending' = SettledPending
  /\ flush' = SettledFlush
  /\ frame' = [frame EXCEPT !.dirty = NothingDirty, !.synced = FALSE, !.iterating = FALSE]
  /\ device' = [device EXCEPT !.forgot = TRUE,
                  !.discarded = IF IsFlushing
                                THEN @ \cup (device.stale \cap DirtyCells(frame.dirty))
                                ELSE @]
  /\ UNCHANGED <<panel, op>>

\* clearDirtyIfIdle(): keeps active work and the data of a failed job.
ClearDirtyIfIdle ==
  /\ LegacyOwner /\ ~IsFlushing
  /\ flush.state # "ERROR" /\ ~flush.failed
  /\ ClearDirty

-----------------------------------------------------------------------------
\* Page-buffer iteration

\* firstPage() refuses while an earlier window's retry data are dirty.
FirstPageAdmitted ==
  /\ panel.attached
  /\ DirectI2cAdmitted
  /\ IsDirty => flush.state # "ERROR" /\ (flush.state = "DONE" \/ ~flush.failed)

FirstPage ==
  /\ FirstPageAdmitted
  /\ health' = HealthWithOutcome(flush)
  /\ pending' = PendingWithOutcome(flush)
  /\ flush' = IF flush.state \in {"DONE", "ERROR"} THEN IdleFlush ELSE flush
  /\ frame' = [dirty |-> MarkAllDirty(IF PageMode THEN NothingDirty ELSE frame.dirty, 0),
               synced |-> FALSE, iterating |-> PageMode, window |-> 0]
  /\ device' = AllStale
  /\ UNCHANGED <<panel, op>>

NextPageAdmitted ==
  /\ panel.initialized /\ frame.iterating
  /\ LegacyOwner /\ ~IsFlushing

\* Wrong: off by one.
LastWindowMutant == frame.window * PagesPerBuffer >= TotalPages

LastWindow == (frame.window + 1) * PagesPerBuffer >= TotalPages

\* The RAM buffer is cleared for the next window, and all of it marked.
SelectNextWindow ==
  /\ frame' = [frame EXCEPT !.window = @ + 1,
                 !.dirty = MarkAllDirty(NothingDirty, frame.window + 1)]
  /\ device' = [device EXCEPT !.stale = @ \cup (WindowPages(frame.window + 1) \X Cols)]

\* nextPage() after a failed window: the window stays, with its retry data.
NextPageReportsFailure ==
  /\ NextPageAdmitted
  /\ flush.state = "ERROR"
  /\ health' = HealthWithOutcome(flush)
  /\ pending' = PendingWithOutcome(flush)
  /\ flush' = [IdleFlush EXCEPT !.failed = TRUE]
  /\ UNCHANGED <<panel, frame, op, device>>

\* Wrong: the window advances although a mutator raced with its transfer.
NextPageAfterWindowMutant ==
  /\ NextPageAdmitted
  /\ flush.state = "DONE"
  /\ health' = HealthWithOutcome(flush)
  /\ pending' = PendingWithOutcome(flush)
  /\ flush' = IdleFlush
  /\ \/ /\ LastWindow
        /\ frame' = [frame EXCEPT !.window = 0, !.iterating = FALSE, !.synced = TRUE]
        /\ UNCHANGED device
     \/ ~LastWindow /\ SelectNextWindow
  /\ UNCHANGED <<panel, op>>

\* nextPage() after a completed window: send it again if a mutator raced with
\* it, else advance; after the last window the frame is complete.
NextPageAfterWindow ==
  /\ NextPageAdmitted
  /\ flush.state = "DONE"
  /\ health' = HealthWithOutcome(flush)
  /\ pending' = PendingWithOutcome(flush)
  /\ flush' = [IdleFlush EXCEPT !.failed = flush.failed]
  /\ \/ /\ IsDirty
        /\ frame' = [frame EXCEPT !.synced = FALSE]
        /\ UNCHANGED device
     \/ /\ ~IsDirty /\ LastWindow
        /\ frame' = [frame EXCEPT !.window = 0, !.iterating = FALSE, !.synced = TRUE]
        /\ UNCHANGED device
     \/ /\ ~IsDirty /\ ~LastWindow
        /\ SelectNextWindow
  /\ UNCHANGED <<panel, op>>

\* nextPage() on a drawn window: mark all of it and request its flush.  A
\* refusal ends the iteration.
NextPageSendsWindow ==
  /\ NextPageAdmitted
  /\ flush.state = "IDLE"
  /\ LET d == MarkAllDirty(frame.dirty, frame.window)
     IN  IF panel.controlDirty \/ panel.scrolling
         THEN /\ frame' = [frame EXCEPT !.dirty = d, !.iterating = FALSE]
              /\ UNCHANGED flush
         ELSE /\ frame' = [frame EXCEPT !.dirty = d]
              /\ flush' \in Job(d)
  /\ UNCHANGED <<panel, op, health, device, pending>>
=============================================================================
