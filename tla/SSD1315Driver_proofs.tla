------------------------ MODULE SSD1315Driver_proofs ------------------------
(***************************************************************************)
(* Proofs about the driver, for every geometry and configuration that      *)
(* ConfigAssumption admits.  First its types, what it believes of the      *)
(* panel's power, and the flush job: who owns it, and that it never waits  *)
(* for something that cannot happen.  Then the truth of what it reports:   *)
(* the effect of an operation's result, the modeled power of the panel,    *)
(* the sleep and scroll flags, and that no data is sent while the          *)
(* controller rotates GDDRAM.                                              *)
(***************************************************************************)
EXTENDS SSD1315Driver, TLAPS

-----------------------------------------------------------------------------
\* What the helpers of the handlers return.

LEMMA ZeroIsAPage == 0 \in Pages /\ 0 \in Windows
  BY ConfigAssumption DEF ConfigAssumption, Pages, Windows

LEMMA DirtyTypes ==
  /\ NothingDirty \in [Pages -> SUBSET Cols]
  /\ \A d \in [Pages -> SUBSET Cols] :
       /\ \A w : MarkAllDirty(d, w) \in [Pages -> SUBSET Cols]
       /\ \A p \in Pages, S \in SUBSET Cols : MarkDirty(d, p, S) \in [Pages -> SUBSET Cols]
  BY DEF MarkAllDirty, MarkDirty, Hull, NothingDirty

LEMMA PanelTypes ==
  ASSUME NEW p \in PanelType, NEW late
  PROVE  /\ InvalidatePower(p) \in PanelType
         /\ MarkControlDirty(p) \in PanelType
         /\ DisplayIsOff(p) \in PanelType
         /\ TickPowerOn(p, late) \in PanelType
         /\ TerminatedPanel(p) \in PanelType
         /\ Invalidated(p) \in PanelType
<1>1. InvalidatePower(p) \in PanelType
  BY DEF InvalidatePower, PanelType, Powers, Guards
<1>2. \A q \in PanelType : MarkControlDirty(q) \in PanelType
  BY DEF MarkControlDirty, PanelType
<1>3. DisplayIsOff(p) \in PanelType
  BY DEF DisplayIsOff, PanelType, Powers, Guards
<1>4. TickPowerOn(p, late) \in PanelType
  BY DEF TickPowerOn, PanelType, Powers, Guards
<1>5. TerminatedPanel(p) \in PanelType
  BY <1>1, <1>2 DEF TerminatedPanel
<1>6. Invalidated(p) \in PanelType
  BY <1>1, <1>2 DEF Invalidated
<1>. QED BY <1>1, <1>2, <1>3, <1>4, <1>5, <1>6

LEMMA HealthTypes ==
  ASSUME NEW h \in HealthType, NEW ok \in BOOLEAN, NEW initialized \in BOOLEAN
  PROVE  /\ HealthAfter(h, ok, initialized) \in HealthType
         /\ [h EXCEPT !.state = "UNINIT"] \in HealthType
  BY ConfigAssumption DEF ConfigAssumption, HealthAfter, HealthType

LEMMA OpTypes ==
  ASSUME TypeOK
  PROVE  /\ CountTx \in 0..TxCap
         /\ NoOperation \in OpType
         /\ \A kind \in Kinds, deadline \in BOOLEAN : NewOperation(kind, deadline) \in OpType
         /\ \A state \in Terminal, effect \in Effects, touched \in BOOLEAN :
              EndOperation(state, effect, touched) \in OpType
<1>1. op \in OpType /\ 0 \in 0..(InitSteps - 1) /\ 0 \in 0..TxCap
  BY ConfigAssumption DEF TypeOK, ConfigAssumption, TxCap
<1>2. CountTx \in 0..TxCap
  BY <1>1 DEF CountTx, OpType, TxCap
<1>3. NoOperation \in OpType
  BY <1>1 DEF NoOperation, OpType, ControlPhases, Effects
<1>4. ASSUME NEW kind \in Kinds, NEW deadline \in BOOLEAN
      PROVE  NewOperation(kind, deadline) \in OpType
  <2>1. FirstPhase(kind) \in ControlPhases \cup {"IDLE", "FLUSH_PHASE"}
    BY DEF FirstPhase, Kinds, ControlPhases
  <2>. QED BY <1>3, <2>1 DEF NewOperation, OpType
<1>5. ASSUME NEW state \in Terminal, NEW effect \in Effects, NEW touched \in BOOLEAN
      PROVE  EndOperation(state, effect, touched) \in OpType
  BY <1>1, <1>3 DEF EndOperation, OpType
<1>. QED BY <1>2, <1>3, <1>4, <1>5

LEMMA IdleFlushType == IdleFlush \in FlushType
  BY ZeroIsAPage DEF IdleFlush, FlushType, FlushStates

LEMMA FlushTypes ==
  ASSUME TypeOK
  PROVE  /\ Started \in FlushType
         /\ \A s \in {"DONE", "ERROR"} :
              /\ EndJob(s) \in FlushType
              /\ EndJob(s).state = s
         /\ ConsumedFlush \in FlushType
         /\ SettledFlush \in FlushType
         /\ \A marked : RacedBy(marked) \in FlushType
         /\ \A f \in FlushType : JobAfterFailure(f) \in FlushType
<1>1. flush \in FlushType /\ op \in OpType /\ frame \in FrameType
  BY DEF TypeOK
<1>2. Started \in FlushType
  BY <1>1 DEF Started, FlushType
<1>3. ASSUME NEW s \in {"DONE", "ERROR"}
      PROVE  EndJob(s) \in FlushType /\ EndJob(s).state = s
  <2>1. OutcomeAccounted(s) \in BOOLEAN
    BY <1>1 DEF OutcomeAccounted, FrameType
  <2>2. flush.tx \in BOOLEAN
    BY <1>1 DEF FlushType
  <2>. QED BY <2>1, <2>2, IdleFlushType DEF EndJob, FlushType, FlushStates, IdleFlush
<1>4. ConsumedFlush \in FlushType
  BY <1>1, IdleFlushType DEF ConsumedFlush, FlushType
<1>5. SettledFlush \in FlushType
  BY <1>1 DEF SettledFlush, FlushType
<1>6. ASSUME NEW marked PROVE RacedBy(marked) \in FlushType
  BY <1>1 DEF RacedBy, FlushType
<1>7. ASSUME NEW f \in FlushType PROVE JobAfterFailure(f) \in FlushType
  <2>1. \A g \in FlushType : [g EXCEPT !.accounted = TRUE] \in FlushType
    BY DEF FlushType
  <2>. QED BY <1>3, <2>1 DEF JobAfterFailure
<1>. QED BY <1>2, <1>3, <1>4, <1>5, <1>6, <1>7

LEMMA JobTypes ==
  ASSUME NEW d \in [Pages -> SUBSET Cols]
  PROVE  \A f \in Job(d) : f \in FlushType /\ f.state = "SET_COL"
<1>. SUFFICES ASSUME NEW f \in Job(d) PROVE f \in FlushType /\ f.state = "SET_COL"
  OBVIOUS
<1>1. PICK r \in DirtyPages(d) \X DirtyPages(d) :
        f = [IdleFlush EXCEPT !.state = "SET_COL", !.page = r[1], !.last = r[2],
                              !.left = d[r[1]]]
  BY DEF Job
<1>2. r[1] \in Pages /\ r[2] \in Pages /\ d[r[1]] \in SUBSET Cols
  BY DEF DirtyPages
<1>. QED BY <1>1, <1>2, IdleFlushType
        DEF FlushType, FlushStates, FlushPhases, IdleFlush

LEMMA OutcomeTypes ==
  ASSUME TypeOK
  PROVE  /\ HealthWithOutcome(flush) \in HealthType /\ SettledHealth \in HealthType
         /\ PendingWithOutcome(flush) \in Int /\ SettledPending \in Int
<1>1. health \in HealthType /\ panel.initialized \in BOOLEAN /\ pending \in Int
  BY DEF TypeOK, PanelType
<1>. DEFINE done == flush.state = "DONE"
<1>2. done \in BOOLEAN
  OBVIOUS
<1>. HIDE DEF done
<1>3. HealthAfter(health, done, panel.initialized) \in HealthType
  BY <1>1, <1>2, HealthTypes
<1>. QED BY <1>1, <1>3
         DEF done, HealthWithOutcome, SettledHealth, PendingWithOutcome, SettledPending

LEMMA FrameTypes ==
  ASSUME TypeOK
  PROVE  /\ \A f \in FrameType : AbandonedRewrite(f) \in FrameType
         /\ TerminatedFrame \in FrameType
         /\ OnScrollDeactivated \in FrameType
         /\ \A f \in FrameType : InvalidatedFrame(f) \in FrameType
         /\ AfterPage \in [Pages -> SUBSET Cols]
<1>1. frame \in FrameType /\ flush \in FlushType
  BY DEF TypeOK
<1>2. ASSUME NEW f \in FrameType PROVE AbandonedRewrite(f) \in FrameType
  BY DirtyTypes DEF AbandonedRewrite, FrameType
<1>3. [frame EXCEPT !.synced = FALSE] \in FrameType
  BY <1>1 DEF FrameType
<1>4. TerminatedFrame \in FrameType
  BY <1>1, <1>2, <1>3 DEF TerminatedFrame
<1>5. OnScrollDeactivated \in FrameType
  BY <1>1, DirtyTypes DEF OnScrollDeactivated, FrameType
<1>6. ASSUME NEW f \in FrameType PROVE InvalidatedFrame(f) \in FrameType
  BY DEF InvalidatedFrame, FrameType
<1>7. AfterPage \in [Pages -> SUBSET Cols]
  BY <1>1 DEF AfterPage, FrameType, FlushType
<1>. QED BY <1>2, <1>4, <1>5, <1>6, <1>7

LEMMA DeviceTypes ==
  ASSUME NEW d \in DeviceType, NEW step
  PROVE  /\ ApplyDisplayOff(d) \in DeviceType
         /\ ApplyDisplayOn(d) \in DeviceType
         /\ ApplyScrollOn(d) \in DeviceType
         /\ ApplyScrollOff(d) \in DeviceType
         /\ ApplyInitStep(d, step) \in DeviceType
  BY DEF ApplyDisplayOff, ApplyDisplayOn, ApplyScrollOn, ApplyScrollOff, ApplyInitStep,
         DeviceType

-----------------------------------------------------------------------------
\* Type correctness of the flush engine.

\* Whatever the outcome of a transaction of the running job, the job, the dirty
\* record and the controller keep their types (_advanceFlush(), _failFlush()).
LEMMA FailFlushTypes ==
  ASSUME TypeOK, NEW attempted \in BOOLEAN, FailFlush(attempted)
  PROVE  flush' \in FlushType /\ frame' \in FrameType
<1>1. EndJob("ERROR") \in FlushType
  BY FlushTypes
<1>2. flush' \in FlushType
  BY <1>1 DEF FailFlush, FlushType
<1>3. frame' \in FrameType
  BY FrameTypes DEF FailFlush, TypeOK
<1>. QED BY <1>2, <1>3

LEMMA FinishPageTypes ==
  ASSUME TypeOK, NEW sent \in SUBSET Cells, FinishPage(sent)
  PROVE  flush' \in FlushType /\ frame' \in FrameType
<1>. DEFINE rest == {p \in DirtyPages(AfterPage) : flush.page < p /\ p <= flush.last}
<1>1. AfterPage \in [Pages -> SUBSET Cols] /\ frame \in FrameType
  BY FrameTypes DEF TypeOK
<1>. DEFINE complete == ~PageMode /\ sent = Cells
<1>2. complete \in BOOLEAN
  OBVIOUS
<1>. HIDE DEF complete
<1>3. CASE /\ flush' = [EndJob("DONE") EXCEPT !.tx = TRUE]
           /\ frame' = [frame EXCEPT !.dirty = AfterPage, !.synced = @ \/ complete]
  <2>1. EndJob("DONE") \in FlushType
    BY FlushTypes
  <2>. QED BY <1>1, <1>2, <1>3, <2>1 DEF FrameType, FlushType
<1>4. CASE \E p \in rest :
             /\ flush' = [Started EXCEPT !.state = "SET_COL", !.page = p, !.raced = FALSE,
                                         !.left = AfterPage[p], !.sent = sent]
             /\ frame' = [frame EXCEPT !.dirty = AfterPage]
  <2>1. PICK p \in rest :
             /\ flush' = [Started EXCEPT !.state = "SET_COL", !.page = p, !.raced = FALSE,
                                         !.left = AfterPage[p], !.sent = sent]
             /\ frame' = [frame EXCEPT !.dirty = AfterPage]
    BY <1>4
  <2>2. p \in Pages /\ AfterPage[p] \in SUBSET Cols
    BY <1>1 DEF DirtyPages
  <2>3. Started \in FlushType
    BY FlushTypes
  <2>. QED BY <1>1, <2>1, <2>2, <2>3 DEF FrameType, FlushType, FlushStates, FlushPhases
<1>. QED BY <1>3, <1>4 DEF FinishPage, complete

LEMMA FlushTransactionTypes ==
  ASSUME TypeOK, NEW o \in Outcomes, NEW k \in Cols, FlushTransaction(o, k)
  PROVE  flush' \in FlushType /\ frame' \in FrameType /\ device' \in DeviceType
<1>1. flush \in FlushType /\ frame \in FrameType /\ device \in DeviceType
  BY DEF TypeOK
<1>2. Started \in FlushType
  BY FlushTypes
<1>3. CASE SendAddress(o)
  <2>1. CASE o = "OK"
    <3>1. \A s \in {"SET_PAGE", "SEND_DATA"} :
            [Started EXCEPT !.tx = TRUE, !.state = s] \in FlushType
      BY <1>2 DEF FlushType, FlushStates, FlushPhases
    <3>2. Started.state = flush.state
      BY <1>1 DEF Started, FlushType
    <3>3. flush' = [Started EXCEPT !.tx = TRUE,
                      !.state = IF flush.state = "SET_COL" THEN "SET_PAGE" ELSE "SEND_DATA"]
      BY <1>2, <1>3, <2>1, <3>2 DEF SendAddress, FlushType
    <3>. QED BY <1>1, <1>3, <2>1, <3>1, <3>3 DEF SendAddress
  <2>2. CASE o # "OK"
    BY <1>1, <1>3, <2>2, FailFlushTypes DEF SendAddress
  <2>. QED BY <2>1, <2>2
<1>4. CASE SendData(o, k)
  <2>. DEFINE chunk == {c \in flush.left : c <= k}
              now == {flush.page} \X chunk
              sent == flush.sent \cup now
              whole == device.forgot /\ sent # Cells
  <2>1. chunk \in SUBSET Cols /\ now \in SUBSET Cells /\ sent \in SUBSET Cells
    BY <1>1 DEF FlushType, Cells
  <2>2. whole \in BOOLEAN
    BY <1>1 DEF DeviceType
  <2>. HIDE DEF sent, now, whole
  <2>3. CASE o = "OK"
    <3>1. device' = [device EXCEPT !.stale = @ \ now, !.discarded = @ \ now,
                                   !.forgot = whole]
      BY <1>4, <2>3 DEF SendData, sent, now, whole
    <3>2. device' \in DeviceType
      BY <1>1, <2>1, <2>2, <3>1 DEF DeviceType
    <3>3. CASE FinishPage(sent)
      BY <2>1, <3>2, <3>3, FinishPageTypes
    <3>4. CASE flush' = [Started EXCEPT !.left = @ \ chunk, !.sent = sent] /\ UNCHANGED frame
      BY <1>1, <1>2, <2>1, <3>2, <3>4 DEF FlushType
    <3>. QED BY <1>4, <2>3, <3>3, <3>4 DEF SendData, sent, now
  <2>4. CASE o # "OK"
    BY <1>1, <1>4, <2>4, FailFlushTypes DEF SendData
  <2>. QED BY <2>3, <2>4
<1>. QED BY <1>3, <1>4 DEF FlushTransaction

\* requestFlush(), pollFlush() and waitFlush() keep every type.
LEMMA FlushCallTypes ==
  ASSUME TypeOK, FlushCall
  PROVE  TypeOK'
<1>1. /\ panel \in PanelType /\ frame \in FrameType /\ flush \in FlushType
      /\ op \in OpType /\ health \in HealthType /\ device \in DeviceType
      /\ pending \in Int
  BY DEF TypeOK
<1>2. ASSUME PublishJob PROVE health' \in HealthType /\ pending' \in Int
  <2>. DEFINE done == flush'.state = "DONE"
  <2>1. done \in BOOLEAN /\ panel.initialized \in BOOLEAN
    BY <1>1 DEF PanelType
  <2>. HIDE DEF done
  <2>2. HealthAfter(health, done, panel.initialized) \in HealthType
    BY <1>1, <2>1, HealthTypes
  <2>. QED BY <1>1, <1>2, <2>2 DEF PublishJob, done
<1>3. RequestFlush => TypeOK'
  <2>1. frame.dirty \in [Pages -> SUBSET Cols]
    BY <1>1 DEF FrameType
  <2>2. \A f \in Job(frame.dirty) : f \in FlushType
    BY <2>1, JobTypes
  <2>. QED BY <1>1, <2>2, FlushTypes, OutcomeTypes DEF RequestFlush, TypeOK
<1>4. ASSUME NEW late, PollFlushTimeout(late) PROVE TypeOK'
  <2>1. flush' \in FlushType /\ frame' \in FrameType
    BY <1>4, FailFlushTypes DEF PollFlushTimeout
  <2>. QED BY <1>1, <1>2, <1>4, <2>1, PanelTypes DEF PollFlushTimeout, LegacyPoll, TypeOK
<1>5. ASSUME NEW late, PollFlushWaits(late) PROVE TypeOK'
  BY <1>1, <1>5, FlushTypes, PanelTypes DEF PollFlushWaits, LegacyPoll, TypeOK
<1>6. ASSUME NEW late, PollFlushEnded(late) PROVE TypeOK'
  BY <1>1, <1>6, FlushTypes, OutcomeTypes, PanelTypes
     DEF PollFlushEnded, ConsumeTerminalFlush, TypeOK
<1>7. ASSUME NEW late, NEW o \in Outcomes, NEW k \in Cols, PollFlushSends(late, o, k)
      PROVE  TypeOK'
  <2>1. flush' \in FlushType /\ frame' \in FrameType /\ device' \in DeviceType
    BY <1>7, FlushTransactionTypes DEF PollFlushSends
  <2>. QED BY <1>1, <1>2, <1>7, <2>1, PanelTypes DEF PollFlushSends, LegacyPoll, TypeOK
<1>8. WaitFlushGivesUp => TypeOK'
  <2>. DEFINE failed == [EndJob("ERROR") EXCEPT !.tx = flush.tx]
  <2>1. failed \in FlushType
    BY <1>1, FlushTypes DEF FlushType
  <2>. DEFINE forgotten == [IdleFlush EXCEPT !.failed = TRUE]
  <2>2. forgotten \in FlushType
    BY IdleFlushType DEF FlushType
  <2>3. panel.initialized \in BOOLEAN
    BY <1>1 DEF PanelType
  <2>. DEFINE failure == HealthAfter(health, FALSE, panel.initialized)
  <2>4. failure \in HealthType
    BY <1>1, <2>3, HealthTypes
  <2>5. WaitFlushGivesUp => \/ flush' = failed /\ pending' = pending + 1 /\ health' = health
                            \/ /\ flush' = forgotten
                               /\ health' = failure
                               /\ pending' = pending
    BY DEF WaitFlushGivesUp
  <2>6. WaitFlushGivesUp => /\ frame' \in FrameType
                            /\ panel' = panel /\ op' = op /\ device' = device
    BY <1>1, FrameTypes DEF WaitFlushGivesUp
  <2>. HIDE DEF failed, failure, forgotten
  <2>7. WaitFlushGivesUp => /\ flush' \in FlushType /\ health' \in HealthType
                            /\ pending' \in Int
    BY <1>1, <2>1, <2>2, <2>4, <2>5
  <2>. QED BY <1>1, <2>6, <2>7 DEF TypeOK
<1>. QED BY <1>3, <1>4, <1>5, <1>6, <1>7, <1>8 DEF FlushCall, PollFlush

\* A window that is not the last has a successor: its pages start further on.
LEMMA NextWindowExists ==
  ASSUME frame \in FrameType, ~LastWindow
  PROVE  frame.window + 1 \in Windows
<1>1. /\ TotalPages \in Nat /\ PagesPerBuffer \in Nat /\ PagesPerBuffer >= 1
      /\ frame.window \in Nat
  BY ConfigAssumption DEF ConfigAssumption, FrameType, Windows
<1>2. (frame.window + 1) * PagesPerBuffer < TotalPages
  BY <1>1 DEF LastWindow
<1>3. \A n, m \in Nat : m >= 1 => n <= n * m
  <2>. SUFFICES ASSUME NEW n \in Nat, NEW m \in Nat, m >= 1 PROVE n <= n * m
    OBVIOUS
  <2>1. m - 1 \in Nat /\ m = (m - 1) + 1
    OBVIOUS
  <2>2. \A i, j \in Nat : i * j \in Nat
    OBVIOUS
  <2>3. \A i, j \in Int : i * (j + 1) = i * j + i
    BY Z3
  <2>4. n * (m - 1) \in Nat /\ n * m = n * (m - 1) + n
    BY <2>1, <2>2, <2>3
  <2>. QED BY <2>4
<1>4. frame.window + 1 < TotalPages
  BY <1>1, <1>2, <1>3
<1>. QED BY <1>1, <1>4 DEF Windows

\* Drawing, clearing and page-buffer iteration keep every type.
LEMMA FrameCallTypes ==
  ASSUME TypeOK, FrameCall
  PROVE  TypeOK'
<1>1. /\ panel \in PanelType /\ frame \in FrameType /\ flush \in FlushType
      /\ op \in OpType /\ health \in HealthType /\ device \in DeviceType
      /\ pending \in Int /\ frame.dirty \in [Pages -> SUBSET Cols]
      /\ 0 \in Windows
  BY ZeroIsAPage DEF TypeOK, FrameType
<1>2. ASSUME NEW p \in Pages, NEW a \in Cols, NEW b \in Cols, Draw(p, {a, b})
      PROVE  TypeOK'
  <2>1. {a, b} \in SUBSET Cols /\ {p} \X {a, b} \in SUBSET Cells
    BY DEF Cells
  <2>2. MarkDirty(frame.dirty, p, {a, b}) \in [Pages -> SUBSET Cols]
    BY <1>1, <2>1, DirtyTypes
  <2>3. frame' \in FrameType
    BY <1>1, <1>2, <2>2 DEF Draw, FrameType
  <2>4. device' \in DeviceType
    BY <1>1, <1>2, <2>1 DEF Draw, DeviceType
  <2>. QED BY <1>1, <1>2, <2>3, <2>4, FlushTypes DEF Draw, TypeOK
<1>3. DrawAll => TypeOK'
  <2>. DEFINE cells == WindowPages(frame.window) \X Cols
  <2>1. cells \in SUBSET Cells
    BY DEF WindowPages, Cells
  <2>2. DrawAll => frame' \in FrameType
    BY <1>1, DirtyTypes DEF DrawAll, FrameType
  <2>3. DrawAll => device' \in DeviceType
    <3>1. DrawAll => device' = [device EXCEPT !.stale = @ \cup cells,
                                  !.discarded = @ \ cells, !.forgot = @ /\ IsFlushing]
      BY DEF DrawAll
    <3>. HIDE DEF cells
    <3>. QED BY <1>1, <2>1, <3>1 DEF DeviceType
  <2>. QED BY <1>1, <2>2, <2>3, FlushTypes DEF DrawAll, TypeOK
<1>4. ClearDirty => TypeOK'
  <2>1. ClearDirty => frame' \in FrameType
    BY <1>1, DirtyTypes DEF ClearDirty, FrameType
  <2>2. ClearDirty => device' \in DeviceType
    BY <1>1 DEF ClearDirty, DeviceType
  <2>. QED BY <1>1, <2>1, <2>2, FlushTypes, OutcomeTypes DEF ClearDirty, TypeOK
<1>5. FirstPage => TypeOK'
  <2>1. FirstPage => frame' \in FrameType
    <3>1. PageMode \in BOOLEAN
      BY DEF PageMode
    <3>2. NothingDirty \in [Pages -> SUBSET Cols]
      BY DirtyTypes
    <3>. DEFINE before == IF PageMode THEN NothingDirty ELSE frame.dirty
                d == MarkAllDirty(before, 0)
    <3>3. d \in [Pages -> SUBSET Cols]
      <4>1. before \in [Pages -> SUBSET Cols]
        BY <1>1, <3>2
      <4>. HIDE DEF before
      <4>. QED BY <4>1, DirtyTypes
    <3>4. FirstPage => \E paged \in BOOLEAN :
                         frame' = [dirty |-> d, synced |-> FALSE, iterating |-> paged,
                                   window |-> 0]
      BY <3>1 DEF FirstPage
    <3>. HIDE DEF d
    <3>5. \A paged \in BOOLEAN : [dirty |-> d, synced |-> FALSE, iterating |-> paged,
                                  window |-> 0] \in FrameType
      BY <1>1, <3>3 DEF FrameType
    <3>. QED BY <3>4, <3>5
  <2>2. AllStale \in DeviceType
    BY <1>1 DEF AllStale, DeviceType
  <2>. QED BY <1>1, <2>1, <2>2, IdleFlushType, OutcomeTypes DEF FirstPage, TypeOK
<1>6. NextPageReportsFailure => TypeOK'
  <2>1. [IdleFlush EXCEPT !.failed = TRUE] \in FlushType
    BY IdleFlushType DEF FlushType
  <2>. QED BY <1>1, <2>1, OutcomeTypes DEF NextPageReportsFailure, TypeOK
<1>7. NextPageAfterWindow => TypeOK'
  <2>1. [IdleFlush EXCEPT !.failed = flush.failed] \in FlushType
    BY <1>1, IdleFlushType DEF FlushType
  <2>2. [frame EXCEPT !.synced = FALSE] \in FrameType
    BY <1>1 DEF FrameType
  <2>3. [frame EXCEPT !.window = 0, !.iterating = FALSE, !.synced = TRUE] \in FrameType
    BY <1>1 DEF FrameType
  <2>4. ~LastWindow /\ SelectNextWindow => frame' \in FrameType
    <3>. DEFINE w == frame.window + 1
                d == MarkAllDirty(NothingDirty, w)
    <3>1. ~LastWindow => w \in Windows
      BY <1>1, NextWindowExists
    <3>2. d \in [Pages -> SUBSET Cols]
      BY DirtyTypes
    <3>3. SelectNextWindow => frame' = [frame EXCEPT !.window = w, !.dirty = d]
      BY DEF SelectNextWindow
    <3>. HIDE DEF w, d
    <3>. QED BY <1>1, <3>1, <3>2, <3>3 DEF FrameType
  <2>5. SelectNextWindow => device' \in DeviceType
    BY <1>1 DEF SelectNextWindow, DeviceType, WindowPages, Cells
  <2>. QED BY <1>1, <2>1, <2>2, <2>3, <2>4, <2>5, OutcomeTypes
           DEF NextPageAfterWindow, TypeOK
<1>8. NextPageSendsWindow => TypeOK'
  <2>. DEFINE d == MarkAllDirty(frame.dirty, frame.window)
  <2>1. d \in [Pages -> SUBSET Cols]
    BY <1>1, DirtyTypes
  <2>. HIDE DEF d
  <2>2. \A f \in Job(d) : f \in FlushType
    BY <2>1, JobTypes
  <2>3. /\ [frame EXCEPT !.dirty = d, !.iterating = FALSE] \in FrameType
        /\ [frame EXCEPT !.dirty = d] \in FrameType
    BY <1>1, <2>1 DEF FrameType
  <2>. QED BY <1>1, <2>2, <2>3 DEF NextPageSendsWindow, TypeOK, d
<1>. QED BY <1>2, <1>3, <1>4, <1>5, <1>6, <1>7, <1>8 DEF FrameCall, ClearDirtyIfIdle

-----------------------------------------------------------------------------
\* Type correctness of the operation machine.

\* _finishOperation(), a failed and a successful command, _terminateOperation().
LEMMA EndOfOperationTypes ==
  ASSUME TypeOK
  PROVE  /\ \A h \in HealthType, f \in FlushType, touched \in BOOLEAN : \A tx :
              /\ panel' \in PanelType
              /\ FinishOperation(h, f, touched, tx)
              => op' \in OpType /\ health' \in HealthType /\ flush' \in FlushType
         /\ \A o \in Outcomes, prefix \in BOOLEAN :
              CommandFails(o, prefix)
              => op' \in OpType /\ health' \in HealthType /\ flush' \in FlushType
         /\ \A next \in ControlPhases :
              CommandSucceeds(next)
              => op' \in OpType /\ health' \in HealthType /\ flush' \in FlushType
         /\ \A state \in Terminal, p \in PanelType :
              Terminate(state, p) => TypeOK'
<1>1. /\ panel \in PanelType /\ flush \in FlushType /\ op \in OpType
      /\ health \in HealthType /\ op.touched \in BOOLEAN
      /\ panel.initialized \in BOOLEAN
  BY DEF TypeOK, OpType, PanelType
<1>2. ASSUME NEW h \in HealthType, NEW f \in FlushType, NEW touched \in BOOLEAN, NEW tx,
             panel' \in PanelType, FinishOperation(h, f, touched, tx)
      PROVE  op' \in OpType /\ health' \in HealthType /\ flush' \in FlushType
  <2>1. op' \in OpType
    BY <1>2, OpTypes DEF FinishOperation, Terminal, Effects
  <2>2. panel'.initialized \in BOOLEAN
    BY <1>2 DEF PanelType
  <2>3. HealthAfter(h, TRUE, panel'.initialized) \in HealthType
    BY <2>2, HealthTypes
  <2>4. health' \in HealthType
    BY <1>2, <2>3 DEF FinishOperation
  <2>5. flush' \in FlushType
    BY <1>2 DEF FinishOperation, FlushType
  <2>. QED BY <2>1, <2>4, <2>5
<1>3. HealthAfter(health, FALSE, panel.initialized) \in HealthType
  BY <1>1, HealthTypes
<1>4. ASSUME NEW o \in Outcomes, NEW prefix \in BOOLEAN, CommandFails(o, prefix)
      PROVE  op' \in OpType /\ health' \in HealthType /\ flush' \in FlushType
  <2>1. EffectForFailure(o, prefix) \in Effects
    BY DEF EffectForFailure, Effects
  <2>. DEFINE touched == op.touched \/ TookEffect(o)
  <2>2. touched \in BOOLEAN
    BY <1>1 DEF TookEffect
  <2>3. op' = EndOperation("FAILED", EffectForFailure(o, prefix), touched)
    BY <1>4 DEF CommandFails
  <2>. HIDE DEF touched
  <2>4. op' \in OpType
    BY <2>1, <2>2, <2>3, OpTypes DEF Terminal
  <2>5. health' \in HealthType /\ flush' \in FlushType
    BY <1>1, <1>3, <1>4, FlushTypes DEF CommandFails
  <2>. QED BY <2>4, <2>5
<1>5. ASSUME NEW next \in ControlPhases, CommandSucceeds(next)
      PROVE  op' \in OpType /\ health' \in HealthType /\ flush' \in FlushType
  <2>1. CountTx \in 0..TxCap
    BY OpTypes
  <2>2. op' \in OpType
    BY <1>1, <1>5, <2>1 DEF CommandSucceeds, OpType, Effects
  <2>. QED BY <1>1, <1>5, <2>2 DEF CommandSucceeds
<1>6. ASSUME NEW state \in Terminal, NEW p \in PanelType, Terminate(state, p)
      PROVE  TypeOK'
  <2>1. panel' \in PanelType /\ frame' \in FrameType /\ flush' \in FlushType
    BY <1>1, <1>6, PanelTypes, FrameTypes, FlushTypes DEF Terminate
  <2>2. op' \in OpType
    <3>. DEFINE effect == IF op.tx = 0 THEN "NONE" ELSE "PARTIAL"
    <3>1. effect \in Effects /\ op' = EndOperation(state, effect, op.touched)
      BY <1>6 DEF Terminate, Effects
    <3>. HIDE DEF effect
    <3>. QED BY <1>1, <3>1, OpTypes
  <2>3. health' \in HealthType
    BY <1>1, <1>3, <1>6 DEF Terminate
  <2>4. device' = device /\ pending' = pending
    BY <1>6 DEF Terminate
  <2>. QED BY <2>1, <2>2, <2>3, <2>4 DEF TypeOK
<1>. QED BY <1>2, <1>4, <1>5, <1>6

\* start*(): whether the operation is admitted, empty or refused.
LEMMA StartOperationTypes ==
  ASSUME TypeOK, NEW kind \in Kinds, NEW deadline \in BOOLEAN,
         StartOperation(kind, deadline)
  PROVE  TypeOK'
<1>1. /\ op \in OpType /\ panel \in PanelType /\ frame \in FrameType
      /\ device \in DeviceType /\ frame.dirty \in [Pages -> SUBSET Cols]
  BY DEF TypeOK, FrameType
<1>2. op' \in OpType
  BY <1>1, OpTypes DEF StartOperation
<1>3. flush' \in FlushType
  BY <1>1, FlushTypes, JobTypes DEF StartOperation
<1>. QED BY <1>1, <1>2, <1>3, OutcomeTypes DEF StartOperation, TypeOK

\* Each phase of pollOperation(), with every outcome of its transaction.
LEMMA PollInitializeTypes ==
  ASSUME TypeOK, NEW late, NEW o \in Outcomes, PollInitialize(late, o)
  PROVE  TypeOK'
<1>. DEFINE last == op.step + 1 = InitSteps
            fr == [frame EXCEPT !.iterating = FALSE]
            all == MarkAllDirty(frame.dirty, frame.window)
            d == IF TookEffect(o) THEN ApplyInitStep(device, op.step) ELSE device
            prefix == op.tx # 0
            done == [Ticked(late) EXCEPT !.initialized = TRUE, !.sleeping = TRUE,
                       !.scrolling = FALSE, !.power = "OFF", !.guard = "OFF",
                       !.controlDirty = FALSE]
<1>1. /\ panel \in PanelType /\ frame \in FrameType /\ flush \in FlushType
      /\ op \in OpType /\ health \in HealthType /\ device \in DeviceType
      /\ pending' = pending /\ pending \in Int
  BY DEF TypeOK, PollInitialize, Polls
<1>2. Ticked(late) \in PanelType
  BY <1>1, PanelTypes DEF Ticked
<1>3. fr \in FrameType
  BY <1>1 DEF FrameType
<1>4. all \in [Pages -> SUBSET Cols]
  BY <1>1, DirtyTypes DEF FrameType
<1>5. d \in DeviceType
  BY <1>1, DeviceTypes
<1>6. CountTx \in 0..TxCap
  BY OpTypes
<1>7. \/ /\ o # "OK"
         /\ panel' = MarkControlDirty(InvalidatePower(panel))
         /\ frame' = fr /\ device' = d
         /\ CommandFails(o, prefix)
      \/ /\ o = "OK" /\ ~last
         /\ panel' = Ticked(late)
         /\ frame' = fr /\ device' = d
         /\ op' = [op EXCEPT !.step = @ + 1, !.effect = "PARTIAL", !.tx = CountTx,
                             !.touched = TRUE]
         /\ health' = health /\ flush' = flush
      \/ /\ o = "OK" /\ last
         /\ panel' = done
         /\ frame' = [fr EXCEPT !.dirty = all, !.synced = FALSE]
         /\ device' = [d EXCEPT !.forgot = FALSE, !.discarded = {}]
         /\ \/ FinishOperation(health, flush, TRUE, 1)
            \/ /\ flush' \in Job(all)
               /\ op' = [op EXCEPT !.phase = "FLUSH_PHASE", !.effect = "PARTIAL",
                                   !.tx = CountTx, !.touched = TRUE]
               /\ health' = health
  BY DEF PollInitialize
<1>8. prefix \in BOOLEAN
  OBVIOUS
<1>9. done \in PanelType
  BY <1>2 DEF PanelType, Powers, Guards
<1>10. [fr EXCEPT !.dirty = all, !.synced = FALSE] \in FrameType
  BY <1>3, <1>4 DEF FrameType
<1>11. [d EXCEPT !.forgot = FALSE, !.discarded = {}] \in DeviceType
  BY <1>5 DEF DeviceType
<1>12. ~last => [op EXCEPT !.step = @ + 1, !.effect = "PARTIAL", !.tx = CountTx,
                           !.touched = TRUE] \in OpType
  <2>1. op.step \in 0..(InitSteps - 1) /\ InitSteps \in Nat
    BY <1>1, ConfigAssumption DEF OpType, ConfigAssumption
  <2>2. ~last => op.step + 1 \in 0..(InitSteps - 1)
    BY <2>1
  <2>. QED BY <1>1, <1>6, <2>2 DEF OpType, Effects
<1>13. [op EXCEPT !.phase = "FLUSH_PHASE", !.effect = "PARTIAL", !.tx = CountTx,
                  !.touched = TRUE] \in OpType
  BY <1>1, <1>6 DEF OpType, Effects
<1>. HIDE DEF prefix, done, fr, all, d, last
<1>14. CASE /\ o # "OK"
            /\ panel' = MarkControlDirty(InvalidatePower(panel))
            /\ frame' = fr /\ device' = d
            /\ CommandFails(o, prefix)
  <2>1. MarkControlDirty(InvalidatePower(panel)) \in PanelType
    BY <1>1, PanelTypes
  <2>2. op' \in OpType /\ health' \in HealthType /\ flush' \in FlushType
    BY <1>8, <1>14, EndOfOperationTypes
  <2>. QED BY <1>1, <1>3, <1>5, <1>14, <2>1, <2>2 DEF TypeOK
<1>15. CASE /\ ~last
            /\ panel' = Ticked(late)
            /\ frame' = fr /\ device' = d
            /\ op' = [op EXCEPT !.step = @ + 1, !.effect = "PARTIAL", !.tx = CountTx,
                                !.touched = TRUE]
            /\ health' = health /\ flush' = flush
  <2>1. op' \in OpType
    BY <1>12, <1>15
  <2>. QED BY <1>1, <1>2, <1>3, <1>5, <1>15, <2>1 DEF TypeOK
<1>16. CASE /\ panel' = done
            /\ frame' = [fr EXCEPT !.dirty = all, !.synced = FALSE]
            /\ device' = [d EXCEPT !.forgot = FALSE, !.discarded = {}]
            /\ \/ FinishOperation(health, flush, TRUE, 1)
               \/ /\ flush' \in Job(all)
                  /\ op' = [op EXCEPT !.phase = "FLUSH_PHASE", !.effect = "PARTIAL",
                                      !.tx = CountTx, !.touched = TRUE]
                  /\ health' = health
  <2>1. panel' \in PanelType /\ frame' \in FrameType /\ device' \in DeviceType
    BY <1>9, <1>10, <1>11, <1>16
  <2>2. op' \in OpType /\ health' \in HealthType /\ flush' \in FlushType
    <3>1. CASE FinishOperation(health, flush, TRUE, 1)
      BY <1>1, <2>1, <3>1, EndOfOperationTypes
    <3>2. CASE /\ flush' \in Job(all)
               /\ op' = [op EXCEPT !.phase = "FLUSH_PHASE", !.effect = "PARTIAL",
                                   !.tx = CountTx, !.touched = TRUE]
               /\ health' = health
      <4>1. flush' \in FlushType
        BY <1>4, <3>2, JobTypes
      <4>2. op' \in OpType
        BY <1>13, <3>2
      <4>. QED BY <1>1, <3>2, <4>1, <4>2
    <3>. QED BY <1>16, <3>1, <3>2
  <2>. QED BY <1>1, <2>1, <2>2 DEF TypeOK
<1>. QED BY <1>7, <1>14, <1>15, <1>16

LEMMA PollFlushPhaseTypes ==
  ASSUME TypeOK, NEW late
  PROVE  /\ \A o \in Outcomes, k \in Cols : PollFlushPhase(late, o, k) => TypeOK'
         /\ PollFlushPhaseTimeout(late) => TypeOK'
<1>1. /\ panel \in PanelType /\ frame \in FrameType /\ flush \in FlushType
      /\ op \in OpType /\ health \in HealthType /\ device \in DeviceType
      /\ pending \in Int /\ op.touched \in BOOLEAN /\ panel.initialized \in BOOLEAN
  BY DEF TypeOK, OpType, PanelType
<1>2. Ticked(late) \in PanelType
  BY <1>1, PanelTypes DEF Ticked
<1>3. HealthAfter(health, FALSE, panel.initialized) \in HealthType
  BY <1>1, HealthTypes
<1>4. HealthAfter(health, TRUE, panel.initialized) \in HealthType
  BY <1>1, HealthTypes
<1>5. ASSUME NEW o \in Outcomes, NEW k \in Cols, PollFlushPhase(late, o, k)
      PROVE  TypeOK'
  <2>. DEFINE touched == op.touched \/ TookEffect(o)
              prefix == op.tx # 0
              goesOn == [op EXCEPT !.effect = "PARTIAL", !.tx = CountTx, !.touched = touched,
                           !.phase = IF flush'.state = "DONE" THEN "DISPLAY_ON" ELSE @]
  <2>1. flush' \in FlushType /\ frame' \in FrameType /\ device' \in DeviceType
    BY <1>5, FlushTransactionTypes DEF PollFlushPhase
  <2>2. touched \in BOOLEAN /\ prefix \in BOOLEAN
    BY <1>1 DEF TookEffect
  <2>3. \/ op' = EndOperation("FAILED", EffectForFailure(o, prefix), touched)
        \/ op' = EndOperation("SUCCEEDED", "CONFIRMED", touched)
        \/ op' = goesOn
    BY <1>5 DEF PollFlushPhase
  <2>4. EffectForFailure(o, prefix) \in Effects /\ "CONFIRMED" \in Effects
    BY DEF EffectForFailure, Effects
  <2>5. goesOn \in OpType
    <3>. DEFINE phase == IF flush'.state = "DONE" THEN "DISPLAY_ON" ELSE op.phase
    <3>1. /\ phase \in ControlPhases \cup {"IDLE", "FLUSH_PHASE", "COMPLETE"}
          /\ CountTx \in 0..TxCap
      BY <1>1, OpTypes DEF OpType, ControlPhases
    <3>2. goesOn = [op EXCEPT !.effect = "PARTIAL", !.tx = CountTx, !.touched = touched,
                              !.phase = phase]
      BY <1>1 DEF OpType
    <3>. HIDE DEF touched, phase, goesOn
    <3>. QED BY <1>1, <2>2, <3>1, <3>2 DEF OpType, Effects
  <2>. HIDE DEF touched, prefix, goesOn
  <2>6. op' \in OpType
    BY <2>2, <2>3, <2>4, <2>5, OpTypes DEF Terminal
  <2>7. health' \in HealthType
    BY <1>1, <1>3, <1>4, <1>5 DEF PollFlushPhase
  <2>. QED BY <1>1, <1>2, <1>5, <2>1, <2>6, <2>7 DEF PollFlushPhase, Polls, TypeOK
<1>6. ASSUME PollFlushPhaseTimeout(late) PROVE TypeOK'
  <2>1. flush' \in FlushType /\ frame' \in FrameType
    BY <1>6, FailFlushTypes DEF PollFlushPhaseTimeout
  <2>2. op' \in OpType
    <3>. DEFINE effect == IF op.tx = 0 THEN "NONE" ELSE "PARTIAL"
    <3>1. effect \in Effects /\ op' = EndOperation("FAILED", effect, op.touched)
      BY <1>6 DEF PollFlushPhaseTimeout, Effects
    <3>. HIDE DEF effect
    <3>. QED BY <1>1, <3>1, OpTypes DEF Terminal
  <2>3. health' \in HealthType
    BY <1>1, <1>3, <1>6 DEF PollFlushPhaseTimeout
  <2>. QED BY <1>1, <1>2, <1>6, <2>1, <2>2, <2>3 DEF PollFlushPhaseTimeout, Polls, TypeOK
<1>. QED BY <1>5, <1>6

LEMMA PollCommandTypes ==
  ASSUME TypeOK, NEW late, NEW o \in Outcomes,
         \/ PollDisplayOff(late, o)
         \/ PollChargePumpOff(late, o)
         \/ PollDisplayOn(late, o)
         \/ PollScrollDeactivate(late, o)
         \/ PollScrollConfigure(late, o)
         \/ PollScrollActivate(late, o)
  PROVE  TypeOK'
<1>. DEFINE prefix == op.tx # 0
            unborn == [health EXCEPT !.state = "UNINIT"]
<1>1. /\ panel \in PanelType /\ frame \in FrameType /\ flush \in FlushType
      /\ op \in OpType /\ health \in HealthType /\ device \in DeviceType
      /\ pending' = pending /\ pending \in Int
  BY DEF TypeOK, Polls, PollDisplayOff, PollChargePumpOff, PollDisplayOn,
         PollScrollDeactivate, PollScrollConfigure, PollScrollActivate
<1>2. Ticked(late) \in PanelType /\ DisplayIsOff(Ticked(late)) \in PanelType
  BY <1>1, PanelTypes DEF Ticked
<1>3. prefix \in BOOLEAN
  OBVIOUS
<1>4. unborn \in HealthType
  BY <1>1 DEF HealthType
<1>5. \A p \in PanelType : MarkControlDirty(p) \in PanelType
  BY DEF MarkControlDirty, PanelType
<1>6. /\ MarkControlDirty(InvalidatePower(panel)) \in PanelType
      /\ MarkControlDirty(Ticked(late)) \in PanelType
  BY <1>1, <1>2, <1>5, PanelTypes
<1>7. \A p \in PanelType :
        /\ [p EXCEPT !.initialized = FALSE] \in PanelType
        /\ [p EXCEPT !.initialized = FALSE, !.power = "OFF"] \in PanelType
        /\ \A power \in Powers :
             [p EXCEPT !.sleeping = FALSE, !.power = power] \in PanelType
        /\ [p EXCEPT !.sleeping = FALSE, !.power = "ON", !.guard = "READY"] \in PanelType
        /\ \A scrolling \in BOOLEAN : [p EXCEPT !.scrolling = scrolling] \in PanelType
  BY DEF PanelType, Powers, Guards
<1>8. panel' \in PanelType
  BY <1>2, <1>6, <1>7 DEF PollDisplayOff, PollChargePumpOff, PollDisplayOn,
     PollScrollDeactivate, PollScrollConfigure, PollScrollActivate, Powers
<1>9. frame' \in FrameType
  BY <1>1, FrameTypes DEF PollDisplayOff, PollChargePumpOff, PollDisplayOn,
     PollScrollDeactivate, PollScrollConfigure, PollScrollActivate
<1>10. device' \in DeviceType
  BY <1>1, DeviceTypes DEF PollDisplayOff, PollChargePumpOff, PollDisplayOn,
     PollScrollDeactivate, PollScrollConfigure, PollScrollActivate
<1>11. \/ CommandFails(o, prefix) \/ CommandFails(o, TRUE)
       \/ \E next \in ControlPhases : CommandSucceeds(next)
       \/ FinishOperation(health, flush, TRUE, 1)
       \/ FinishOperation(unborn, flush, TRUE, 1)
  BY DEF PollDisplayOff, PollChargePumpOff, PollDisplayOn, PollScrollDeactivate,
         PollScrollConfigure, PollScrollActivate, ControlPhases
<1>. HIDE DEF prefix, unborn
<1>12. op' \in OpType /\ health' \in HealthType /\ flush' \in FlushType
  BY <1>1, <1>3, <1>4, <1>8, <1>11, EndOfOperationTypes
<1>. QED BY <1>1, <1>8, <1>9, <1>10, <1>12 DEF TypeOK

\* The remaining polls, and the calls that end, cancel or take an operation.
LEMMA OperationCallTypes ==
  ASSUME TypeOK, OperationCall
  PROVE  TypeOK'
<1>1. /\ panel \in PanelType /\ frame \in FrameType /\ flush \in FlushType
      /\ op \in OpType /\ health \in HealthType /\ device \in DeviceType
      /\ pending \in Int /\ op.touched \in BOOLEAN
  BY DEF TypeOK, OpType
<1>2. \A late : Ticked(late) \in PanelType
  BY <1>1, PanelTypes DEF Ticked
<1>3. ASSUME NEW late, PollDeadline(late) PROVE TypeOK'
  BY <1>2, <1>3, EndOfOperationTypes DEF PollDeadline, Terminal
<1>4. CancelOperation \/ BlockingOperationStalls => TypeOK'
  BY <1>1, EndOfOperationTypes DEF CancelOperation, BlockingOperationStalls, Terminal
<1>5. TakeOperationResult => TypeOK'
  BY <1>1, OpTypes DEF TakeOperationResult, TypeOK
<1>6. ASSUME NEW late, PollEmptyFlush(late) PROVE TypeOK'
  <2>1. panel' \in PanelType
    BY <1>2, <1>6 DEF PollEmptyFlush
  <2>2. op' \in OpType /\ health' \in HealthType /\ flush' \in FlushType
    BY <1>1, <1>6, <2>1, EndOfOperationTypes DEF PollEmptyFlush
  <2>. QED BY <1>1, <1>6, <2>1, <2>2 DEF PollEmptyFlush, Polls, TypeOK
<1>7. ASSUME NEW late, PollDisplayOnRejected(late) PROVE TypeOK'
  <2>. DEFINE effect == IF op.tx = 0 THEN "NONE" ELSE "PARTIAL"
  <2>1. effect \in Effects /\ op' = EndOperation("FAILED", effect, op.touched)
    BY <1>7 DEF PollDisplayOnRejected, Effects
  <2>. HIDE DEF effect
  <2>2. op' \in OpType
    BY <1>1, <2>1, OpTypes DEF Terminal
  <2>. QED BY <1>1, <1>2, <1>7, <2>2, FlushTypes DEF PollDisplayOnRejected, Polls, TypeOK
<1>8. ASSUME NEW late, PollDelayStarts(late) PROVE TypeOK'
  <2>1. op' \in OpType
    BY <1>1, <1>8 DEF PollDelayStarts, OpType
  <2>. QED BY <1>1, <1>2, <1>8, <2>1 DEF PollDelayStarts, TypeOK
<1>9. ASSUME NEW late, PollDelayEnds(late) PROVE TypeOK'
  <2>1. panel' \in PanelType
    BY <1>2, <1>9 DEF PollDelayEnds, PanelType, Powers, Guards
  <2>2. op' \in OpType /\ health' \in HealthType /\ flush' \in FlushType
    BY <1>1, <1>9, <2>1, EndOfOperationTypes DEF PollDelayEnds
  <2>. QED BY <1>1, <1>9, <2>1, <2>2 DEF PollDelayEnds, TypeOK
<1>. QED BY <1>3, <1>4, <1>5, <1>6, <1>7, <1>8, <1>9, StartOperationTypes,
            PollInitializeTypes, PollFlushPhaseTypes, PollCommandTypes
         DEF OperationCall, PollOperation

-----------------------------------------------------------------------------
\* Type correctness of the direct commands and of the lifecycle.

LEMMA TrackedWriteTypes ==
  ASSUME TypeOK, NEW o \in Outcomes, TrackedWrite(o)
  PROVE  /\ health' \in HealthType /\ pending' \in Int
         /\ flush' \in FlushType /\ op' \in OpType
<1>. DEFINE ok == o = "OK"
<1>1. ok \in BOOLEAN /\ panel.initialized \in BOOLEAN
  BY DEF TypeOK, PanelType
<1>2. health' = HealthAfter(SettledHealth, ok, panel.initialized)
  BY DEF TrackedWrite
<1>. HIDE DEF ok
<1>3. health' \in HealthType
  BY <1>1, <1>2, HealthTypes, OutcomeTypes
<1>4. pending' \in Int /\ flush' \in FlushType /\ op' \in OpType
  BY FlushTypes, OutcomeTypes DEF TrackedWrite, TypeOK
<1>. QED BY <1>3, <1>4

LEMMA ControlCallTypes ==
  ASSUME TypeOK, ControlCall
  PROVE  TypeOK'
<1>1. /\ panel \in PanelType /\ frame \in FrameType /\ flush \in FlushType
      /\ op \in OpType /\ health \in HealthType /\ device \in DeviceType
      /\ pending \in Int /\ op.touched \in BOOLEAN
  BY DEF TypeOK, OpType
<1>2. /\ \A p \in PanelType : MarkControlDirty(p) \in PanelType
      /\ InvalidatePower(panel) \in PanelType
      /\ DisplayIsOff(panel) \in PanelType
      /\ Invalidated(panel) \in PanelType
      /\ \A late : Ticked(late) \in PanelType
  BY <1>1, PanelTypes DEF Ticked
<1>3. AllStale \in DeviceType
  BY <1>1 DEF AllStale, DeviceType
<1>4. ASSUME NEW o \in Outcomes, SetRegister(o) PROVE TypeOK'
  BY <1>1, <1>2, <1>4, TrackedWriteTypes DEF SetRegister, AfterSetter, TypeOK
<1>5. ASSUME NEW o \in Outcomes, NEW changed \in BOOLEAN, SetFlipX(o, changed)
      PROVE  TypeOK'
  <2>1. frame' \in FrameType
    <3>. DEFINE d == MarkAllDirty(frame.dirty, frame.window)
    <3>1. d \in [Pages -> SUBSET Cols]
      BY <1>1, DirtyTypes DEF FrameType
    <3>2. frame' = frame \/ frame' = [frame EXCEPT !.synced = FALSE, !.dirty = d]
      BY <1>5 DEF SetFlipX
    <3>. HIDE DEF d
    <3>. QED BY <1>1, <3>1, <3>2 DEF FrameType
  <2>. QED BY <1>1, <1>2, <1>3, <1>5, <2>1, TrackedWriteTypes
           DEF SetFlipX, AfterSetter, TypeOK
<1>6. ASSUME NEW o \in Outcomes, StopScroll(o) PROVE TypeOK'
  <2>1. [panel EXCEPT !.scrolling = FALSE] \in PanelType
    BY <1>1 DEF PanelType
  <2>2. panel' \in PanelType
    BY <1>1, <1>2, <1>6, <2>1 DEF StopScroll
  <2>3. frame' \in FrameType /\ device' \in DeviceType
    BY <1>1, <1>6, FrameTypes, DeviceTypes DEF StopScroll
  <2>. QED BY <1>1, <1>6, <2>2, <2>3, TrackedWriteTypes DEF StopScroll, TypeOK
<1>7. ASSUME NEW o \in Outcomes, SleepNow(o) PROVE TypeOK'
  <2>1. panel' \in PanelType /\ device' \in DeviceType
    BY <1>1, <1>2, <1>7, DeviceTypes DEF SleepNow
  <2>. QED BY <1>1, <1>7, <2>1, TrackedWriteTypes DEF SleepNow, TypeOK
<1>8. ASSUME NEW o \in Outcomes, WakeNow(o) PROVE TypeOK'
  <2>1. AwokenPanel \in PanelType
    BY <1>1 DEF AwokenPanel, PanelType, Powers, Guards
  <2>2. panel' \in PanelType /\ device' \in DeviceType
    BY <1>1, <1>2, <1>8, <2>1, DeviceTypes DEF WakeNow
  <2>. QED BY <1>1, <1>8, <2>2, TrackedWriteTypes DEF WakeNow, TypeOK
<1>9. ASSUME NEW o \in Outcomes, SendRawCommand(o) PROVE TypeOK'
  <2>1. panel' \in PanelType
    BY <1>1, <1>2, <1>9 DEF SendRawCommand, AfterRawFailure
  <2>2. frame' \in FrameType
    BY <1>1, <1>9, FrameTypes DEF SendRawCommand
  <2>3. device' \in DeviceType
    BY <1>1, <1>9 DEF SendRawCommand, DeviceType
  <2>. QED BY <1>1, <1>9, <2>1, <2>2, <2>3, TrackedWriteTypes DEF SendRawCommand, TypeOK
<1>10. ASSUME NEW late, TickPanelGuard(late) PROVE TypeOK'
  BY <1>1, <1>2, <1>10 DEF TickPanelGuard, TypeOK
<1>11. ASSUME NEW really \in BOOLEAN, PanelReset(really) PROVE TypeOK'
  <2>1. panel' \in PanelType /\ frame' \in FrameType
    BY <1>1, <1>2, <1>11, FrameTypes DEF PanelReset, InvalidatePanelState
  <2>2. device' \in DeviceType
    BY <1>1, <1>3, <1>11 DEF PanelReset, DeviceType
  <2>3. op' \in OpType
    <3>. DEFINE effect == IF op.tx = 0 THEN "NONE" ELSE "PARTIAL"
    <3>1. /\ effect \in Effects
          /\ op' = op \/ op' = EndOperation("CANCELLED", effect, op.touched)
      BY <1>11 DEF PanelReset, InvalidatePanelState, Effects
    <3>. HIDE DEF effect
    <3>. QED BY <1>1, <3>1, OpTypes DEF Terminal
  <2>4. flush' \in FlushType
    <3>. DEFINE dropped == [EndJob("ERROR") EXCEPT !.accounted = TRUE]
    <3>1. dropped \in FlushType
      BY FlushTypes DEF FlushType
    <3>2. \/ flush' = JobAfterFailure(flush)
          \/ flush' = dropped
          \/ flush' = SettledFlush
      BY <1>11 DEF PanelReset, InvalidatePanelState
    <3>. HIDE DEF dropped
    <3>. QED BY <1>1, <3>1, <3>2, FlushTypes
  <2>5. health' \in HealthType /\ pending' \in Int
    BY <1>1, <1>11, OutcomeTypes DEF PanelReset, InvalidatePanelState
  <2>. QED BY <2>1, <2>2, <2>3, <2>4, <2>5 DEF TypeOK
<1>. QED BY <1>4, <1>5, <1>6, <1>7, <1>8, <1>9, <1>10, <1>11 DEF ControlCall

LEMMA LifecycleTypes ==
  /\ Init => TypeOK
  /\ TypeOK /\ Lifecycle => TypeOK'
<1>1. DetachedPanel \in PanelType
  BY DEF DetachedPanel, PanelType, Powers, Guards
<1>2. DetachedFrame \in FrameType
  BY DirtyTypes, ZeroIsAPage DEF DetachedFrame, FrameType
<1>3. NewHealth \in HealthType
  BY ConfigAssumption DEF NewHealth, HealthType, ConfigAssumption
<1>4. NoOperation \in OpType
  BY ConfigAssumption DEF NoOperation, OpType, ControlPhases, Effects, Kinds, Terminal,
     TxCap, ConfigAssumption
<1>5. ASSUME Init PROVE TypeOK
  <2>1. device \in DeviceType
    BY <1>5 DEF Init, DeviceType
  <2>2. /\ panel = DetachedPanel /\ frame = DetachedFrame /\ flush = IdleFlush
        /\ op = NoOperation /\ health = NewHealth /\ pending \in Int
    BY <1>5 DEF Init
  <2>. QED BY <1>1, <1>2, <1>3, <1>4, <2>1, <2>2, IdleFlushType DEF TypeOK
<1>6. TypeOK => AllStale \in DeviceType
  BY DEF AllStale, DeviceType, TypeOK
<1>7. TypeOK /\ Detach => TypeOK'
  BY <1>1, <1>2, <1>3, <1>4, <1>6, IdleFlushType DEF Detach, TypeOK
<1>8. ASSUME TypeOK, Attach PROVE TypeOK'
  <2>. DEFINE d == MarkAllDirty(NothingDirty, 0)
              boundPanel == [DetachedPanel EXCEPT !.attached = TRUE]
              fullFrame == [DetachedFrame EXCEPT !.dirty = d]
  <2>1. d \in [Pages -> SUBSET Cols]
    BY DirtyTypes
  <2>2. boundPanel \in PanelType
    BY <1>1 DEF PanelType
  <2>. HIDE DEF d
  <2>3. fullFrame \in FrameType
    BY <1>2, <2>1 DEF FrameType
  <2>4. /\ panel' = boundPanel /\ frame' = fullFrame
        /\ flush' = IdleFlush /\ health' = NewHealth
        /\ device' = AllStale /\ pending' = 0 /\ op' = op
    BY <1>8 DEF Attach, d
  <2>5. op \in OpType /\ AllStale \in DeviceType
    BY <1>6, <1>8 DEF TypeOK
  <2>. HIDE DEF boundPanel, fullFrame
  <2>. QED BY <1>3, <2>2, <2>3, <2>4, <2>5, IdleFlushType DEF TypeOK
<1>. QED BY <1>5, <1>7, <1>8 DEF Lifecycle

\* Every call, poll and transaction of the driver keeps every variable in its
\* type, whatever the geometry, the configuration and the outcomes of the bus.
THEOREM TypeCorrect == Spec => []TypeOK
<1>1. Init => TypeOK
  BY LifecycleTypes
<1>2. TypeOK /\ [Next]_vars => TypeOK'
  <2>1. TypeOK /\ Next => TypeOK'
    BY LifecycleTypes, OperationCallTypes, FlushCallTypes, FrameCallTypes, ControlCallTypes
       DEF Next
  <2>2. TypeOK /\ UNCHANGED vars => TypeOK'
    BY DEF vars, TypeOK
  <2>. QED BY <2>1, <2>2
<1>. QED BY <1>1, <1>2, PTL DEF Spec

-----------------------------------------------------------------------------
LEMMA PollsAreOfActive == \A late : PollOperation(late) => OperationActive
<1>. SUFFICES ASSUME NEW late, PollOperation(late) PROVE OperationActive
  OBVIOUS
<1>1. ASSUME NEW o \in Outcomes,
             \/ PollInitialize(late, o)
             \/ PollDisplayOff(late, o)
             \/ PollChargePumpOff(late, o)
             \/ PollDisplayOn(late, o)
             \/ PollScrollDeactivate(late, o)
             \/ PollScrollConfigure(late, o)
             \/ PollScrollActivate(late, o)
             \/ \E k \in Cols : PollFlushPhase(late, o, k)
      PROVE  OperationActive
  BY <1>1 DEF Polls, PollInitialize, PollDisplayOff, PollChargePumpOff, PollDisplayOn,
     PollScrollDeactivate, PollScrollConfigure, PollScrollActivate, PollFlushPhase
<1>. QED BY <1>1 DEF PollOperation, Polls, PollDeadline, PollFlushPhaseTimeout,
        PollEmptyFlush, PollDisplayOnRejected, PollDelayStarts, PollDelayEnds

\* An operation's result is never lost or overwritten: no call but the owner's
\* takeOperationResult() and detach() changes it (_checkDirectI2cAdmission(),
\* and the admission of every start*()).
THEOREM ResultIsKept == Spec => ResultKept
<1>1. ASSUME OperationResultReady, Next PROVE op' = op \/ op' = NoOperation
  <2>1. ~OperationActive
    BY <1>1 DEF OperationResultReady, OperationActive, Terminal
  <2>2. Lifecycle => op' = op \/ op' = NoOperation
    BY DEF Lifecycle, Attach, Detach
  <2>3. OperationCall => op' = op \/ op' = NoOperation
    BY <1>1, <2>1, PollsAreOfActive
       DEF OperationCall, StartOperation, OperationAdmitted, LegacyOwner,
           CancelOperation, BlockingOperationStalls, TakeOperationResult
  <2>4. FlushCall => op' = op
    BY DEF FlushCall, RequestFlush, PollFlush, PollFlushTimeout, PollFlushWaits,
           PollFlushEnded, PollFlushSends, LegacyPoll, WaitFlushGivesUp
  <2>5. FrameCall => op' = op
    BY DEF FrameCall, Draw, DrawAll, ClearDirty, ClearDirtyIfIdle, FirstPage,
           NextPageReportsFailure, NextPageAfterWindow, NextPageSendsWindow
  <2>6. ControlCall => op' = op
    BY <2>1
       DEF ControlCall, SetRegister, SetFlipX, StopScroll, SleepNow, WakeNow,
           SendRawCommand, TrackedWrite, TickPanelGuard, PanelReset, InvalidatePanelState
  <2>. QED BY <1>1, <2>2, <2>3, <2>4, <2>5, <2>6 DEF Next
<1>2. [Next]_vars => (OperationResultReady => op' = op \/ op' = NoOperation)
  BY <1>1 DEF vars
<1>3. [Next]_vars => [OperationResultReady => op' = op \/ op' = NoOperation]_vars
  BY <1>2
<1>. QED BY <1>3, PTL DEF Spec, ResultKept

-----------------------------------------------------------------------------
\* The inductive invariant behind the power claims.

\* Which operations go through which phase.
PhaseOfKind(o) ==
  /\ o.phase = "INITIALIZE_COMMAND" => o.kind \in {"INITIALIZE", "RESYNC"}
  /\ o.phase \in {"DISPLAY_ON", "DISPLAY_ON_DELAY"} => o.kind \in {"WAKE", "RESYNC"}
  /\ o.phase = "FLUSH_PHASE" => o.kind \in {"FLUSH", "RESYNC"}

\* PowerModel of a panel p while the operation is in the given phase.
PowerModelOf(p, phase) ==
  /\ p.guard = "READY" <=> p.power = "ON"
  /\ p.guard = "INIT_DELAY" => p.power = "STARTING" /\ ~p.sleeping
  /\ p.power = "STARTING" => p.guard = "INIT_DELAY" \/ phase = "DISPLAY_ON_DELAY"
  /\ p.initialized /\ p.power = "UNKNOWN" => p.controlDirty

\* PowerDuringOperation of a panel p and an operation o.
PowerDuring(p, o) ==
  /\ o.phase \in ControlPhases \cup {"FLUSH_PHASE"} => o.state = "ACTIVE"
  /\ o.phase \in {"DISPLAY_ON", "CHARGE_PUMP_OFF"} => p.power = "OFF"
  /\ o.kind = "RESYNC" /\ o.phase = "FLUSH_PHASE" => p.power = "OFF"
  /\ o.phase = "DISPLAY_ON_DELAY" =>
       /\ p.power = "STARTING" /\ p.guard = "OFF"
       /\ o.kind \in {"WAKE", "RESYNC"} /\ o.tx # 0

PowerSafe(p, o) == PowerModelOf(p, o.phase) /\ PowerDuring(p, o) /\ PhaseOfKind(o)

PowerInv == TypeOK /\ PowerSafe(panel, op)

LEMMA PowerInvImplies == PowerInv => PowerModel /\ PowerDuringOperation
  BY DEF PowerInv, PowerSafe, PowerModelOf, PowerDuring, PowerModel, PowerDuringOperation,
         InFlushPhase, OperationActive

\* Phases in which no control command and no data of an operation is due.
QuietPhases == {"IDLE", "COMPLETE"}

LEMMA QuietOperation ==
  ASSUME PowerInv
  PROVE  /\ op.state # "ACTIVE" => op.phase \in QuietPhases
         /\ \A o \in OpType, p \in PanelType :
              o.phase \in QuietPhases /\ PowerModelOf(p, "IDLE") => PowerSafe(p, o)
         /\ \A phase : phase # "DISPLAY_ON_DELAY" =>
              \A p : PowerModelOf(p, phase) <=> PowerModelOf(p, "IDLE")
<1>1. op.state # "ACTIVE" => op.phase \in QuietPhases
  BY DEF PowerInv, PowerSafe, PowerDuring, TypeOK, OpType, QuietPhases
<1>2. ASSUME NEW o \in OpType, NEW p \in PanelType, o.phase \in QuietPhases,
             PowerModelOf(p, "IDLE")
      PROVE  PowerSafe(p, o)
  BY <1>2 DEF PowerSafe, PowerModelOf, PowerDuring, PhaseOfKind, QuietPhases, ControlPhases
<1>3. \A phase : phase # "DISPLAY_ON_DELAY" =>
        \A p : PowerModelOf(p, phase) <=> PowerModelOf(p, "IDLE")
  BY DEF PowerModelOf
<1>. QED BY <1>1, <1>2, <1>3

\* The clock sample of a poll keeps the model: it only ends a guard that runs.
LEMMA TickedPower ==
  ASSUME NEW p \in PanelType, NEW late, NEW phase, PowerModelOf(p, phase)
  PROVE  /\ PowerModelOf(TickPowerOn(p, late), phase)
         /\ p.guard # "INIT_DELAY" => TickPowerOn(p, late) = p
         /\ p.power = "OFF" => TickPowerOn(p, late) = p
  BY DEF PowerModelOf, TickPowerOn, PanelType, Powers, Guards

\* What the panel helpers make of a panel that fits the model.
LEMMA PanelPower ==
  ASSUME NEW p \in PanelType, NEW phase, PowerModelOf(p, phase)
  PROVE  /\ PowerModelOf(MarkControlDirty(p), phase)
         /\ PowerModelOf(MarkControlDirty(InvalidatePower(p)), "IDLE")
         /\ PowerModelOf(Invalidated(p), "IDLE")
         /\ PowerModelOf(DisplayIsOff(p), "IDLE")
         /\ \A scrolling \in BOOLEAN :
              PowerModelOf([p EXCEPT !.scrolling = scrolling], phase)
  BY DEF PowerModelOf, MarkControlDirty, InvalidatePower, Invalidated, DisplayIsOff,
         PanelType, Powers, Guards

\* What ends an operation leaves it in no phase.
LEMMA EndedOperation ==
  \A state, effect, touched :
    /\ EndOperation(state, effect, touched).phase \in QuietPhases
    /\ EndOperation(state, effect, touched).state = state
BY DEF EndOperation, NoOperation, QuietPhases

LEMMA CommandEndsOperation ==
  /\ \A o, prefix : CommandFails(o, prefix) => op'.phase \in QuietPhases
  /\ \A h, f, touched, tx :
       FinishOperation(h, f, touched, tx) => op'.phase \in QuietPhases
<1>1. ASSUME NEW o, NEW prefix, CommandFails(o, prefix) PROVE op'.phase \in QuietPhases
  <2>. DEFINE touched == op.touched \/ TookEffect(o)
              effect == EffectForFailure(o, prefix)
  <2>1. op' = EndOperation("FAILED", effect, touched)
    BY <1>1 DEF CommandFails
  <2>. HIDE DEF touched, effect
  <2>. QED BY <2>1, EndedOperation
<1>2. \A h, f, touched, tx :
        FinishOperation(h, f, touched, tx) => op'.phase \in QuietPhases
  BY EndedOperation DEF FinishOperation
<1>. QED BY <1>1, <1>2

LEMMA EndedIsSafe ==
  ASSUME TypeOK', PowerModelOf(panel', "IDLE"), op'.phase \in QuietPhases
  PROVE  PowerSafe(panel', op')
BY DEF PowerSafe, PowerModelOf, PowerDuring, PhaseOfKind, QuietPhases, ControlPhases

\* Starting an operation: a wake is admitted only on a panel known to be off.
LEMMA StartIsPowerSafe ==
  ASSUME PowerInv, NEW kind \in Kinds, NEW deadline \in BOOLEAN,
         StartOperation(kind, deadline)
  PROVE  PowerSafe(panel', op')
<1>1. panel' = panel /\ panel \in PanelType /\ op \in OpType /\ op.state # "ACTIVE"
  BY DEF StartOperation, OperationAdmitted, LegacyOwner, OperationActive, PowerInv, TypeOK
<1>2. op.phase \in QuietPhases
  BY <1>1, QuietOperation
<1>3. PowerModelOf(panel, "IDLE")
  BY <1>2 DEF PowerInv, PowerSafe, PowerModelOf, QuietPhases
<1>4. CASE op' = op
  BY <1>1, <1>4 DEF PowerInv
<1>5. CASE op' = NewOperation(kind, deadline)
  <2>1. kind = "WAKE" => panel.power = "OFF"
    BY DEF StartOperation, OperationAdmitted
  <2>2. op'.kind = kind /\ op'.state = "ACTIVE" /\ op'.phase = FirstPhase(kind)
    BY <1>5 DEF NewOperation, NoOperation
  <2>3. /\ FirstPhase(kind) # "DISPLAY_ON_DELAY" /\ FirstPhase(kind) # "CHARGE_PUMP_OFF"
        /\ FirstPhase(kind) = "DISPLAY_ON" => kind = "WAKE"
        /\ FirstPhase(kind) = "FLUSH_PHASE" => kind = "FLUSH"
        /\ FirstPhase(kind) = "INITIALIZE_COMMAND" => kind \in {"INITIALIZE", "RESYNC"}
    BY DEF FirstPhase, Kinds
  <2>. QED BY <1>1, <1>3, <2>1, <2>2, <2>3
           DEF PowerSafe, PowerModelOf, PowerDuring, PhaseOfKind
<1>. QED BY <1>4, <1>5 DEF StartOperation

\* Cancellation, deadline and stall: a started panel is not left STARTING.
LEMMA TerminateIsPowerSafe ==
  ASSUME PowerInv, OperationActive, NEW state \in Terminal, NEW p \in PanelType,
         PowerModelOf(p, op.phase), Terminate(state, p)
  PROVE  PowerSafe(panel', op')
<1>1. TypeOK'
  BY EndOfOperationTypes DEF PowerInv
<1>2. op'.phase \in QuietPhases
  BY EndedOperation DEF Terminate
<1>3. op.phase = "DISPLAY_ON_DELAY" => op.kind \in {"WAKE", "RESYNC"} /\ op.tx # 0
  BY DEF PowerInv, PowerSafe, PowerDuring
<1>4. CASE op.phase = "DISPLAY_ON_DELAY"
  BY <1>1, <1>2, <1>3, <1>4, EndedIsSafe, PanelPower
     DEF Terminate, TerminatedPanel, ControlSequence
<1>5. CASE op.phase # "DISPLAY_ON_DELAY"
  <2>1. PowerModelOf(p, "IDLE")
    BY <1>5 DEF PowerModelOf
  <2>2. PowerModelOf(TerminatedPanel(p), "IDLE")
    BY <2>1, PanelPower DEF TerminatedPanel
  <2>. QED BY <1>1, <1>2, <2>2, EndedIsSafe DEF Terminate
<1>. QED BY <1>4, <1>5

\* The poll that sends: the init sequence, the frame of a resync, the commands.
LEMMA PollInitializeIsPowerSafe ==
  ASSUME PowerInv, NEW late, NEW o \in Outcomes, PollInitialize(late, o)
  PROVE  PowerSafe(panel', op')
<1>1. /\ TypeOK' /\ panel \in PanelType /\ op \in OpType
      /\ op.phase = "INITIALIZE_COMMAND" /\ op.state = "ACTIVE"
      /\ op.kind \in {"INITIALIZE", "RESYNC"}
  BY PollInitializeTypes
     DEF PowerInv, PowerSafe, PhaseOfKind, TypeOK, PollInitialize, Polls, OperationActive
<1>2. PowerModelOf(panel, op.phase) /\ PowerModelOf(panel, "IDLE")
  BY <1>1, QuietOperation DEF PowerInv, PowerSafe
<1>3. Ticked(late) \in PanelType /\ PowerModelOf(Ticked(late), "IDLE")
  BY <1>1, <1>2, TickedPower, PanelTypes DEF Ticked
<1>4. CASE o # "OK"
  <2>. DEFINE prefix == op.tx # 0
  <2>1. panel' = MarkControlDirty(InvalidatePower(panel)) /\ CommandFails(o, prefix)
    BY <1>4 DEF PollInitialize
  <2>. HIDE DEF prefix
  <2>2. op'.phase \in QuietPhases
    BY <2>1, CommandEndsOperation
  <2>. QED BY <1>1, <1>2, <2>1, <2>2, EndedIsSafe, PanelPower
<1>5. CASE o = "OK" /\ op.step + 1 # InitSteps
  <2>1. /\ panel' = Ticked(late)
        /\ op' = [op EXCEPT !.step = @ + 1, !.effect = "PARTIAL", !.tx = CountTx,
                            !.touched = TRUE]
    BY <1>5 DEF PollInitialize
  <2>2. op'.phase = op.phase /\ op'.state = op.state /\ op'.kind = op.kind
    BY <1>1, <2>1 DEF OpType
  <2>. QED BY <1>1, <1>3, <2>1, <2>2 DEF PowerSafe, PowerModelOf, PowerDuring, PhaseOfKind
<1>6. CASE o = "OK" /\ op.step + 1 = InitSteps
  <2>1. panel' = [Ticked(late) EXCEPT !.initialized = TRUE, !.sleeping = TRUE,
                    !.scrolling = FALSE, !.power = "OFF", !.guard = "OFF",
                    !.controlDirty = FALSE]
    BY <1>6 DEF PollInitialize
  <2>2. panel'.power = "OFF" /\ panel'.guard = "OFF"
    BY <1>3, <2>1 DEF PanelType
  <2>3. PowerModelOf(panel', "IDLE")
    BY <2>2 DEF PowerModelOf
  <2>4. CASE op.kind = "INITIALIZE"
    <3>1. FinishOperation(health, flush, TRUE, 1)
      BY <1>6, <2>4 DEF PollInitialize
    <3>2. op'.phase \in QuietPhases
      BY <3>1, CommandEndsOperation
    <3>. QED BY <1>1, <2>3, <3>2, EndedIsSafe
  <2>5. CASE op.kind # "INITIALIZE"
    <3>1. op' = [op EXCEPT !.phase = "FLUSH_PHASE", !.effect = "PARTIAL", !.tx = CountTx,
                           !.touched = TRUE]
      BY <1>6, <2>5 DEF PollInitialize
    <3>2. op'.phase = "FLUSH_PHASE" /\ op'.state = "ACTIVE" /\ op'.kind = "RESYNC"
      BY <1>1, <2>5, <3>1 DEF OpType
    <3>. QED BY <2>2, <3>2 DEF PowerSafe, PowerModelOf, PowerDuring, PhaseOfKind
  <2>. QED BY <2>4, <2>5
<1>. QED BY <1>4, <1>5, <1>6

LEMMA PollFlushPhaseIsPowerSafe ==
  ASSUME PowerInv, NEW late, NEW o \in Outcomes, NEW k \in Cols,
         PollFlushPhase(late, o, k) \/ PollFlushPhaseTimeout(late)
  PROVE  PowerSafe(panel', op')
<1>1. /\ TypeOK' /\ panel \in PanelType /\ op \in OpType
      /\ op.phase = "FLUSH_PHASE" /\ op.state = "ACTIVE"
      /\ op.kind \in {"FLUSH", "RESYNC"}
      /\ op.kind = "RESYNC" => panel.power = "OFF"
      /\ panel' = Ticked(late)
  BY PollFlushPhaseTypes
     DEF PowerInv, PowerSafe, PowerDuring, PhaseOfKind, TypeOK, PollFlushPhase,
         PollFlushPhaseTimeout, Polls, OperationActive, InFlushPhase
<1>2. PowerModelOf(panel, op.phase) /\ PowerModelOf(panel, "IDLE")
  BY <1>1, QuietOperation DEF PowerInv, PowerSafe
<1>3. /\ PowerModelOf(panel', "IDLE")
      /\ op.kind = "RESYNC" => panel'.power = "OFF"
  BY <1>1, <1>2, TickedPower DEF Ticked
<1>4. CASE op'.phase \in QuietPhases
  BY <1>1, <1>3, <1>4, EndedIsSafe
<1>5. CASE op'.phase \notin QuietPhases
  <2>. DEFINE touched == op.touched \/ TookEffect(o)
              phase == IF flush'.state = "DONE" THEN "DISPLAY_ON" ELSE op.phase
              prefix == op.tx # 0
              effect == IF op.tx = 0 THEN "NONE" ELSE "PARTIAL"
  <2>1. /\ op' # EndOperation("FAILED", EffectForFailure(o, prefix), touched)
        /\ op' # EndOperation("SUCCEEDED", "CONFIRMED", touched)
        /\ op' # EndOperation("FAILED", effect, op.touched)
    <3>. HIDE DEF touched, prefix, effect
    <3>. QED BY <1>5, EndedOperation
  <2>2. /\ flush'.state \in FlushPhases \/ (flush'.state = "DONE" /\ op.kind = "RESYNC")
        /\ op' = [op EXCEPT !.effect = "PARTIAL", !.tx = CountTx, !.touched = touched,
                            !.phase = phase]
    BY <1>1, <2>1 DEF PollFlushPhase, PollFlushPhaseTimeout, OpType
  <2>3. phase = "FLUSH_PHASE" \/ (phase = "DISPLAY_ON" /\ op.kind = "RESYNC")
    BY <1>1, <2>2 DEF FlushPhases
  <2>. HIDE DEF touched, phase
  <2>4. op'.phase = phase /\ op'.state = "ACTIVE" /\ op'.kind = op.kind
    BY <1>1, <2>2 DEF OpType
  <2>. QED BY <1>1, <1>3, <2>3, <2>4 DEF PowerSafe, PowerModelOf, PowerDuring, PhaseOfKind
<1>. QED BY <1>4, <1>5

LEMMA PollCommandIsPowerSafe ==
  ASSUME PowerInv, NEW late, NEW o \in Outcomes,
         \/ PollDisplayOff(late, o)
         \/ PollChargePumpOff(late, o)
         \/ PollDisplayOn(late, o)
         \/ PollScrollDeactivate(late, o)
         \/ PollScrollConfigure(late, o)
         \/ PollScrollActivate(late, o)
  PROVE  PowerSafe(panel', op')
<1>. DEFINE prefix == op.tx # 0
            unborn == [health EXCEPT !.state = "UNINIT"]
            ended == \/ CommandFails(o, prefix) \/ CommandFails(o, TRUE)
                     \/ FinishOperation(health, flush, TRUE, 1)
                     \/ FinishOperation(unborn, flush, TRUE, 1)
<1>1. /\ TypeOK' /\ panel \in PanelType /\ op \in OpType /\ op.state = "ACTIVE"
      /\ op.phase # "DISPLAY_ON_DELAY"
  <2>1. TypeOK'
    BY PollCommandTypes DEF PowerInv
  <2>2. panel \in PanelType /\ op \in OpType
    BY DEF PowerInv, TypeOK
  <2>. QED BY <2>1, <2>2
           DEF Polls, PollDisplayOff, PollChargePumpOff, PollDisplayOn, PollScrollDeactivate,
               PollScrollConfigure, PollScrollActivate, OperationActive
<1>2. PowerModelOf(panel, "IDLE")
  BY <1>1, QuietOperation DEF PowerInv, PowerSafe
<1>3. /\ Ticked(late) \in PanelType /\ PowerModelOf(Ticked(late), "IDLE")
      /\ panel.power = "OFF" => Ticked(late) = panel
  BY <1>1, <1>2, TickedPower, PanelTypes DEF Ticked
<1>4. ended => op'.phase \in QuietPhases
  <2>. HIDE DEF prefix, unborn
  <2>. QED BY CommandEndsOperation
<1>5. ASSUME NEW next \in ControlPhases, CommandSucceeds(next)
      PROVE  /\ op'.phase = next /\ op'.state = "ACTIVE" /\ op'.kind = op.kind
             /\ op'.tx # 0
  <2>1. CountTx # 0
    BY <1>1 DEF CountTx, OpType, TxCap
  <2>. QED BY <1>1, <1>5, <2>1 DEF CommandSucceeds, OpType
<1>6. ASSUME ended, PowerModelOf(panel', "IDLE") PROVE PowerSafe(panel', op')
  BY <1>1, <1>4, <1>6, EndedIsSafe
<1>7. ASSUME NEW next \in {"SCROLL_CONFIGURE", "SCROLL_ACTIVATE"}, CommandSucceeds(next),
             PowerModelOf(panel', "IDLE")
      PROVE  PowerSafe(panel', op')
  <2>1. op'.phase = next /\ op'.state = "ACTIVE"
    BY <1>5, <1>7 DEF ControlPhases
  <2>. QED BY <1>7, <2>1 DEF PowerSafe, PowerModelOf, PowerDuring, PhaseOfKind
<1>8. /\ PowerModelOf(MarkControlDirty(InvalidatePower(panel)), "IDLE")
      /\ PowerModelOf(MarkControlDirty(Ticked(late)), "IDLE")
      /\ PowerModelOf(DisplayIsOff(Ticked(late)), "IDLE")
      /\ PowerModelOf([DisplayIsOff(Ticked(late)) EXCEPT !.initialized = FALSE], "IDLE")
      /\ \A scrolling \in BOOLEAN :
           PowerModelOf([Ticked(late) EXCEPT !.scrolling = scrolling], "IDLE")
  <2>1. PowerModelOf([DisplayIsOff(Ticked(late)) EXCEPT !.initialized = FALSE], "IDLE")
    BY <1>3 DEF DisplayIsOff, PowerModelOf, PanelType
  <2>. QED BY <1>1, <1>2, <1>3, <2>1, PanelPower
<1>9. CASE PollDisplayOff(late, o)
  <2>1. CASE ended /\ panel' \in {MarkControlDirty(InvalidatePower(panel)),
               [DisplayIsOff(Ticked(late)) EXCEPT !.initialized = FALSE],
               DisplayIsOff(Ticked(late))}
    BY <1>6, <1>8, <2>1
  <2>2. CASE panel' = DisplayIsOff(Ticked(late)) /\ CommandSucceeds("CHARGE_PUMP_OFF")
    <3>1. op'.phase = "CHARGE_PUMP_OFF" /\ op'.state = "ACTIVE"
      BY <1>5, <2>2 DEF ControlPhases
    <3>2. panel'.power = "OFF"
      BY <1>3, <2>2 DEF DisplayIsOff, PanelType
    <3>. QED BY <1>8, <2>2, <3>1, <3>2 DEF PowerSafe, PowerModelOf, PowerDuring, PhaseOfKind
  <2>. QED BY <1>9, <2>1, <2>2 DEF PollDisplayOff
<1>10. CASE PollChargePumpOff(late, o)
  <2>1. panel.power = "OFF" /\ Ticked(late) = panel
    BY <1>3, <1>10 DEF PollChargePumpOff, PowerInv, PowerSafe, PowerDuring
  <2>2. PowerModelOf([panel EXCEPT !.initialized = FALSE, !.power = "OFF"], "IDLE")
    BY <1>1, <1>2, <2>1 DEF PowerModelOf, PanelType
  <2>. QED BY <1>6, <1>8, <1>10, <2>1, <2>2 DEF PollChargePumpOff
<1>11. CASE PollDisplayOn(late, o)
  <2>1. /\ panel.power = "OFF" /\ Ticked(late) = panel /\ op.kind \in {"WAKE", "RESYNC"}
        /\ panel.guard = "OFF"
    BY <1>1, <1>3, <1>11
       DEF PollDisplayOn, PowerInv, PowerSafe, PowerModelOf, PowerDuring, PhaseOfKind,
           PanelType, Guards
  <2>2. CASE panel' = MarkControlDirty(InvalidatePower(panel)) /\ ended
    BY <1>6, <1>8, <2>2
  <2>3. CASE /\ panel' = [Ticked(late) EXCEPT !.sleeping = FALSE, !.power = "STARTING"]
             /\ CommandSucceeds("DISPLAY_ON_DELAY")
    <3>1. /\ op'.phase = "DISPLAY_ON_DELAY" /\ op'.state = "ACTIVE"
          /\ op'.kind = op.kind /\ op'.tx # 0
      BY <1>5, <2>3 DEF ControlPhases
    <3>2. panel'.power = "STARTING" /\ panel'.guard = "OFF"
      BY <1>1, <2>1, <2>3 DEF PanelType
    <3>. QED BY <2>1, <3>1, <3>2 DEF PowerSafe, PowerModelOf, PowerDuring, PhaseOfKind
  <2>4. CASE /\ panel' = [Ticked(late) EXCEPT !.sleeping = FALSE, !.power = "ON",
                                              !.guard = "READY"]
             /\ ended
    <3>1. PowerModelOf(panel', "IDLE")
      BY <1>1, <2>1, <2>4 DEF PowerModelOf, PanelType
    <3>. QED BY <1>6, <2>4, <3>1
  <2>. QED BY <1>11, <2>2, <2>3, <2>4 DEF PollDisplayOn
<1>12. CASE PollScrollDeactivate(late, o)
  BY <1>6, <1>7, <1>8, <1>12 DEF PollScrollDeactivate
<1>13. CASE PollScrollConfigure(late, o)
  BY <1>3, <1>6, <1>7, <1>8, <1>13 DEF PollScrollConfigure
<1>14. CASE PollScrollActivate(late, o)
  BY <1>6, <1>8, <1>14 DEF PollScrollActivate
<1>. QED BY <1>9, <1>10, <1>11, <1>12, <1>13, <1>14

LEMMA OperationCallIsPowerSafe ==
  ASSUME PowerInv, OperationCall
  PROVE  PowerSafe(panel', op')
<1>1. TypeOK' /\ panel \in PanelType /\ op \in OpType
  BY OperationCallTypes DEF PowerInv, TypeOK
<1>2. PowerModelOf(panel, op.phase)
  BY DEF PowerInv, PowerSafe
<1>3. \A late : Ticked(late) \in PanelType /\ PowerModelOf(Ticked(late), op.phase)
  BY <1>1, <1>2, TickedPower, PanelTypes DEF Ticked
<1>4. ASSUME NEW late, PollDeadline(late) PROVE PowerSafe(panel', op')
  BY <1>3, <1>4, TerminateIsPowerSafe DEF PollDeadline, Terminal
<1>5. CancelOperation \/ BlockingOperationStalls => PowerSafe(panel', op')
  BY <1>1, <1>2, TerminateIsPowerSafe DEF CancelOperation, BlockingOperationStalls, Terminal
<1>6. ASSUME TakeOperationResult PROVE PowerSafe(panel', op')
  <2>1. op.state # "ACTIVE" /\ panel' = panel /\ op'.phase \in QuietPhases
    BY <1>6 DEF TakeOperationResult, OperationResultReady, Terminal, NoOperation, QuietPhases
  <2>2. PowerModelOf(panel, "IDLE")
    BY <1>2, <2>1, QuietOperation DEF QuietPhases
  <2>. QED BY <1>1, <2>1, <2>2, EndedIsSafe
<1>7. ASSUME NEW late, PollEmptyFlush(late) PROVE PowerSafe(panel', op')
  <2>1. panel' = Ticked(late) /\ op'.phase \in QuietPhases /\ op.phase = "IDLE"
    BY <1>7, CommandEndsOperation DEF PollEmptyFlush
  <2>. QED BY <1>1, <1>3, <2>1, EndedIsSafe
<1>8. ASSUME NEW late, PollDisplayOnRejected(late) PROVE PowerSafe(panel', op')
  <2>. DEFINE effect == IF op.tx = 0 THEN "NONE" ELSE "PARTIAL"
  <2>1. /\ panel' = Ticked(late) /\ op.phase = "DISPLAY_ON"
        /\ op' = EndOperation("FAILED", effect, op.touched)
    BY <1>8 DEF PollDisplayOnRejected
  <2>2. op'.phase \in QuietPhases
    <3>. HIDE DEF effect
    <3>. QED BY <2>1, EndedOperation
  <2>3. PowerModelOf(Ticked(late), "IDLE")
    BY <1>3, <2>1, QuietOperation
  <2>. QED BY <1>1, <2>1, <2>2, <2>3, EndedIsSafe
<1>9. ASSUME NEW late, PollDelayStarts(late) PROVE PowerSafe(panel', op')
  <2>1. panel.guard = "OFF" /\ op.phase = "DISPLAY_ON_DELAY"
    BY <1>9 DEF PollDelayStarts, PowerInv, PowerSafe, PowerDuring
  <2>2. panel' = panel
    BY <1>1, <1>2, <1>9, <2>1, TickedPower DEF PollDelayStarts, Ticked
  <2>3. op' = [op EXCEPT !.latched = TRUE]
    BY <1>9 DEF PollDelayStarts
  <2>4. op'.phase = op.phase /\ op'.state = op.state /\ op'.kind = op.kind /\ op'.tx = op.tx
    BY <1>1, <2>3 DEF OpType
  <2>. QED BY <2>2, <2>4
           DEF PowerInv, PowerSafe, PowerModelOf, PowerDuring, PhaseOfKind
<1>10. ASSUME NEW late, PollDelayEnds(late) PROVE PowerSafe(panel', op')
  <2>1. panel' = [Ticked(late) EXCEPT !.power = "ON", !.guard = "READY"]
    BY <1>10 DEF PollDelayEnds
  <2>2. PowerModelOf(panel', "IDLE")
    BY <1>3, <2>1 DEF PowerModelOf, PanelType
  <2>3. op'.phase \in QuietPhases
    BY <1>10, CommandEndsOperation DEF PollDelayEnds
  <2>. QED BY <1>1, <2>2, <2>3, EndedIsSafe
<1>11. ASSUME NEW late, PollFlushPhaseTimeout(late) PROVE PowerSafe(panel', op')
  <2>1. "OK" \in Outcomes /\ 0 \in Cols
    BY ConfigAssumption DEF Outcomes, Cols, ConfigAssumption
  <2>. QED BY <1>11, <2>1, PollFlushPhaseIsPowerSafe
<1>12. ASSUME NEW late, PollOperation(late) PROVE PowerSafe(panel', op')
  BY <1>4, <1>7, <1>8, <1>9, <1>10, <1>11, <1>12, PollInitializeIsPowerSafe,
     PollFlushPhaseIsPowerSafe, PollCommandIsPowerSafe
     DEF PollOperation
<1>. QED BY <1>5, <1>6, <1>12, StartIsPowerSafe DEF OperationCall

\* Between operations: direct commands, the guard's ticks and notices of a reset.
LEMMA OtherCallsArePowerSafe ==
  ASSUME PowerInv, FlushCall \/ FrameCall \/ ControlCall \/ Lifecycle
  PROVE  PowerSafe(panel', op')
<1>1. TypeOK' /\ panel \in PanelType /\ op \in OpType
  BY FlushCallTypes, FrameCallTypes, ControlCallTypes, LifecycleTypes DEF PowerInv, TypeOK
<1>2. PowerSafe(panel, op) /\ PowerModelOf(panel, op.phase)
  BY DEF PowerInv, PowerSafe
<1>3. ASSUME NEW late, panel' = Ticked(late), op' = op PROVE PowerSafe(panel', op')
  <2>1. PowerModelOf(panel', op.phase)
    BY <1>1, <1>2, <1>3, TickedPower DEF Ticked
  <2>2. panel.guard # "INIT_DELAY" => panel' = panel
    BY <1>1, <1>2, <1>3, TickedPower DEF Ticked
  <2>3. panel.guard = "INIT_DELAY" => panel.power = "STARTING"
    BY <1>2 DEF PowerModelOf
  <2>. QED BY <1>2, <1>3, <2>1, <2>2, <2>3 DEF PowerSafe, PowerDuring
<1>4. CASE FlushCall
  <2>1. (panel' = panel /\ op' = op) \/ \E late : panel' = Ticked(late) /\ op' = op
    BY <1>4 DEF FlushCall, RequestFlush, PollFlush, PollFlushTimeout, PollFlushWaits,
       PollFlushEnded, PollFlushSends, LegacyPoll, WaitFlushGivesUp, Ticked
  <2>. QED BY <1>2, <1>3, <2>1
<1>5. CASE FrameCall
  <2>1. panel' = panel /\ op' = op
    BY <1>5 DEF FrameCall, Draw, DrawAll, ClearDirty, ClearDirtyIfIdle, FirstPage,
       NextPageReportsFailure, NextPageAfterWindow, NextPageSendsWindow
  <2>. QED BY <1>2, <2>1
<1>6. ASSUME op.state # "ACTIVE", op' = op, PowerModelOf(panel', "IDLE")
      PROVE  PowerSafe(panel', op')
  BY <1>1, <1>6, QuietOperation, EndedIsSafe DEF PowerInv
<1>7. op.state # "ACTIVE" => PowerModelOf(panel, "IDLE")
  BY <1>2, QuietOperation DEF QuietPhases, PowerInv
<1>8. CASE ControlCall
  <2>1. ASSUME NEW o \in Outcomes, TrackedWrite(o)
        PROVE  op.state # "ACTIVE" /\ op' = op
    BY <2>1 DEF TrackedWrite, DirectI2cAdmitted, OperationActive
  <2>2. \A o \in Outcomes : SetRegister(o) => PowerSafe(panel', op')
    BY <1>1, <1>6, <1>7, <2>1, PanelPower DEF SetRegister, AfterSetter
  <2>3. \A o \in Outcomes, changed \in BOOLEAN :
          SetFlipX(o, changed) => PowerSafe(panel', op')
    BY <1>1, <1>6, <1>7, <2>1, PanelPower DEF SetFlipX, AfterSetter
  <2>4. \A o \in Outcomes : StopScroll(o) => PowerSafe(panel', op')
    BY <1>1, <1>6, <1>7, <2>1, PanelPower DEF StopScroll
  <2>5. \A o \in Outcomes : SleepNow(o) => PowerSafe(panel', op')
    BY <1>1, <1>6, <1>7, <2>1, PanelPower DEF SleepNow
  <2>6. \A o \in Outcomes : WakeNow(o) => PowerSafe(panel', op')
    <3>1. PowerModelOf(panel, "IDLE") => PowerModelOf(AwokenPanel, "IDLE")
      BY <1>1 DEF AwokenPanel, WasModeledOn, PowerModelOf, PanelType
    <3>. QED BY <1>1, <1>6, <1>7, <2>1, <3>1, PanelPower DEF WakeNow
  <2>7. \A o \in Outcomes : SendRawCommand(o) => PowerSafe(panel', op')
    BY <1>1, <1>6, <1>7, <2>1, PanelPower DEF SendRawCommand, AfterRawFailure
  <2>8. \A late : TickPanelGuard(late) => PowerSafe(panel', op')
    BY <1>3 DEF TickPanelGuard
  <2>9. ASSUME NEW really \in BOOLEAN, PanelReset(really) PROVE PowerSafe(panel', op')
    <3>. DEFINE effect == IF op.tx = 0 THEN "NONE" ELSE "PARTIAL"
    <3>1. /\ panel' = Invalidated(panel)
          /\ \/ op' = EndOperation("CANCELLED", effect, op.touched)
             \/ op' = op /\ op.state # "ACTIVE"
      BY <2>9 DEF PanelReset, InvalidatePanelState, OperationActive
    <3>2. PowerModelOf(panel', "IDLE")
      BY <1>1, <1>2, <3>1, PanelPower
    <3>. HIDE DEF effect
    <3>. QED BY <1>1, <1>6, <3>1, <3>2, EndedOperation, EndedIsSafe
  <2>. QED BY <1>8, <2>2, <2>3, <2>4, <2>5, <2>6, <2>7, <2>8, <2>9 DEF ControlCall
<1>9. CASE Lifecycle
  <2>1. PowerModelOf(DetachedPanel, "IDLE")
        /\ PowerModelOf([DetachedPanel EXCEPT !.attached = TRUE], "IDLE")
    BY DEF DetachedPanel, PowerModelOf
  <2>2. CASE Attach
    BY <1>6, <2>1, <2>2 DEF Attach, DirectI2cAdmitted, OperationActive
  <2>3. CASE Detach
    <3>1. panel' = DetachedPanel /\ op'.phase \in QuietPhases
      BY <2>3 DEF Detach, NoOperation, QuietPhases
    <3>. QED BY <1>1, <2>1, <3>1, EndedIsSafe
  <2>. QED BY <1>9, <2>2, <2>3 DEF Lifecycle
<1>. QED BY <1>4, <1>5, <1>8, <1>9

LEMMA PowerInvHolds == Spec => []PowerInv
<1>1. Init => PowerInv
  <2>1. Init => TypeOK
    BY LifecycleTypes
  <2>2. ASSUME Init PROVE PowerSafe(panel, op)
    BY <2>2 DEF Init, DetachedPanel, NoOperation, PowerSafe, PowerModelOf, PowerDuring,
       PhaseOfKind, ControlPhases
  <2>. QED BY <2>1, <2>2 DEF PowerInv
<1>2. TypeOK /\ PowerInv /\ [Next]_vars /\ TypeOK' => PowerInv'
  <2>1. ASSUME PowerInv, Next PROVE PowerSafe(panel', op')
    BY <2>1, OperationCallIsPowerSafe, OtherCallsArePowerSafe DEF Next
  <2>2. ASSUME PowerInv, UNCHANGED vars PROVE PowerSafe(panel', op')
    BY <2>2 DEF vars, PowerInv
  <2>. QED BY <2>1, <2>2 DEF PowerInv
<1>. QED BY <1>1, <1>2, TypeCorrect, PTL DEF Spec

\* The driver's power state and its display-on guard never disagree, and no
\* wake or flush is admitted on a panel whose power is unknown, through every
\* failure, cancellation, timeout and raw command (panelPowerState()).
THEOREM PowerIsModelled == Spec => []PowerModel
BY PowerInvHolds, PowerInvImplies, PTL

\* An operation sends DISPLAY_ON, a resync's frame and the charge-pump command
\* only to a panel it knows to be off, whatever the owner did in between.
THEOREM OperationKnowsThePower == Spec => []PowerDuringOperation
BY PowerInvHolds, PowerInvImplies, PTL

-----------------------------------------------------------------------------
\* The flush job

Running(f) == f.state \in FlushPhases

\* The inductive invariant.  A running job belongs to the operation exactly
\* while that is in its flush phase; the panel it runs on is initialized and its
\* control state known; an operation's job runs on a panel that takes data now.
JobSafe(p, f, o) ==
  /\ o.state = "ACTIVE" => (Running(f) <=> o.phase = "FLUSH_PHASE")
  /\ o.state \in Terminal => ~Running(f)
  /\ Running(f) => p.initialized /\ ~p.controlDirty
  /\ Running(f) /\ o.state = "ACTIVE" => p.power \in {"ON", "OFF"}

JobInv == PowerInv /\ JobSafe(panel, flush, op)

LEMMA JobInvImplies == JobInv => JobOwnership /\ FlushNeverBlocked
<1>. SUFFICES ASSUME JobInv PROVE JobOwnership /\ FlushNeverBlocked
  OBVIOUS
<1>1. JobOwnership
  BY DEF JobInv, JobSafe, Running, JobOwnership, IsFlushing, OperationActive,
         OperationResultReady, InFlushPhase
<1>2. ASSUME IsFlushing
      PROVE  /\ PanelAcceptsData(panel) \/ panel.guard = "INIT_DELAY"
             /\ OperationActive => PanelAcceptsData(panel)
  <2>1. /\ panel.initialized /\ ~panel.controlDirty
        /\ OperationActive => panel.power \in {"ON", "OFF"} /\ op.phase = "FLUSH_PHASE"
    BY <1>2 DEF JobInv, JobSafe, Running, IsFlushing, OperationActive
  <2>2. PowerModelOf(panel, op.phase) /\ panel \in PanelType /\ PowerDuring(panel, op)
    BY DEF JobInv, PowerInv, PowerSafe, TypeOK
  <2>3. op.phase = "DISPLAY_ON_DELAY" => OperationActive
    BY <2>2 DEF PowerDuring, ControlPhases, OperationActive
  <2>4. panel.power \in {"ON", "OFF"} => PanelAcceptsData(panel)
    BY <2>1, <2>2 DEF PowerModelOf, PanelAcceptsData
  <2>5. panel.power # "UNKNOWN"
    BY <2>1, <2>2 DEF PowerModelOf
  <2>6. panel.power = "STARTING" => panel.guard = "INIT_DELAY"
    BY <2>1, <2>2, <2>3 DEF PowerModelOf
  <2>. QED BY <2>1, <2>2, <2>4, <2>5, <2>6 DEF PanelType, Powers
<1>. QED BY <1>1, <1>2 DEF FlushNeverBlocked

-----------------------------------------------------------------------------
\* What the helpers make of a job.

LEMMA JobStates ==
  ASSUME TypeOK
  PROVE  /\ Running(Started) <=> Running(flush)
         /\ \A s \in {"DONE", "ERROR"} : ~Running(EndJob(s))
         /\ ~Running(IdleFlush)
         /\ Running(ConsumedFlush) <=> Running(flush)
         /\ Running(SettledFlush) <=> Running(flush)
         /\ \A marked : Running(RacedBy(marked)) <=> Running(flush)
         /\ Running(JobAfterFailure(flush)) <=>
              /\ Running(flush)
              /\ ~(op.kind \in {"FLUSH", "RESYNC"} /\ InFlushPhase)
<1>1. flush \in FlushType
  BY DEF TypeOK
<1>2. \A s \in {"DONE", "ERROR"} : EndJob(s) \in FlushType /\ ~Running(EndJob(s))
  BY FlushTypes DEF Running, FlushPhases
<1>3. ~Running(IdleFlush) /\ \A failed \in BOOLEAN : ~Running([IdleFlush EXCEPT !.failed = failed])
  BY DEF IdleFlush, Running, FlushPhases
<1>4. \A g \in FlushType : Running([g EXCEPT !.accounted = TRUE]) <=> Running(g)
  BY DEF FlushType, Running
<1>5. Running(Started) <=> Running(flush)
  BY <1>1 DEF Started, FlushType, Running
<1>6. Running(ConsumedFlush) <=> Running(flush)
  <2>1. flush.state \in {"DONE", "ERROR"} => ~Running(flush)
    BY DEF Running, FlushPhases
  <2>2. flush.state \in {"DONE", "ERROR"} => ~Running(ConsumedFlush)
    BY DEF ConsumedFlush, IdleFlush, Running, FlushPhases
  <2>3. flush.state \notin {"DONE", "ERROR"} => ConsumedFlush = flush
    BY DEF ConsumedFlush
  <2>. QED BY <2>1, <2>2, <2>3
<1>7. Running(SettledFlush) <=> Running(flush)
  BY <1>1, <1>4 DEF SettledFlush
<1>8. \A marked : Running(RacedBy(marked)) <=> Running(flush)
  BY <1>1 DEF RacedBy, FlushType, Running
<1>9. Running(JobAfterFailure(flush)) <=>
        Running(flush) /\ ~(op.kind \in {"FLUSH", "RESYNC"} /\ InFlushPhase)
  BY <1>1, <1>2, <1>4 DEF JobAfterFailure
<1>. QED BY <1>2, <1>3, <1>5, <1>6, <1>7, <1>8, <1>9

\* Without a running job there is nothing to own.
LEMMA NoJobIsSafe ==
  \A p, f, o : ~Running(f) /\ (o.state = "ACTIVE" => o.phase # "FLUSH_PHASE")
                 => JobSafe(p, f, o)
BY DEF JobSafe

\* An operation that ended, or never ran, leaves no job behind it.
LEMMA EndedJobIsSafe ==
  ASSUME ~Running(flush'), op'.phase \in QuietPhases
  PROVE  JobSafe(panel', flush', op')
BY NoJobIsSafe DEF QuietPhases

\* How an active operation's failure, success or termination ends its job.
LEMMA JobsOfEndedOperations ==
  ASSUME JobInv, OperationActive
  PROVE  /\ ~Running(JobAfterFailure(flush))
         /\ \A o, prefix : CommandFails(o, prefix) => JobSafe(panel', flush', op')
         /\ ~InFlushPhase => ~Running(flush)
         /\ \A h, touched, tx :
              FinishOperation(h, flush, touched, tx) /\ ~InFlushPhase
              => JobSafe(panel', flush', op')
         /\ \A state, p : Terminate(state, p) => JobSafe(panel', flush', op')
<1>1. TypeOK /\ flush \in FlushType /\ op \in OpType /\ PhaseOfKind(op)
  BY DEF JobInv, PowerInv, PowerSafe, TypeOK
<1>2. /\ Running(flush) <=> InFlushPhase
      /\ InFlushPhase => op.kind \in {"FLUSH", "RESYNC"}
  BY <1>1 DEF JobInv, JobSafe, PhaseOfKind, InFlushPhase, OperationActive
<1>3. ~Running(JobAfterFailure(flush))
  BY <1>1, <1>2, JobStates
<1>4. \A o, prefix : CommandFails(o, prefix) => JobSafe(panel', flush', op')
  <2>. SUFFICES ASSUME NEW o, NEW prefix, CommandFails(o, prefix)
                PROVE  JobSafe(panel', flush', op')
    OBVIOUS
  <2>1. flush' = JobAfterFailure(flush)
    BY DEF CommandFails
  <2>2. op'.phase \in QuietPhases
    BY CommandEndsOperation
  <2>. QED BY <1>3, <2>1, <2>2, EndedJobIsSafe
<1>5. \A h, touched, tx :
        FinishOperation(h, flush, touched, tx) /\ ~InFlushPhase
        => JobSafe(panel', flush', op')
  <2>. SUFFICES ASSUME NEW h, NEW touched, NEW tx,
                       FinishOperation(h, flush, touched, tx), ~InFlushPhase
                PROVE  JobSafe(panel', flush', op')
    OBVIOUS
  <2>1. ~Running(flush')
    BY <1>1, <1>2 DEF FinishOperation, Running, FlushType
  <2>. QED BY <2>1, CommandEndsOperation, EndedJobIsSafe
<1>6. \A state, p : Terminate(state, p) => JobSafe(panel', flush', op')
  <2>1. \A state, p : Terminate(state, p) => op'.phase \in QuietPhases
    BY EndedOperation DEF Terminate
  <2>. QED BY <1>3, <2>1, EndedJobIsSafe DEF Terminate
<1>. QED BY <1>2, <1>3, <1>4, <1>5, <1>6

-----------------------------------------------------------------------------
\* Each call keeps the invariant.

LEMMA StartIsJobSafe ==
  ASSUME JobInv, NEW kind \in Kinds, NEW deadline \in BOOLEAN,
         StartOperation(kind, deadline)
  PROVE  JobSafe(panel', flush', op')
<1>1. /\ TypeOK /\ panel' = panel /\ ~Running(flush) /\ op.state # "ACTIVE"
      /\ frame.dirty \in [Pages -> SUBSET Cols]
  BY DEF StartOperation, OperationAdmitted, LegacyOwner, OperationActive, JobInv, PowerInv,
         TypeOK, FrameType, IsFlushing, Running
<1>2. op' = NewOperation(kind, deadline) =>
        op'.state = "ACTIVE" /\ op'.phase = FirstPhase(kind)
  BY DEF NewOperation, NoOperation
<1>3. CASE kind # "FLUSH"
  <2>1. flush' = SettledFlush /\ op' = NewOperation(kind, deadline)
    BY <1>3 DEF StartOperation
  <2>2. FirstPhase(kind) # "FLUSH_PHASE"
    BY <1>3 DEF FirstPhase, Kinds
  <2>3. ~Running(flush')
    BY <1>1, <2>1, JobStates
  <2>. QED BY <1>2, <2>1, <2>2, <2>3, NoJobIsSafe
<1>4. CASE kind = "FLUSH" /\ flush' = ConsumedFlush /\ (FlushRefused \/ ~IsDirty)
           /\ op' = IF FlushRefused THEN op ELSE NewOperation(kind, deadline)
  <2>1. ~Running(flush')
    BY <1>1, <1>4, JobStates
  <2>2. ~FlushRefused => FirstPhase(kind) # "FLUSH_PHASE"
    BY <1>4 DEF FirstPhase
  <2>. QED BY <1>1, <1>2, <1>4, <2>1, <2>2, NoJobIsSafe
<1>5. CASE kind = "FLUSH" /\ flush' \in Job(frame.dirty)
           /\ op' = NewOperation(kind, deadline)
  <2>1. Running(flush')
    BY <1>1, <1>5, JobTypes DEF Running, FlushPhases
  <2>2. IsDirty
    BY <1>5 DEF Job, IsDirty
  <2>3. op'.state = "ACTIVE" /\ op'.phase = "FLUSH_PHASE"
    BY <1>2, <1>5, <2>2 DEF FirstPhase
  <2>4. panel.initialized /\ ~panel.controlDirty /\ panel.power \in {"ON", "OFF"}
    BY <1>5 DEF StartOperation, OperationAdmitted
  <2>. QED BY <1>1, <2>1, <2>3, <2>4 DEF JobSafe, Terminal
<1>. QED BY <1>3, <1>4, <1>5 DEF StartOperation

LEMMA PollInitializeIsJobSafe ==
  ASSUME JobInv, NEW late, NEW o \in Outcomes, PollInitialize(late, o)
  PROVE  JobSafe(panel', flush', op')
<1>. DEFINE prefix == op.tx # 0
            all == MarkAllDirty(frame.dirty, frame.window)
<1>1. /\ OperationActive /\ ~InFlushPhase /\ panel \in PanelType /\ op \in OpType
      /\ frame.dirty \in [Pages -> SUBSET Cols]
      /\ op.phase = "INITIALIZE_COMMAND"
      /\ Ticked(late) \in PanelType
  <2>1. panel \in PanelType /\ op \in OpType /\ frame.dirty \in [Pages -> SUBSET Cols]
    BY DEF JobInv, PowerInv, TypeOK, FrameType
  <2>. QED BY <2>1, PanelTypes DEF PollInitialize, Polls, InFlushPhase, Ticked
<1>2. ~Running(flush)
  BY <1>1, JobsOfEndedOperations
<1>3. CASE CommandFails(o, prefix)
  <2>. HIDE DEF prefix
  <2>. QED BY <1>1, <1>3, JobsOfEndedOperations
<1>4. CASE FinishOperation(health, flush, TRUE, 1)
  BY <1>1, <1>4, JobsOfEndedOperations
<1>5. CASE /\ op' = [op EXCEPT !.step = @ + 1, !.effect = "PARTIAL", !.tx = CountTx,
                               !.touched = TRUE]
           /\ flush' = flush
  <2>1. op'.phase = op.phase
    BY <1>1, <1>5 DEF OpType
  <2>. QED BY <1>1, <1>2, <1>5, <2>1, NoJobIsSafe
<1>6. CASE /\ panel' = [Ticked(late) EXCEPT !.initialized = TRUE, !.sleeping = TRUE,
                          !.scrolling = FALSE, !.power = "OFF", !.guard = "OFF",
                          !.controlDirty = FALSE]
           /\ flush' \in Job(all)
           /\ op' = [op EXCEPT !.phase = "FLUSH_PHASE", !.effect = "PARTIAL",
                               !.tx = CountTx, !.touched = TRUE]
  <2>1. panel'.initialized /\ ~panel'.controlDirty /\ panel'.power = "OFF"
    BY <1>1, <1>6 DEF PanelType
  <2>2. op'.state = "ACTIVE" /\ op'.phase = "FLUSH_PHASE"
    BY <1>1, <1>6 DEF OpType, OperationActive
  <2>3. all \in [Pages -> SUBSET Cols]
    BY <1>1, DirtyTypes
  <2>. HIDE DEF all
  <2>4. Running(flush')
    BY <1>6, <2>3, JobTypes DEF Running, FlushPhases
  <2>. QED BY <2>1, <2>2, <2>4 DEF JobSafe, Terminal
<1>. QED BY <1>3, <1>4, <1>5, <1>6 DEF PollInitialize

\* The operation advances its own job, on a panel that stays on or off.
LEMMA PollFlushPhaseIsJobSafe ==
  ASSUME JobInv, NEW late, NEW o \in Outcomes, NEW k \in Cols,
         PollFlushPhase(late, o, k) \/ PollFlushPhaseTimeout(late)
  PROVE  JobSafe(panel', flush', op')
<1>. DEFINE touched == op.touched \/ TookEffect(o)
            phase == IF flush'.state = "DONE" THEN "DISPLAY_ON" ELSE op.phase
            prefix == op.tx # 0
            effect == IF op.tx = 0 THEN "NONE" ELSE "PARTIAL"
<1>1. /\ TypeOK /\ panel \in PanelType /\ op \in OpType /\ op.state = "ACTIVE"
      /\ op.phase = "FLUSH_PHASE" /\ Running(flush) /\ panel.power \in {"ON", "OFF"}
      /\ panel.initialized /\ ~panel.controlDirty
      /\ PowerModelOf(panel, op.phase)
  BY DEF PollFlushPhase, PollFlushPhaseTimeout, Polls, InFlushPhase, OperationActive,
         JobInv, JobSafe, PowerInv, PowerSafe, TypeOK
<1>2. panel' = panel
  <2>1. panel.guard # "INIT_DELAY"
    BY <1>1 DEF PowerModelOf
  <2>2. panel' = Ticked(late)
    BY DEF PollFlushPhase, PollFlushPhaseTimeout
  <2>. QED BY <1>1, <2>1, <2>2, TickedPower DEF Ticked
<1>3. CASE \/ op' = EndOperation("FAILED", EffectForFailure(o, prefix), touched)
              /\ flush'.state = "ERROR"
           \/ op' = EndOperation("SUCCEEDED", "CONFIRMED", touched) /\ flush'.state = "DONE"
           \/ op' = EndOperation("FAILED", effect, op.touched) /\ FailFlush(FALSE)
  <2>1. op'.phase \in QuietPhases
    <3>. HIDE DEF touched, prefix, effect
    <3>. QED BY <1>3, EndedOperation
  <2>2. ~Running([EndJob("ERROR") EXCEPT !.tx = @ \/ FALSE])
    BY <1>1, FlushTypes DEF Running, FlushPhases, FlushType
  <2>3. ~Running(flush')
    BY <1>3, <2>2 DEF FailFlush, Running, FlushPhases
  <2>. QED BY <2>1, <2>3, EndedJobIsSafe
<1>4. CASE /\ flush'.state \in FlushPhases \/ (flush'.state = "DONE" /\ op.kind = "RESYNC")
           /\ op' = [op EXCEPT !.effect = "PARTIAL", !.tx = CountTx, !.touched = touched,
                               !.phase = phase]
  <2>1. op'.phase = phase /\ op'.state = "ACTIVE"
    <3>. HIDE DEF touched, phase
    <3>. QED BY <1>1, <1>4 DEF OpType
  <2>2. Running(flush') <=> phase = "FLUSH_PHASE"
    BY <1>1, <1>4 DEF Running, FlushPhases
  <2>. QED BY <1>1, <1>2, <2>1, <2>2 DEF JobSafe, Terminal
<1>5. \/ /\ flush'.state = "ERROR"
         /\ op' = EndOperation("FAILED", EffectForFailure(o, prefix), touched)
      \/ op' = EndOperation("SUCCEEDED", "CONFIRMED", touched) /\ flush'.state = "DONE"
      \/ op' = EndOperation("FAILED", effect, op.touched) /\ FailFlush(FALSE)
      \/ /\ flush'.state \in FlushPhases \/ (flush'.state = "DONE" /\ op.kind = "RESYNC")
         /\ op' = [op EXCEPT !.effect = "PARTIAL", !.tx = CountTx, !.touched = touched,
                             !.phase = phase]
  BY <1>1 DEF PollFlushPhase, PollFlushPhaseTimeout, OpType
<1>. QED BY <1>3, <1>4, <1>5

LEMMA PollCommandIsJobSafe ==
  ASSUME JobInv, NEW late, NEW o \in Outcomes,
         \/ PollDisplayOff(late, o)
         \/ PollChargePumpOff(late, o)
         \/ PollDisplayOn(late, o)
         \/ PollScrollDeactivate(late, o)
         \/ PollScrollConfigure(late, o)
         \/ PollScrollActivate(late, o)
  PROVE  JobSafe(panel', flush', op')
<1>. DEFINE prefix == op.tx # 0
            unborn == [health EXCEPT !.state = "UNINIT"]
<1>1. OperationActive /\ ~InFlushPhase /\ op \in OpType
  <2>1. op \in OpType
    BY DEF JobInv, PowerInv, TypeOK
  <2>. QED BY <2>1
           DEF Polls, PollDisplayOff, PollChargePumpOff, PollDisplayOn, PollScrollDeactivate,
               PollScrollConfigure, PollScrollActivate, InFlushPhase
<1>2. \/ CommandFails(o, prefix) \/ CommandFails(o, TRUE)
      \/ \E next \in ControlPhases : CommandSucceeds(next)
      \/ FinishOperation(health, flush, TRUE, 1)
      \/ FinishOperation(unborn, flush, TRUE, 1)
  BY DEF PollDisplayOff, PollChargePumpOff, PollDisplayOn, PollScrollDeactivate,
         PollScrollConfigure, PollScrollActivate, ControlPhases
<1>3. ASSUME NEW next \in ControlPhases, CommandSucceeds(next)
      PROVE  JobSafe(panel', flush', op')
  <2>1. op'.phase = next /\ flush' = flush
    BY <1>1, <1>3 DEF CommandSucceeds, OpType
  <2>. QED BY <1>1, <2>1, JobsOfEndedOperations, NoJobIsSafe DEF ControlPhases
<1>. HIDE DEF prefix, unborn
<1>. QED BY <1>1, <1>2, <1>3, JobsOfEndedOperations

LEMMA OperationCallIsJobSafe ==
  ASSUME JobInv, OperationCall
  PROVE  JobSafe(panel', flush', op')
<1>1. op \in OpType /\ PowerInv
  BY DEF JobInv, PowerInv, TypeOK
<1>2. ASSUME NEW late, PollDeadline(late) PROVE JobSafe(panel', flush', op')
  BY <1>2, JobsOfEndedOperations DEF PollDeadline
<1>3. CancelOperation \/ BlockingOperationStalls => JobSafe(panel', flush', op')
  BY JobsOfEndedOperations DEF CancelOperation, BlockingOperationStalls
<1>4. ASSUME TakeOperationResult PROVE JobSafe(panel', flush', op')
  <2>1. flush' = flush /\ op'.phase \in QuietPhases
    BY <1>4 DEF TakeOperationResult, NoOperation, QuietPhases
  <2>2. ~Running(flush)
    BY <1>4 DEF TakeOperationResult, OperationResultReady, JobInv, JobSafe
  <2>. QED BY <2>1, <2>2, EndedJobIsSafe
<1>5. ASSUME NEW late, PollEmptyFlush(late) PROVE JobSafe(panel', flush', op')
  BY <1>5, JobsOfEndedOperations DEF PollEmptyFlush, Polls, InFlushPhase
<1>6. ASSUME NEW late, PollDisplayOnRejected(late) PROVE JobSafe(panel', flush', op')
  <2>. DEFINE effect == IF op.tx = 0 THEN "NONE" ELSE "PARTIAL"
  <2>1. /\ OperationActive /\ flush' = JobAfterFailure(flush)
        /\ op' = EndOperation("FAILED", effect, op.touched)
    BY <1>6 DEF PollDisplayOnRejected, Polls
  <2>. HIDE DEF effect
  <2>. QED BY <2>1, EndedOperation, JobsOfEndedOperations, EndedJobIsSafe
<1>7. ASSUME NEW late, PollDelayStarts(late) \/ PollDelayEnds(late)
      PROVE  JobSafe(panel', flush', op')
  <2>1. OperationActive /\ ~InFlushPhase
    BY <1>7 DEF PollDelayStarts, PollDelayEnds, InFlushPhase
  <2>2. PollDelayStarts(late) => flush' = flush /\ op'.phase = op.phase
    BY <1>1 DEF PollDelayStarts, OpType
  <2>3. PollDelayEnds(late) => FinishOperation(health, flush, TRUE, 1)
    BY DEF PollDelayEnds
  <2>. QED BY <1>7, <2>1, <2>2, <2>3, JobsOfEndedOperations, NoJobIsSafe DEF InFlushPhase
<1>8. ASSUME NEW late, PollFlushPhaseTimeout(late) PROVE JobSafe(panel', flush', op')
  <2>1. "OK" \in Outcomes /\ 0 \in Cols
    BY ConfigAssumption DEF Outcomes, Cols, ConfigAssumption
  <2>. QED BY <1>8, <2>1, PollFlushPhaseIsJobSafe
<1>9. ASSUME NEW late, PollOperation(late) PROVE JobSafe(panel', flush', op')
  BY <1>2, <1>5, <1>6, <1>7, <1>8, <1>9, PollInitializeIsJobSafe, PollFlushPhaseIsJobSafe,
     PollCommandIsJobSafe
     DEF PollOperation
<1>. QED BY <1>3, <1>4, <1>9, StartIsJobSafe DEF OperationCall

\* Legacy calls run only while no operation is active; a direct command only
\* while no job runs; a reset notice ends the job.
LEMMA OtherCallsAreJobSafe ==
  ASSUME JobInv, FlushCall \/ FrameCall \/ ControlCall \/ Lifecycle
  PROVE  JobSafe(panel', flush', op')
<1>1. /\ TypeOK /\ PowerInv /\ panel \in PanelType /\ op \in OpType
      /\ JobSafe(panel, flush, op) /\ frame.dirty \in [Pages -> SUBSET Cols]
      /\ PowerModelOf(panel, op.phase)
      /\ op.state # "ACTIVE" => op.phase # "FLUSH_PHASE"
  <2>1. TypeOK /\ PowerInv /\ PowerSafe(panel, op) /\ JobSafe(panel, flush, op)
    BY DEF JobInv, PowerInv
  <2>2. op.state # "ACTIVE" => op.phase \in QuietPhases
    BY <2>1, QuietOperation
  <2>. QED BY <2>1, <2>2 DEF TypeOK, FrameType, PowerSafe, QuietPhases
\* A call between operations that leaves no job, or the same job on a panel whose
\* control state did not change.
<1>2. ASSUME op.state # "ACTIVE", op' = op, ~Running(flush')
      PROVE  JobSafe(panel', flush', op')
  BY <1>1, <1>2, NoJobIsSafe
<1>3. ASSUME op' = op, panel' = panel, Running(flush') <=> Running(flush)
      PROVE  JobSafe(panel', flush', op')
  BY <1>1, <1>3 DEF JobSafe
<1>4. ASSUME op.state # "ACTIVE", op.state \notin Terminal, op' = op,
             panel'.initialized, ~panel'.controlDirty
      PROVE  JobSafe(panel', flush', op')
  BY <1>1, <1>4 DEF JobSafe
<1>5. \A late : /\ Ticked(late).initialized = panel.initialized
                /\ Ticked(late).controlDirty = panel.controlDirty
  BY <1>1 DEF Ticked, TickPowerOn, PanelType
<1>6. CASE FlushCall
  <2>1. ASSUME RequestFlush PROVE JobSafe(panel', flush', op')
    <3>1. CASE flush' = ConsumedFlush
      BY <1>1, <1>3, <2>1, <3>1, JobStates DEF RequestFlush
    <3>2. CASE ~FlushRefused
      BY <1>1, <1>4, <2>1, <3>2
         DEF RequestFlush, FlushRefused, LegacyOwner, OperationActive, OperationResultReady
    <3>. QED BY <2>1, <3>1, <3>2 DEF RequestFlush
  <2>2. ASSUME NEW late, LegacyPoll(late) PROVE JobSafe(panel', flush', op')
    <3>1. /\ op.state # "ACTIVE" /\ op.state \notin Terminal /\ op' = op
          /\ Running(flush) /\ panel' = Ticked(late)
      BY <2>2 DEF LegacyPoll, LegacyOwner, OperationActive, OperationResultReady,
                  IsFlushing, Running, Ticked
    <3>2. panel.initialized /\ ~panel.controlDirty
      BY <1>1, <3>1 DEF JobSafe
    <3>. QED BY <1>4, <1>5, <3>1, <3>2
  <2>3. ASSUME NEW late, PollFlushEnded(late) PROVE JobSafe(panel', flush', op')
    <3>1. op.state # "ACTIVE" /\ op' = op /\ ~Running(flush)
      BY <2>3 DEF PollFlushEnded, LegacyOwner, OperationActive, Running, FlushPhases
    <3>2. ~Running(flush')
      BY <1>1, <2>3, <3>1, JobStates DEF PollFlushEnded, ConsumeTerminalFlush
    <3>. QED BY <1>2, <3>1, <3>2
  <2>4. ASSUME WaitFlushGivesUp PROVE JobSafe(panel', flush', op')
    <3>1. op.state # "ACTIVE" /\ op' = op /\ flush \in FlushType
      BY <1>1, <2>4 DEF WaitFlushGivesUp, LegacyOwner, OperationActive, TypeOK
    <3>. DEFINE failed == [EndJob("ERROR") EXCEPT !.tx = flush.tx]
    <3>2. ~Running(failed)
      BY <1>1, FlushTypes DEF Running, FlushPhases, FlushType
    <3>3. ~Running([IdleFlush EXCEPT !.failed = TRUE])
      BY DEF IdleFlush, Running, FlushPhases
    <3>4. flush' = failed \/ flush' = [IdleFlush EXCEPT !.failed = TRUE]
      BY <2>4 DEF WaitFlushGivesUp
    <3>. HIDE DEF failed
    <3>. QED BY <1>2, <3>1, <3>2, <3>3, <3>4
  <2>. QED BY <1>6, <2>1, <2>2, <2>3, <2>4
           DEF FlushCall, PollFlush, PollFlushTimeout, PollFlushWaits, PollFlushSends
<1>7. CASE FrameCall
  <2>1. ASSUME NEW p, NEW S, Draw(p, S) PROVE JobSafe(panel', flush', op')
    BY <1>1, <1>3, <2>1, JobStates DEF Draw
  <2>2. DrawAll \/ ClearDirty => JobSafe(panel', flush', op')
    BY <1>1, <1>3, JobStates DEF DrawAll, ClearDirty
  <2>3. ASSUME FirstPage PROVE JobSafe(panel', flush', op')
    BY <1>1, <1>3, <2>3, JobStates
       DEF FirstPage, FirstPageAdmitted, DirectI2cAdmitted, IsFlushing, Running
  <2>4. NextPageAdmitted =>
          /\ op.state # "ACTIVE" /\ op.state \notin Terminal /\ ~Running(flush)
          /\ panel.initialized
    BY DEF NextPageAdmitted, LegacyOwner, OperationActive, OperationResultReady,
           IsFlushing, Running
  <2>5. ASSUME NextPageReportsFailure PROVE JobSafe(panel', flush', op')
    <3>1. ~Running([IdleFlush EXCEPT !.failed = TRUE])
      BY DEF IdleFlush, Running, FlushPhases
    <3>. QED BY <1>2, <2>4, <2>5, <3>1 DEF NextPageReportsFailure
  <2>6. ASSUME NextPageAfterWindow PROVE JobSafe(panel', flush', op')
    <3>1. ~Running([IdleFlush EXCEPT !.failed = flush.failed])
      BY DEF IdleFlush, Running, FlushPhases
    <3>. QED BY <1>2, <2>4, <2>6, <3>1 DEF NextPageAfterWindow
  <2>7. ASSUME NextPageSendsWindow PROVE JobSafe(panel', flush', op')
    <3>1. CASE flush' = flush
      BY <1>3, <2>7, <3>1 DEF NextPageSendsWindow
    <3>2. CASE ~panel.controlDirty
      BY <1>4, <2>4, <2>7, <3>2 DEF NextPageSendsWindow
    <3>. QED BY <2>7, <3>1, <3>2 DEF NextPageSendsWindow
  <2>. QED BY <1>7, <2>1, <2>2, <2>3, <2>5, <2>6, <2>7 DEF FrameCall, ClearDirtyIfIdle
<1>8. CASE ControlCall
  <2>1. ASSUME NEW o \in Outcomes, TrackedWrite(o) PROVE JobSafe(panel', flush', op')
    <3>1. op.state # "ACTIVE" /\ op' = op /\ ~Running(flush) /\ flush' = SettledFlush
      BY <2>1 DEF TrackedWrite, DirectI2cAdmitted, OperationActive, IsFlushing, Running
    <3>. QED BY <1>1, <1>2, <3>1, JobStates
  <2>2. ASSUME NEW late, TickPanelGuard(late) PROVE JobSafe(panel', flush', op')
    <3>1. panel' = Ticked(late) /\ op' = op /\ flush' = flush /\ panel.guard = "INIT_DELAY"
      BY <2>2 DEF TickPanelGuard
    <3>2. panel.power = "STARTING"
      BY <1>1, <3>1 DEF PowerModelOf
    <3>. QED BY <1>1, <1>5, <3>1, <3>2 DEF JobSafe
  <2>3. ASSUME NEW really, PanelReset(really) PROVE JobSafe(panel', flush', op')
    <3>. DEFINE dropped == [EndJob("ERROR") EXCEPT !.accounted = TRUE]
                effect == IF op.tx = 0 THEN "NONE" ELSE "PARTIAL"
    <3>1. ~Running(dropped)
      BY <1>1, FlushTypes DEF Running, FlushPhases, FlushType
    <3>2. \/ /\ OperationActive
             /\ flush' = JobAfterFailure(flush)
             /\ op' = EndOperation("CANCELLED", effect, op.touched)
          \/ /\ ~OperationActive /\ op' = op
             /\ flush' = IF Running(flush) THEN dropped ELSE SettledFlush
      BY <2>3 DEF PanelReset, InvalidatePanelState, IsFlushing, Running
    <3>. HIDE DEF dropped, effect
    <3>3. CASE /\ OperationActive
               /\ flush' = JobAfterFailure(flush)
               /\ op' = EndOperation("CANCELLED", effect, op.touched)
      BY <3>3, EndedOperation, JobsOfEndedOperations, EndedJobIsSafe
    <3>4. CASE /\ ~OperationActive /\ op' = op
               /\ flush' = IF Running(flush) THEN dropped ELSE SettledFlush
      BY <1>1, <1>2, <3>1, <3>4, JobStates DEF OperationActive
    <3>. QED BY <3>2, <3>3, <3>4
  <2>. QED BY <1>8, <2>1, <2>2, <2>3
           DEF ControlCall, SetRegister, SetFlipX, StopScroll, SleepNow, WakeNow,
               SendRawCommand
<1>9. CASE Lifecycle
  <2>1. CASE Attach
    BY <1>1, <1>2, <2>1, JobStates DEF Attach, DirectI2cAdmitted, OperationActive
  <2>2. CASE Detach
    BY <1>1, <2>2, JobStates, NoJobIsSafe DEF Detach, NoOperation
  <2>. QED BY <1>9, <2>1, <2>2 DEF Lifecycle
<1>. QED BY <1>6, <1>7, <1>8, <1>9

LEMMA JobInvHolds == Spec => []JobInv
<1>1. Init => JobSafe(panel, flush, op)
  BY DEF Init, IdleFlush, NoOperation, JobSafe, Running, FlushPhases
<1>2. JobInv /\ [Next]_vars => JobSafe(panel', flush', op')
  <2>1. ASSUME JobInv, Next PROVE JobSafe(panel', flush', op')
    BY <2>1, OperationCallIsJobSafe, OtherCallsAreJobSafe DEF Next
  <2>2. ASSUME JobInv, UNCHANGED vars PROVE JobSafe(panel', flush', op')
    BY <2>2 DEF vars, JobInv
  <2>. QED BY <2>1, <2>2
<1>3. Init /\ PowerInv => JobInv
  BY <1>1 DEF JobInv
<1>4. JobInv /\ [Next]_vars /\ PowerInv' => JobInv'
  BY <1>2 DEF JobInv
<1>. QED BY <1>3, <1>4, PowerInvHolds, PTL DEF Spec

\* The bus has one owner at a time: an operation's flush phase and a running job
\* go together, and an unconsumed result excludes one.
THEOREM OneOwner == Spec => []JobOwnership
BY JobInvHolds, JobInvImplies, PTL

\* No flush job, of the owner or of an operation, waits for a panel state that
\* no later poll can bring about (the wait for the display-on guard in
\* _advanceFlush(), after the checks that admitted the job).
THEOREM JobsAreNeverBlocked == Spec => []FlushNeverBlocked
BY JobInvHolds, JobInvImplies, PTL

-----------------------------------------------------------------------------
\* The truth of what the driver reports.

\* What a result says of the transactions that touched the controller.
HonestResult(o) ==
  /\ o.effect = "NONE" => ~o.touched
  /\ o.effect = "PARTIAL" => o.touched
  /\ o.effect = "CONFIRMED" <=> o.state = "SUCCEEDED"

\* Which operations go through the phases that PhaseOfKind leaves open.
KindOfPhase(o) ==
  /\ o.phase = "DISPLAY_OFF" => o.kind \in {"SLEEP", "SHUTDOWN"}
  /\ o.phase = "CHARGE_PUMP_OFF" => o.kind = "SHUTDOWN"
  /\ o.phase \in {"SCROLL_DEACTIVATE", "SCROLL_CONFIGURE", "SCROLL_ACTIVATE"} =>
       o.kind = "SCROLL"
  /\ o.state = "ACTIVE" /\ o.phase \in QuietPhases => o.kind = "FLUSH"

\* The invariant behind an honest effect.  While the operation runs, it has
\* touched the controller exactly when it counts a transaction; the phases that
\* only a success leads to are entered after one.
EffectSafe(o) ==
  /\ o.state = "ACTIVE" => (o.tx # 0 <=> o.touched)
  /\ o.phase \in {"CHARGE_PUMP_OFF", "SCROLL_CONFIGURE", "SCROLL_ACTIVATE",
                  "DISPLAY_ON_DELAY"} => o.touched
  /\ o.state = "ACTIVE" /\ o.phase \in QuietPhases => ~o.touched
  /\ o.state \in Terminal => HonestResult(o)
  /\ o.state = "IDLE" => o = NoOperation
  /\ KindOfPhase(o)

\* A step of the active operation, seen from its effect.
EffectStep ==
  /\ EffectSafe(op')
  /\ op'.kind = op.kind
  /\ op'.state \in {"ACTIVE"} \cup Terminal
  /\ op.touched => op'.touched
  /\ op'.state = "SUCCEEDED" => op'.touched \/ op.kind = "FLUSH"

LEMMA EndsHonestly ==
  ASSUME NEW state \in Terminal, NEW effect, NEW touched \in BOOLEAN,
         effect = "NONE" => ~touched,
         effect = "PARTIAL" => touched,
         effect = "CONFIRMED" <=> state = "SUCCEEDED",
         op.touched => touched,
         state = "SUCCEEDED" => touched \/ op.kind = "FLUSH",
         op' = EndOperation(state, effect, touched)
  PROVE  /\ EffectStep
         /\ op'.state = state /\ op'.touched = touched
         /\ op'.phase = "COMPLETE" /\ op'.effect = effect
<1>1. /\ op'.kind = op.kind /\ op'.state = state /\ op'.effect = effect
      /\ op'.touched = touched /\ op'.phase = "COMPLETE"
  BY DEF EndOperation, NoOperation
<1>2. EffectSafe(op')
  BY <1>1 DEF EffectSafe, HonestResult, KindOfPhase, QuietPhases, Terminal
<1>. QED BY <1>1, <1>2 DEF EffectStep

\* A failed transaction is certain only when nothing was received.
LEMMA FailureIsHonest ==
  \A o \in Outcomes, was \in BOOLEAN :
    o # "OK" =>
      /\ EffectForFailure(o, was) = "NONE" => ~(was \/ TookEffect(o))
      /\ EffectForFailure(o, was) = "PARTIAL" => was
      /\ EffectForFailure(o, was) # "CONFIRMED"
      /\ (was \/ TookEffect(o)) \in BOOLEAN
BY DEF Outcomes, EffectForFailure, TookEffect, Ambiguous

LEMMA OperationFailsHonestly ==
  ASSUME op \in OpType, NEW o \in Outcomes, o # "OK", NEW prefix, prefix <=> op.touched,
         op' = EndOperation("FAILED", EffectForFailure(o, prefix),
                            op.touched \/ TookEffect(o))
  PROVE  /\ EffectStep /\ op'.state = "FAILED" /\ op'.phase = "COMPLETE"
         /\ op'.touched <=> op.touched \/ TookEffect(o)
<1>. DEFINE effect == EffectForFailure(o, prefix)
            touched == op.touched \/ TookEffect(o)
<1>1. op.touched \in BOOLEAN
  BY DEF OpType
<1>2. EffectForFailure(o, prefix) = EffectForFailure(o, op.touched)
  BY <1>1 DEF EffectForFailure
<1>3. /\ effect = "NONE" => ~touched
      /\ effect = "PARTIAL" => touched
      /\ effect # "CONFIRMED" /\ touched \in BOOLEAN /\ (op.touched => touched)
  BY <1>1, <1>2, FailureIsHonest
<1>4. op' = EndOperation("FAILED", effect, touched)
  OBVIOUS
<1>5. "FAILED" \in Terminal /\ "FAILED" # "SUCCEEDED"
  BY DEF Terminal
<1>6. touched <=> op.touched \/ TookEffect(o)
  OBVIOUS
<1>. HIDE DEF effect, touched
<1>. QED BY <1>3, <1>4, <1>5, <1>6, EndsHonestly

LEMMA StepsOfActiveOperation ==
  ASSUME op \in OpType, OperationActive, EffectSafe(op)
  PROVE  /\ \A o \in Outcomes : \A prefix :
              CommandFails(o, prefix) /\ o # "OK" /\ (prefix <=> op.touched) =>
                /\ EffectStep /\ op'.state = "FAILED" /\ op'.phase = "COMPLETE"
                /\ op'.touched <=> op.touched \/ TookEffect(o)
         /\ \A h, f, tx :
              /\ FinishOperation(h, f, TRUE, tx) =>
                   /\ EffectStep /\ op'.state = "SUCCEEDED" /\ op'.phase = "COMPLETE"
                   /\ op'.touched
              /\ FinishOperation(h, f, FALSE, tx) /\ op.phase = "IDLE" =>
                   EffectStep /\ op'.state = "SUCCEEDED" /\ op'.phase = "COMPLETE"
         /\ \A next \in ControlPhases :
              CommandSucceeds(next) =>
                /\ op'.state = "ACTIVE" /\ op'.phase = next /\ op'.touched
                /\ op'.kind = op.kind
                /\ op'.tx # 0
                /\ KindOfPhase([op EXCEPT !.phase = next]) => EffectStep
         /\ \A p : \A state \in {"CANCELLED", "TIMED_OUT"} :
              Terminate(state, p) =>
                /\ EffectStep /\ op'.state = state /\ op'.phase = "COMPLETE"
                /\ op'.touched = op.touched
                /\ op'.effect = IF op.touched THEN "PARTIAL" ELSE "NONE"
<1>1. op.touched \in BOOLEAN /\ op.state = "ACTIVE" /\ (op.tx # 0 <=> op.touched)
      /\ (op.phase = "IDLE" => op.kind = "FLUSH" /\ ~op.touched)
  BY DEF OpType, OperationActive, EffectSafe, KindOfPhase, QuietPhases
<1>2. ASSUME NEW o \in Outcomes, NEW prefix, CommandFails(o, prefix), o # "OK",
             prefix <=> op.touched
      PROVE  /\ EffectStep /\ op'.state = "FAILED" /\ op'.phase = "COMPLETE"
             /\ op'.touched <=> op.touched \/ TookEffect(o)
  <2>1. op' = EndOperation("FAILED", EffectForFailure(o, prefix),
                           op.touched \/ TookEffect(o))
    BY <1>2 DEF CommandFails
  <2>. QED BY <1>2, <2>1, OperationFailsHonestly
<1>3. ASSUME NEW h, NEW f, NEW tx, NEW touched \in BOOLEAN,
             FinishOperation(h, f, touched, tx),
             touched \/ op.phase = "IDLE"
      PROVE  /\ EffectStep /\ op'.state = "SUCCEEDED" /\ op'.phase = "COMPLETE"
             /\ op'.touched = touched
  <2>1. op' = EndOperation("SUCCEEDED", "CONFIRMED", touched)
    BY <1>3 DEF FinishOperation
  <2>2. "SUCCEEDED" \in Terminal
    BY DEF Terminal
  <2>3. (op.touched => touched) /\ (touched \/ op.kind = "FLUSH")
    BY <1>1, <1>3
  <2>. QED BY <2>1, <2>2, <2>3, EndsHonestly
<1>4. ASSUME NEW next \in ControlPhases, CommandSucceeds(next)
      PROVE  /\ op'.state = "ACTIVE" /\ op'.phase = next /\ op'.touched
             /\ op'.kind = op.kind
             /\ op'.tx # 0
             /\ KindOfPhase([op EXCEPT !.phase = next]) => EffectStep
  <2>1. CountTx # 0
    BY DEF CountTx, OpType, TxCap
  <2>2. /\ op'.state = "ACTIVE" /\ op'.phase = next /\ op'.touched = TRUE
        /\ op'.kind = op.kind /\ op'.tx # 0
    BY <1>1, <1>4, <2>1 DEF CommandSucceeds, OpType
  <2>3. ASSUME KindOfPhase([op EXCEPT !.phase = next]) PROVE EffectStep
    <3>1. KindOfPhase(op')
      BY <1>1, <2>2, <2>3 DEF KindOfPhase, OpType
    <3>2. next \notin QuietPhases
      BY DEF ControlPhases, QuietPhases
    <3>. QED BY <2>2, <3>1, <3>2 DEF EffectStep, EffectSafe, Terminal
  <2>. QED BY <2>2, <2>3
<1>5. ASSUME NEW p, NEW state \in {"CANCELLED", "TIMED_OUT"}, Terminate(state, p)
      PROVE  /\ EffectStep /\ op'.state = state /\ op'.phase = "COMPLETE"
             /\ op'.touched = op.touched
             /\ op'.effect = IF op.touched THEN "PARTIAL" ELSE "NONE"
  <2>. DEFINE effect == IF op.touched THEN "PARTIAL" ELSE "NONE"
  <2>1. op' = EndOperation(state, effect, op.touched)
    BY <1>1, <1>5 DEF Terminate
  <2>2. /\ state \in Terminal /\ state # "SUCCEEDED"
        /\ effect = "NONE" => ~op.touched
        /\ effect = "PARTIAL" => op.touched
        /\ effect # "CONFIRMED"
    BY DEF Terminal
  <2>3. effect = IF op.touched THEN "PARTIAL" ELSE "NONE"
    OBVIOUS
  <2>. HIDE DEF effect
  <2>. QED BY <1>1, <2>1, <2>2, <2>3, EndsHonestly
<1>. QED BY <1>2, <1>3, <1>4, <1>5

-----------------------------------------------------------------------------
\* The modeled power against the glass

\* An initialization that has sent its DISPLAY_OFF and is not over: the modeled
\* power is revised at its end.
Begun(o) == o.state = "ACTIVE" /\ o.phase = "INITIALIZE_COMMAND" /\ o.tx # 0

ShownPower(p, o) == IF Begun(o) THEN "UNKNOWN" ELSE p.power

Honest(power, d) ==
  /\ power \in {"ON", "STARTING"} => d.lit
  /\ power = "OFF" => ~d.lit

\* PowerTruth of a panel p, with what an initialization knows of the glass.
LitSafe(p, o, d) ==
  /\ Honest(ShownPower(p, o), d)
  /\ Begun(o) => ~d.lit
  /\ o.phase = "INITIALIZE_COMMAND" /\ o.tx = 0 => o.step = 0

\* A panel whose power moved only as its display-on guard does by itself.
PowerKept(power, next) == next = power \/ (power = "STARTING" /\ next = "ON")

\* A step of the active operation, seen from the glass: only an operation about
\* power changes it, only by a transaction, and its success says how it ended.
PowerStep ==
  /\ LitSafe(panel', op', device')
  /\ device'.lit # device.lit => op'.touched
  /\ op.kind \in {"FLUSH", "SCROLL"} =>
       device'.lit = device.lit /\ PowerKept(panel.power, panel'.power)
  /\ op'.state = "SUCCEEDED" =>
       /\ op.kind \in {"WAKE", "RESYNC"} => panel'.power = "ON"
       /\ op.kind \in {"INITIALIZE", "SLEEP", "SHUTDOWN"} => panel'.power = "OFF"

TruthInv == JobInv /\ EffectSafe(op) /\ LitSafe(panel, op, device)

LEMMA TruthInvImplies == TruthInv => PowerTruth /\ EffectHonest
BY DEF TruthInv, LitSafe, Honest, ShownPower, Begun, InitSequenceBegun, OperationActive,
       EffectSafe, HonestResult, OperationResultReady, PowerTruth, EffectHonest

\* What the invariant says of an active operation.
LEMMA DuringOperation ==
  ASSUME TruthInv
  PROVE  /\ panel \in PanelType /\ op \in OpType /\ device \in DeviceType
         /\ EffectSafe(op) /\ KindOfPhase(op) /\ PhaseOfKind(op)
         /\ PowerDuring(panel, op) /\ PowerModelOf(panel, op.phase)
         /\ op.phase # "INITIALIZE_COMMAND" => Honest(panel.power, device)
         /\ JobInv /\ TypeOK
BY DEF TruthInv, JobInv, PowerInv, PowerSafe, TypeOK, EffectSafe, LitSafe, ShownPower, Begun

\* Ticks and repaired flags do not change what is claimed of the glass.
LEMMA TickedTruth ==
  ASSUME NEW p \in PanelType, NEW late, NEW phase, PowerModelOf(p, phase)
  PROVE  /\ PowerKept(p.power, TickPowerOn(p, late).power)
         /\ \A d : Honest(p.power, d) => Honest(TickPowerOn(p, late).power, d)
BY DEF PowerModelOf, TickPowerOn, PanelType, PowerKept, Honest

\* What a command does to the glass.
LEMMA Lit ==
  ASSUME device \in DeviceType
  PROVE  /\ ApplyDisplayOff(device).lit = FALSE
         /\ ApplyDisplayOn(device).lit = TRUE
         /\ ApplyScrollOff(device).lit = device.lit
         /\ ApplyScrollOn(device).lit = device.lit
         /\ AllStale.lit = device.lit
         /\ device.lit \in BOOLEAN
BY DEF ApplyDisplayOff, ApplyDisplayOn, ApplyScrollOff, ApplyScrollOn, AllStale, DeviceType

\* A flush transaction never switches the display.
LEMMA FlushKeepsLit ==
  ASSUME device \in DeviceType, NEW o, NEW k, FlushTransaction(o, k)
  PROVE  device'.lit = device.lit
<1>1. SendAddress(o) => device' = device
  BY DEF SendAddress
<1>2. SendData(o, k) => device'.lit = device.lit
  BY DEF SendData, DeviceType
<1>. QED BY <1>1, <1>2 DEF FlushTransaction

\* An ended or untouched initialization hides nothing.
LEMMA EndedIsLitSafe ==
  ASSUME op'.phase # "INITIALIZE_COMMAND", Honest(panel'.power, device')
  PROVE  LitSafe(panel', op', device')
BY DEF LitSafe, ShownPower, Begun

\* What the panel helpers make of the modeled power.
LEMMA PowerOfPanel ==
  ASSUME NEW p \in PanelType
  PROVE  /\ MarkControlDirty(p).power = p.power
         /\ MarkControlDirty(InvalidatePower(p)).power = "UNKNOWN"
         /\ Invalidated(p).power = "UNKNOWN"
         /\ DisplayIsOff(p).power = "OFF"
         /\ TerminatedPanel(p).power =
              IF op.kind \in {"INITIALIZE", "RESYNC", "WAKE"} /\ op.tx # 0
              THEN "UNKNOWN" ELSE p.power
BY DEF MarkControlDirty, InvalidatePower, Invalidated, DisplayIsOff, TerminatedPanel,
       ControlSequence, PanelType

LEMMA UnknownIsHonest == \A d : Honest("UNKNOWN", d)
BY DEF Honest

-----------------------------------------------------------------------------
\* Each step of an operation

\* Cancellation, deadline and stall.
LEMMA TerminateIsTrue ==
  ASSUME TruthInv, OperationActive, NEW state \in {"CANCELLED", "TIMED_OUT"},
         NEW p \in PanelType, p = panel \/ \E late : p = Ticked(late),
         Terminate(state, p)
  PROVE  EffectStep /\ PowerStep
<1>1. /\ op \in OpType /\ EffectSafe(op) /\ PhaseOfKind(op) /\ panel \in PanelType
      /\ op.phase # "INITIALIZE_COMMAND" => Honest(panel.power, device)
      /\ PowerModelOf(panel, op.phase)
  BY DuringOperation
<1>2. /\ EffectStep /\ op'.state = state /\ op'.phase = "COMPLETE"
      /\ op'.touched = op.touched
  BY <1>1, StepsOfActiveOperation
<1>3. device' = device /\ panel' = TerminatedPanel(p)
  BY DEF Terminate
<1>4. PowerKept(panel.power, p.power)
      /\ (Honest(panel.power, device) => Honest(p.power, device))
  BY <1>1, TickedTruth DEF Ticked, PowerKept
<1>5. Honest(panel'.power, device')
  <2>1. CASE op.phase = "INITIALIZE_COMMAND" /\ op.tx # 0
    <3>1. panel'.power = "UNKNOWN"
      BY <1>1, <1>3, <2>1, PowerOfPanel DEF PhaseOfKind
    <3>. QED BY <3>1, UnknownIsHonest
  <2>2. CASE ~(op.phase = "INITIALIZE_COMMAND" /\ op.tx # 0)
    <3>1. Honest(panel.power, device)
      BY <2>2 DEF TruthInv, LitSafe, ShownPower, Begun
    <3>. QED BY <1>3, <1>4, <3>1, PowerOfPanel, UnknownIsHonest
  <2>. QED BY <2>1, <2>2
<1>6. LitSafe(panel', op', device')
  BY <1>2, <1>5, EndedIsLitSafe
<1>7. op.kind \in {"FLUSH", "SCROLL"} => PowerKept(panel.power, panel'.power)
  BY <1>3, <1>4, PowerOfPanel
<1>. QED BY <1>2, <1>3, <1>6, <1>7 DEF PowerStep

LEMMA PollInitializeIsTrue ==
  ASSUME TruthInv, NEW late, NEW o \in Outcomes, PollInitialize(late, o)
  PROVE  EffectStep /\ PowerStep
<1>1. /\ op \in OpType /\ EffectSafe(op) /\ panel \in PanelType /\ device \in DeviceType
      /\ op.kind \in {"INITIALIZE", "RESYNC"} /\ OperationActive
      /\ op.phase = "INITIALIZE_COMMAND" /\ op.state = "ACTIVE"
      /\ op.tx # 0 <=> op.touched
      /\ Ticked(late) \in PanelType
  <2>1. op.phase = "INITIALIZE_COMMAND" /\ OperationActive
    BY DEF PollInitialize, Polls
  <2>. QED BY <2>1, DuringOperation, PanelTypes
           DEF PhaseOfKind, EffectSafe, OperationActive, Ticked
<1>2. /\ op.tx # 0 => ~device.lit
      /\ op.tx = 0 => op.step = 0
  BY <1>1 DEF TruthInv, LitSafe, Begun
<1>. DEFINE d == IF TookEffect(o) THEN ApplyInitStep(device, op.step) ELSE device
            prefix == op.tx # 0
<1>3. /\ d.lit # device.lit => TookEffect(o)
      /\ o = "OK" => ~d.lit
  BY <1>1, <1>2, Lit DEF ApplyInitStep, TookEffect
<1>4. device'.lit = d.lit
  <2>1. d \in DeviceType
    BY <1>1, DeviceTypes DEF ApplyInitStep
  <2>2. device' = d \/ device' = [d EXCEPT !.forgot = FALSE, !.discarded = {}]
    BY DEF PollInitialize
  <2>. HIDE DEF d
  <2>. QED BY <2>1, <2>2 DEF DeviceType
<1>5. \/ /\ o # "OK" /\ CommandFails(o, prefix)
         /\ panel' = MarkControlDirty(InvalidatePower(panel))
      \/ /\ o = "OK" /\ op.step + 1 # InitSteps
         /\ op' = [op EXCEPT !.step = @ + 1, !.effect = "PARTIAL", !.tx = CountTx,
                             !.touched = TRUE]
      \/ /\ o = "OK"
         /\ panel' = [Ticked(late) EXCEPT !.initialized = TRUE, !.sleeping = TRUE,
                        !.scrolling = FALSE, !.power = "OFF", !.guard = "OFF",
                        !.controlDirty = FALSE]
         /\ \/ FinishOperation(health, flush, TRUE, 1) /\ op.kind = "INITIALIZE"
            \/ op' = [op EXCEPT !.phase = "FLUSH_PHASE", !.effect = "PARTIAL",
                                !.tx = CountTx, !.touched = TRUE]
  BY DEF PollInitialize
<1>6. CountTx # 0
  BY <1>1 DEF CountTx, OpType, TxCap
<1>. HIDE DEF d, prefix
<1>7. CASE /\ o # "OK" /\ CommandFails(o, prefix)
           /\ panel' = MarkControlDirty(InvalidatePower(panel))
  <2>1. prefix <=> op.touched
    BY <1>1 DEF prefix
  <2>2. /\ EffectStep /\ op'.state = "FAILED" /\ op'.phase = "COMPLETE"
        /\ op'.touched <=> op.touched \/ TookEffect(o)
    BY <1>1, <1>7, <2>1, StepsOfActiveOperation
  <2>3. LitSafe(panel', op', device')
    BY <1>1, <1>7, <2>2, EndedIsLitSafe, PowerOfPanel, UnknownIsHonest
  <2>. QED BY <1>1, <1>3, <1>4, <2>2, <2>3 DEF PowerStep
<1>8. CASE /\ o = "OK" /\ op.step + 1 # InitSteps
           /\ op' = [op EXCEPT !.step = @ + 1, !.effect = "PARTIAL", !.tx = CountTx,
                               !.touched = TRUE]
  <2>1. /\ op'.state = "ACTIVE" /\ op'.phase = "INITIALIZE_COMMAND" /\ op'.touched
        /\ op'.kind = op.kind /\ op'.tx # 0
    BY <1>1, <1>6, <1>8 DEF OpType
  <2>2. EffectStep
    BY <1>1, <2>1 DEF EffectStep, EffectSafe, KindOfPhase, QuietPhases, Terminal
  <2>3. LitSafe(panel', op', device')
    BY <1>3, <1>4, <1>8, <2>1 DEF LitSafe, ShownPower, Begun, Honest
  <2>. QED BY <1>1, <2>1, <2>2, <2>3 DEF PowerStep
<1>9. CASE /\ o = "OK"
           /\ panel' = [Ticked(late) EXCEPT !.initialized = TRUE, !.sleeping = TRUE,
                          !.scrolling = FALSE, !.power = "OFF", !.guard = "OFF",
                          !.controlDirty = FALSE]
           /\ \/ FinishOperation(health, flush, TRUE, 1) /\ op.kind = "INITIALIZE"
              \/ op' = [op EXCEPT !.phase = "FLUSH_PHASE", !.effect = "PARTIAL",
                                  !.tx = CountTx, !.touched = TRUE]
  <2>1. panel'.power = "OFF"
    BY <1>1, <1>9 DEF PanelType
  <2>2. Honest(panel'.power, device')
    BY <1>3, <1>4, <1>9, <2>1 DEF Honest
  <2>3. CASE FinishOperation(health, flush, TRUE, 1) /\ op.kind = "INITIALIZE"
    <3>1. /\ EffectStep /\ op'.state = "SUCCEEDED" /\ op'.phase = "COMPLETE"
          /\ op'.touched
      BY <1>1, <2>3, StepsOfActiveOperation
    <3>. QED BY <2>1, <2>2, <2>3, <3>1, EndedIsLitSafe DEF PowerStep
  <2>4. CASE op' = [op EXCEPT !.phase = "FLUSH_PHASE", !.effect = "PARTIAL",
                              !.tx = CountTx, !.touched = TRUE]
    <3>1. /\ op'.state = "ACTIVE" /\ op'.phase = "FLUSH_PHASE" /\ op'.touched
          /\ op'.kind = op.kind /\ op'.tx # 0
      BY <1>1, <1>6, <2>4 DEF OpType
    <3>2. EffectStep
      BY <1>1, <3>1 DEF EffectStep, EffectSafe, KindOfPhase, QuietPhases, Terminal
    <3>. QED BY <1>1, <2>2, <3>1, <3>2, EndedIsLitSafe DEF PowerStep
  <2>. QED BY <1>9, <2>3, <2>4
<1>. QED BY <1>5, <1>7, <1>8, <1>9

\* The glass after a step that left it alone and let the clock tick.
LEMMA QuietStepIsLitSafe ==
  ASSUME TruthInv, op.phase # "INITIALIZE_COMMAND", op'.phase # "INITIALIZE_COMMAND",
         NEW late, panel'.power = Ticked(late).power, device'.lit = device.lit
  PROVE  /\ LitSafe(panel', op', device')
         /\ PowerKept(panel.power, panel'.power)
<1>1. panel \in PanelType /\ PowerModelOf(panel, op.phase) /\ Honest(panel.power, device)
  BY DuringOperation
<1>2. /\ PowerKept(panel.power, panel'.power)
      /\ Honest(panel'.power, device)
  BY <1>1, TickedTruth DEF Ticked
<1>3. Honest(panel'.power, device')
  BY <1>2 DEF Honest
<1>. QED BY <1>2, <1>3, EndedIsLitSafe

LEMMA PollFlushPhaseIsTrue ==
  ASSUME TruthInv, NEW late, NEW o \in Outcomes, NEW k \in Cols,
         PollFlushPhase(late, o, k) \/ PollFlushPhaseTimeout(late)
  PROVE  EffectStep /\ PowerStep
<1>. DEFINE touched == op.touched \/ TookEffect(o)
            phase == IF flush'.state = "DONE" THEN "DISPLAY_ON" ELSE op.phase
            prefix == op.tx # 0
            effect == IF op.tx = 0 THEN "NONE" ELSE "PARTIAL"
<1>1. /\ op \in OpType /\ EffectSafe(op) /\ device \in DeviceType /\ flush \in FlushType
      /\ op.state = "ACTIVE" /\ op.phase = "FLUSH_PHASE"
      /\ op.kind \in {"FLUSH", "RESYNC"}
      /\ op.touched \in BOOLEAN /\ (op.tx # 0 <=> op.touched)
      /\ panel' = Ticked(late)
  BY DuringOperation
     DEF PollFlushPhase, PollFlushPhaseTimeout, Polls, InFlushPhase, PhaseOfKind,
         EffectSafe, OperationActive, OpType, TypeOK
<1>2. device'.lit = device.lit
  <2>1. PollFlushPhaseTimeout(late) => device' = device
    BY DEF PollFlushPhaseTimeout
  <2>2. PollFlushPhase(late, o, k) => FlushTransaction(o, k)
    BY DEF PollFlushPhase
  <2>. QED BY <1>1, <2>1, <2>2, FlushKeepsLit
<1>3. op'.phase # "INITIALIZE_COMMAND" => LitSafe(panel', op', device')
                                           /\ PowerKept(panel.power, panel'.power)
  BY <1>1, <1>2, QuietStepIsLitSafe
<1>4. FlushTransaction(o, k) /\ flush'.state = "ERROR" => o # "OK"
  <2>1. Started.state = flush.state /\ EndJob("DONE").state = "DONE"
    BY <1>1 DEF Started, EndJob, IdleFlush, FlushType
  <2>2. FlushTransaction("OK", k) => flush'.state # "ERROR"
    <3>1. SendAddress("OK") => flush'.state # "ERROR"
      BY <1>1 DEF SendAddress, Started, FlushType
    <3>2. ASSUME NEW sent, FinishPage(sent) PROVE flush'.state # "ERROR"
      BY <1>1, <3>2 DEF FinishPage, Started, EndJob, IdleFlush, FlushType
    <3>3. SendData("OK", k) => flush'.state # "ERROR"
      BY <1>1, <3>2 DEF SendData, Started, FlushType
    <3>. QED BY <3>1, <3>3 DEF FlushTransaction
  <2>. QED BY <2>2
<1>5. FlushTransaction(o, k) /\ flush'.state # "ERROR" => o = "OK"
  <2>1. \A attempted \in BOOLEAN : FailFlush(attempted) => flush'.state = "ERROR"
    BY DEF FailFlush, EndJob, IdleFlush
  <2>. QED BY <2>1 DEF FlushTransaction, SendAddress, SendData
<1>6. \/ /\ o # "OK"
         /\ op' = EndOperation("FAILED", EffectForFailure(o, prefix), touched)
      \/ op' = EndOperation("SUCCEEDED", "CONFIRMED", touched) /\ o = "OK" /\ op.kind = "FLUSH"
      \/ op' = EndOperation("FAILED", effect, op.touched)
      \/ /\ flush'.state \in FlushPhases \/ (flush'.state = "DONE" /\ op.kind = "RESYNC")
         /\ op' = [op EXCEPT !.effect = "PARTIAL", !.tx = CountTx, !.touched = touched,
                             !.phase = phase]
         /\ o = "OK"
  <2>1. "ERROR" \notin FlushPhases /\ "DONE" # "ERROR"
    BY DEF FlushPhases
  <2>2. CASE PollFlushPhaseTimeout(late)
    BY <2>2 DEF PollFlushPhaseTimeout
  <2>3. CASE PollFlushPhase(late, o, k)
    BY <1>1, <1>4, <1>5, <2>1, <2>3 DEF PollFlushPhase, OpType
  <2>. QED BY <2>2, <2>3
<1>7. o = "OK" => touched = TRUE
  BY <1>1 DEF TookEffect
<1>8. "FAILED" \in Terminal /\ "SUCCEEDED" \in Terminal
  BY DEF Terminal
<1>9. CASE o # "OK" /\ op' = EndOperation("FAILED", EffectForFailure(o, prefix), touched)
  <2>1. prefix <=> op.touched
    BY <1>1
  <2>2. EffectStep /\ op'.state = "FAILED" /\ op'.phase = "COMPLETE"
    <3>. HIDE DEF prefix
    <3>. QED BY <1>1, <1>9, <2>1, OperationFailsHonestly
  <2>. QED BY <1>2, <1>3, <2>2 DEF PowerStep
<1>10. CASE op' = EndOperation("SUCCEEDED", "CONFIRMED", touched) /\ o = "OK" /\ op.kind = "FLUSH"
  <2>1. EffectStep /\ op'.state = "SUCCEEDED" /\ op'.phase = "COMPLETE"
    <3>. HIDE DEF touched
    <3>. QED BY <1>1, <1>7, <1>8, <1>10, EndsHonestly
  <2>. QED BY <1>2, <1>3, <1>10, <2>1 DEF PowerStep
<1>11. CASE op' = EndOperation("FAILED", effect, op.touched)
  <2>1. /\ effect = "NONE" => ~op.touched
        /\ effect = "PARTIAL" => op.touched
        /\ effect # "CONFIRMED"
    BY <1>1
  <2>2. EffectStep /\ op'.state = "FAILED" /\ op'.phase = "COMPLETE"
    <3>. HIDE DEF effect
    <3>. QED BY <1>1, <1>8, <1>11, <2>1, EndsHonestly
  <2>. QED BY <1>2, <1>3, <2>2 DEF PowerStep
<1>12. CASE /\ flush'.state \in FlushPhases \/ (flush'.state = "DONE" /\ op.kind = "RESYNC")
            /\ op' = [op EXCEPT !.effect = "PARTIAL", !.tx = CountTx, !.touched = touched,
                                !.phase = phase]
            /\ o = "OK"
  <2>1. CountTx # 0
    BY <1>1 DEF CountTx, OpType, TxCap
  <2>2. phase \in {"DISPLAY_ON", "FLUSH_PHASE"}
    BY <1>1
  <2>. HIDE DEF phase, touched
  <2>3. /\ op'.state = "ACTIVE" /\ op'.phase = phase /\ op'.touched
        /\ op'.kind = op.kind /\ op'.tx # 0
    BY <1>1, <1>7, <1>12, <2>1 DEF OpType
  <2>4. EffectStep
    BY <1>1, <2>2, <2>3 DEF EffectStep, EffectSafe, KindOfPhase, QuietPhases, Terminal
  <2>. QED BY <1>2, <1>3, <2>2, <2>3, <2>4 DEF PowerStep
<1>. QED BY <1>6, <1>9, <1>10, <1>11, <1>12

LEMMA PollCommandIsTrue ==
  ASSUME TruthInv, NEW late, NEW o \in Outcomes,
         \/ PollDisplayOff(late, o)
         \/ PollChargePumpOff(late, o)
         \/ PollDisplayOn(late, o)
         \/ PollScrollDeactivate(late, o)
         \/ PollScrollConfigure(late, o)
         \/ PollScrollActivate(late, o)
  PROVE  EffectStep /\ PowerStep
<1>. DEFINE prefix == op.tx # 0
            unborn == [health EXCEPT !.state = "UNINIT"]
            failed == \/ o # "OK" /\ CommandFails(o, prefix)
                      \/ o # "OK" /\ CommandFails(o, TRUE) /\ op.touched
            finished == \/ FinishOperation(health, flush, TRUE, 1)
                        \/ FinishOperation(unborn, flush, TRUE, 1)
<1>1. /\ panel \in PanelType /\ op \in OpType /\ device \in DeviceType
      /\ EffectSafe(op) /\ PowerDuring(panel, op) /\ PowerModelOf(panel, op.phase)
      /\ OperationActive /\ op.state = "ACTIVE" /\ (op.tx # 0 <=> op.touched)
      /\ op.touched \in BOOLEAN /\ KindOfPhase(op) /\ PhaseOfKind(op)
      /\ op.phase # "INITIALIZE_COMMAND"
      /\ Honest(panel.power, device)
      /\ Ticked(late) \in PanelType
  <2>1. OperationActive /\ op.phase # "INITIALIZE_COMMAND"
    BY DEF Polls, PollDisplayOff, PollChargePumpOff, PollDisplayOn, PollScrollDeactivate,
           PollScrollConfigure, PollScrollActivate
  <2>. QED BY <2>1, DuringOperation, PanelTypes DEF EffectSafe, OperationActive, OpType, Ticked
<1>2. failed => /\ EffectStep /\ op'.state = "FAILED" /\ op'.phase = "COMPLETE"
                /\ op'.touched <=> op.touched \/ TookEffect(o)
  <2>1. prefix <=> op.touched
    BY <1>1
  <2>. HIDE DEF prefix
  <2>. QED BY <1>1, <2>1, StepsOfActiveOperation
<1>3. finished => /\ EffectStep /\ op'.state = "SUCCEEDED" /\ op'.phase = "COMPLETE"
                  /\ op'.touched
  <2>. HIDE DEF unborn
  <2>. QED BY <1>1, StepsOfActiveOperation
<1>4. ASSUME NEW next \in {"CHARGE_PUMP_OFF", "DISPLAY_ON_DELAY", "SCROLL_CONFIGURE",
                            "SCROLL_ACTIVATE"},
             CommandSucceeds(next), KindOfPhase([op EXCEPT !.phase = next])
      PROVE  EffectStep /\ op'.state = "ACTIVE" /\ op'.phase = next /\ op'.touched
  BY <1>1, <1>4, StepsOfActiveOperation DEF ControlPhases
<1>5. /\ MarkControlDirty(InvalidatePower(panel)).power = "UNKNOWN"
      /\ MarkControlDirty(Ticked(late)).power = Ticked(late).power
      /\ DisplayIsOff(Ticked(late)).power = "OFF"
  BY <1>1, PowerOfPanel
<1>6. /\ ApplyDisplayOff(device).lit = FALSE /\ ApplyDisplayOn(device).lit = TRUE
      /\ ApplyScrollOff(device).lit = device.lit /\ ApplyScrollOn(device).lit = device.lit
  BY <1>1, Lit
\* A transaction that went wrong on the power leaves it unknown.
<1>7. ASSUME failed, panel' = MarkControlDirty(InvalidatePower(panel)),
             op.kind \notin {"FLUSH", "SCROLL"},
             device'.lit # device.lit => TookEffect(o)
      PROVE  EffectStep /\ PowerStep
  <2>1. /\ EffectStep /\ op'.state = "FAILED" /\ op'.phase = "COMPLETE"
        /\ op'.touched <=> op.touched \/ TookEffect(o)
    BY <1>2, <1>7
  <2>. QED BY <1>5, <1>7, <2>1, UnknownIsHonest, EndedIsLitSafe DEF PowerStep
\* A step that is not about the power.
<1>8. ASSUME EffectStep, op'.phase # "INITIALIZE_COMMAND", op'.state = "SUCCEEDED" => op.kind = "SCROLL",
             panel'.power = Ticked(late).power, device'.lit = device.lit
      PROVE  EffectStep /\ PowerStep
  BY <1>1, <1>8, QuietStepIsLitSafe DEF PowerStep
<1>. HIDE DEF failed, finished
<1>9. CASE PollDisplayOff(late, o)
  <2>1. /\ op.kind \in {"SLEEP", "SHUTDOWN"}
        /\ device' = IF TookEffect(o) THEN ApplyDisplayOff(device) ELSE device
        /\ \/ failed /\ panel' = MarkControlDirty(InvalidatePower(panel))
           \/ /\ o = "OK" /\ CommandSucceeds("CHARGE_PUMP_OFF") /\ op.kind = "SHUTDOWN"
              /\ panel' = DisplayIsOff(Ticked(late))
           \/ /\ o = "OK" /\ finished
              /\ \/ panel' = [DisplayIsOff(Ticked(late)) EXCEPT !.initialized = FALSE]
                 \/ panel' = DisplayIsOff(Ticked(late))
    BY <1>1, <1>9 DEF PollDisplayOff, KindOfPhase, failed, finished
  <2>2. CASE failed /\ panel' = MarkControlDirty(InvalidatePower(panel))
    BY <1>7, <2>1, <2>2
  <2>3. ASSUME o = "OK"
        PROVE device'.lit = FALSE
    BY <1>6, <2>1, <2>3 DEF TookEffect
  <2>4. CASE /\ o = "OK" /\ CommandSucceeds("CHARGE_PUMP_OFF") /\ op.kind = "SHUTDOWN"
             /\ panel' = DisplayIsOff(Ticked(late))
    <3>1. KindOfPhase([op EXCEPT !.phase = "CHARGE_PUMP_OFF"])
      BY <1>1, <2>4 DEF KindOfPhase, OpType, QuietPhases
    <3>2. EffectStep /\ op'.state = "ACTIVE" /\ op'.phase = "CHARGE_PUMP_OFF" /\ op'.touched
      BY <1>4, <2>4, <3>1
    <3>3. Honest(panel'.power, device')
      BY <1>5, <2>3, <2>4 DEF Honest
    <3>. QED BY <2>4, <3>2, <3>3, EndedIsLitSafe DEF PowerStep
  <2>5. CASE /\ o = "OK" /\ finished
             /\ \/ panel' = [DisplayIsOff(Ticked(late)) EXCEPT !.initialized = FALSE]
                \/ panel' = DisplayIsOff(Ticked(late))
    <3>1. panel'.power = "OFF"
      BY <1>1, <2>5 DEF DisplayIsOff, PanelType
    <3>2. Honest(panel'.power, device')
      BY <2>3, <2>5, <3>1 DEF Honest
    <3>3. EffectStep /\ op'.phase = "COMPLETE" /\ op'.touched
      BY <1>3, <2>5
    <3>. QED BY <2>1, <3>1, <3>2, <3>3, EndedIsLitSafe DEF PowerStep
  <2>. QED BY <2>1, <2>2, <2>4, <2>5
<1>10. CASE PollChargePumpOff(late, o)
  <2>1. /\ op.kind = "SHUTDOWN" /\ panel.power = "OFF" /\ device' = device /\ op.touched
        /\ \/ finished /\ panel' = [Ticked(late) EXCEPT !.initialized = FALSE, !.power = "OFF"]
           \/ failed /\ panel' = MarkControlDirty(Ticked(late))
    BY <1>1, <1>10
       DEF PollChargePumpOff, KindOfPhase, PowerDuring, EffectSafe, failed, finished
  <2>2. CASE failed /\ panel' = MarkControlDirty(Ticked(late))
    BY <1>2, <1>5, <1>8, <2>1, <2>2
  <2>3. CASE finished /\ panel' = [Ticked(late) EXCEPT !.initialized = FALSE, !.power = "OFF"]
    <3>1. panel'.power = "OFF"
      BY <1>1, <2>3 DEF PanelType
    <3>2. Honest(panel'.power, device')
      BY <1>1, <2>1, <3>1
    <3>3. EffectStep /\ op'.phase = "COMPLETE" /\ op'.touched
      BY <1>3, <2>3
    <3>. QED BY <2>1, <3>1, <3>2, <3>3, EndedIsLitSafe DEF PowerStep
  <2>. QED BY <2>1, <2>2, <2>3
<1>11. CASE PollDisplayOn(late, o)
  <2>1. /\ op.kind \in {"WAKE", "RESYNC"}
        /\ device' = IF TookEffect(o) THEN ApplyDisplayOn(device) ELSE device
        /\ \/ failed /\ panel' = MarkControlDirty(InvalidatePower(panel))
           \/ /\ o = "OK" /\ CommandSucceeds("DISPLAY_ON_DELAY")
              /\ panel' = [Ticked(late) EXCEPT !.sleeping = FALSE, !.power = "STARTING"]
           \/ /\ o = "OK" /\ finished
              /\ panel' = [Ticked(late) EXCEPT !.sleeping = FALSE, !.power = "ON",
                                               !.guard = "READY"]
    BY <1>1, <1>11 DEF PollDisplayOn, PhaseOfKind, failed, finished
  <2>2. CASE failed /\ panel' = MarkControlDirty(InvalidatePower(panel))
    BY <1>7, <2>1, <2>2
  <2>3. ASSUME o = "OK" PROVE device'.lit
    BY <1>6, <2>1, <2>3 DEF TookEffect
  <2>4. CASE /\ o = "OK" /\ CommandSucceeds("DISPLAY_ON_DELAY")
             /\ panel' = [Ticked(late) EXCEPT !.sleeping = FALSE, !.power = "STARTING"]
    <3>1. KindOfPhase([op EXCEPT !.phase = "DISPLAY_ON_DELAY"])
      BY <1>1 DEF KindOfPhase, OpType, QuietPhases
    <3>2. EffectStep /\ op'.state = "ACTIVE" /\ op'.phase = "DISPLAY_ON_DELAY" /\ op'.touched
      BY <1>4, <2>4, <3>1
    <3>3. panel'.power = "STARTING"
      BY <1>1, <2>4 DEF PanelType
    <3>4. Honest(panel'.power, device')
      BY <2>3, <2>4, <3>3 DEF Honest
    <3>. QED BY <2>1, <3>2, <3>4, EndedIsLitSafe DEF PowerStep
  <2>5. CASE /\ o = "OK" /\ finished
             /\ panel' = [Ticked(late) EXCEPT !.sleeping = FALSE, !.power = "ON",
                                              !.guard = "READY"]
    <3>1. panel'.power = "ON"
      BY <1>1, <2>5 DEF PanelType
    <3>2. Honest(panel'.power, device')
      BY <2>3, <2>5, <3>1 DEF Honest
    <3>3. EffectStep /\ op'.phase = "COMPLETE" /\ op'.touched
      BY <1>3, <2>5
    <3>. QED BY <2>1, <3>1, <3>2, <3>3, EndedIsLitSafe DEF PowerStep
  <2>. QED BY <2>1, <2>2, <2>4, <2>5
\* The commands of a scroll.
<1>12. ASSUME op.kind = "SCROLL", device'.lit = device.lit, panel'.power = Ticked(late).power,
              \/ failed \/ finished
              \/ \E next \in {"SCROLL_CONFIGURE", "SCROLL_ACTIVATE"} : CommandSucceeds(next)
       PROVE  EffectStep /\ PowerStep
  <2>1. \A next \in {"SCROLL_CONFIGURE", "SCROLL_ACTIVATE"} :
          KindOfPhase([op EXCEPT !.phase = next])
    BY <1>1, <1>12 DEF KindOfPhase, OpType, QuietPhases
  <2>2. \A next \in {"SCROLL_CONFIGURE", "SCROLL_ACTIVATE"} :
          CommandSucceeds(next) =>
            EffectStep /\ op'.state = "ACTIVE" /\ op'.phase # "INITIALIZE_COMMAND"
    BY <1>4, <2>1
  <2>3. EffectStep /\ op'.phase # "INITIALIZE_COMMAND"
    BY <1>2, <1>3, <1>12, <2>2
  <2>. QED BY <1>8, <1>12, <2>3
<1>13. \A scrolling \in BOOLEAN :
         [Ticked(late) EXCEPT !.scrolling = scrolling].power = Ticked(late).power
  BY <1>1 DEF PanelType
<1>14. CASE PollScrollDeactivate(late, o)
  <2>1. op.kind = "SCROLL" /\ device'.lit = device.lit
    BY <1>1, <1>6, <1>14 DEF PollScrollDeactivate, KindOfPhase
  <2>2. /\ panel'.power = Ticked(late).power
        /\ CommandSucceeds("SCROLL_CONFIGURE") \/ failed
    BY <1>5, <1>13, <1>14 DEF PollScrollDeactivate, failed
  <2>. QED BY <1>12, <2>1, <2>2
<1>15. CASE PollScrollConfigure(late, o)
  <2>1. op.kind = "SCROLL" /\ device'.lit = device.lit /\ op.touched
    BY <1>1, <1>15 DEF PollScrollConfigure, KindOfPhase, EffectSafe
  <2>2. /\ panel'.power = Ticked(late).power
        /\ CommandSucceeds("SCROLL_ACTIVATE") \/ failed
    BY <1>5, <1>15, <2>1 DEF PollScrollConfigure, failed
  <2>. QED BY <1>12, <2>1, <2>2
<1>16. CASE PollScrollActivate(late, o)
  <2>1. op.kind = "SCROLL" /\ device'.lit = device.lit /\ op.touched
    BY <1>1, <1>6, <1>16 DEF PollScrollActivate, KindOfPhase, EffectSafe
  <2>2. panel'.power = Ticked(late).power /\ (finished \/ failed)
    BY <1>5, <1>13, <1>16, <2>1 DEF PollScrollActivate, failed, finished
  <2>. QED BY <1>12, <2>1, <2>2
<1>. QED BY <1>9, <1>10, <1>11, <1>14, <1>15, <1>16

\* Every step of the active operation.
LEMMA OperationWorks ==
  ASSUME TruthInv,
         (\E late : PollOperation(late)) \/ CancelOperation \/ BlockingOperationStalls
  PROVE  EffectStep /\ PowerStep
<1>. DEFINE effect == IF op.tx = 0 THEN "NONE" ELSE "PARTIAL"
<1>1. /\ panel \in PanelType /\ op \in OpType /\ EffectSafe(op)
      /\ PowerDuring(panel, op) /\ PowerModelOf(panel, op.phase)
      /\ OperationActive /\ op.touched \in BOOLEAN /\ (op.tx # 0 <=> op.touched)
      /\ op.phase # "INITIALIZE_COMMAND" => Honest(panel.power, device)
  <2>1. OperationActive
    BY PollsAreOfActive DEF CancelOperation, BlockingOperationStalls
  <2>. QED BY <2>1, DuringOperation DEF EffectSafe, OperationActive, OpType
<1>2. ASSUME NEW late, PollDeadline(late) PROVE EffectStep /\ PowerStep
  <2>1. Ticked(late) \in PanelType /\ Terminate("TIMED_OUT", Ticked(late))
    BY <1>1, <1>2, PanelTypes DEF PollDeadline, Ticked
  <2>. QED BY <1>1, <2>1, TerminateIsTrue
<1>3. CancelOperation \/ BlockingOperationStalls => EffectStep /\ PowerStep
  BY <1>1, TerminateIsTrue DEF CancelOperation, BlockingOperationStalls
<1>4. ASSUME NEW late, PollEmptyFlush(late) PROVE EffectStep /\ PowerStep
  <2>1. /\ FinishOperation(health, flush, FALSE, 0) /\ op.phase = "IDLE"
        /\ panel' = Ticked(late) /\ device' = device
    BY <1>4 DEF PollEmptyFlush
  <2>2. EffectStep /\ op'.state = "SUCCEEDED" /\ op'.phase = "COMPLETE"
    BY <1>1, <2>1, StepsOfActiveOperation
  <2>3. op.kind = "FLUSH"
    BY <1>1, <2>1 DEF EffectSafe, KindOfPhase, QuietPhases, OperationActive
  <2>. QED BY <2>1, <2>2, <2>3, QuietStepIsLitSafe DEF PowerStep
<1>5. ASSUME NEW late, PollDisplayOnRejected(late) PROVE EffectStep /\ PowerStep
  <2>1. /\ op' = EndOperation("FAILED", effect, op.touched) /\ op.phase = "DISPLAY_ON"
        /\ panel' = Ticked(late) /\ device' = device
        /\ op.kind \in {"WAKE", "RESYNC"}
    BY <1>5, DuringOperation DEF PollDisplayOnRejected, PhaseOfKind
  <2>2. /\ effect = "NONE" => ~op.touched
        /\ effect = "PARTIAL" => op.touched
        /\ effect # "CONFIRMED" /\ "FAILED" \in Terminal
    BY <1>1 DEF Terminal
  <2>. HIDE DEF effect
  <2>3. EffectStep /\ op'.state = "FAILED" /\ op'.phase = "COMPLETE"
    BY <1>1, <2>1, <2>2, EndsHonestly
  <2>. QED BY <2>1, <2>3, QuietStepIsLitSafe DEF PowerStep
<1>6. ASSUME NEW late, PollDelayStarts(late) PROVE EffectStep /\ PowerStep
  <2>1. /\ op' = [op EXCEPT !.latched = TRUE] /\ op.phase = "DISPLAY_ON_DELAY"
        /\ panel' = Ticked(late) /\ device' = device
        /\ op.kind \in {"WAKE", "RESYNC"} /\ op.state = "ACTIVE"
    BY <1>1, <1>6 DEF PollDelayStarts, PowerDuring, OperationActive
  <2>2. /\ op'.phase = op.phase /\ op'.state = op.state /\ op'.kind = op.kind
        /\ op'.tx = op.tx /\ op'.touched = op.touched
    BY <1>1, <2>1 DEF OpType
  <2>3. EffectStep
    BY <1>1, <2>1, <2>2 DEF EffectStep, EffectSafe, KindOfPhase, QuietPhases, Terminal
  <2>. QED BY <2>1, <2>2, <2>3, QuietStepIsLitSafe DEF PowerStep
<1>7. ASSUME NEW late, PollDelayEnds(late) PROVE EffectStep /\ PowerStep
  <2>1. /\ FinishOperation(health, flush, TRUE, 1)
        /\ op.kind \in {"WAKE", "RESYNC"} /\ panel.power = "STARTING" /\ device.lit
        /\ panel' = [Ticked(late) EXCEPT !.power = "ON", !.guard = "READY"]
        /\ device' = device
    BY <1>1, <1>7 DEF PollDelayEnds, PowerDuring, Honest
  <2>2. EffectStep /\ op'.state = "SUCCEEDED" /\ op'.phase = "COMPLETE" /\ op'.touched
    BY <1>1, <2>1, StepsOfActiveOperation
  <2>3. panel'.power = "ON"
    BY <1>1, <2>1, PanelTypes DEF PanelType, Ticked
  <2>4. LitSafe(panel', op', device')
    BY <2>1, <2>2, <2>3, EndedIsLitSafe DEF Honest
  <2>. QED BY <2>1, <2>2, <2>3, <2>4 DEF PowerStep
<1>8. ASSUME NEW late, PollFlushPhaseTimeout(late) PROVE EffectStep /\ PowerStep
  <2>1. "OK" \in Outcomes /\ 0 \in Cols
    BY ConfigAssumption DEF Outcomes, Cols, ConfigAssumption
  <2>. QED BY <1>8, <2>1, PollFlushPhaseIsTrue
<1>9. ASSUME NEW late, PollOperation(late) PROVE EffectStep /\ PowerStep
  BY <1>2, <1>4, <1>5, <1>6, <1>7, <1>8, <1>9, PollInitializeIsTrue, PollFlushPhaseIsTrue,
     PollCommandIsTrue
     DEF PollOperation
<1>. QED BY <1>3, <1>9

-----------------------------------------------------------------------------
\* Each step between operations

TruthSafe == EffectSafe(op') /\ LitSafe(panel', op', device')

LEMMA StartIsTrue ==
  ASSUME TruthInv, NEW kind \in Kinds, NEW deadline \in BOOLEAN,
         StartOperation(kind, deadline)
  PROVE  TruthSafe
<1>1. panel' = panel /\ device' = device /\ op.state # "ACTIVE"
  BY DEF StartOperation, OperationAdmitted, LegacyOwner, OperationActive
<1>2. Honest(panel.power, device)
  BY <1>1 DEF TruthInv, LitSafe, ShownPower, Begun
<1>3. CASE op' = op
  BY <1>1, <1>3 DEF TruthInv, TruthSafe
<1>4. CASE op' = NewOperation(kind, deadline)
  <2>1. /\ op'.kind = kind /\ op'.state = "ACTIVE" /\ op'.phase = FirstPhase(kind)
        /\ op'.tx = 0 /\ op'.touched = FALSE /\ op'.step = 0
    BY <1>4 DEF NewOperation, NoOperation
  <2>2. /\ FirstPhase(kind) \notin {"CHARGE_PUMP_OFF", "SCROLL_CONFIGURE", "SCROLL_ACTIVATE",
                                    "DISPLAY_ON_DELAY", "COMPLETE"}
        /\ FirstPhase(kind) = "DISPLAY_OFF" => kind \in {"SLEEP", "SHUTDOWN"}
        /\ FirstPhase(kind) = "SCROLL_DEACTIVATE" => kind = "SCROLL"
        /\ FirstPhase(kind) = "IDLE" => kind = "FLUSH"
    BY DEF FirstPhase, Kinds
  <2>3. EffectSafe(op')
    BY <2>1, <2>2 DEF EffectSafe, KindOfPhase, QuietPhases, Terminal
  <2>4. LitSafe(panel', op', device')
    BY <1>1, <1>2, <2>1 DEF LitSafe, ShownPower, Begun
  <2>. QED BY <2>3, <2>4 DEF TruthSafe
<1>. QED BY <1>3, <1>4 DEF StartOperation

LEMMA OperationCallIsTrue ==
  ASSUME TruthInv, OperationCall
  PROVE  TruthSafe
<1>1. TakeOperationResult => TruthSafe
  <2>. SUFFICES ASSUME TakeOperationResult PROVE TruthSafe
    OBVIOUS
  <2>1. /\ panel' = panel /\ device' = device /\ op' = NoOperation /\ op.state # "ACTIVE"
    BY DEF TakeOperationResult, OperationResultReady, Terminal
  <2>2. op'.state = "IDLE" /\ op'.phase = "IDLE" /\ op' = NoOperation
    BY <2>1 DEF NoOperation
  <2>3. EffectSafe(op')
    BY <2>2 DEF EffectSafe, KindOfPhase, Terminal
  <2>4. Honest(panel.power, device)
    BY <2>1 DEF TruthInv, LitSafe, ShownPower, Begun
  <2>. QED BY <2>1, <2>2, <2>3, <2>4, EndedIsLitSafe DEF TruthSafe
<1>2. EffectStep /\ PowerStep => TruthSafe
  BY DEF EffectStep, PowerStep, TruthSafe
<1>. QED BY <1>1, <1>2, OperationWorks, StartIsTrue DEF OperationCall

\* A direct command: its failure leaves the power unknown, or was not about it.
LEMMA DirectCommandIsTrue ==
  ASSUME TruthInv, NEW o \in Outcomes,
         \/ SetRegister(o)
         \/ \E changed \in BOOLEAN : SetFlipX(o, changed)
         \/ StopScroll(o)
         \/ SleepNow(o)
         \/ WakeNow(o)
         \/ SendRawCommand(o)
  PROVE  op' = op /\ op.state = "IDLE" /\ Honest(panel'.power, device')
<1>1. /\ op' = op /\ op.state \notin {"ACTIVE"} \cup Terminal
      /\ panel \in PanelType /\ op \in OpType /\ device \in DeviceType
  <2>1. TrackedWrite(o)
    BY DEF SetRegister, SetFlipX, StopScroll, SleepNow, WakeNow, SendRawCommand
  <2>. QED BY <2>1, DuringOperation
           DEF TrackedWrite, DirectI2cAdmitted, OperationActive, OperationResultReady
<1>2. op.state = "IDLE" /\ Honest(panel.power, device) /\ PowerModelOf(panel, op.phase)
  BY <1>1, DuringOperation DEF OpType, TruthInv, LitSafe, ShownPower, Begun
<1>3. /\ MarkControlDirty(panel).power = panel.power
      /\ MarkControlDirty(InvalidatePower(panel)).power = "UNKNOWN"
      /\ Invalidated(panel).power = "UNKNOWN"
      /\ DisplayIsOff(panel).power = "OFF"
      /\ [panel EXCEPT !.scrolling = FALSE].power = panel.power
  BY <1>1, PowerOfPanel DEF PanelType
<1>4. /\ ApplyDisplayOff(device).lit = FALSE /\ ApplyDisplayOn(device).lit = TRUE
      /\ ApplyScrollOff(device).lit = device.lit /\ AllStale.lit = device.lit
  BY <1>1, Lit
<1>5. ASSUME panel'.power = panel.power, device'.lit = device.lit
      PROVE  Honest(panel'.power, device')
  BY <1>2, <1>5 DEF Honest
<1>6. SetRegister(o) => Honest(panel'.power, device')
  BY <1>3, <1>5 DEF SetRegister, AfterSetter
<1>7. ASSUME NEW changed \in BOOLEAN, SetFlipX(o, changed)
      PROVE  Honest(panel'.power, device')
  BY <1>3, <1>4, <1>5, <1>7 DEF SetFlipX, AfterSetter
<1>8. StopScroll(o) => Honest(panel'.power, device')
  BY <1>3, <1>4, <1>5 DEF StopScroll
<1>9. SleepNow(o) => Honest(panel'.power, device')
  BY <1>3, <1>4 DEF SleepNow, Honest, TookEffect
<1>10. ASSUME WakeNow(o) PROVE Honest(panel'.power, device')
  <2>1. o = "OK" => device'.lit
    BY <1>4, <1>10 DEF WakeNow, TookEffect
  <2>2. AwokenPanel.power \in {"ON", "STARTING"}
    BY <1>1 DEF AwokenPanel, WasModeledOn, PanelType
  <2>. QED BY <1>3, <1>10, <2>1, <2>2 DEF WakeNow, Honest
<1>11. ASSUME SendRawCommand(o) PROVE Honest(panel'.power, device')
  <2>1. CASE o = "NACK"
    BY <1>5, <1>11, <2>1 DEF SendRawCommand, AfterRawFailure, Ambiguous, TookEffect
  <2>2. CASE o # "NACK"
    <3>1. panel' = Invalidated(panel)
      BY <1>11, <2>2 DEF SendRawCommand, AfterRawFailure, Ambiguous, Outcomes
    <3>. QED BY <1>3, <3>1, UnknownIsHonest
  <2>. QED BY <2>1, <2>2
<1>. QED BY <1>1, <1>2, <1>6, <1>7, <1>8, <1>9, <1>10, <1>11

\* Flushes, drawing and ticks.
LEMMA QuietCalls ==
  ASSUME TruthInv, FlushCall \/ FrameCall \/ \E late : TickPanelGuard(late)
  PROVE  /\ op' = op /\ device'.lit = device.lit
         /\ PowerKept(panel.power, panel'.power)
         /\ FrameCall => panel' = panel
         /\ TruthSafe
<1>1. /\ panel \in PanelType /\ op \in OpType /\ device \in DeviceType /\ TypeOK
      /\ PowerModelOf(panel, op.phase)
  BY DuringOperation
<1>2. FrameCall => panel' = panel /\ op' = op /\ device'.lit = device.lit
  <2>1. FrameCall => panel' = panel /\ op' = op
    BY DEF FrameCall, Draw, DrawAll, ClearDirty, ClearDirtyIfIdle, FirstPage,
       NextPageReportsFailure, NextPageAfterWindow, NextPageSendsWindow
  <2>2. SelectNextWindow => device'.lit = device.lit
    BY <1>1 DEF SelectNextWindow, DeviceType
  <2>3. NextPageAfterWindow => device'.lit = device.lit
    BY <2>2 DEF NextPageAfterWindow
  <2>4. DrawAll \/ ClearDirty => device'.lit = device.lit
    BY <1>1 DEF DrawAll, ClearDirty, DeviceType
  <2>5. \A p, S : Draw(p, S) => device'.lit = device.lit
    BY <1>1 DEF Draw, DeviceType
  <2>6. FirstPage \/ NextPageReportsFailure \/ NextPageSendsWindow
          => device'.lit = device.lit
    BY <1>1, Lit DEF FirstPage, NextPageReportsFailure, NextPageSendsWindow
  <2>. QED BY <2>1, <2>3, <2>4, <2>5, <2>6 DEF FrameCall, ClearDirtyIfIdle
<1>3. FlushCall => /\ op' = op /\ device'.lit = device.lit
                   /\ panel' = panel \/ \E late : panel' = Ticked(late)
  <2>1. ASSUME NEW late, NEW o, NEW k, PollFlushSends(late, o, k)
        PROVE  device'.lit = device.lit
    BY <1>1, <2>1, FlushKeepsLit DEF PollFlushSends
  <2>2. ASSUME FlushCall, \A late, o, k : ~PollFlushSends(late, o, k)
        PROVE  device' = device
    BY <2>2 DEF FlushCall, RequestFlush, PollFlush, PollFlushTimeout, PollFlushWaits,
                PollFlushEnded, WaitFlushGivesUp
  <2>3. FlushCall => op' = op /\ (panel' = panel \/ \E late : panel' = Ticked(late))
    BY DEF FlushCall, RequestFlush, PollFlush, PollFlushTimeout, PollFlushWaits,
           PollFlushEnded, PollFlushSends, LegacyPoll, WaitFlushGivesUp, Ticked
  <2>. QED BY <2>1, <2>2, <2>3
<1>4. (\E late : TickPanelGuard(late)) =>
        op' = op /\ device' = device /\ \E late : panel' = Ticked(late)
  BY DEF TickPanelGuard
<1>5. /\ op' = op /\ device'.lit = device.lit
      /\ panel' = panel \/ \E late : panel' = Ticked(late)
  BY <1>2, <1>3, <1>4
<1>6. /\ PowerKept(panel.power, panel'.power)
      /\ Honest(panel.power, device) => Honest(panel'.power, device)
  BY <1>1, <1>5, TickedTruth DEF Ticked, PowerKept
<1>7. LitSafe(panel', op', device')
  <2>1. LitSafe(panel, op, device)
    BY DEF TruthInv
  <2>2. CASE Begun(op)
    BY <1>5, <2>1, <2>2 DEF LitSafe, ShownPower, Honest
  <2>3. CASE ~Begun(op)
    BY <1>5, <1>6, <2>1, <2>3 DEF LitSafe, ShownPower, Honest
  <2>. QED BY <2>2, <2>3
<1>8. EffectSafe(op')
  BY <1>5 DEF TruthInv
<1>. QED BY <1>2, <1>5, <1>6, <1>7, <1>8 DEF TruthSafe

\* A reset notice, and the binding's end and beginning: nothing is claimed.
LEMMA ForgettingIsTrue ==
  ASSUME TruthInv, (\E really \in BOOLEAN : PanelReset(really)) \/ Lifecycle
  PROVE  panel'.power = "UNKNOWN" /\ TruthSafe
<1>. DEFINE effect == IF op.tx = 0 THEN "NONE" ELSE "PARTIAL"
<1>1. panel \in PanelType /\ op \in OpType /\ EffectSafe(op)
  BY DuringOperation
<1>2. panel'.power = "UNKNOWN"
  <2>1. (\E really \in BOOLEAN : PanelReset(really)) => panel'.power = "UNKNOWN"
    BY <1>1, PowerOfPanel DEF PanelReset, InvalidatePanelState
  <2>2. Lifecycle => panel'.power = "UNKNOWN"
    BY DEF Lifecycle, Attach, Detach, DetachedPanel
  <2>. QED BY <2>1, <2>2
<1>3. \/ OperationActive /\ op' = EndOperation("CANCELLED", effect, op.touched)
      \/ ~OperationActive /\ op' = op
      \/ op' = NoOperation
  BY DEF PanelReset, InvalidatePanelState, Lifecycle, Attach, Detach, DirectI2cAdmitted
<1>4. CASE OperationActive /\ op' = EndOperation("CANCELLED", effect, op.touched)
  <2>1. /\ op.touched \in BOOLEAN /\ "CANCELLED" \in Terminal
        /\ effect = "NONE" => ~op.touched
        /\ effect = "PARTIAL" => op.touched
        /\ effect # "CONFIRMED"
    BY <1>1, <1>4 DEF EffectSafe, OperationActive, OpType, Terminal
  <2>. HIDE DEF effect
  <2>2. EffectStep /\ op'.phase = "COMPLETE"
    BY <1>4, <2>1, EndsHonestly
  <2>. QED BY <1>2, <2>2, EndedIsLitSafe, UnknownIsHonest DEF EffectStep, TruthSafe
<1>5. CASE ~OperationActive /\ op' = op
  BY <1>1, <1>2, <1>5, UnknownIsHonest
     DEF TruthInv, TruthSafe, LitSafe, ShownPower, Begun, OperationActive
<1>6. CASE op' = NoOperation
  <2>1. op'.state = "IDLE" /\ op'.phase = "IDLE"
    BY <1>6 DEF NoOperation
  <2>2. EffectSafe(op')
    BY <1>6, <2>1 DEF EffectSafe, KindOfPhase, Terminal
  <2>. QED BY <1>2, <2>1, <2>2, EndedIsLitSafe, UnknownIsHonest DEF TruthSafe
<1>. QED BY <1>2, <1>3, <1>4, <1>5, <1>6

LEMMA NextIsTrue ==
  ASSUME TruthInv, [Next]_vars
  PROVE  TruthSafe
<1>1. EffectSafe(op) /\ LitSafe(panel, op, device)
  BY DEF TruthInv
<1>2. CASE ControlCall
  <2>1. ASSUME NEW o \in Outcomes,
               \/ SetRegister(o)
               \/ \E changed \in BOOLEAN : SetFlipX(o, changed)
               \/ StopScroll(o) \/ SleepNow(o) \/ WakeNow(o) \/ SendRawCommand(o)
        PROVE  TruthSafe
    <3>1. op' = op /\ op.state = "IDLE" /\ Honest(panel'.power, device')
      BY <2>1, DirectCommandIsTrue
    <3>2. op.phase = "IDLE"
      BY <1>1, <3>1 DEF EffectSafe, NoOperation
    <3>. QED BY <1>1, <3>1, <3>2, EndedIsLitSafe DEF TruthSafe
  <2>. QED BY <1>2, <2>1, QuietCalls, ForgettingIsTrue DEF ControlCall
<1>3. CASE UNCHANGED vars
  BY <1>1, <1>3 DEF vars, TruthSafe
<1>. QED BY <1>2, <1>3, QuietCalls, ForgettingIsTrue, OperationCallIsTrue DEF Next

LEMMA TruthInvHolds == Spec => []TruthInv
<1>1. Init => EffectSafe(op) /\ LitSafe(panel, op, device)
  <2>. SUFFICES ASSUME Init PROVE EffectSafe(op) /\ LitSafe(panel, op, device)
    OBVIOUS
  <2>1. op = NoOperation /\ op.state = "IDLE" /\ op.phase = "IDLE" /\ panel.power = "UNKNOWN"
    BY DEF Init, NoOperation, DetachedPanel
  <2>. QED BY <2>1 DEF EffectSafe, KindOfPhase, Terminal, LitSafe, ShownPower, Begun, Honest
<1>2. Init /\ JobInv => TruthInv
  BY <1>1 DEF TruthInv
<1>3. TruthInv /\ [Next]_vars /\ JobInv' => TruthInv'
  BY NextIsTrue DEF TruthInv, TruthSafe
<1>. QED BY <1>2, <1>3, JobInvHolds, PTL DEF Spec

\* panelPowerState() never lies: after any failed, ambiguous or cancelled
\* transaction a modeled power of ON, STARTING or OFF is what the glass shows.
THEOREM PowerIsTrue == Spec => []PowerTruth
BY TruthInvHolds, TruthInvImplies, PTL

\* takeOperationResult() reports NONE only if no transaction touched the
\* controller, PARTIAL only if one did, CONFIRMED exactly on success.
THEOREM EffectIsHonest == Spec => []EffectHonest
BY TruthInvHolds, TruthInvImplies, PTL

-----------------------------------------------------------------------------
\* The panel's flags are claimed to be the controller's.
Known(p) == p.initialized /\ ~p.controlDirty

Tracks(p, d) ==
  /\ p.sleeping <=> ~d.lit
  /\ p.scrolling <=> d.rotating

\* A begun initialization changes the controller command by command and the
\* flags only at its end: until then, it is the steps behind it that tell.
TracksSafe(p, o, d) ==
  /\ Known(p) /\ ~Begun(o) => Tracks(p, d)
  /\ o.phase = "INITIALIZE_COMMAND" /\ o.step > ScrollOffStep => ~d.rotating

\* The inductive invariant; a job runs only on a panel that does not scroll.
ControlInv ==
  /\ TruthInv
  /\ TracksSafe(panel, op, device)
  /\ Running(flush) => ~panel.scrolling

LEMMA ControlInvImplies == ControlInv => ControlTruth /\ NoDataWhileScrolling
<1>. SUFFICES ASSUME ControlInv PROVE ControlTruth /\ NoDataWhileScrolling
  OBVIOUS
<1>1. /\ Known(panel) /\ ~Begun(op) => Tracks(panel, device)
      /\ Running(flush) => ~panel.scrolling
      /\ JobSafe(panel, flush, op)
  BY DEF ControlInv, TracksSafe, TruthInv, JobInv
<1>2. ControlTruth
  BY <1>1 DEF ControlTruth, Known, Tracks, Begun, OperationActive
<1>3. Running(flush) => Known(panel) /\ ~Begun(op)
  BY <1>1 DEF JobSafe, Known, Begun
<1>4. NoDataWhileScrolling
  BY <1>1, <1>3 DEF NoDataWhileScrolling, IsFlushing, Running, Tracks
<1>. QED BY <1>2, <1>4

-----------------------------------------------------------------------------
\* What the helpers make of the flags.

\* The flags stay; they may become doubtful.
FlagsKept(p, q) ==
  /\ Known(q) => Known(p)
  /\ q.sleeping = p.sleeping /\ q.scrolling = p.scrolling

LEMMA FlagsOfPanel ==
  ASSUME NEW p \in PanelType, NEW late
  PROVE  /\ FlagsKept(p, p) /\ FlagsKept(p, TickPowerOn(p, late))
         /\ FlagsKept(p, TerminatedPanel(p))
         /\ ~Known(MarkControlDirty(p))
         /\ ~Known(MarkControlDirty(InvalidatePower(p)))
         /\ ~Known(Invalidated(p))
         /\ op.kind \in {"INITIALIZE", "RESYNC"} /\ op.tx # 0 =>
              ~Known(TerminatedPanel(p))
BY DEF FlagsKept, Known, TickPowerOn, TerminatedPanel, ControlSequence, MarkControlDirty,
       InvalidatePower, Invalidated, PanelType

\* What a command does to the rotation of GDDRAM.
LEMMA Rotation ==
  ASSUME device \in DeviceType
  PROVE  /\ ApplyDisplayOff(device).rotating = device.rotating
         /\ ApplyDisplayOn(device).rotating = device.rotating
         /\ ApplyScrollOff(device).rotating = FALSE
         /\ ApplyScrollOn(device).rotating = TRUE
         /\ AllStale.rotating = device.rotating
BY DEF ApplyDisplayOff, ApplyDisplayOn, ApplyScrollOff, ApplyScrollOn, AllStale, DeviceType

LEMMA FlushKeepsRotation ==
  ASSUME device \in DeviceType, NEW o, NEW k, FlushTransaction(o, k)
  PROVE  device'.rotating = device.rotating
<1>1. SendAddress(o) => device' = device
  BY DEF SendAddress
<1>2. SendData(o, k) => device'.rotating = device.rotating
  BY DEF SendData, DeviceType
<1>. QED BY <1>1, <1>2 DEF FlushTransaction

\* A doubtful panel claims nothing.
LEMMA DoubtIsSafe ==
  \A p, o, d : ~Known(p) /\ o.phase # "INITIALIZE_COMMAND" => TracksSafe(p, o, d)
BY DEF TracksSafe

\* Flags and controller that go together do so until one of them changes.
LEMMA KeptIsSafe ==
  ASSUME TracksSafe(panel, op, device), FlagsKept(panel, panel'),
         device'.lit = device.lit, device'.rotating = device.rotating,
         op' = op \/ (~Begun(op) /\ op'.phase # "INITIALIZE_COMMAND")
  PROVE  TracksSafe(panel', op', device')
BY DEF TracksSafe, FlagsKept, Tracks, Begun

\* A command whose success sets the flags as it sets the controller.
LEMMA CommandedIsSafe ==
  \A p, o, d : Tracks(p, d) /\ o.phase # "INITIALIZE_COMMAND" => TracksSafe(p, o, d)
BY DEF TracksSafe

-----------------------------------------------------------------------------
\* Each step of an operation

TracksStep == TracksSafe(panel', op', device')

LEMMA TerminateTracks ==
  ASSUME ControlInv, OperationActive, NEW state, NEW p \in PanelType,
         p = panel \/ \E late : p = Ticked(late),
         Terminate(state, p)
  PROVE  TracksStep
<1>1. /\ panel \in PanelType /\ op \in OpType /\ PhaseOfKind(op) /\ TruthInv
      /\ TracksSafe(panel, op, device)
  BY DuringOperation DEF ControlInv
<1>2. panel' = TerminatedPanel(p) /\ device' = device /\ op'.phase # "INITIALIZE_COMMAND"
  BY EndedOperation DEF Terminate, QuietPhases
<1>3. FlagsKept(panel, p) /\ FlagsKept(p, panel')
  BY <1>1, <1>2, FlagsOfPanel DEF Ticked
<1>4. FlagsKept(panel, panel')
  BY <1>3 DEF FlagsKept
<1>5. Begun(op) => ~Known(panel')
  BY <1>1, <1>2, FlagsOfPanel DEF Begun, PhaseOfKind
<1>. QED BY <1>1, <1>2, <1>4, <1>5, KeptIsSafe, DoubtIsSafe DEF TracksStep

LEMMA PollInitializeTracks ==
  ASSUME ControlInv, NEW late, NEW o \in Outcomes, PollInitialize(late, o)
  PROVE  TracksStep
<1>1. /\ op \in OpType /\ panel \in PanelType /\ device \in DeviceType /\ TruthInv
      /\ op.phase = "INITIALIZE_COMMAND" /\ op.state = "ACTIVE"
      /\ Ticked(late) \in PanelType
      /\ op.step > ScrollOffStep => ~device.rotating
  <2>1. op.phase = "INITIALIZE_COMMAND" /\ OperationActive
    BY DEF PollInitialize, Polls
  <2>. QED BY <2>1, DuringOperation, PanelTypes
           DEF OperationActive, Ticked, ControlInv, TracksSafe
<1>2. /\ op.tx # 0 => ~device.lit
      /\ op.tx = 0 => op.step = 0
  BY <1>1 DEF TruthInv, LitSafe, Begun
<1>3. /\ op.step \in Int /\ ScrollOffStep \in Int /\ InitSteps \in Int
      /\ ScrollOffStep > 0 /\ ScrollOffStep < InitSteps
  BY <1>1, ConfigAssumption DEF ConfigAssumption, OpType
<1>. DEFINE d == IF TookEffect(o) THEN ApplyInitStep(device, op.step) ELSE device
            prefix == op.tx # 0
<1>4. o = "OK" => ~d.lit /\ (op.step >= ScrollOffStep => ~d.rotating)
  <2>. SUFFICES ASSUME o = "OK"
                PROVE  ~d.lit /\ (op.step >= ScrollOffStep => ~d.rotating)
    OBVIOUS
  <2>1. d = ApplyInitStep(device, op.step)
    BY DEF TookEffect
  <2>. HIDE DEF d
  <2>2. CASE op.step = 0
    <3>1. d = ApplyDisplayOff(device)
      BY <2>1, <2>2 DEF ApplyInitStep
    <3>2. ~(op.step >= ScrollOffStep)
      BY <1>3, <2>2
    <3>. QED BY <1>1, <3>1, <3>2, Lit
  <2>3. CASE op.step = ScrollOffStep
    BY <1>1, <1>2, <1>3, <2>1, <2>3, Lit, Rotation DEF ApplyInitStep
  <2>4. CASE op.step \notin {0, ScrollOffStep}
    BY <1>1, <1>2, <1>3, <2>1, <2>4 DEF ApplyInitStep
  <2>. QED BY <2>2, <2>3, <2>4
<1>5. device'.lit = d.lit /\ device'.rotating = d.rotating
  <2>1. d \in DeviceType
    BY <1>1, DeviceTypes DEF ApplyInitStep
  <2>2. device' = d \/ device' = [d EXCEPT !.forgot = FALSE, !.discarded = {}]
    BY DEF PollInitialize
  <2>. HIDE DEF d
  <2>. QED BY <2>1, <2>2 DEF DeviceType
<1>6. \/ o # "OK" /\ CommandFails(o, prefix)
         /\ panel' = MarkControlDirty(InvalidatePower(panel))
      \/ /\ o = "OK"
         /\ op' = [op EXCEPT !.step = @ + 1, !.effect = "PARTIAL", !.tx = CountTx,
                             !.touched = TRUE]
      \/ /\ o = "OK" /\ op.step + 1 = InitSteps
         /\ panel' = [Ticked(late) EXCEPT !.initialized = TRUE, !.sleeping = TRUE,
                        !.scrolling = FALSE, !.power = "OFF", !.guard = "OFF",
                        !.controlDirty = FALSE]
         /\ \/ FinishOperation(health, flush, TRUE, 1)
            \/ op' = [op EXCEPT !.phase = "FLUSH_PHASE", !.effect = "PARTIAL",
                                !.tx = CountTx, !.touched = TRUE]
  BY DEF PollInitialize
<1>. HIDE DEF d, prefix
<1>7. CASE CommandFails(o, prefix) /\ panel' = MarkControlDirty(InvalidatePower(panel))
  <2>1. op'.phase # "INITIALIZE_COMMAND"
    BY <1>7, CommandEndsOperation DEF QuietPhases
  <2>2. ~Known(panel')
    BY <1>1, <1>7, FlagsOfPanel
  <2>. QED BY <2>1, <2>2, DoubtIsSafe DEF TracksStep
<1>8. CASE /\ o = "OK"
           /\ op' = [op EXCEPT !.step = @ + 1, !.effect = "PARTIAL", !.tx = CountTx,
                               !.touched = TRUE]
  <2>1. CountTx # 0
    BY <1>1 DEF CountTx, OpType, TxCap
  <2>2. op'.step = op.step + 1 /\ Begun(op')
    BY <1>1, <1>8, <2>1 DEF OpType, Begun
  <2>. QED BY <1>3, <1>4, <1>5, <1>8, <2>2 DEF TracksStep, TracksSafe
<1>9. CASE /\ o = "OK" /\ op.step + 1 = InitSteps
           /\ panel' = [Ticked(late) EXCEPT !.initialized = TRUE, !.sleeping = TRUE,
                          !.scrolling = FALSE, !.power = "OFF", !.guard = "OFF",
                          !.controlDirty = FALSE]
           /\ \/ FinishOperation(health, flush, TRUE, 1)
              \/ op' = [op EXCEPT !.phase = "FLUSH_PHASE", !.effect = "PARTIAL",
                                  !.tx = CountTx, !.touched = TRUE]
  <2>1. panel'.sleeping = TRUE /\ panel'.scrolling = FALSE
    BY <1>1, <1>9 DEF PanelType
  <2>2. Tracks(panel', device')
    BY <1>3, <1>4, <1>5, <1>9, <2>1 DEF Tracks
  <2>3. op'.phase # "INITIALIZE_COMMAND"
    BY <1>1, <1>9, CommandEndsOperation DEF QuietPhases, OpType
  <2>. QED BY <2>2, <2>3, CommandedIsSafe DEF TracksStep
<1>. QED BY <1>6, <1>7, <1>8, <1>9

LEMMA PollCommandTracks ==
  ASSUME ControlInv, NEW late, NEW o \in Outcomes,
         \/ PollDisplayOff(late, o)
         \/ PollChargePumpOff(late, o)
         \/ PollDisplayOn(late, o)
         \/ PollScrollDeactivate(late, o)
         \/ PollScrollConfigure(late, o)
         \/ PollScrollActivate(late, o)
  PROVE  TracksStep /\ op'.phase # "FLUSH_PHASE"
<1>. DEFINE prefix == op.tx # 0
            unborn == [health EXCEPT !.state = "UNINIT"]
            t == Ticked(late)
            ended == \/ CommandFails(o, prefix) \/ CommandFails(o, TRUE)
                     \/ FinishOperation(health, flush, TRUE, 1)
                     \/ FinishOperation(unborn, flush, TRUE, 1)
            next == \E phase \in {"CHARGE_PUMP_OFF", "DISPLAY_ON_DELAY", "SCROLL_CONFIGURE",
                                  "SCROLL_ACTIVATE"} : CommandSucceeds(phase)
<1>1. /\ panel \in PanelType /\ op \in OpType /\ device \in DeviceType
      /\ t \in PanelType /\ FlagsKept(panel, t)
      /\ ~Begun(op) /\ TracksSafe(panel, op, device)
      /\ Known(panel) => Tracks(panel, device)
  <2>1. op.phase # "INITIALIZE_COMMAND" /\ TruthInv
    BY DEF PollDisplayOff, PollChargePumpOff, PollDisplayOn, PollScrollDeactivate,
           PollScrollConfigure, PollScrollActivate, ControlInv
  <2>. QED BY <2>1, DuringOperation, PanelTypes, FlagsOfPanel
           DEF Ticked, ControlInv, Begun, TracksSafe
<1>2. ended => op'.phase \notin {"INITIALIZE_COMMAND", "FLUSH_PHASE"}
  <2>. HIDE DEF prefix, unborn
  <2>. QED BY CommandEndsOperation DEF QuietPhases
<1>3. next => op'.phase \notin {"INITIALIZE_COMMAND", "FLUSH_PHASE"}
  BY <1>1 DEF CommandSucceeds, OpType
<1>4. /\ ApplyDisplayOff(device).lit = FALSE /\ ApplyDisplayOn(device).lit = TRUE
      /\ ApplyScrollOff(device).lit = device.lit /\ ApplyScrollOn(device).lit = device.lit
      /\ ApplyDisplayOff(device).rotating = device.rotating
      /\ ApplyDisplayOn(device).rotating = device.rotating
      /\ ApplyScrollOff(device).rotating = FALSE
      /\ ApplyScrollOn(device).rotating = TRUE
  BY <1>1, Lit, Rotation
<1>5. ~Known(MarkControlDirty(InvalidatePower(panel))) /\ ~Known(MarkControlDirty(t))
  BY <1>1, FlagsOfPanel
<1>. DEFINE leaves == op'.phase \notin {"INITIALIZE_COMMAND", "FLUSH_PHASE"}
<1>6. leaves
  <2>1. PollDisplayOff(late, o) => ended \/ next
    BY DEF PollDisplayOff
  <2>2. PollChargePumpOff(late, o) => ended \/ next
    BY DEF PollChargePumpOff
  <2>3. PollDisplayOn(late, o) => ended \/ next
    BY DEF PollDisplayOn
  <2>4. PollScrollDeactivate(late, o) => ended \/ next
    BY DEF PollScrollDeactivate
  <2>5. PollScrollConfigure(late, o) => ended \/ next
    BY DEF PollScrollConfigure
  <2>6. PollScrollActivate(late, o) => ended \/ next
    BY DEF PollScrollActivate
  <2>. HIDE DEF ended, next
  <2>. QED BY <1>2, <1>3, <2>1, <2>2, <2>3, <2>4, <2>5, <2>6
<1>. SUFFICES TracksStep
  BY <1>6
<1>7. ~Known(panel') => TracksStep
  BY <1>6, DoubtIsSafe DEF TracksStep
\* A success on a known panel: its flags follow the command.
<1>8. (Known(panel') => Tracks(panel', device')) => TracksStep
  BY <1>6 DEF TracksStep, TracksSafe
<1>9. Known(t) => Tracks(t, device)
  BY <1>1 DEF FlagsKept, Tracks
<1>. HIDE DEF prefix, unborn, t, ended, next
<1>10. CASE PollDisplayOff(late, o)
  <2>1. \/ panel' = MarkControlDirty(InvalidatePower(panel))
        \/ /\ o = "OK"
           /\ \/ panel' = DisplayIsOff(t)
              \/ panel' = [DisplayIsOff(t) EXCEPT !.initialized = FALSE]
    BY <1>10 DEF PollDisplayOff, t
  <2>2. o = "OK" => device' = ApplyDisplayOff(device)
    BY <1>10 DEF PollDisplayOff, TookEffect
  <2>3. CASE o = "OK" /\ panel' = DisplayIsOff(t)
    BY <1>1, <1>4, <1>8, <1>9, <2>2, <2>3 DEF DisplayIsOff, Known, Tracks, PanelType
  <2>4. CASE panel' = [DisplayIsOff(t) EXCEPT !.initialized = FALSE]
    BY <1>1, <1>7, <2>4, PanelTypes DEF Known, PanelType
  <2>. QED BY <1>5, <1>7, <2>1, <2>3, <2>4
<1>11. CASE PollChargePumpOff(late, o)
  <2>1. \/ panel' = MarkControlDirty(t)
        \/ panel' = [t EXCEPT !.initialized = FALSE, !.power = "OFF"]
    BY <1>11 DEF PollChargePumpOff, t
  <2>2. ~Known([t EXCEPT !.initialized = FALSE, !.power = "OFF"])
    BY <1>1 DEF Known, PanelType
  <2>. QED BY <1>5, <1>7, <2>1, <2>2
<1>12. CASE PollDisplayOn(late, o)
  <2>1. \/ panel' = MarkControlDirty(InvalidatePower(panel))
        \/ /\ o = "OK"
           /\ \/ panel' = [t EXCEPT !.sleeping = FALSE, !.power = "STARTING"]
              \/ panel' = [t EXCEPT !.sleeping = FALSE, !.power = "ON", !.guard = "READY"]
    BY <1>12 DEF PollDisplayOn, t
  <2>2. o = "OK" => device' = ApplyDisplayOn(device)
    BY <1>12 DEF PollDisplayOn, TookEffect
  <2>3. CASE /\ o = "OK"
             /\ \/ panel' = [t EXCEPT !.sleeping = FALSE, !.power = "STARTING"]
                \/ panel' = [t EXCEPT !.sleeping = FALSE, !.power = "ON", !.guard = "READY"]
    BY <1>1, <1>4, <1>8, <1>9, <2>2, <2>3 DEF Known, Tracks, PanelType
  <2>. QED BY <1>5, <1>7, <2>1, <2>3
<1>13. CASE PollScrollDeactivate(late, o)
  <2>1. \/ panel' = MarkControlDirty(t)
        \/ o = "OK" /\ panel' = [t EXCEPT !.scrolling = FALSE]
    BY <1>13 DEF PollScrollDeactivate, t
  <2>2. o = "OK" => device' = ApplyScrollOff(device)
    BY <1>13 DEF PollScrollDeactivate, TookEffect
  <2>3. CASE o = "OK" /\ panel' = [t EXCEPT !.scrolling = FALSE]
    BY <1>1, <1>4, <1>8, <1>9, <2>2, <2>3 DEF Known, Tracks, PanelType
  <2>. QED BY <1>5, <1>7, <2>1, <2>3
<1>14. CASE PollScrollConfigure(late, o)
  <2>1. panel' = MarkControlDirty(t) \/ panel' = t
    BY <1>14 DEF PollScrollConfigure, t
  <2>2. device' = device
    BY <1>14 DEF PollScrollConfigure
  <2>. QED BY <1>5, <1>7, <1>8, <1>9, <2>1, <2>2
<1>15. CASE PollScrollActivate(late, o)
  <2>1. \/ panel' = MarkControlDirty(t)
        \/ o = "OK" /\ panel' = [t EXCEPT !.scrolling = TRUE]
    BY <1>15 DEF PollScrollActivate, t
  <2>2. o = "OK" => device' = ApplyScrollOn(device)
    BY <1>15 DEF PollScrollActivate, TookEffect
  <2>3. CASE o = "OK" /\ panel' = [t EXCEPT !.scrolling = TRUE]
    BY <1>1, <1>4, <1>8, <1>9, <2>2, <2>3 DEF Known, Tracks, PanelType
  <2>. QED BY <1>5, <1>7, <2>1, <2>3
<1>. QED BY <1>10, <1>11, <1>12, <1>13, <1>14, <1>15

\* How the steps without a transaction end an operation.
LEMMA EndsQuietly ==
  /\ \A state, p : Terminate(state, p) => op'.phase \in QuietPhases
  /\ \A late : PollEmptyFlush(late) \/ PollDisplayOnRejected(late) \/ PollDelayEnds(late)
       => op'.phase \in QuietPhases
<1>1. \A state, p : Terminate(state, p) => op'.phase \in QuietPhases
  BY EndedOperation DEF Terminate
<1>2. \A late : PollDisplayOnRejected(late) => op'.phase \in QuietPhases
  <2>. SUFFICES ASSUME NEW late, PollDisplayOnRejected(late) PROVE op'.phase \in QuietPhases
    OBVIOUS
  <2>. DEFINE effect == IF op.tx = 0 THEN "NONE" ELSE "PARTIAL"
  <2>1. op' = EndOperation("FAILED", effect, op.touched)
    BY DEF PollDisplayOnRejected
  <2>. HIDE DEF effect
  <2>. QED BY <2>1, EndedOperation
<1>3. \A late : PollEmptyFlush(late) \/ PollDelayEnds(late) => op'.phase \in QuietPhases
  BY CommandEndsOperation DEF PollEmptyFlush, PollDelayEnds
<1>. QED BY <1>1, <1>2, <1>3

\* The operation's own job neither switches the display nor rotates GDDRAM.
LEMMA PollFlushPhaseTracks ==
  ASSUME ControlInv, NEW late, NEW o \in Outcomes, NEW k \in Cols,
         PollFlushPhase(late, o, k) \/ PollFlushPhaseTimeout(late)
  PROVE  TracksStep
<1>1. /\ panel \in PanelType /\ device \in DeviceType /\ op \in OpType
      /\ op.phase = "FLUSH_PHASE" /\ panel' = Ticked(late)
      /\ TracksSafe(panel, op, device)
  BY DuringOperation
     DEF PollFlushPhase, PollFlushPhaseTimeout, InFlushPhase, ControlInv
<1>2. device'.lit = device.lit /\ device'.rotating = device.rotating
  BY <1>1, FlushKeepsLit, FlushKeepsRotation DEF PollFlushPhase, PollFlushPhaseTimeout
<1>3. FlagsKept(panel, panel')
  BY <1>1, FlagsOfPanel DEF Ticked
<1>4. op'.phase # "INITIALIZE_COMMAND"
  <2>. DEFINE touched == op.touched \/ TookEffect(o)
              phase == IF flush'.state = "DONE" THEN "DISPLAY_ON" ELSE op.phase
  <2>1. \/ \E state, effect, was : op' = EndOperation(state, effect, was)
        \/ op' = [op EXCEPT !.effect = "PARTIAL", !.tx = CountTx, !.touched = touched,
                            !.phase = phase]
    BY DEF PollFlushPhase, PollFlushPhaseTimeout
  <2>2. phase # "INITIALIZE_COMMAND"
    BY <1>1
  <2>. HIDE DEF touched, phase
  <2>3. (\E state, effect, was : op' = EndOperation(state, effect, was))
          => op'.phase # "INITIALIZE_COMMAND"
    BY EndedOperation DEF QuietPhases
  <2>. QED BY <1>1, <2>1, <2>2, <2>3 DEF OpType
<1>. QED BY <1>1, <1>2, <1>3, <1>4, KeptIsSafe DEF TracksStep, Begun

LEMMA OperationCallTracks ==
  ASSUME ControlInv, OperationCall
  PROVE  TracksStep
<1>1. /\ panel \in PanelType /\ op \in OpType /\ device \in DeviceType
      /\ TracksSafe(panel, op, device) /\ FlagsKept(panel, panel)
      /\ \A late : FlagsKept(panel, Ticked(late))
      /\ PhaseOfKind(op)
  BY DuringOperation, FlagsOfPanel DEF ControlInv, Ticked
<1>2. ASSUME NEW late, PollDeadline(late) PROVE TracksStep
  <2>1. OperationActive /\ Terminate("TIMED_OUT", Ticked(late)) /\ Ticked(late) \in PanelType
    BY <1>1, <1>2, PanelTypes DEF PollDeadline, Ticked
  <2>. QED BY <2>1, TerminateTracks
<1>3. CancelOperation \/ BlockingOperationStalls => TracksStep
  BY <1>1, TerminateTracks DEF CancelOperation, BlockingOperationStalls
\* A step without a transaction.
<1>4. ASSUME NEW late, panel' = Ticked(late) \/ panel' = panel, device' = device,
             op.phase # "INITIALIZE_COMMAND", op'.phase # "INITIALIZE_COMMAND"
      PROVE  TracksStep
  BY <1>1, <1>4, KeptIsSafe DEF TracksStep, Begun
<1>5. ASSUME NEW late, PollEmptyFlush(late) \/ PollDisplayOnRejected(late)
      PROVE  TracksStep
  <2>1. op'.phase \in QuietPhases
    BY <1>5, EndsQuietly
  <2>. QED BY <1>4, <1>5, <2>1 DEF PollEmptyFlush, PollDisplayOnRejected, QuietPhases
<1>6. ASSUME NEW late, PollDelayStarts(late) PROVE TracksStep
  <2>1. op'.phase = op.phase
    BY <1>1, <1>6 DEF PollDelayStarts, OpType
  <2>. QED BY <1>4, <1>6, <2>1 DEF PollDelayStarts
<1>7. ASSUME NEW late, PollDelayEnds(late) PROVE TracksStep
  <2>1. op'.phase # "INITIALIZE_COMMAND"
    BY <1>7, CommandEndsOperation DEF PollDelayEnds, QuietPhases
  <2>2. panel' = [Ticked(late) EXCEPT !.power = "ON", !.guard = "READY"]
        /\ device' = device /\ op.phase # "INITIALIZE_COMMAND"
    BY <1>7 DEF PollDelayEnds
  <2>3. Ticked(late) \in PanelType
    BY <1>1, PanelTypes DEF Ticked
  <2>4. FlagsKept(panel, panel')
    BY <1>1, <2>2, <2>3 DEF FlagsKept, Known, PanelType
  <2>. QED BY <1>1, <2>1, <2>2, <2>4, KeptIsSafe DEF TracksStep, Begun
<1>8. ASSUME NEW late, PollFlushPhaseTimeout(late) PROVE TracksStep
  <2>1. "OK" \in Outcomes /\ 0 \in Cols
    BY ConfigAssumption DEF Outcomes, Cols, ConfigAssumption
  <2>. QED BY <1>8, <2>1, PollFlushPhaseTracks
<1>9. ASSUME NEW late, PollOperation(late) PROVE TracksStep
  BY <1>2, <1>5, <1>6, <1>7, <1>8, <1>9, PollInitializeTracks, PollFlushPhaseTracks,
     PollCommandTracks
     DEF PollOperation
<1>10. ASSUME NEW kind \in Kinds, NEW deadline \in BOOLEAN, StartOperation(kind, deadline)
       PROVE  TracksStep
  <2>1. panel' = panel /\ device' = device /\ ~Begun(op)
    BY <1>10 DEF StartOperation, OperationAdmitted, LegacyOwner, OperationActive, Begun
  <2>2. CASE op' = op
    BY <1>1, <2>1, <2>2, KeptIsSafe DEF TracksStep
  <2>3. CASE op' = NewOperation(kind, deadline)
    <3>1. op'.step = 0 /\ op'.tx = 0
      BY <2>3 DEF NewOperation, NoOperation
    <3>2. ~(0 > ScrollOffStep)
      BY ConfigAssumption DEF ConfigAssumption
    <3>. QED BY <1>1, <2>1, <3>1, <3>2 DEF TracksStep, TracksSafe
  <2>. QED BY <1>10, <2>2, <2>3 DEF StartOperation
<1>11. TakeOperationResult => TracksStep
  <2>. SUFFICES ASSUME TakeOperationResult PROVE TracksStep
    OBVIOUS
  <2>1. panel' = panel /\ device' = device /\ ~Begun(op) /\ op'.phase # "INITIALIZE_COMMAND"
    BY DEF TakeOperationResult, OperationResultReady, Terminal, Begun, NoOperation
  <2>. QED BY <1>1, <2>1, KeptIsSafe DEF TracksStep
<1>. QED BY <1>3, <1>9, <1>10, <1>11 DEF OperationCall

-----------------------------------------------------------------------------
\* Each step between operations

\* A direct command sets its flag, or leaves a doubt.
LEMMA DirectCommandTracks ==
  ASSUME ControlInv, NEW o \in Outcomes,
         \/ SetRegister(o)
         \/ \E changed \in BOOLEAN : SetFlipX(o, changed)
         \/ StopScroll(o)
         \/ SleepNow(o)
         \/ WakeNow(o)
         \/ SendRawCommand(o)
  PROVE  TracksStep
<1>1. /\ op' = op /\ op.phase # "INITIALIZE_COMMAND"
      /\ panel \in PanelType /\ device \in DeviceType
      /\ Known(panel) => Tracks(panel, device)
  <2>1. op' = op /\ op.state \notin {"ACTIVE"} \cup Terminal
    BY DEF SetRegister, SetFlipX, StopScroll, SleepNow, WakeNow, SendRawCommand,
           TrackedWrite, DirectI2cAdmitted, OperationActive, OperationResultReady
  <2>2. op \in OpType /\ panel \in PanelType /\ device \in DeviceType /\ PowerDuring(panel, op)
    BY DuringOperation DEF ControlInv
  <2>3. op.phase # "INITIALIZE_COMMAND"
    BY <2>1, <2>2 DEF PowerDuring, ControlPhases
  <2>. QED BY <2>1, <2>2, <2>3 DEF ControlInv, TracksSafe, Begun
<1>2. /\ ~Known(MarkControlDirty(panel))
      /\ ~Known(MarkControlDirty(InvalidatePower(panel)))
      /\ ~Known(Invalidated(panel))
  BY <1>1, FlagsOfPanel
<1>3. /\ ApplyDisplayOff(device).lit = FALSE /\ ApplyDisplayOn(device).lit = TRUE
      /\ ApplyScrollOff(device).lit = device.lit /\ AllStale.lit = device.lit
      /\ ApplyDisplayOff(device).rotating = device.rotating
      /\ ApplyDisplayOn(device).rotating = device.rotating
      /\ ApplyScrollOff(device).rotating = FALSE
      /\ AllStale.rotating = device.rotating
  BY <1>1, Lit, Rotation
<1>4. SUFFICES Known(panel') => Tracks(panel', device')
  BY <1>1 DEF TracksStep, TracksSafe
<1>5. ASSUME panel' = panel \/ ~Known(panel'), device'.lit = device.lit,
             device'.rotating = device.rotating
      PROVE  Known(panel') => Tracks(panel', device')
  BY <1>1, <1>5 DEF Tracks
<1>6. SetRegister(o) => (Known(panel') => Tracks(panel', device'))
  BY <1>2, <1>5 DEF SetRegister, AfterSetter
<1>7. ASSUME NEW changed \in BOOLEAN, SetFlipX(o, changed)
      PROVE  Known(panel') => Tracks(panel', device')
  BY <1>2, <1>3, <1>5, <1>7 DEF SetFlipX, AfterSetter
<1>8. ASSUME StopScroll(o) PROVE Known(panel') => Tracks(panel', device')
  <2>1. o = "OK" => /\ panel' = [panel EXCEPT !.scrolling = FALSE]
                    /\ device' = ApplyScrollOff(device)
    BY <1>8 DEF StopScroll, TookEffect
  <2>2. o # "OK" => ~Known(panel')
    BY <1>2, <1>8 DEF StopScroll
  <2>. QED BY <1>1, <1>3, <2>1, <2>2 DEF Known, Tracks, PanelType
<1>9. ASSUME SleepNow(o) PROVE Known(panel') => Tracks(panel', device')
  <2>1. o = "OK" => panel' = DisplayIsOff(panel) /\ device' = ApplyDisplayOff(device)
    BY <1>9 DEF SleepNow, TookEffect
  <2>2. o # "OK" => ~Known(panel')
    BY <1>2, <1>9 DEF SleepNow
  <2>. QED BY <1>1, <1>3, <2>1, <2>2 DEF DisplayIsOff, Known, Tracks, PanelType
<1>10. ASSUME WakeNow(o) PROVE Known(panel') => Tracks(panel', device')
  <2>1. o = "OK" => panel' = AwokenPanel /\ device' = ApplyDisplayOn(device)
    BY <1>10 DEF WakeNow, TookEffect
  <2>2. o # "OK" => ~Known(panel')
    BY <1>2, <1>10 DEF WakeNow
  <2>3. /\ AwokenPanel.sleeping = FALSE /\ AwokenPanel.scrolling = panel.scrolling
        /\ Known(AwokenPanel) => Known(panel)
    BY <1>1 DEF AwokenPanel, Known, PanelType
  <2>. QED BY <1>1, <1>3, <2>1, <2>2, <2>3 DEF Tracks
<1>11. ASSUME SendRawCommand(o) PROVE Known(panel') => Tracks(panel', device')
  <2>1. CASE o = "NACK"
    BY <1>5, <1>11, <2>1 DEF SendRawCommand, AfterRawFailure, Ambiguous, TookEffect
  <2>2. CASE o # "NACK"
    BY <1>2, <1>11, <2>2 DEF SendRawCommand, AfterRawFailure, Ambiguous, Outcomes
  <2>. QED BY <2>1, <2>2
<1>. QED BY <1>6, <1>7, <1>8, <1>9, <1>10, <1>11

\* Flushes, drawing and ticks neither command the controller nor touch a flag.
LEMMA QuietCallsTrack ==
  ASSUME ControlInv, FlushCall \/ FrameCall \/ \E late : TickPanelGuard(late)
  PROVE  /\ TracksStep
         /\ panel'.scrolling = panel.scrolling
<1>1. /\ panel \in PanelType /\ device \in DeviceType /\ TracksSafe(panel, op, device)
      /\ op' = op /\ device'.lit = device.lit
  BY DuringOperation, QuietCalls DEF ControlInv
<1>2. FrameCall => device'.rotating = device.rotating
  <2>1. NextPageAfterWindow => device'.rotating = device.rotating
    BY <1>1 DEF NextPageAfterWindow, SelectNextWindow, DeviceType
  <2>2. DrawAll \/ ClearDirty => device'.rotating = device.rotating
    BY <1>1 DEF DrawAll, ClearDirty, DeviceType
  <2>3. \A p, S : Draw(p, S) => device'.rotating = device.rotating
    BY <1>1 DEF Draw, DeviceType
  <2>4. FirstPage \/ NextPageReportsFailure \/ NextPageSendsWindow
          => device'.rotating = device.rotating
    BY <1>1, Rotation DEF FirstPage, NextPageReportsFailure, NextPageSendsWindow
  <2>. QED BY <2>1, <2>2, <2>3, <2>4 DEF FrameCall, ClearDirtyIfIdle
<1>3. FlushCall => device'.rotating = device.rotating
  <2>1. ASSUME NEW late, NEW o, NEW k, PollFlushSends(late, o, k)
        PROVE  device'.rotating = device.rotating
    BY <1>1, <2>1, FlushKeepsRotation DEF PollFlushSends
  <2>2. ASSUME FlushCall, \A late, o, k : ~PollFlushSends(late, o, k)
        PROVE  device' = device
    BY <2>2 DEF FlushCall, RequestFlush, PollFlush, PollFlushTimeout, PollFlushWaits,
                PollFlushEnded, WaitFlushGivesUp
  <2>. QED BY <2>1, <2>2
<1>4. (\E late : TickPanelGuard(late)) => device' = device /\ \E late : panel' = Ticked(late)
  BY DEF TickPanelGuard
<1>5. FlushCall => panel' = panel \/ \E late : panel' = Ticked(late)
  BY DEF FlushCall, RequestFlush, PollFlush, PollFlushTimeout, PollFlushWaits,
         PollFlushEnded, PollFlushSends, LegacyPoll, WaitFlushGivesUp, Ticked
<1>6. FrameCall => panel' = panel
  BY QuietCalls DEF ControlInv
<1>7. FlagsKept(panel, panel') /\ device'.rotating = device.rotating
  BY <1>1, <1>2, <1>3, <1>4, <1>5, <1>6, FlagsOfPanel DEF Ticked
<1>. QED BY <1>1, <1>7, KeptIsSafe DEF TracksStep, FlagsKept

\* A reset notice leaves a doubt; the binding's end and beginning claim nothing.
LEMMA ForgettingTracks ==
  ASSUME ControlInv, (\E really \in BOOLEAN : PanelReset(really)) \/ Lifecycle
  PROVE  TracksStep
<1>1. panel \in PanelType /\ op \in OpType /\ PowerDuring(panel, op)
  BY DuringOperation DEF ControlInv
<1>2. ~Known(panel')
  <2>1. (\E really \in BOOLEAN : PanelReset(really)) => ~Known(panel')
    BY <1>1, FlagsOfPanel DEF PanelReset, InvalidatePanelState
  <2>2. Lifecycle => ~Known(panel')
    BY DEF Lifecycle, Attach, Detach, DetachedPanel, Known
  <2>. QED BY <2>1, <2>2
<1>3. op'.phase # "INITIALIZE_COMMAND"
  <2>1. \/ \E state, effect, touched : op' = EndOperation(state, effect, touched)
        \/ op' = NoOperation
        \/ op' = op /\ ~OperationActive
    BY DEF PanelReset, InvalidatePanelState, Lifecycle, Attach, Detach, DirectI2cAdmitted
  <2>2. ~OperationActive => op.phase # "INITIALIZE_COMMAND"
    BY <1>1 DEF PowerDuring, ControlPhases, OperationActive
  <2>. QED BY <2>1, <2>2, EndedOperation DEF QuietPhases, NoOperation
<1>. QED BY <1>2, <1>3, DoubtIsSafe DEF TracksStep

LEMMA NextTracks ==
  ASSUME ControlInv, [Next]_vars
  PROVE  TracksStep
<1>1. CASE ControlCall
  BY <1>1, DirectCommandTracks, QuietCallsTrack, ForgettingTracks DEF ControlCall
<1>2. CASE UNCHANGED vars
  BY <1>2 DEF vars, ControlInv, TracksStep
<1>. QED BY <1>1, <1>2, QuietCallsTrack, ForgettingTracks, OperationCallTracks DEF Next

-----------------------------------------------------------------------------
\* Jobs and scrolling

StillSafe == Running(flush') => ~panel'.scrolling

\* A job is admitted only on a panel that does not scroll.
LEMMA StartFindsItStill ==
  ASSUME ControlInv, NEW kind \in Kinds, NEW deadline \in BOOLEAN,
         StartOperation(kind, deadline)
  PROVE  StillSafe
<1>1. TypeOK /\ panel' = panel /\ ~Running(flush)
  BY DuringOperation DEF StartOperation, OperationAdmitted, ControlInv, IsFlushing, Running
<1>2. ~Running(SettledFlush) /\ ~Running(ConsumedFlush)
  BY <1>1, JobStates
<1>3. flush' \in Job(frame.dirty) => IsDirty
  BY DEF Job, IsDirty
<1>. QED BY <1>1, <1>2, <1>3 DEF StartOperation, FlushRefused, StillSafe

LEMMA OperationKeepsItStill ==
  ASSUME ControlInv, JobSafe(panel', flush', op'), OperationCall
  PROVE  StillSafe
<1>1. /\ TruthInv /\ panel \in PanelType /\ op \in OpType
      /\ Running(flush) => ~panel.scrolling
  BY DuringOperation DEF ControlInv
\* A job needs an operation in its flush phase.
<1>2. ASSUME EffectStep, op'.phase # "FLUSH_PHASE" PROVE StillSafe
  BY <1>2 DEF EffectStep, JobSafe, StillSafe
<1>3. ASSUME NEW late, PollOperation(late) PROVE StillSafe
  <2>1. EffectStep /\ OperationActive
    BY <1>1, <1>3, OperationWorks, PollsAreOfActive
  <2>2. ASSUME NEW o \in Outcomes, PollInitialize(late, o) PROVE StillSafe
    <3>1. \/ op'.phase # "FLUSH_PHASE"
          \/ panel' = [Ticked(late) EXCEPT !.initialized = TRUE, !.sleeping = TRUE,
                         !.scrolling = FALSE, !.power = "OFF", !.guard = "OFF",
                         !.controlDirty = FALSE]
      <4>. DEFINE prefix == op.tx # 0
      <4>1. \/ CommandFails(o, prefix)
            \/ op' = [op EXCEPT !.step = @ + 1, !.effect = "PARTIAL", !.tx = CountTx,
                                !.touched = TRUE]
            \/ panel' = [Ticked(late) EXCEPT !.initialized = TRUE, !.sleeping = TRUE,
                           !.scrolling = FALSE, !.power = "OFF", !.guard = "OFF",
                           !.controlDirty = FALSE]
        BY <2>2 DEF PollInitialize
      <4>2. op.phase = "INITIALIZE_COMMAND"
        BY <2>2 DEF PollInitialize
      <4>. HIDE DEF prefix
      <4>. QED BY <1>1, <4>1, <4>2, CommandEndsOperation DEF QuietPhases, OpType
    <3>2. Ticked(late) \in PanelType
      BY <1>1, PanelTypes DEF Ticked
    <3>. QED BY <1>2, <2>1, <3>1, <3>2 DEF StillSafe, PanelType
  <2>3. ASSUME NEW o \in Outcomes,
               \/ PollDisplayOff(late, o) \/ PollChargePumpOff(late, o)
               \/ PollDisplayOn(late, o) \/ PollScrollDeactivate(late, o)
               \/ PollScrollConfigure(late, o) \/ PollScrollActivate(late, o)
        PROVE  StillSafe
    BY <1>2, <2>1, <2>3, PollCommandTracks
  <2>4. ASSUME \/ PollDeadline(late) \/ PollEmptyFlush(late) \/ PollDisplayOnRejected(late)
               \/ PollDelayEnds(late)
        PROVE  StillSafe
    <3>1. op'.phase \in QuietPhases
      BY <2>4, EndsQuietly DEF PollDeadline
    <3>. QED BY <1>2, <2>1, <3>1 DEF QuietPhases
  <2>5. ASSUME PollDelayStarts(late) PROVE StillSafe
    <3>1. op'.phase = "DISPLAY_ON_DELAY"
      BY <1>1, <2>5 DEF PollDelayStarts, OpType
    <3>. QED BY <1>2, <2>1, <3>1
  <2>6. ASSUME \/ PollFlushPhaseTimeout(late)
               \/ \E o \in Outcomes, k \in Cols : PollFlushPhase(late, o, k)
        PROVE  StillSafe
    <3>1. panel' = Ticked(late) /\ InFlushPhase
      BY <2>6 DEF PollFlushPhaseTimeout, PollFlushPhase
    <3>2. Running(flush)
      BY <1>1, <2>1, <3>1 DEF TruthInv, JobInv, JobSafe, InFlushPhase, OperationActive
    <3>3. panel'.scrolling = panel.scrolling
      BY <1>1, <3>1, FlagsOfPanel DEF FlagsKept, Ticked
    <3>. QED BY <1>1, <3>2, <3>3 DEF StillSafe
  <2>. QED BY <1>3, <2>2, <2>3, <2>4, <2>5, <2>6 DEF PollOperation
<1>4. ASSUME CancelOperation \/ BlockingOperationStalls PROVE StillSafe
  <2>1. EffectStep
    BY <1>1, <1>4, OperationWorks
  <2>2. op'.phase \in QuietPhases
    BY <1>4, EndsQuietly DEF CancelOperation, BlockingOperationStalls
  <2>. QED BY <1>2, <2>1, <2>2 DEF QuietPhases
<1>5. TakeOperationResult => StillSafe
  BY <1>1 DEF TakeOperationResult, StillSafe
<1>. QED BY <1>3, <1>4, <1>5, StartFindsItStill DEF OperationCall

LEMMA OtherCallsKeepItStill ==
  ASSUME ControlInv, FlushCall \/ FrameCall \/ ControlCall \/ Lifecycle \/ UNCHANGED vars
  PROVE  StillSafe
<1>1. /\ TypeOK /\ panel \in PanelType
      /\ Running(flush) => ~panel.scrolling
  BY DuringOperation DEF ControlInv
<1>2. ASSUME panel'.scrolling = panel.scrolling, Running(flush') => Running(flush)
      PROVE  StillSafe
  BY <1>1, <1>2 DEF StillSafe
<1>3. ASSUME ~Running(flush') PROVE StillSafe
  BY <1>3 DEF StillSafe
<1>4. CASE FlushCall
  <2>1. panel'.scrolling = panel.scrolling
    BY <1>4, QuietCallsTrack
  <2>2. ASSUME RequestFlush PROVE StillSafe
    <3>1. flush' \in Job(frame.dirty) => IsDirty
      BY DEF Job, IsDirty
    <3>. QED BY <1>1, <2>1, <2>2, <3>1, JobStates
             DEF RequestFlush, FlushRefused, StillSafe, IsFlushing, Running
  <2>3. ASSUME NEW late, LegacyPoll(late) PROVE StillSafe
    BY <1>2, <2>1, <2>3 DEF LegacyPoll, IsFlushing, Running
  <2>4. ASSUME NEW late, PollFlushEnded(late) PROVE StillSafe
    BY <1>1, <1>2, <2>1, <2>4, JobStates DEF PollFlushEnded, ConsumeTerminalFlush
  <2>5. WaitFlushGivesUp => StillSafe
    BY <1>2, <2>1 DEF WaitFlushGivesUp, IsFlushing, Running
  <2>. QED BY <1>4, <2>2, <2>3, <2>4, <2>5
           DEF FlushCall, PollFlush, PollFlushTimeout, PollFlushWaits, PollFlushSends
<1>5. CASE FrameCall
  <2>1. panel'.scrolling = panel.scrolling
    BY <1>5, QuietCallsTrack
  <2>2. (\E p, S : Draw(p, S)) \/ DrawAll \/ ClearDirty \/ FirstPage => StillSafe
    BY <1>1, <1>2, <2>1, JobStates DEF Draw, DrawAll, ClearDirty, FirstPage
  <2>3. NextPageReportsFailure \/ NextPageAfterWindow => StillSafe
    <3>1. \A failed : ~Running([IdleFlush EXCEPT !.failed = failed])
      BY DEF IdleFlush, Running, FlushPhases
    <3>. QED BY <1>3, <3>1 DEF NextPageReportsFailure, NextPageAfterWindow
  <2>4. NextPageSendsWindow => StillSafe
    BY <1>2, <2>1 DEF NextPageSendsWindow, StillSafe
  <2>. QED BY <1>5, <2>2, <2>3, <2>4 DEF FrameCall, ClearDirtyIfIdle
<1>6. CASE ControlCall
  <2>1. ASSUME NEW o \in Outcomes, TrackedWrite(o) PROVE StillSafe
    BY <1>1, <1>3, <2>1, JobStates DEF TrackedWrite, DirectI2cAdmitted, IsFlushing, Running
  <2>2. ASSUME NEW late, TickPanelGuard(late) PROVE StillSafe
    BY <1>2, <2>2, QuietCallsTrack DEF TickPanelGuard
  <2>3. ASSUME NEW really, PanelReset(really) PROVE StillSafe
    <3>1. panel'.scrolling = panel.scrolling
      BY <1>1, <2>3
         DEF PanelReset, InvalidatePanelState, Invalidated, MarkControlDirty,
             InvalidatePower, PanelType
    <3>2. ~Running([EndJob("ERROR") EXCEPT !.accounted = TRUE])
      BY <1>1, FlushTypes DEF Running, FlushPhases, FlushType
    <3>3. Running(flush') => Running(flush)
      BY <1>1, <2>3, <3>2, JobStates DEF PanelReset, InvalidatePanelState
    <3>. QED BY <1>2, <3>1, <3>3
  <2>. QED BY <1>6, <2>1, <2>2, <2>3
           DEF ControlCall, SetRegister, SetFlipX, StopScroll, SleepNow, WakeNow,
               SendRawCommand
<1>7. Lifecycle => StillSafe
  BY <1>1, <1>3, JobStates DEF Lifecycle, Attach, Detach
<1>8. UNCHANGED vars => StillSafe
  BY <1>1 DEF vars, StillSafe
<1>. QED BY <1>4, <1>5, <1>6, <1>7, <1>8

LEMMA ControlInvHolds == Spec => []ControlInv
<1>1. Init => TracksSafe(panel, op, device) /\ (Running(flush) => ~panel.scrolling)
  BY DEF Init, DetachedPanel, NoOperation, IdleFlush, TracksSafe, Known, Running, FlushPhases
<1>2. Init /\ TruthInv => ControlInv
  BY <1>1 DEF ControlInv
<1>3. ControlInv /\ [Next]_vars /\ TruthInv' => ControlInv'
  <2>. SUFFICES ASSUME ControlInv, [Next]_vars, TruthInv' PROVE ControlInv'
    OBVIOUS
  <2>1. JobSafe(panel', flush', op')
    BY DEF TruthInv, JobInv
  <2>2. TracksStep
    BY NextTracks
  <2>3. StillSafe
    BY <2>1, OperationKeepsItStill, OtherCallsKeepItStill DEF Next
  <2>. QED BY <2>2, <2>3 DEF ControlInv, TracksStep, StillSafe
<1>. QED BY <1>2, <1>3, TruthInvHolds, PTL DEF Spec

\* Without controlStateDirty(), and between operations, isSleeping() and
\* isScrolling() say what the controller does, whatever failed, was cancelled,
\* timed out or was sent raw before.
THEOREM ControlIsTrue == Spec => []ControlTruth
BY ControlInvHolds, ControlInvImplies, PTL

\* requestFlush(), startFlush(), nextPage() and a resync never have a job under
\* way while the controller rotates GDDRAM.
THEOREM NoDataIsRotated == Spec => []NoDataWhileScrolling
BY ControlInvHolds, ControlInvImplies, PTL
=============================================================================
