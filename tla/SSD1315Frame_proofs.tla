------------------------ MODULE SSD1315Frame_proofs ------------------------
(***************************************************************************)
(* Proofs about GDDRAM against the framebuffer: what a claimed baseline    *)
(* says, that a lost one can be rebuilt, and what an iteration has shown.  *)
(***************************************************************************)
EXTENDS SSD1315Driver_proofs

\* Cell <<q, x>> shows the drawn frame, is recorded dirty, or is the owner's.
Covered(q, x, f, d) ==
  <<q, x>> \in d.stale => x \in f.dirty[q] \/ <<q, x>> \in d.discarded

\* The pages of the windows before w.
Behind(w) == {q \in Pages : q < w * PagesPerBuffer}

\* A baseline is claimed of GDDRAM that may rotate only while scrolling is known.
RotationSafe(p, f, d) == f.synced /\ ~p.controlDirty /\ d.rotating => p.scrolling

\* A baseline covers every cell, also while a scroll is known to rotate them; a
\* begun initialization stops that scroll before it drops the baseline.
BaselineSafe(p, f, o, d) ==
  f.synced /\ ~p.controlDirty /\ (Begun(o) => ~p.scrolling) =>
    \A q \in Pages, x \in Cols : Covered(q, x, f, d)

\* What a job has sent is covered and lies before what it has yet to send.
SentSafe(f, j, d) ==
  Running(j) =>
    \A q \in Pages, x \in Cols : <<q, x>> \in j.sent =>
      Covered(q, x, f, d) /\ (q < j.page \/ (q = j.page /\ x \notin j.left))

\* On the page being sent, only what is left to send can be old, unless a
\* mutator raced with it.
PageSafe(f, j, d) ==
  Running(j) /\ ~j.raced =>
    \A x \in Cols : x \in f.dirty[j.page] /\ <<j.page, x>> \in d.stale =>
      x \in j.left \/ <<j.page, x>> \in d.discarded

\* Without a baseline the dirty record is the whole frame; a job that is under
\* way has sent what is no longer recorded, and goes on to the last page.
RewriteSafe(p, f, j, d) ==
  ~PageMode /\ Known(p) /\ ~f.synced /\ ~d.forgot =>
    \A q \in Pages, x \in Cols :
      /\ ~Running(j) => x \in f.dirty[q]
      /\ Running(j) =>
           /\ j.last = TotalPages - 1
           /\ q < j.page => <<q, x>> \in j.sent
           /\ q = j.page => <<q, x>> \in j.sent \/ x \in j.left
           /\ q > j.page => x \in f.dirty[q]

\* An iteration has shown the windows behind it, and recorded what it has not
\* shown of its own; while GDDRAM may rotate it has sent nothing.
IterationSafe(f, o, d) ==
  f.iterating =>
    /\ PageMode /\ ~f.synced /\ d.discarded = {}
    /\ ~(o.state = "ACTIVE" /\ o.kind = "SCROLL")
    /\ \A q \in Pages, x \in Cols : <<q, x>> \in d.stale =>
         q \notin Behind(f.window) /\ (q \in WindowPages(f.window) => x \in f.dirty[q])
    /\ d.rotating =>
         f.window = 0 /\ \A q \in WindowPages(0), x \in Cols : x \in f.dirty[q]

FrameSafe(p, f, j, o, d) ==
  /\ RotationSafe(p, f, d)
  /\ BaselineSafe(p, f, o, d)
  /\ SentSafe(f, j, d)
  /\ PageSafe(f, j, d)
  /\ RewriteSafe(p, f, j, d)
  /\ IterationSafe(f, o, d)

\* The inductive invariant.
FrameInv == ControlInv /\ FrameSafe(panel, frame, flush, op, device)

FrameStep == FrameSafe(panel', frame', flush', op', device')

-----------------------------------------------------------------------------
\* Windows and the dirty record

LEMMA WindowFacts ==
  /\ Behind(0) = {}
  /\ ~PageMode => \A w : WindowPages(w) = Pages
  /\ \A w : WindowPages(w) \subseteq Pages
  /\ PageMode => \A w \in Windows : \A q \in Pages :
       /\ q \in WindowPages(w) => q \notin Behind(w)
       /\ q \in Behind(w + 1) <=> q \in Behind(w) \/ q \in WindowPages(w)
  /\ frame.window \in Windows /\ LastWindow => Behind(frame.window + 1) = Pages
<1>1. TotalPages \in Nat /\ PagesPerBuffer \in Nat /\ PagesPerBuffer >= 1
  BY ConfigAssumption DEF ConfigAssumption
<1>2. Behind(0) = {}
  BY <1>1 DEF Behind, Pages
<1>3. ~PageMode => \A w : WindowPages(w) = Pages
  BY DEF WindowPages
<1>4. \A w : WindowPages(w) \subseteq Pages
  BY DEF WindowPages
<1>5. ASSUME PageMode, NEW w \in Windows, NEW q \in Pages
      PROVE  /\ q \in WindowPages(w) => q \notin Behind(w)
             /\ q \in Behind(w + 1) <=> q \in Behind(w) \/ q \in WindowPages(w)
  <2>1. w \in Nat /\ q \in Int
    BY <1>1, <1>5 DEF Windows, Pages
  <2>2. (w + 1) * PagesPerBuffer = w * PagesPerBuffer + PagesPerBuffer
    BY <1>1, <2>1
  <2>. DEFINE a == w * PagesPerBuffer
              b == (w + 1) * PagesPerBuffer
  <2>3. a \in Int /\ b = a + PagesPerBuffer
    BY <1>1, <2>1, <2>2
  <2>4. /\ q \in WindowPages(w) <=> a <= q /\ q < b
        /\ q \in Behind(w) <=> q < a
        /\ q \in Behind(w + 1) <=> q < b
    BY <1>5 DEF WindowPages, Behind
  <2>. HIDE DEF a, b
  <2>. QED BY <1>1, <2>1, <2>3, <2>4
<1>6. ASSUME frame.window \in Windows, LastWindow PROVE Behind(frame.window + 1) = Pages
  <2>1. \A q \in Pages : q \in Int /\ q < TotalPages
    BY <1>1 DEF Pages
  <2>. DEFINE b == (frame.window + 1) * PagesPerBuffer
  <2>2. b \in Int /\ b >= TotalPages
    BY <1>1, <1>6 DEF LastWindow, Windows
  <2>3. Behind(frame.window + 1) = {q \in Pages : q < b}
    BY DEF Behind
  <2>. HIDE DEF b
  <2>. QED BY <1>1, <2>1, <2>2, <2>3
<1>. QED BY <1>2, <1>3, <1>4, <1>5, <1>6

LEMMA MarkedDirty ==
  ASSUME NEW d \in [Pages -> SUBSET Cols]
  PROVE  /\ \A w, q \in Pages :
              MarkAllDirty(d, w)[q] = IF q \in WindowPages(w) THEN Cols ELSE d[q]
         /\ \A p \in Pages, S \in SUBSET Cols, q \in Pages :
              /\ q # p => MarkDirty(d, p, S)[q] = d[q]
              /\ \A x \in Cols : x \in d[q] => x \in MarkDirty(d, p, S)[q]
              /\ \A x \in S : x \in MarkDirty(d, p, S)[p]
<1>1. \A w, q \in Pages :
        MarkAllDirty(d, w)[q] = IF q \in WindowPages(w) THEN Cols ELSE d[q]
  BY DEF MarkAllDirty
<1>2. ASSUME NEW p \in Pages, NEW S \in SUBSET Cols, NEW q \in Pages
      PROVE  /\ q # p => MarkDirty(d, p, S)[q] = d[q]
             /\ \A x \in Cols : x \in d[q] => x \in MarkDirty(d, p, S)[q]
             /\ \A x \in S : x \in MarkDirty(d, p, S)[p]
  <2>1. \A x \in Cols, T \in SUBSET Cols : x \in T => x \in Hull(T)
    BY ConfigAssumption DEF Hull, ConfigAssumption, Cols
  <2>2. d[p] \cup S \in SUBSET Cols
    BY <1>2
  <2>3. /\ q # p => MarkDirty(d, p, S)[q] = d[q]
        /\ MarkDirty(d, p, S)[p] = Hull(d[p] \cup S)
    BY <1>2 DEF MarkDirty
  <2>. QED BY <1>2, <2>1, <2>2, <2>3
<1>. QED BY <1>1, <1>2

LEMMA CellFacts ==
  /\ \A q \in Pages, x \in Cols : <<q, x>> \in Cells
  /\ 0 \in Pages /\ TotalPages - 1 \in Pages /\ 0 \in Cols
  /\ \A q \in Pages : q \in Int /\ 0 <= q /\ q <= TotalPages - 1
BY ConfigAssumption DEF ConfigAssumption, Cells, Pages, Cols

-----------------------------------------------------------------------------
\* Steps that leave GDDRAM as it is

\* The dirty record may grow, a claim may be dropped.
FrameGrows ==
  /\ \A q \in Pages, x \in Cols : x \in frame.dirty[q] => x \in frame'.dirty[q]
  /\ frame'.window = frame.window
  /\ frame'.iterating => frame.iterating
  /\ frame'.synced => frame.synced

SameMemory ==
  /\ device'.stale = device.stale /\ device'.discarded = device.discarded
  /\ device'.rotating = device.rotating

\* The panel may become doubtful, and an initialization that began goes on.
PanelDoubts ==
  /\ ~panel'.controlDirty => ~panel.controlDirty
  /\ panel'.scrolling = panel.scrolling
  /\ Begun(op) => Begun(op') \/ panel'.controlDirty

NoNewScroll ==
  op'.state = "ACTIVE" /\ op'.kind = "SCROLL" /\ frame'.iterating =>
    op.state = "ACTIVE" /\ op.kind = "SCROLL"

\* RewriteSafe without a job.
Rebuilt ==
  ~PageMode /\ Known(panel') /\ ~frame'.synced /\ ~device'.forgot =>
    \A q \in Pages, x \in Cols : x \in frame'.dirty[q]

LEMMA NoJobFrame ==
  ASSUME ~Running(flush'), Rebuilt
  PROVE  /\ SentSafe(frame', flush', device')
         /\ PageSafe(frame', flush', device')
         /\ RewriteSafe(panel', frame', flush', device')
BY DEF SentSafe, PageSafe, RewriteSafe, Rebuilt

\* Nothing is claimed of a doubtful panel.
LEMMA DoubtfulFrame ==
  ASSUME panel'.controlDirty, ~Running(flush'), IterationSafe(frame', op', device')
  PROVE  FrameStep
<1>1. Rebuilt
  BY DEF Rebuilt, Known
<1>. QED BY <1>1, NoJobFrame DEF FrameStep, FrameSafe, RotationSafe, BaselineSafe

\* Nothing is claimed of a frame without baseline that no iteration covers.
LEMMA UnclaimedFrame ==
  ASSUME ~frame'.synced, ~frame'.iterating,
         SentSafe(frame', flush', device'), PageSafe(frame', flush', device'),
         RewriteSafe(panel', frame', flush', device')
  PROVE  FrameStep
BY DEF FrameStep, FrameSafe, RotationSafe, BaselineSafe, IterationSafe

LEMMA QuietFrame ==
  ASSUME FrameInv, FrameGrows, SameMemory, PanelDoubts, NoNewScroll
  PROVE  /\ RotationSafe(panel', frame', device')
         /\ BaselineSafe(panel', frame', op', device')
         /\ IterationSafe(frame', op', device')
         /\ ~Running(flush') /\ Rebuilt => FrameStep
<1>1. /\ RotationSafe(panel, frame, device) /\ BaselineSafe(panel, frame, op, device)
      /\ IterationSafe(frame, op, device)
  BY DEF FrameInv, FrameSafe
<1>2. RotationSafe(panel', frame', device')
  BY <1>1 DEF RotationSafe, FrameGrows, SameMemory, PanelDoubts
<1>3. BaselineSafe(panel', frame', op', device')
  BY <1>1 DEF BaselineSafe, Covered, FrameGrows, SameMemory, PanelDoubts
<1>4. IterationSafe(frame', op', device')
  <2>. SUFFICES ASSUME frame'.iterating PROVE IterationSafe(frame', op', device')
    BY DEF IterationSafe
  <2>1. frame.iterating /\ ~frame'.synced
    BY <1>1 DEF FrameGrows, IterationSafe
  <2>2. WindowPages(0) \subseteq Pages
    BY WindowFacts
  <2>. QED BY <1>1, <2>1, <2>2 DEF IterationSafe, FrameGrows, SameMemory, NoNewScroll
<1>. QED BY <1>2, <1>3, <1>4, NoJobFrame DEF FrameStep, FrameSafe

\* A frame without a job that nothing happens to.
LEMMA StillRebuilt ==
  ASSUME FrameInv, ~Running(flush), frame'.dirty = frame.dirty,
         frame'.synced = frame.synced, device'.forgot = device.forgot,
         Known(panel') => Known(panel)
  PROVE  Rebuilt
BY DEF FrameInv, FrameSafe, RewriteSafe, Rebuilt

\* The frame stays, and no job runs before or after.
LEMMA IdleFrame ==
  ASSUME FrameInv, ~Running(flush), ~Running(flush'), frame' = frame,
         SameMemory, device'.forgot = device.forgot,
         Known(panel') => Known(panel), PanelDoubts, NoNewScroll
  PROVE  FrameStep
<1>1. FrameGrows
  BY DEF FrameGrows
<1>2. Rebuilt
  BY StillRebuilt
<1>. QED BY <1>1, <1>2, QuietFrame

-----------------------------------------------------------------------------
\* A job that starts

LEMMA JobRange ==
  ASSUME NEW d \in [Pages -> SUBSET Cols], NEW j \in Job(d)
  PROVE  /\ Running(j) /\ j.sent = {} /\ ~j.raced
         /\ j.page \in Pages /\ j.last \in Pages
         /\ j.left = d[j.page]
         /\ \A q \in Pages, x \in Cols : x \in d[q] => j.page <= q /\ q <= j.last
<1>1. PICK r \in DirtyPages(d) \X DirtyPages(d) :
        /\ j = [IdleFlush EXCEPT !.state = "SET_COL", !.page = r[1], !.last = r[2],
                                 !.left = d[r[1]]]
        /\ \A p \in DirtyPages(d) : r[1] <= p /\ p <= r[2]
  BY DEF Job
<1>2. r[1] \in Pages /\ r[2] \in Pages
  BY <1>1 DEF DirtyPages
<1>3. /\ j.state = "SET_COL" /\ j.page = r[1] /\ j.last = r[2] /\ j.left = d[r[1]]
      /\ j.sent = {} /\ j.raced = FALSE
  BY <1>1 DEF IdleFlush
<1>4. \A q \in Pages, x \in Cols : x \in d[q] => q \in DirtyPages(d)
  BY DEF DirtyPages
<1>. QED BY <1>1, <1>2, <1>3, <1>4 DEF Running, FlushPhases

LEMMA JobStarts ==
  ASSUME frame'.dirty \in [Pages -> SUBSET Cols], flush' \in Job(frame'.dirty), Rebuilt
  PROVE  /\ Running(flush')
         /\ SentSafe(frame', flush', device')
         /\ PageSafe(frame', flush', device')
         /\ RewriteSafe(panel', frame', flush', device')
<1>1. /\ Running(flush') /\ flush'.sent = {} /\ ~flush'.raced
      /\ flush'.page \in Pages /\ flush'.last \in Pages
      /\ flush'.left = frame'.dirty[flush'.page]
      /\ \A q \in Pages, x \in Cols :
           x \in frame'.dirty[q] => flush'.page <= q /\ q <= flush'.last
  BY JobRange
<1>2. SentSafe(frame', flush', device') /\ PageSafe(frame', flush', device')
  BY <1>1 DEF SentSafe, PageSafe
<1>3. RewriteSafe(panel', frame', flush', device')
  <2>. SUFFICES ASSUME ~PageMode, Known(panel'), ~frame'.synced, ~device'.forgot
                PROVE  RewriteSafe(panel', frame', flush', device')
    BY DEF RewriteSafe
  <2>1. \A q \in Pages, x \in Cols : x \in frame'.dirty[q]
    BY DEF Rebuilt
  <2>2. flush'.page = 0 /\ flush'.last = TotalPages - 1
    <3>1. 0 \in frame'.dirty[0] /\ 0 \in frame'.dirty[TotalPages - 1]
      BY <2>1, CellFacts
    <3>2. flush'.page <= 0 /\ TotalPages - 1 <= flush'.last
      BY <1>1, <3>1, CellFacts
    <3>3. 0 <= flush'.page /\ flush'.last <= TotalPages - 1
      BY <1>1, CellFacts
    <3>4. flush'.page \in Int /\ flush'.last \in Int /\ TotalPages \in Int
      BY <1>1, CellFacts, ConfigAssumption DEF ConfigAssumption
    <3>. QED BY <3>2, <3>3, <3>4
  <2>3. ASSUME NEW q \in Pages, NEW x \in Cols
        PROVE  /\ flush'.last = TotalPages - 1
               /\ ~(q < flush'.page)
               /\ q = flush'.page => x \in flush'.left
               /\ x \in frame'.dirty[q]
    <3>1. ~(q < flush'.page)
      BY <2>2, CellFacts
    <3>. QED BY <1>1, <2>1, <2>2, <3>1
  <2>. QED BY <1>1, <2>3 DEF RewriteSafe
<1>. QED BY <1>1, <1>2, <1>3

\* A job is requested for the frame as it is recorded.
LEMMA RequestedFrame ==
  ASSUME FrameInv, ~Running(flush), flush' \in Job(frame.dirty), frame' = frame,
         device' = device, Known(panel') => Known(panel), PanelDoubts, NoNewScroll
  PROVE  FrameStep
<1>1. FrameGrows /\ SameMemory
  BY DEF FrameGrows, SameMemory
<1>2. Rebuilt
  BY StillRebuilt
<1>3. frame.dirty \in [Pages -> SUBSET Cols]
  BY DuringOperation DEF FrameInv, ControlInv, TypeOK, FrameType
<1>. QED BY <1>1, <1>2, <1>3, JobStarts, QuietFrame DEF FrameStep, FrameSafe

-----------------------------------------------------------------------------
\* A job that goes on, fails or completes a page

\* What a job relies on while it runs.
LEMMA DuringJob ==
  ASSUME FrameInv, Running(flush)
  PROVE  /\ Known(panel) /\ ~Begun(op) /\ ~panel.scrolling /\ ~device.rotating
         /\ ~(op.state = "ACTIVE" /\ op.kind = "SCROLL")
         /\ FrameSafe(panel, frame, flush, op, device)
         /\ frame \in FrameType /\ flush \in FlushType /\ device \in DeviceType
         /\ panel \in PanelType /\ op \in OpType
<1>1. /\ TypeOK /\ JobSafe(panel, flush, op) /\ TracksSafe(panel, op, device)
      /\ ~panel.scrolling /\ PhaseOfKind(op)
  BY DuringOperation DEF FrameInv, ControlInv, JobInv
<1>2. Known(panel) /\ ~Begun(op)
  BY <1>1 DEF JobSafe, Known, Begun
<1>3. ~device.rotating
  BY <1>1, <1>2 DEF TracksSafe, Tracks
<1>4. ~(op.state = "ACTIVE" /\ op.kind = "SCROLL")
  BY <1>1 DEF JobSafe, PhaseOfKind
<1>. QED BY <1>1, <1>2, <1>3, <1>4 DEF FrameInv, TypeOK

\* What an operation, or no operation, makes of the panel while its job runs.
JobContext ==
  /\ panel'.controlDirty = panel.controlDirty
  /\ panel'.scrolling = panel.scrolling
  /\ panel'.initialized = panel.initialized
  /\ ~Begun(op')
  /\ ~(op'.state = "ACTIVE" /\ op'.kind = "SCROLL")

LEMMA AbandonedFrame ==
  ASSUME FrameInv, ~Running(flush'), device' = device, NoNewScroll, PanelDoubts,
         NEW f, f.dirty = frame.dirty, f.window = frame.window,
         f \in FrameType, f.iterating = frame.iterating, f.synced => frame.synced,
         frame' = AbandonedRewrite(f)
  PROVE  FrameStep
<1>1. /\ frame'.synced = f.synced /\ frame'.iterating = f.iterating
      /\ frame'.window = f.window
      /\ frame'.dirty = IF ~f.synced /\ ~PageMode
                        THEN MarkAllDirty(f.dirty, f.window) ELSE f.dirty
  BY DEF AbandonedRewrite, FrameType
<1>2. \A q \in Pages : MarkAllDirty(f.dirty, f.window)[q] =
                         IF q \in WindowPages(f.window) THEN Cols ELSE f.dirty[q]
  BY DEF MarkAllDirty
<1>3. FrameGrows
  BY <1>1, <1>2 DEF FrameGrows
<1>4. Rebuilt
  BY <1>1, <1>2, WindowFacts DEF Rebuilt
<1>5. SameMemory
  BY DEF SameMemory
<1>. QED BY <1>3, <1>4, <1>5, QuietFrame

\* The running job is polled and only waits, or sends an address.
LEMMA WaitingFrame ==
  ASSUME FrameInv, Running(flush), Running(flush'), JobContext, frame' = frame,
         device' = device, flush'.sent = flush.sent, flush'.left = flush.left,
         flush'.page = flush.page, flush'.last = flush.last, flush'.raced = flush.raced
  PROVE  FrameStep
<1>1. FrameSafe(panel, frame, flush, op, device) /\ Known(panel) /\ ~Begun(op)
  BY DuringJob
<1>. QED BY <1>1 DEF FrameStep, FrameSafe, RotationSafe, BaselineSafe, SentSafe, PageSafe,
                     RewriteSafe, IterationSafe, Covered, JobContext, Known

\* One acknowledged chunk, and what it does to GDDRAM.
ChunkSent(chunk, sent) ==
  LET now == {flush.page} \X chunk
  IN  /\ sent = flush.sent \cup now
      /\ device' = [device EXCEPT !.stale = @ \ now, !.discarded = @ \ now,
                                  !.forgot = @ /\ sent # Cells]

ChunkArrived(chunk, sent) ==
  /\ device'.rotating = device.rotating
  /\ device.forgot /\ ~device'.forgot => sent = Cells
  /\ ~device.forgot => ~device'.forgot
  /\ \A q, x : <<q, x>> \in device'.stale <=>
                 <<q, x>> \in device.stale /\ ~(q = flush.page /\ x \in chunk)
  /\ \A q, x : <<q, x>> \in device'.discarded <=>
                 <<q, x>> \in device.discarded /\ ~(q = flush.page /\ x \in chunk)
  /\ \A q, x : <<q, x>> \in sent <=>
                 <<q, x>> \in flush.sent \/ (q = flush.page /\ x \in chunk)
  /\ device.discarded = {} => device'.discarded = {}

LEMMA ChunkArrives ==
  ASSUME FrameInv, Running(flush), NEW chunk, NEW sent, ChunkSent(chunk, sent)
  PROVE  ChunkArrived(chunk, sent)
<1>. DEFINE now == {flush.page} \X chunk
<1>1. device \in DeviceType
  BY DuringJob
<1>2. /\ device'.rotating = device.rotating
      /\ device'.stale = device.stale \ now /\ device'.discarded = device.discarded \ now
      /\ device'.forgot = (device.forgot /\ sent # Cells)
      /\ sent = flush.sent \cup now
  BY <1>1 DEF DeviceType, ChunkSent
<1>3. \A q, x : <<q, x>> \in now <=> q = flush.page /\ x \in chunk
  OBVIOUS
<1>. HIDE DEF now
<1>. QED BY <1>2, <1>3 DEF ChunkArrived

\* A chunk that is not the last of its page.
LEMMA PartialFrame ==
  ASSUME FrameInv, Running(flush), JobContext, frame' = frame, Running(flush'),
         NEW chunk, chunk \subseteq flush.left, chunk # flush.left,
         NEW sent, ChunkSent(chunk, sent),
         flush'.sent = sent, flush'.left = flush.left \ chunk,
         flush'.page = flush.page, flush'.last = flush.last, flush'.raced = flush.raced
  PROVE  FrameStep
<1>1. /\ FrameSafe(panel, frame, flush, op, device) /\ Known(panel) /\ ~Begun(op)
      /\ ~device.rotating /\ flush.page \in Pages /\ flush.left \in SUBSET Cols
  BY DuringJob DEF FlushType
<1>2. /\ ~device'.rotating
      /\ device.forgot /\ ~device'.forgot => sent = Cells
      /\ ~device.forgot => ~device'.forgot
      /\ \A q, x : <<q, x>> \in device'.stale <=>
                     <<q, x>> \in device.stale /\ ~(q = flush.page /\ x \in chunk)
      /\ \A q, x : <<q, x>> \in device'.discarded <=>
                     <<q, x>> \in device.discarded /\ ~(q = flush.page /\ x \in chunk)
      /\ \A q, x : <<q, x>> \in sent <=>
                     <<q, x>> \in flush.sent \/ (q = flush.page /\ x \in chunk)
      /\ device.discarded = {} => device'.discarded = {}
  BY <1>1, ChunkArrives DEF ChunkArrived
\* Some of the page is left, so the job cannot have sent every cell.
<1>3. sent # Cells
  <2>1. PICK x \in Cols : x \in flush.left /\ x \notin chunk
    BY <1>1
  <2>2. <<flush.page, x>> \notin flush.sent
    <3>1. ~(flush.page < flush.page)
      BY <1>1, CellFacts
    <3>. QED BY <1>1, <2>1, <3>1 DEF FrameSafe, SentSafe
  <2>. QED BY <1>1, <1>2, <2>1, <2>2, CellFacts
<1>4. device'.forgot <=> device.forgot
  BY <1>2, <1>3
<1>5. \A q \in Pages, x \in Cols :
        Covered(q, x, frame, device) => Covered(q, x, frame', device')
  BY <1>2 DEF Covered
<1>6. RotationSafe(panel', frame', device')
  BY <1>2 DEF RotationSafe
<1>7. BaselineSafe(panel', frame', op', device')
  BY <1>1, <1>5 DEF BaselineSafe, FrameSafe, JobContext, Known
<1>8. SentSafe(frame', flush', device')
  <2>1. SentSafe(frame, flush, device)
    BY <1>1 DEF FrameSafe
  <2>2. ASSUME NEW q \in Pages, NEW x \in Cols, <<q, x>> \in sent
        PROVE  /\ Covered(q, x, frame', device')
               /\ q < flush.page \/ (q = flush.page /\ x \notin flush.left \ chunk)
    BY <1>2, <1>5, <2>1, <2>2 DEF SentSafe, Covered
  <2>. QED BY <2>2 DEF SentSafe
<1>9. PageSafe(frame', flush', device')
  BY <1>1, <1>2 DEF FrameSafe, PageSafe
<1>10. RewriteSafe(panel', frame', flush', device')
  <2>1. RewriteSafe(panel, frame, flush, device)
    BY <1>1 DEF FrameSafe
  <2>. QED BY <1>1, <1>2, <1>4, <2>1 DEF RewriteSafe
<1>11. IterationSafe(frame', op', device')
  BY <1>1, <1>2 DEF FrameSafe, IterationSafe, JobContext
<1>. QED BY <1>6, <1>7, <1>8, <1>9, <1>10, <1>11 DEF FrameStep, FrameSafe

\* The chunk that completes a page, whether the job ends there or goes on.
LEMMA FinishedFrame ==
  ASSUME FrameInv, Running(flush), JobContext, NEW sent,
         ChunkSent(flush.left, sent), FinishPage(sent)
  PROVE  FrameStep
<1>. DEFINE rest == {p \in DirtyPages(AfterPage) : flush.page < p /\ p <= flush.last}
            complete == ~PageMode /\ sent = Cells
<1>1. /\ FrameSafe(panel, frame, flush, op, device) /\ Known(panel) /\ ~Begun(op)
      /\ ~device.rotating /\ flush.page \in Pages /\ flush.left \in SUBSET Cols
      /\ frame \in FrameType /\ flush \in FlushType /\ flush.last \in Pages
      /\ frame.dirty \in [Pages -> SUBSET Cols]
  BY DuringJob DEF FlushType, FrameType
<1>2. /\ ~device'.rotating
      /\ device.forgot /\ ~device'.forgot => sent = Cells
      /\ ~device.forgot => ~device'.forgot
      /\ \A q, x : <<q, x>> \in device'.stale <=>
                     <<q, x>> \in device.stale /\ ~(q = flush.page /\ x \in flush.left)
      /\ \A q, x : <<q, x>> \in device'.discarded <=>
                     <<q, x>> \in device.discarded /\ ~(q = flush.page /\ x \in flush.left)
      /\ \A q, x : <<q, x>> \in sent <=>
                     <<q, x>> \in flush.sent \/ (q = flush.page /\ x \in flush.left)
      /\ device.discarded = {} => device'.discarded = {}
  BY <1>1, ChunkArrives DEF ChunkArrived
<1>3. /\ AfterPage \in [Pages -> SUBSET Cols]
      /\ \A q \in Pages : AfterPage[q] =
           IF q = flush.page /\ ~flush.raced THEN {} ELSE frame.dirty[q]
  BY <1>1 DEF AfterPage
\* A cell that loses its record was sent, or is the owner's.
<1>4. \A q \in Pages, x \in Cols :
        Covered(q, x, frame, device) =>
          (<<q, x>> \in device'.stale => x \in AfterPage[q] \/ <<q, x>> \in device'.discarded)
  <2>1. PageSafe(frame, flush, device)
    BY <1>1 DEF FrameSafe
  <2>. QED BY <1>1, <1>2, <1>3, <2>1 DEF Covered, PageSafe
<1>5. /\ frame'.dirty = AfterPage /\ frame'.window = frame.window
      /\ frame'.iterating = frame.iterating
      /\ frame'.synced => frame.synced \/ complete
      /\ frame.synced => frame'.synced
  BY <1>1 DEF FinishPage, FrameType
<1>6. \/ rest = {} /\ ~Running(flush') /\ (complete => frame'.synced)
      \/ \E p \in rest :
           /\ \A q \in rest : p <= q
           /\ flush' = [Started EXCEPT !.state = "SET_COL", !.page = p, !.raced = FALSE,
                                       !.left = AfterPage[p], !.sent = sent]
  <2>1. ~Running([EndJob("DONE") EXCEPT !.tx = TRUE])
    <3>1. EndJob("DONE") \in FlushType /\ EndJob("DONE").state = "DONE"
      BY FlushTypes, DuringOperation DEF FrameInv, ControlInv
    <3>. QED BY <3>1 DEF Running, FlushPhases, FlushType
  <2>2. frame' = [frame EXCEPT !.dirty = AfterPage, !.synced = @ \/ complete]
        => (complete => frame'.synced)
    BY <1>1 DEF FrameType
  <2>. QED BY <2>1, <2>2 DEF FinishPage
<1>. HIDE DEF rest
<1>7. \A q \in Pages, x \in Cols : <<q, x>> \in sent =>
        /\ Covered(q, x, frame, device) \/ <<q, x>> \notin device'.stale
        /\ q <= flush.page
  <2>1. SentSafe(frame, flush, device)
    BY <1>1 DEF FrameSafe
  <2>. QED BY <1>1, <1>2, <2>1, CellFacts DEF SentSafe
<1>8. \A q \in Pages, x \in Cols : <<q, x>> \in sent => Covered(q, x, frame', device')
  BY <1>4, <1>5, <1>7 DEF Covered
<1>9. RotationSafe(panel', frame', device')
  BY <1>2 DEF RotationSafe
<1>10. BaselineSafe(panel', frame', op', device')
  <2>1. CASE complete
    BY <1>8, <2>1, CellFacts DEF BaselineSafe
  <2>2. CASE frame.synced
    <3>1. \A q \in Pages, x \in Cols : Covered(q, x, frame, device)
      BY <1>1, <2>2 DEF FrameSafe, BaselineSafe, Known
    <3>. QED BY <1>4, <1>5, <3>1 DEF BaselineSafe, Covered
  <2>. HIDE DEF complete
  <2>. QED BY <1>5, <2>1, <2>2 DEF BaselineSafe
<1>11. IterationSafe(frame', op', device')
  <2>. SUFFICES ASSUME frame.iterating PROVE IterationSafe(frame', op', device')
    BY <1>5 DEF IterationSafe
  <2>1. /\ IterationSafe(frame, op, device) /\ PageMode /\ ~frame.synced
        /\ device.discarded = {} /\ device'.discarded = {} /\ ~frame'.synced
    BY <1>1, <1>2, <1>5 DEF FrameSafe, IterationSafe
  <2>2. \A q \in Pages, x \in Cols : <<q, x>> \in device'.stale =>
          /\ q \notin Behind(frame.window)
          /\ q \in WindowPages(frame.window) => x \in AfterPage[q]
    <3>1. ASSUME NEW q \in Pages, NEW x \in Cols, <<q, x>> \in device'.stale
          PROVE  /\ q \notin Behind(frame.window)
                 /\ q \in WindowPages(frame.window) => x \in AfterPage[q]
      <4>1. <<q, x>> \in device.stale
        BY <1>2, <3>1
      <4>2. /\ q \notin Behind(frame.window)
            /\ q \in WindowPages(frame.window) => x \in frame.dirty[q]
        BY <2>1, <4>1 DEF IterationSafe
      <4>. QED BY <1>4, <2>1, <3>1, <4>2 DEF Covered
    <3>. QED BY <3>1
  <2>. HIDE DEF complete
  <2>. QED BY <1>2, <1>5, <2>1, <2>2 DEF IterationSafe, JobContext
<1>12. CASE rest = {} /\ ~Running(flush') /\ (complete => frame'.synced)
  <2>1. Rebuilt
    <3>. SUFFICES ASSUME ~PageMode, Known(panel'), ~frame'.synced, ~device'.forgot
                  PROVE  FALSE
      BY DEF Rebuilt
    <3>1. ~frame.synced /\ ~device.forgot /\ Known(panel)
      BY <1>1, <1>2, <1>5, <1>12 
    <3>2. \A q \in Pages, x \in Cols :
            /\ flush.last = TotalPages - 1
            /\ q < flush.page => <<q, x>> \in flush.sent
            /\ q = flush.page => <<q, x>> \in flush.sent \/ x \in flush.left
            /\ q > flush.page => x \in frame.dirty[q]
      BY <1>1, <3>1 DEF FrameSafe, RewriteSafe
    <3>3. \A q \in Pages : ~(q > flush.page)
      <4>. SUFFICES ASSUME NEW q \in Pages, q > flush.page PROVE FALSE
        OBVIOUS
      <4>1. flush.last = TotalPages - 1 /\ 0 \in frame.dirty[q]
        BY <3>2, CellFacts
      <4>2. flush.page < q /\ q <= flush.last /\ q # flush.page
        BY <1>1, <4>1, CellFacts
      <4>3. q \in rest
        BY <1>3, <4>1, <4>2 DEF rest, DirtyPages
      <4>. QED BY <1>12, <4>3
    <3>4. \A q \in Pages, x \in Cols : <<q, x>> \in sent
      <4>. SUFFICES ASSUME NEW q \in Pages, NEW x \in Cols PROVE <<q, x>> \in sent
        OBVIOUS
      <4>1. q < flush.page \/ q = flush.page
        BY <1>1, <3>3, CellFacts
      <4>. QED BY <1>2, <3>2, <4>1
    <3>5. Cells \subseteq sent
      BY <3>4 DEF Cells
    <3>6. sent \subseteq Cells
      BY <1>1 DEF ChunkSent, FlushType, Cells
    <3>. QED BY <1>12, <3>5, <3>6
  <2>. QED BY <1>9, <1>10, <1>11, <1>12, <2>1, NoJobFrame DEF FrameStep, FrameSafe
<1>13. ASSUME NEW p \in rest, \A q \in rest : p <= q,
              flush' = [Started EXCEPT !.state = "SET_COL", !.page = p, !.raced = FALSE,
                                       !.left = AfterPage[p], !.sent = sent]
       PROVE  FrameStep
  <2>1. p \in Pages /\ flush.page < p /\ p <= flush.last
    BY DEF rest, DirtyPages
  <2>2. /\ Running(flush') /\ flush'.page = p /\ ~flush'.raced
        /\ flush'.left = AfterPage[p] /\ flush'.sent = sent /\ flush'.last = flush.last
    BY <1>1, <1>13 DEF Started, Running, FlushPhases, FlushType
  <2>3. SentSafe(frame', flush', device')
    BY <1>1, <1>7, <1>8, <2>1, <2>2, CellFacts DEF SentSafe
  <2>4. PageSafe(frame', flush', device')
    BY <1>5, <2>2 DEF PageSafe
  <2>5. RewriteSafe(panel', frame', flush', device')
    <3>. SUFFICES ASSUME ~PageMode, Known(panel'), ~frame'.synced, ~device'.forgot
                  PROVE  RewriteSafe(panel', frame', flush', device')
      BY DEF RewriteSafe
    <3>1. sent # Cells
      <4>1. <<p, 0>> \in Cells
        BY <2>1, CellFacts
      <4>2. ~(p <= flush.page)
        BY <1>1, <2>1, CellFacts
      <4>. QED BY <1>7, <2>1, <4>1, <4>2, CellFacts
    <3>2. ~frame.synced /\ ~device.forgot /\ Known(panel)
      BY <1>1, <1>2, <1>5, <3>1
    <3>3. \A q \in Pages, x \in Cols :
            /\ flush.last = TotalPages - 1
            /\ q < flush.page => <<q, x>> \in flush.sent
            /\ q = flush.page => <<q, x>> \in flush.sent \/ x \in flush.left
            /\ q > flush.page => x \in frame.dirty[q]
      BY <1>1, <3>2 DEF FrameSafe, RewriteSafe
    <3>4. \A q \in Pages : q > flush.page => q >= p
      <4>. SUFFICES ASSUME NEW q \in Pages, q > flush.page PROVE q >= p
        OBVIOUS
      <4>1. flush.last = TotalPages - 1 /\ 0 \in frame.dirty[q]
        BY <3>3, CellFacts
      <4>2. flush.page < q /\ q <= flush.last /\ q # flush.page
        BY <1>1, <4>1, CellFacts
      <4>3. q \in rest
        BY <1>3, <4>1, <4>2 DEF rest, DirtyPages
      <4>. QED BY <1>13, <2>1, <4>3, CellFacts
    <3>5. ASSUME NEW q \in Pages, NEW x \in Cols
          PROVE  /\ q < p => <<q, x>> \in sent
                 /\ q >= p => x \in AfterPage[q]
      <4>1. q < p => q <= flush.page
        BY <1>1, <2>1, <3>4, CellFacts
      <4>2. q < p => <<q, x>> \in sent
        BY <1>1, <1>2, <3>3, <4>1, CellFacts
      <4>3. q >= p => q > flush.page /\ q # flush.page
        BY <1>1, <2>1, CellFacts
      <4>. QED BY <1>3, <3>3, <4>2, <4>3
    <3>6. ASSUME NEW q \in Pages, NEW x \in Cols
          PROVE  /\ flush'.last = TotalPages - 1
                 /\ q < p => <<q, x>> \in sent
                 /\ q = p => x \in AfterPage[p]
                 /\ q > p => x \in AfterPage[q]
      BY <2>1, <2>2, <3>3, <3>5, CellFacts
    <3>. QED BY <1>5, <2>2, <3>6 DEF RewriteSafe
  <2>. QED BY <1>9, <1>10, <1>11, <2>3, <2>4, <2>5 DEF FrameStep, FrameSafe
<1>. QED BY <1>6, <1>12, <1>13

LEMMA StartedJob ==
  ASSUME FrameInv, Running(flush)
  PROVE  /\ Started \in FlushType /\ Running(Started)
         /\ Started.sent = flush.sent /\ Started.left = flush.left
         /\ Started.page = flush.page /\ Started.last = flush.last
         /\ Started.raced = flush.raced
<1>1. flush \in FlushType /\ TypeOK
  BY DuringOperation, DuringJob DEF FrameInv, ControlInv
<1>. QED BY <1>1, FlushTypes, JobStates DEF Started, FlushType

LEMMA FailedFrame ==
  ASSUME FrameInv, device' = device, NoNewScroll, PanelDoubts,
         NEW attempted, FailFlush(attempted)
  PROVE  FrameStep /\ ~Running(flush')
<1>1. TypeOK /\ frame \in FrameType
  BY DuringOperation DEF FrameInv, ControlInv, TypeOK
<1>2. EndJob("ERROR") \in FlushType /\ EndJob("ERROR").state = "ERROR"
  BY <1>1, FlushTypes
<1>3. ~Running(flush') /\ frame' = AbandonedRewrite(frame)
  BY <1>2 DEF FailFlush, Running, FlushPhases, FlushType
<1>. QED BY <1>1, <1>3, AbandonedFrame

LEMMA TransactionFrame ==
  ASSUME FrameInv, Running(flush), JobContext, NEW o \in Outcomes, NEW k \in Cols,
         FlushTransaction(o, k)
  PROVE  FrameStep
<1>1. /\ PanelDoubts /\ NoNewScroll
      /\ Started \in FlushType /\ Started.sent = flush.sent /\ Started.left = flush.left
      /\ Started.page = flush.page /\ Started.last = flush.last
      /\ Started.raced = flush.raced
  BY DuringJob, StartedJob DEF JobContext, PanelDoubts, NoNewScroll
<1>2. CASE SendAddress(o)
  <2>1. CASE o = "OK"
    <3>1. /\ flush' = [Started EXCEPT !.tx = TRUE,
                         !.state = IF @ = "SET_COL" THEN "SET_PAGE" ELSE "SEND_DATA"]
          /\ frame' = frame /\ device' = device
      BY <1>2, <2>1 DEF SendAddress
    <3>2. /\ Running(flush') /\ flush'.sent = Started.sent /\ flush'.left = Started.left
          /\ flush'.page = Started.page /\ flush'.last = Started.last
          /\ flush'.raced = Started.raced
      BY <1>1, <3>1 DEF Running, FlushPhases, FlushType
    <3>. QED BY <1>1, <3>1, <3>2, WaitingFrame
  <2>2. CASE o # "OK"
    BY <1>1, <1>2, <2>2, FailedFrame DEF SendAddress
  <2>. QED BY <2>1, <2>2
<1>3. CASE SendData(o, k)
  <2>. DEFINE chunk == {c \in flush.left : c <= k}
              sent == flush.sent \cup ({flush.page} \X chunk)
  <2>1. CASE o = "OK"
    <3>1. /\ device' = [device EXCEPT !.stale = @ \ ({flush.page} \X chunk),
                                      !.discarded = @ \ ({flush.page} \X chunk),
                                      !.forgot = @ /\ sent # Cells]
          /\ IF chunk = flush.left
             THEN FinishPage(sent)
             ELSE /\ flush' = [Started EXCEPT !.left = @ \ chunk, !.sent = sent]
                  /\ UNCHANGED frame
      BY <1>3, <2>1 DEF SendData
    <3>2. ChunkSent(chunk, sent)
      BY <3>1 DEF ChunkSent
    <3>3. chunk \subseteq flush.left /\ flush.state = "SEND_DATA"
      BY <1>3 DEF SendData
    <3>. HIDE DEF chunk, sent
    <3>4. CASE chunk = flush.left
      BY <3>1, <3>2, <3>4, FinishedFrame
    <3>5. CASE chunk # flush.left
      <4>1. /\ flush' = [Started EXCEPT !.left = @ \ chunk, !.sent = sent]
            /\ frame' = frame
        BY <3>1, <3>5
      <4>2. /\ flush'.sent = sent /\ flush'.left = flush.left \ chunk
            /\ flush'.page = flush.page /\ flush'.last = flush.last
            /\ flush'.raced = flush.raced /\ flush'.state = Started.state
        BY <1>1, <4>1 DEF FlushType
      <4>3. Running(flush')
        BY <3>3, <4>2 DEF Started, Running, FlushPhases
      <4>. QED BY <3>2, <3>3, <3>5, <4>1, <4>2, <4>3, PartialFrame
    <3>. QED BY <3>4, <3>5
  <2>2. CASE o # "OK"
    BY <1>1, <1>3, <2>2, FailedFrame DEF SendData
  <2>. QED BY <2>1, <2>2
<1>. QED BY <1>2, <1>3 DEF FlushTransaction

-----------------------------------------------------------------------------
\* The owner's frame calls

LEMMA RacedJob ==
  ASSUME FrameInv, NEW marked
  PROVE  LET j == RacedBy(marked)
         IN  /\ Running(j) <=> Running(flush)
             /\ j.sent = flush.sent /\ j.left = flush.left /\ j.page = flush.page
             /\ j.last = flush.last
             /\ Running(flush) =>
                  (~j.raced <=> ~flush.raced /\ flush.page \notin marked)
<1>1. TypeOK /\ flush \in FlushType
  BY DuringOperation DEF FrameInv, ControlInv, TypeOK
<1>2. Running(RacedBy(marked)) <=> Running(flush)
  BY <1>1, JobStates
<1>. QED BY <1>1, <1>2 DEF RacedBy, IsFlushing, Running, FlushType

\* The cells of A are drawn on, and recorded.
LEMMA DrawnFrame ==
  ASSUME FrameInv, panel' = panel, op' = op, NEW A \in SUBSET Cells,
         NEW marked, marked \subseteq Pages,
         \A q \in Pages, x \in Cols : <<q, x>> \in A =>
           q \in marked /\ q \in WindowPages(frame.window) /\ x \in frame'.dirty[q],
         \A q \in Pages : q \notin marked => frame'.dirty[q] = frame.dirty[q],
         \A q \in Pages, x \in Cols : x \in frame.dirty[q] => x \in frame'.dirty[q],
         frame'.window = frame.window, frame'.synced = frame.synced,
         frame'.iterating = frame.iterating,
         flush' = RacedBy(marked),
         device'.stale = device.stale \cup A, device'.discarded = device.discarded \ A,
         device'.rotating = device.rotating,
         device.forgot /\ ~device'.forgot =>
           /\ ~Running(flush)
           /\ ~PageMode => \A q \in Pages, x \in Cols : x \in frame'.dirty[q]
  PROVE  FrameStep
<1>1. FrameSafe(panel, frame, flush, op, device) /\ frame \in FrameType
      /\ frame.window \in Windows
  BY DuringOperation DEF FrameInv, ControlInv, TypeOK, FrameType
<1>2. /\ Running(flush') <=> Running(flush)
      /\ flush'.sent = flush.sent /\ flush'.left = flush.left
      /\ flush'.page = flush.page /\ flush'.last = flush.last
      /\ Running(flush) => (~flush'.raced <=> ~flush.raced /\ flush.page \notin marked)
  BY RacedJob
<1>3. \A q \in Pages, x \in Cols :
        Covered(q, x, frame, device) => Covered(q, x, frame', device')
  BY DEF Covered
<1>4. RotationSafe(panel', frame', device')
  BY <1>1 DEF FrameSafe, RotationSafe
<1>5. BaselineSafe(panel', frame', op', device')
  BY <1>1, <1>3 DEF FrameSafe, BaselineSafe
<1>6. SentSafe(frame', flush', device')
  BY <1>1, <1>2, <1>3 DEF FrameSafe, SentSafe
<1>7. PageSafe(frame', flush', device')
  <2>. SUFFICES ASSUME Running(flush'), ~flush'.raced
                PROVE  PageSafe(frame', flush', device')
    BY DEF PageSafe
  <2>1. /\ Running(flush) /\ ~flush.raced /\ flush.page \notin marked
        /\ flush.page \in Pages
    BY <1>2, DuringJob DEF FlushType
  <2>2. \A x \in Cols : <<flush.page, x>> \notin A
    BY <2>1
  <2>. QED BY <1>1, <1>2, <2>1, <2>2 DEF FrameSafe, PageSafe
<1>8. RewriteSafe(panel', frame', flush', device')
  BY <1>1, <1>2 DEF FrameSafe, RewriteSafe
<1>9. IterationSafe(frame', op', device')
  <2>. SUFFICES ASSUME frame.iterating PROVE IterationSafe(frame', op', device')
    BY DEF IterationSafe
  <2>1. IterationSafe(frame, op, device) /\ PageMode /\ device'.discarded = {}
    BY <1>1 DEF FrameSafe, IterationSafe
  <2>2. \A q \in Pages, x \in Cols : <<q, x>> \in A => q \notin Behind(frame.window)
    BY <1>1, <2>1, WindowFacts
  <2>3. WindowPages(0) \subseteq Pages
    BY WindowFacts
  <2>. QED BY <2>1, <2>2, <2>3 DEF IterationSafe
<1>. QED BY <1>4, <1>5, <1>6, <1>7, <1>8, <1>9 DEF FrameStep, FrameSafe

LEMMA DrawIsSafe ==
  ASSUME FrameInv, NEW p \in Pages, NEW a \in Cols, NEW b \in Cols, Draw(p, {a, b})
  PROVE  FrameStep
<1>. DEFINE S == {a, b}
            A == {p} \X S
<1>1. /\ frame \in FrameType /\ device \in DeviceType
      /\ frame.dirty \in [Pages -> SUBSET Cols]
  BY DuringOperation DEF FrameInv, ControlInv, TypeOK, FrameType
<1>2. /\ p \in WindowPages(frame.window) /\ panel' = panel /\ op' = op
      /\ frame' = [frame EXCEPT !.dirty = MarkDirty(@, p, S)]
      /\ flush' = RacedBy({p})
      /\ device' = [device EXCEPT !.stale = @ \cup A, !.discarded = @ \ A]
  BY DEF Draw
<1>3. S \in SUBSET Cols /\ A \in SUBSET Cells
  BY DEF Cells
<1>4. \A q, x : <<q, x>> \in A <=> q = p /\ x \in S
  OBVIOUS
<1>. HIDE DEF S, A
<1>5. /\ frame'.dirty = MarkDirty(frame.dirty, p, S) /\ frame'.window = frame.window
      /\ frame'.synced = frame.synced /\ frame'.iterating = frame.iterating
  BY <1>1, <1>2 DEF FrameType
<1>6. /\ device'.stale = device.stale \cup A /\ device'.discarded = device.discarded \ A
      /\ device'.rotating = device.rotating /\ device'.forgot = device.forgot
  BY <1>1, <1>2 DEF DeviceType
<1>7. \A q \in Pages :
        /\ q # p => frame'.dirty[q] = frame.dirty[q]
        /\ \A x \in Cols : x \in frame.dirty[q] => x \in frame'.dirty[q]
        /\ \A x \in S : x \in frame'.dirty[p]
  BY <1>1, <1>3, <1>5, MarkedDirty
<1>. QED BY <1>2, <1>3, <1>4, <1>5, <1>6, <1>7, DrawnFrame

LEMMA DrawAllIsSafe ==
  ASSUME FrameInv, DrawAll
  PROVE  FrameStep
<1>. DEFINE marked == WindowPages(frame.window)
            A == marked \X Cols
<1>1. /\ frame \in FrameType /\ device \in DeviceType
      /\ frame.dirty \in [Pages -> SUBSET Cols]
  BY DuringOperation DEF FrameInv, ControlInv, TypeOK, FrameType
<1>2. /\ panel' = panel /\ op' = op
      /\ frame' = [frame EXCEPT !.dirty = MarkAllDirty(@, frame.window)]
      /\ flush' = RacedBy(marked)
      /\ device' = [device EXCEPT !.stale = @ \cup A, !.discarded = @ \ A,
                                  !.forgot = @ /\ IsFlushing]
  BY DEF DrawAll
<1>3. marked \subseteq Pages /\ (~PageMode => marked = Pages)
  BY WindowFacts
<1>4. \A q \in Pages : frame'.dirty[q] = IF q \in marked THEN Cols ELSE frame.dirty[q]
  <2>1. frame'.dirty = MarkAllDirty(frame.dirty, frame.window)
    BY <1>1, <1>2 DEF FrameType
  <2>. QED BY <1>1, <2>1 DEF MarkAllDirty
<1>. HIDE DEF marked
<1>5. A \in SUBSET Cells /\ \A q, x : <<q, x>> \in A <=> q \in marked /\ x \in Cols
  BY <1>3 DEF Cells
<1>. HIDE DEF A
<1>6. /\ frame'.window = frame.window
      /\ frame'.synced = frame.synced /\ frame'.iterating = frame.iterating
  BY <1>1, <1>2 DEF FrameType
<1>7. /\ device'.stale = device.stale \cup A /\ device'.discarded = device.discarded \ A
      /\ device'.rotating = device.rotating
      /\ device.forgot /\ ~device'.forgot => ~Running(flush)
  BY <1>1, <1>2 DEF DeviceType, IsFlushing, Running
<1>8. \A q \in Pages, x \in Cols : <<q, x>> \in A =>
        q \in marked /\ q \in WindowPages(frame.window) /\ x \in frame'.dirty[q]
  BY <1>4, <1>5 DEF marked
<1>9. ~PageMode => \A q \in Pages, x \in Cols : x \in frame'.dirty[q]
  BY <1>3, <1>4
<1>10. \A q \in Pages, x \in Cols : x \in frame.dirty[q] => x \in frame'.dirty[q]
  BY <1>4
<1>11. \A q \in Pages : q \notin marked => frame'.dirty[q] = frame.dirty[q]
  BY <1>4
<1>. QED BY <1>2, <1>3, <1>5, <1>6, <1>7, <1>8, <1>9, <1>10, <1>11, DrawnFrame

\* clearDirty(): what it discards under a running job is the owner's from then.
LEMMA ClearDirtyIsSafe ==
  ASSUME FrameInv, ClearDirty
  PROVE  FrameStep
<1>1. /\ frame \in FrameType /\ device \in DeviceType /\ flush \in FlushType /\ TypeOK
      /\ FrameSafe(panel, frame, flush, op, device)
  BY DuringOperation DEF FrameInv, ControlInv, TypeOK
<1>2. /\ ~frame'.synced /\ ~frame'.iterating /\ frame'.dirty = NothingDirty
      /\ flush' = SettledFlush
  BY <1>1 DEF ClearDirty, FrameType
<1>3. /\ device'.forgot /\ device'.stale = device.stale
      /\ Running(flush) =>
           device'.discarded = device.discarded
                                 \cup (device.stale \cap DirtyCells(frame.dirty))
  BY <1>1 DEF ClearDirty, DeviceType, IsFlushing, Running
<1>4. /\ Running(flush') <=> Running(flush)
      /\ Running(flush) => flush' = flush
  BY <1>1, <1>2, JobStates
     DEF SettledFlush, SettlesIteration, PageIterationOwnsFlushResult, Running, FlushPhases
<1>5. ASSUME Running(flush), NEW q \in Pages, NEW x \in Cols, Covered(q, x, frame, device)
      PROVE  Covered(q, x, frame', device')
  <2>1. x \in frame.dirty[q] => <<q, x>> \in DirtyCells(frame.dirty)
    BY DEF DirtyCells, Cells
  <2>. QED BY <1>3, <1>5, <2>1 DEF Covered
<1>6. SentSafe(frame', flush', device')
  BY <1>1, <1>4, <1>5 DEF FrameSafe, SentSafe
<1>7. PageSafe(frame', flush', device')
  <2>1. Running(flush) => flush.page \in Pages
    BY <1>1 DEF FlushType
  <2>. QED BY <1>2, <1>4, <2>1 DEF PageSafe, NothingDirty
<1>8. RewriteSafe(panel', frame', flush', device')
  BY <1>3 DEF RewriteSafe
<1>. QED BY <1>2, <1>6, <1>7, <1>8, UnclaimedFrame

LEMMA FirstPageIsSafe ==
  ASSUME FrameInv, FirstPage
  PROVE  FrameStep
<1>1. /\ TypeOK /\ op' = op /\ op.state # "ACTIVE" /\ ~Running(flush)
      /\ frame.dirty \in [Pages -> SUBSET Cols]
  BY DuringOperation
     DEF FrameInv, ControlInv, FirstPage, FirstPageAdmitted, DirectI2cAdmitted,
         OperationActive, IsFlushing, Running, TypeOK, FrameType
<1>2. ~Running(flush')
  BY <1>1, JobStates DEF FirstPage
<1>. DEFINE d == IF PageMode THEN NothingDirty ELSE frame.dirty
<1>3. /\ frame'.dirty = MarkAllDirty(d, 0) /\ ~frame'.synced
      /\ frame'.iterating = PageMode /\ frame'.window = 0
  BY DEF FirstPage
<1>4. device'.discarded = {}
  BY <1>1 DEF FirstPage, AllStale, DeviceType, TypeOK
<1>5. \A q \in WindowPages(0), x \in Cols : x \in frame'.dirty[q]
  BY <1>3, WindowFacts DEF MarkAllDirty
<1>6. Rebuilt
  BY <1>5, WindowFacts DEF Rebuilt
<1>7. IterationSafe(frame', op', device')
  BY <1>1, <1>3, <1>4, <1>5, WindowFacts DEF IterationSafe
<1>. QED BY <1>2, <1>3, <1>6, <1>7, NoJobFrame
         DEF FrameStep, FrameSafe, RotationSafe, BaselineSafe

LEMMA NextPageIsSafe ==
  ASSUME FrameInv, NextPageReportsFailure \/ NextPageAfterWindow \/ NextPageSendsWindow
  PROVE  FrameStep
<1>1. /\ TypeOK /\ frame \in FrameType /\ device \in DeviceType
      /\ frame.dirty \in [Pages -> SUBSET Cols] /\ frame.window \in Windows
      /\ panel' = panel /\ op' = op /\ op.state # "ACTIVE" /\ frame.iterating
      /\ ~Running(flush) /\ panel.initialized /\ TracksSafe(panel, op, device)
      /\ FrameSafe(panel, frame, flush, op, device)
  BY DuringOperation
     DEF FrameInv, ControlInv, NextPageReportsFailure, NextPageAfterWindow,
         NextPageSendsWindow, NextPageAdmitted, LegacyOwner, OperationActive, IsFlushing,
         Running, TypeOK, FrameType
<1>2. /\ PageMode /\ ~frame.synced /\ IterationSafe(frame, op, device)
  BY <1>1 DEF FrameSafe, IterationSafe
<1>3. PanelDoubts /\ NoNewScroll /\ Rebuilt
  BY <1>1, <1>2 DEF PanelDoubts, NoNewScroll, Rebuilt
<1>4. \A failed : ~Running([IdleFlush EXCEPT !.failed = failed])
  BY DEF IdleFlush, Running, FlushPhases
<1>5. CASE NextPageReportsFailure
  <2>1. ~Running(flush') /\ FrameGrows /\ SameMemory
    BY <1>4, <1>5 DEF NextPageReportsFailure, FrameGrows, SameMemory
  <2>. QED BY <1>3, <2>1, QuietFrame
<1>6. CASE NextPageAfterWindow
  <2>1. ~Running(flush')
    BY <1>4, <1>6 DEF NextPageAfterWindow
  <2>2. CASE frame' = [frame EXCEPT !.synced = FALSE] /\ device' = device
    <3>1. FrameGrows /\ SameMemory
      BY <1>1, <2>2 DEF FrameGrows, SameMemory, FrameType
    <3>. QED BY <1>3, <2>1, <3>1, QuietFrame
\* Only cells of the windows ahead can be old once this one is clean.
  <2>3. ~IsDirty => \A q \in Pages, x \in Cols : x \notin frame.dirty[q]
    BY <1>1 DEF IsDirty, DirtyPages
  <2>4. ASSUME ~IsDirty, NEW q \in Pages, NEW x \in Cols, <<q, x>> \in device.stale
        PROVE  q \notin Behind(frame.window + 1)
    BY <1>1, <1>2, <2>3, <2>4, WindowFacts DEF IterationSafe
  <2>5. ~IsDirty => ~device.rotating
    <3>1. 0 \in WindowPages(0)
      BY ConfigAssumption, CellFacts DEF WindowPages, ConfigAssumption
    <3>2. device.rotating => 0 \in frame.dirty[0]
      BY <1>1, <1>2, <3>1, CellFacts DEF IterationSafe
    <3>. QED BY <2>3, <3>2, CellFacts
  <2>6. CASE /\ ~IsDirty /\ LastWindow /\ device' = device
             /\ frame' = [frame EXCEPT !.window = 0, !.iterating = FALSE, !.synced = TRUE]
    <3>1. /\ ~frame'.iterating /\ frame'.synced
      BY <1>1, <2>6 DEF FrameType
    <3>2. \A q \in Pages, x \in Cols : <<q, x>> \notin device'.stale
      BY <1>1, <2>4, <2>6, WindowFacts
    <3>. QED BY <1>3, <2>1, <2>5, <2>6, <3>1, <3>2, NoJobFrame
             DEF FrameStep, FrameSafe, RotationSafe, BaselineSafe, IterationSafe, Covered
  <2>7. CASE ~IsDirty /\ ~LastWindow /\ SelectNextWindow
    <3>. DEFINE w == frame.window + 1
                new == WindowPages(w) \X Cols
    <3>1. /\ frame'.window = w /\ frame'.dirty = MarkAllDirty(NothingDirty, w)
          /\ frame'.iterating /\ ~frame'.synced /\ w \in Windows
      BY <1>1, <1>2, <2>7, NextWindowExists DEF SelectNextWindow, FrameType
    <3>2. /\ device'.stale = device.stale \cup new
          /\ device'.discarded = device.discarded /\ device'.rotating = device.rotating
      BY <1>1, <2>7 DEF SelectNextWindow, DeviceType
    <3>3. \A q, x : <<q, x>> \in new => q \in WindowPages(w)
      OBVIOUS
    <3>. HIDE DEF new
    <3>4. \A q \in WindowPages(w), x \in Cols : x \in frame'.dirty[q]
      BY <3>1, WindowFacts DEF MarkAllDirty
    <3>. HIDE DEF w
    <3>5. \A q \in Pages, x \in Cols : <<q, x>> \in device'.stale =>
            q \notin Behind(w) /\ (q \in WindowPages(w) => x \in frame'.dirty[q])
      <4>1. \A q \in Pages, x \in Cols : <<q, x>> \in device.stale => q \notin Behind(w)
        BY <2>4, <2>7 DEF w
      <4>. QED BY <1>2, <3>1, <3>2, <3>3, <3>4, <4>1, WindowFacts
    <3>6. IterationSafe(frame', op', device')
      BY <1>1, <1>2, <2>5, <2>7, <3>1, <3>2, <3>5 DEF IterationSafe
    <3>. QED BY <1>3, <2>1, <3>1, <3>6, NoJobFrame
             DEF FrameStep, FrameSafe, RotationSafe, BaselineSafe
  <2>. QED BY <1>6, <2>2, <2>6, <2>7 DEF NextPageAfterWindow
<1>7. CASE NextPageSendsWindow
  <2>. DEFINE d == MarkAllDirty(frame.dirty, frame.window)
  <2>1. d \in [Pages -> SUBSET Cols]
    BY <1>1, DirtyTypes
  <2>2. /\ frame'.dirty = d /\ frame'.window = frame.window
        /\ frame'.synced = frame.synced
        /\ frame'.iterating => frame.iterating
        /\ flush' = flush \/ flush' \in Job(d)
        /\ device' = device
    BY <1>1, <1>7 DEF NextPageSendsWindow, FrameType
  <2>3. FrameGrows /\ SameMemory
    <3>1. \A q \in Pages : d[q] = IF q \in WindowPages(frame.window)
                                   THEN Cols ELSE frame.dirty[q]
      BY DEF MarkAllDirty
    <3>. HIDE DEF d
    <3>. QED BY <2>2, <3>1 DEF FrameGrows, SameMemory
  <2>. HIDE DEF d
  <2>. QED BY <1>1, <1>3, <2>1, <2>2, <2>3, JobStarts, NoJobFrame, QuietFrame
           DEF FrameStep, FrameSafe
<1>. QED BY <1>5, <1>6, <1>7

LEMMA FrameCallIsSafe ==
  ASSUME FrameInv, FrameCall
  PROVE  FrameStep
BY DrawIsSafe, DrawAllIsSafe, ClearDirtyIsSafe, FirstPageIsSafe, NextPageIsSafe
   DEF FrameCall, ClearDirtyIfIdle

-----------------------------------------------------------------------------
\* The owner's flush calls

\* The panel stays, or becomes doubtful.
Doubted(p, q) ==
  /\ q.scrolling = p.scrolling
  /\ q.initialized => p.initialized
  /\ p.controlDirty => q.controlDirty

LEMMA DoubtedPanel ==
  ASSUME NEW p \in PanelType, NEW late
  PROVE  /\ Doubted(p, p) /\ Doubted(p, TickPowerOn(p, late))
         /\ Doubted(p, MarkControlDirty(p)) /\ Doubted(p, DisplayIsOff(p))
         /\ Doubted(p, MarkControlDirty(InvalidatePower(p)))
         /\ Doubted(p, TerminatedPanel(p))
         /\ MarkControlDirty(p).controlDirty
         /\ MarkControlDirty(InvalidatePower(p)).controlDirty
         /\ Invalidated(p).controlDirty
         /\ op.kind \in {"INITIALIZE", "RESYNC"} /\ op.tx # 0 =>
              TerminatedPanel(p).controlDirty
         /\ TickPowerOn(p, late).controlDirty = p.controlDirty
         /\ TickPowerOn(p, late).scrolling = p.scrolling
         /\ TickPowerOn(p, late).initialized = p.initialized
BY DEF Doubted, TickPowerOn, TerminatedPanel, ControlSequence, MarkControlDirty,
       InvalidatePower, Invalidated, DisplayIsOff, PanelType

LEMMA FlushCallIsSafe ==
  ASSUME FrameInv, FlushCall
  PROVE  FrameStep
<1>1. /\ TypeOK /\ panel \in PanelType /\ frame \in FrameType /\ op' = op
  BY DuringOperation, QuietCalls DEF FrameInv, ControlInv, TypeOK
<1>2. ASSUME RequestFlush PROVE FrameStep
  <2>1. /\ ~Running(flush) /\ panel' = panel /\ frame' = frame /\ device' = device
        /\ flush' = ConsumedFlush \/ flush' \in Job(frame.dirty)
    BY <1>2 DEF RequestFlush, IsFlushing, Running
  <2>2. PanelDoubts /\ NoNewScroll /\ SameMemory
    BY <1>1, <2>1 DEF PanelDoubts, NoNewScroll, SameMemory
  <2>3. ~Running(ConsumedFlush)
    BY <1>1, <2>1, JobStates
  <2>. QED BY <2>1, <2>2, <2>3, IdleFrame, RequestedFrame
<1>3. ASSUME NEW late, LegacyPoll(late)
      PROVE  Running(flush) /\ JobContext /\ PanelDoubts /\ NoNewScroll
  <2>1. Running(flush) /\ panel' = TickPowerOn(panel, late)
    BY <1>3 DEF LegacyPoll, IsFlushing, Running
  <2>2. JobContext
    BY <1>1, <2>1, DuringJob, DoubtedPanel DEF JobContext
  <2>. QED BY <1>1, <2>1, <2>2, DuringJob DEF JobContext, PanelDoubts, NoNewScroll
<1>4. ASSUME NEW late, PollFlushTimeout(late) PROVE FrameStep
  BY <1>3, <1>4, FailedFrame DEF PollFlushTimeout
<1>5. ASSUME NEW late, PollFlushWaits(late) PROVE FrameStep
  BY <1>3, <1>5, StartedJob, WaitingFrame DEF PollFlushWaits
<1>6. ASSUME NEW late, NEW o \in Outcomes, NEW k \in Cols, PollFlushSends(late, o, k)
      PROVE  FrameStep
  BY <1>3, <1>6, TransactionFrame DEF PollFlushSends
<1>7. ASSUME NEW late, PollFlushEnded(late) PROVE FrameStep
  <2>1. /\ panel' = TickPowerOn(panel, late) /\ frame' = frame /\ device' = device
        /\ flush.state \in {"DONE", "ERROR"}
        /\ flush' = flush \/ flush' = ConsumedFlush
    BY <1>7 DEF PollFlushEnded, ConsumeTerminalFlush
  <2>2. ~Running(flush) /\ ~Running(flush')
    BY <1>1, <2>1, JobStates DEF Running, FlushPhases
  <2>3. /\ PanelDoubts /\ NoNewScroll /\ SameMemory
        /\ Known(panel') => Known(panel)
    BY <1>1, <2>1, DoubtedPanel DEF PanelDoubts, NoNewScroll, SameMemory, Known
  <2>. QED BY <2>1, <2>2, <2>3, IdleFrame
<1>8. ASSUME WaitFlushGivesUp PROVE FrameStep
  <2>1. /\ panel' = panel /\ device' = device /\ frame' = AbandonedRewrite(frame)
        /\ \/ flush' = [EndJob("ERROR") EXCEPT !.tx = flush.tx]
           \/ flush' = [IdleFlush EXCEPT !.failed = TRUE]
    BY <1>8 DEF WaitFlushGivesUp
  <2>2. EndJob("ERROR") \in FlushType /\ EndJob("ERROR").state = "ERROR"
    BY <1>1, FlushTypes
  <2>3. ~Running(flush')
    BY <2>1, <2>2 DEF Running, FlushPhases, FlushType, IdleFlush
  <2>4. PanelDoubts /\ NoNewScroll
    BY <1>1, <2>1 DEF PanelDoubts, NoNewScroll
  <2>. QED BY <1>1, <2>1, <2>3, <2>4, AbandonedFrame
<1>. QED BY <1>2, <1>4, <1>5, <1>6, <1>7, <1>8 DEF FlushCall, PollFlush

-----------------------------------------------------------------------------
\* The owner's direct commands

\* All of the frame is marked after GDDRAM was rotated or remapped.
LEMMA MarkedFrame ==
  ASSUME FrameInv, ~Running(flush'), ~frame'.synced, ~frame'.iterating,
         frame'.dirty = MarkAllDirty(frame.dirty, frame.window)
  PROVE  FrameStep
<1>1. Rebuilt
  BY WindowFacts DEF Rebuilt, MarkAllDirty
<1>. QED BY <1>1, NoJobFrame, UnclaimedFrame

\* A rotation that ends under an iteration, or not, finds its first window whole.
LEMMA ScrollOffInIteration ==
  ASSUME FrameInv, frame' = frame, op' = op,
         device' = device \/ device' = ApplyScrollOff(device)
  PROVE  IterationSafe(frame', op', device')
<1>1. IterationSafe(frame, op, device) /\ device \in DeviceType
  BY DuringOperation DEF FrameInv, ControlInv, FrameSafe
<1>2. CASE device' = ApplyScrollOff(device)
  <2>1. /\ device'.rotating = FALSE /\ device'.discarded = device.discarded
        /\ ~device.rotating => device'.stale = device.stale
    BY <1>1, <1>2 DEF ApplyScrollOff, DeviceType
  <2>. QED BY <1>1, <2>1, WindowFacts DEF IterationSafe
<1>. QED BY <1>1, <1>2

LEMMA StopScrollIsSafe ==
  ASSUME FrameInv, NEW o \in Outcomes, StopScroll(o)
  PROVE  FrameStep
<1>1. /\ TypeOK /\ panel \in PanelType /\ frame \in FrameType /\ device \in DeviceType
      /\ op' = op /\ ~Running(flush) /\ ~Running(SettledFlush) /\ flush' = SettledFlush
  BY DuringOperation, JobStates
     DEF FrameInv, ControlInv, TypeOK, StopScroll, TrackedWrite, DirectI2cAdmitted,
         IsFlushing, Running
<1>2. CASE o = "OK" /\ panel.scrolling
  <2>1. /\ ~frame'.synced /\ ~frame'.iterating
        /\ frame'.dirty = MarkAllDirty(frame.dirty, frame.window)
    BY <1>1, <1>2 DEF StopScroll, OnScrollDeactivated, FrameType
  <2>. QED BY <1>1, <2>1, MarkedFrame
<1>3. CASE o = "OK" /\ ~panel.scrolling
  <2>1. /\ frame' = frame /\ device' = ApplyScrollOff(device)
        /\ panel' = [panel EXCEPT !.scrolling = FALSE]
    BY <1>1, <1>3 DEF StopScroll, OnScrollDeactivated, TookEffect
  <2>2. /\ ~device'.rotating /\ device'.discarded = device.discarded
        /\ device'.forgot = device.forgot
        /\ ~device.rotating => device'.stale = device.stale
    BY <1>1, <2>1 DEF ApplyScrollOff, DeviceType
  <2>3. /\ panel'.controlDirty = panel.controlDirty /\ ~panel'.scrolling
        /\ panel'.initialized = panel.initialized
    BY <1>1, <2>1 DEF PanelType
  <2>4. Rebuilt
    BY <1>1, <2>1, <2>2, <2>3, StillRebuilt DEF Known
  <2>5. /\ RotationSafe(panel, frame, device) /\ BaselineSafe(panel, frame, op, device)
    BY DEF FrameInv, FrameSafe
  <2>6. BaselineSafe(panel', frame', op', device')
    BY <1>1, <1>3, <2>1, <2>2, <2>3, <2>5 DEF BaselineSafe, RotationSafe, Covered
  <2>7. IterationSafe(frame', op', device')
    BY <1>1, <2>1, ScrollOffInIteration
  <2>. QED BY <1>1, <2>2, <2>4, <2>6, <2>7, NoJobFrame
           DEF FrameStep, FrameSafe, RotationSafe
<1>4. CASE o # "OK"
  <2>1. /\ frame' = frame /\ panel' = MarkControlDirty(panel)
        /\ device' = device \/ device' = ApplyScrollOff(device)
    BY <1>4 DEF StopScroll
  <2>2. panel'.controlDirty
    BY <1>1, <2>1, DoubtedPanel
  <2>. QED BY <1>1, <2>1, <2>2, ScrollOffInIteration, DoubtfulFrame
<1>. QED BY <1>2, <1>3, <1>4

LEMMA DirectCommandIsSafe ==
  ASSUME FrameInv, NEW o \in Outcomes,
         \/ SetRegister(o)
         \/ \E changed \in BOOLEAN : SetFlipX(o, changed)
         \/ SleepNow(o)
         \/ WakeNow(o)
         \/ SendRawCommand(o)
  PROVE  FrameStep
<1>1. /\ TypeOK /\ panel \in PanelType /\ frame \in FrameType /\ device \in DeviceType
      /\ op' = op /\ ~Running(flush) /\ ~Running(flush')
  <2>1. TrackedWrite(o)
    BY DEF SetRegister, SetFlipX, SleepNow, WakeNow, SendRawCommand
  <2>. QED BY <2>1, DuringOperation, JobStates
           DEF FrameInv, ControlInv, TypeOK, TrackedWrite, DirectI2cAdmitted, IsFlushing,
               Running
\* The command changed nothing that the frame depends on.
<1>2. ASSUME Doubted(panel, panel'), frame' = frame, device'.stale = device.stale,
             device'.discarded = device.discarded, device'.forgot = device.forgot,
             device'.rotating = device.rotating
      PROVE  FrameStep
  <2>1. /\ SameMemory /\ PanelDoubts /\ NoNewScroll
        /\ Known(panel') => Known(panel)
    BY <1>1, <1>2 DEF SameMemory, PanelDoubts, NoNewScroll, Doubted, Known
  <2>. QED BY <1>1, <1>2, <2>1, IdleFrame
<1>3. /\ Doubted(panel, panel) /\ Doubted(panel, MarkControlDirty(panel))
      /\ Doubted(panel, DisplayIsOff(panel)) /\ Doubted(panel, AwokenPanel)
      /\ Doubted(panel, MarkControlDirty(InvalidatePower(panel)))
  <2>1. Doubted(panel, AwokenPanel)
    BY <1>1 DEF AwokenPanel, Doubted, PanelType
  <2>. QED BY <1>1, <2>1, DoubtedPanel
<1>4. SetRegister(o) => FrameStep
  BY <1>2, <1>3 DEF SetRegister, AfterSetter
<1>5. ASSUME NEW changed \in BOOLEAN, SetFlipX(o, changed) PROVE FrameStep
  <2>1. CASE o = "OK" /\ changed
    <3>1. /\ ~frame'.synced /\ ~frame'.iterating
          /\ frame'.dirty = MarkAllDirty(frame.dirty, frame.window)
      BY <1>1, <1>5, <2>1 DEF SetFlipX, FrameType
    <3>. QED BY <1>1, <3>1, MarkedFrame
  <2>2. CASE ~(o = "OK" /\ changed)
    BY <1>2, <1>3, <1>5, <2>2 DEF SetFlipX, AfterSetter
  <2>. QED BY <2>1, <2>2
<1>6. ASSUME SleepNow(o) \/ WakeNow(o) PROVE FrameStep
  <2>1. /\ frame' = frame /\ Doubted(panel, panel')
        /\ \/ device' = device \/ device' = ApplyDisplayOff(device)
           \/ device' = ApplyDisplayOn(device)
    BY <1>3, <1>6 DEF SleepNow, WakeNow
  <2>2. /\ device'.stale = device.stale /\ device'.discarded = device.discarded
        /\ device'.forgot = device.forgot /\ device'.rotating = device.rotating
    BY <1>1, <2>1 DEF ApplyDisplayOff, ApplyDisplayOn, DeviceType
  <2>. QED BY <1>2, <2>1, <2>2
<1>7. ASSUME SendRawCommand(o) PROVE FrameStep
  <2>1. CASE o = "NACK"
    BY <1>2, <1>3, <1>7, <2>1 DEF SendRawCommand, AfterRawFailure, Ambiguous, TookEffect
  <2>2. CASE o # "NACK"
    <3>1. panel' = Invalidated(panel) /\ frame' = InvalidatedFrame(frame)
      BY <1>7, <2>2 DEF SendRawCommand, AfterRawFailure, Ambiguous, Outcomes
    <3>2. panel'.controlDirty /\ ~frame'.iterating
      BY <1>1, <3>1, DoubtedPanel DEF InvalidatedFrame, FrameType
    <3>. QED BY <1>1, <3>2, DoubtfulFrame DEF IterationSafe
  <2>. QED BY <2>1, <2>2
<1>. QED BY <1>4, <1>5, <1>6, <1>7

-----------------------------------------------------------------------------
\* Ticks, a reset behind the driver's back, and the binding

LEMMA TickIsSafe ==
  ASSUME FrameInv, NEW late, TickPanelGuard(late)
  PROVE  FrameStep
<1>1. /\ panel \in PanelType /\ panel' = TickPowerOn(panel, late) /\ op' = op
      /\ frame' = frame /\ flush' = flush /\ device' = device
  BY DuringOperation DEF FrameInv, ControlInv, TickPanelGuard, Ticked
<1>2. /\ panel'.controlDirty = panel.controlDirty /\ panel'.scrolling = panel.scrolling
      /\ panel'.initialized = panel.initialized
  BY <1>1, DoubtedPanel
<1>3. SameMemory /\ PanelDoubts /\ NoNewScroll /\ (Known(panel') => Known(panel))
  BY <1>1, <1>2 DEF SameMemory, PanelDoubts, NoNewScroll, Known
<1>4. CASE Running(flush)
  BY <1>1, <1>2, <1>4, DuringJob, WaitingFrame DEF JobContext
<1>5. CASE ~Running(flush)
  BY <1>1, <1>3, <1>5, IdleFrame
<1>. QED BY <1>4, <1>5

LEMMA PanelResetIsSafe ==
  ASSUME FrameInv, NEW really \in BOOLEAN, PanelReset(really)
  PROVE  FrameStep
<1>1. /\ TypeOK /\ JobInv /\ panel \in PanelType /\ frame \in FrameType
      /\ InvalidatePanelState
  BY DuringOperation DEF FrameInv, ControlInv, TypeOK, PanelReset
<1>2. panel'.controlDirty
  BY <1>1, DoubtedPanel DEF InvalidatePanelState
<1>3. ~frame'.iterating
  <2>1. TerminatedFrame \in FrameType
    BY <1>1, FrameTypes
  <2>. QED BY <1>1, <2>1 DEF InvalidatePanelState, InvalidatedFrame, FrameType
<1>4. ~Running(flush')
  <2>1. ~Running([EndJob("ERROR") EXCEPT !.accounted = TRUE])
    BY <1>1, FlushTypes DEF Running, FlushPhases, FlushType
  <2>2. OperationActive => ~Running(JobAfterFailure(flush))
    BY <1>1, JobsOfEndedOperations
  <2>3. ~IsFlushing => ~Running(SettledFlush)
    BY <1>1, JobStates DEF IsFlushing, Running
  <2>. QED BY <1>1, <2>1, <2>2, <2>3 DEF InvalidatePanelState
<1>. QED BY <1>2, <1>3, <1>4, DoubtfulFrame DEF IterationSafe

LEMMA LifecycleIsSafe ==
  ASSUME FrameInv, Lifecycle
  PROVE  FrameStep
<1>1. /\ ~frame'.synced /\ ~frame'.iterating
      /\ ~Running(flush') /\ ~Known(panel')
  BY DEF Lifecycle, Attach, Detach, DetachedFrame, DetachedPanel, IdleFlush, Running,
         FlushPhases, Known
<1>2. Rebuilt
  BY <1>1 DEF Rebuilt
<1>. QED BY <1>1, <1>2, NoJobFrame, UnclaimedFrame

LEMMA ControlCallIsSafe ==
  ASSUME FrameInv, ControlCall
  PROVE  FrameStep
BY StopScrollIsSafe, DirectCommandIsSafe, TickIsSafe, PanelResetIsSafe DEF ControlCall

-----------------------------------------------------------------------------
\* The steps of an operation

LEMMA StartIsSafe ==
  ASSUME FrameInv, NEW kind \in Kinds, NEW deadline \in BOOLEAN,
         StartOperation(kind, deadline)
  PROVE  FrameStep
<1>1. /\ TypeOK /\ panel' = panel /\ frame' = frame /\ device' = device
      /\ op.state # "ACTIVE" /\ ~Running(flush)
      /\ kind = "SCROLL" => ~frame.iterating
      /\ op' = op \/ op' = NewOperation(kind, deadline)
      /\ flush' \in {SettledFlush, ConsumedFlush} \/ flush' \in Job(frame.dirty)
  BY DuringOperation
     DEF FrameInv, ControlInv, StartOperation, OperationAdmitted, LegacyOwner,
         OperationActive, IsFlushing, Running
<1>2. NewOperation(kind, deadline).kind = kind
  BY DEF NewOperation, NoOperation
<1>3. SameMemory /\ PanelDoubts /\ NoNewScroll
  BY <1>1, <1>2 DEF SameMemory, PanelDoubts, NoNewScroll, Begun
<1>4. ~Running(SettledFlush) /\ ~Running(ConsumedFlush)
  BY <1>1, JobStates
<1>. QED BY <1>1, <1>3, <1>4, IdleFrame, RequestedFrame

\* Cancellation, a deadline, a stalled clock.
LEMMA TerminateIsSafe ==
  ASSUME FrameInv, OperationActive, EffectStep, NEW state,
         NEW p, p = panel \/ \E late : p = Ticked(late),
         Terminate(state, p)
  PROVE  FrameStep
<1>1. /\ TypeOK /\ JobInv /\ panel \in PanelType /\ frame \in FrameType
      /\ op \in OpType /\ PhaseOfKind(op)
  BY DuringOperation DEF FrameInv, ControlInv, TypeOK
<1>2. /\ panel' = TerminatedPanel(p) /\ frame' = TerminatedFrame /\ device' = device
      /\ flush' = JobAfterFailure(flush)
  BY DEF Terminate
<1>3. ~Running(flush') /\ (~InFlushPhase => ~Running(flush))
  BY <1>1, <1>2, JobsOfEndedOperations
<1>4. p \in PanelType /\ Doubted(panel, p)
  BY <1>1, PanelTypes, DoubtedPanel DEF Ticked
<1>5. /\ Doubted(panel, panel')
      /\ op.kind \in {"INITIALIZE", "RESYNC"} /\ op.tx # 0 => panel'.controlDirty
  <2>1. /\ Doubted(p, panel')
        /\ op.kind \in {"INITIALIZE", "RESYNC"} /\ op.tx # 0 => panel'.controlDirty
    BY <1>2, <1>4, DoubtedPanel
  <2>. QED BY <1>4, <2>1 DEF Doubted
<1>6. SameMemory /\ PanelDoubts /\ NoNewScroll /\ (Known(panel') => Known(panel))
  BY <1>1, <1>2, <1>5
     DEF SameMemory, PanelDoubts, NoNewScroll, Known, Doubted, Begun, PhaseOfKind,
         EffectStep, OperationActive
<1>. DEFINE f == IF op.kind \in {"INITIALIZE", "RESYNC"} /\ op.tx # 0
                 THEN [frame EXCEPT !.synced = FALSE] ELSE frame
<1>7. /\ f \in FrameType /\ f.dirty = frame.dirty /\ f.window = frame.window
      /\ f.iterating = frame.iterating /\ (f.synced => frame.synced)
      /\ f = frame \/ (op.kind \in {"INITIALIZE", "RESYNC"} /\ op.tx # 0)
  BY <1>1 DEF FrameType
<1>8. frame' = IF InFlushPhase THEN AbandonedRewrite(f) ELSE f
  BY <1>1, <1>2 DEF TerminatedFrame, PhaseOfKind, InFlushPhase
<1>. HIDE DEF f
<1>9. CASE InFlushPhase
  BY <1>2, <1>3, <1>6, <1>7, <1>8, <1>9, AbandonedFrame
<1>10. CASE ~InFlushPhase /\ f = frame
  BY <1>2, <1>3, <1>6, <1>8, <1>10, IdleFrame
<1>11. CASE ~InFlushPhase /\ op.kind \in {"INITIALIZE", "RESYNC"} /\ op.tx # 0
  <2>1. FrameGrows /\ Rebuilt
    BY <1>5, <1>7, <1>8, <1>11 DEF FrameGrows, Rebuilt, Known
  <2>. QED BY <1>3, <1>6, <2>1, QuietFrame
<1>. QED BY <1>7, <1>9, <1>10, <1>11

\* The operation's own job.
LEMMA PollFlushPhaseIsSafe ==
  ASSUME FrameInv, EffectStep, NEW late,
         \/ PollFlushPhaseTimeout(late)
         \/ \E o \in Outcomes, k \in Cols : PollFlushPhase(late, o, k)
  PROVE  FrameStep
<1>1. /\ panel \in PanelType /\ op \in OpType /\ op.phase = "FLUSH_PHASE"
      /\ op.state = "ACTIVE" /\ Running(flush) /\ panel' = TickPowerOn(panel, late)
  BY DuringOperation
     DEF FrameInv, ControlInv, JobInv, JobSafe, PollFlushPhaseTimeout, PollFlushPhase, Polls,
         InFlushPhase, OperationActive, Ticked
<1>2. op'.kind = op.kind /\ ~(op'.state = "ACTIVE" /\ op'.kind = "SCROLL")
  BY <1>1, DuringJob DEF EffectStep
<1>3. op'.phase # "INITIALIZE_COMMAND"
  <2>. DEFINE phase == IF flush'.state = "DONE" THEN "DISPLAY_ON" ELSE op.phase
  <2>1. \/ \E state, effect, was : op' = EndOperation(state, effect, was)
        \/ \E was : op' = [op EXCEPT !.effect = "PARTIAL", !.tx = CountTx, !.touched = was,
                                     !.phase = phase]
    BY DEF PollFlushPhase, PollFlushPhaseTimeout
  <2>2. phase # "INITIALIZE_COMMAND"
    BY <1>1
  <2>. HIDE DEF phase
  <2>3. (\E state, effect, was : op' = EndOperation(state, effect, was))
          => op'.phase # "INITIALIZE_COMMAND"
    BY EndedOperation DEF QuietPhases
  <2>. QED BY <1>1, <2>1, <2>2, <2>3 DEF OpType
<1>4. JobContext
  BY <1>1, <1>2, <1>3, DoubtedPanel DEF JobContext, Begun
<1>5. PanelDoubts /\ NoNewScroll
  BY <1>1, <1>2, <1>4 DEF JobContext, PanelDoubts, NoNewScroll, Begun
<1>6. CASE PollFlushPhaseTimeout(late)
  BY <1>5, <1>6, FailedFrame DEF PollFlushPhaseTimeout
<1>7. ASSUME NEW o \in Outcomes, NEW k \in Cols, PollFlushPhase(late, o, k)
      PROVE  FrameStep
  BY <1>1, <1>4, <1>7, TransactionFrame DEF PollFlushPhase
<1>. QED BY <1>6, <1>7

\* A poll in any other phase: no job runs before or after it.
OtherPhase ==
  /\ OperationActive /\ op.phase \notin {"INITIALIZE_COMMAND", "FLUSH_PHASE"}
  /\ EffectStep /\ JobSafe(panel', flush', op') /\ op'.phase # "FLUSH_PHASE"

LEMMA DuringOtherPhase ==
  ASSUME FrameInv, OtherPhase
  PROVE  /\ ~Running(flush) /\ ~Running(flush') /\ ~Begun(op) /\ NoNewScroll
         /\ panel \in PanelType /\ frame \in FrameType /\ device \in DeviceType
         /\ \A late : Ticked(late) \in PanelType /\ Doubted(panel, Ticked(late))
         /\ op.kind = "SCROLL" => ~frame.iterating
<1>1. /\ panel \in PanelType /\ TypeOK /\ JobInv /\ IterationSafe(frame, op, device)
  BY DuringOperation DEF FrameInv, ControlInv, FrameSafe
<1>2. ~Running(flush)
  BY <1>1 DEF OtherPhase, JobInv, JobSafe, OperationActive
<1>3. ~Running(flush')
  BY DEF OtherPhase, EffectStep, JobSafe
<1>4. ~Begun(op) /\ NoNewScroll
  BY DEF OtherPhase, EffectStep, Begun, NoNewScroll, OperationActive
<1>5. op.kind = "SCROLL" => ~frame.iterating
  BY <1>1 DEF OtherPhase, OperationActive, IterationSafe
<1>. QED BY <1>1, <1>2, <1>3, <1>4, <1>5, PanelTypes, DoubtedPanel DEF Ticked, TypeOK

\* Such a poll does not touch GDDRAM.
LEMMA QuietPollIsSafe ==
  ASSUME FrameInv, OtherPhase, frame' = frame, Doubted(panel, panel'),
         device' \in {device, ApplyDisplayOff(device), ApplyDisplayOn(device)}
  PROVE  FrameStep
<1>1. /\ ~Running(flush) /\ ~Running(flush') /\ ~Begun(op) /\ NoNewScroll
      /\ device \in DeviceType
  BY DuringOtherPhase
<1>2. SameMemory /\ device'.forgot = device.forgot
  BY <1>1 DEF SameMemory, ApplyDisplayOff, ApplyDisplayOn, DeviceType
<1>3. PanelDoubts /\ (Known(panel') => Known(panel))
  BY <1>1 DEF PanelDoubts, Doubted, Known
<1>. QED BY <1>1, <1>2, <1>3, IdleFrame

LEMMA PollPowerIsSafe ==
  ASSUME FrameInv, OtherPhase, NEW late,
         \/ PollEmptyFlush(late) \/ PollDisplayOnRejected(late)
         \/ PollDelayStarts(late) \/ PollDelayEnds(late)
         \/ \E o \in Outcomes : \/ PollDisplayOff(late, o) \/ PollChargePumpOff(late, o)
                                \/ PollDisplayOn(late, o) \/ PollScrollConfigure(late, o)
  PROVE  FrameStep
<1>. DEFINE t == Ticked(late)
<1>1. panel \in PanelType /\ t \in PanelType /\ Doubted(panel, t)
  BY DuringOtherPhase
<1>. HIDE DEF t
<1>2. \A q \in {t, MarkControlDirty(t), MarkControlDirty(InvalidatePower(panel)),
                DisplayIsOff(t), [DisplayIsOff(t) EXCEPT !.initialized = FALSE],
                [t EXCEPT !.initialized = FALSE, !.power = "OFF"],
                [t EXCEPT !.sleeping = FALSE, !.power = "STARTING"],
                [t EXCEPT !.sleeping = FALSE, !.power = "ON", !.guard = "READY"],
                [t EXCEPT !.power = "ON", !.guard = "READY"]} :
        Doubted(panel, q)
  BY <1>1 DEF Doubted, MarkControlDirty, InvalidatePower, DisplayIsOff, PanelType
<1>3. Doubted(panel, panel') => FrameStep
  <2>1. /\ frame' = frame
        /\ device' \in {device, ApplyDisplayOff(device), ApplyDisplayOn(device)}
    BY DEF PollEmptyFlush, PollDisplayOnRejected, PollDelayStarts, PollDelayEnds,
           PollDisplayOff, PollChargePumpOff, PollDisplayOn, PollScrollConfigure
  <2>. QED BY <2>1, QuietPollIsSafe
<1>4. ASSUME \/ PollEmptyFlush(late) \/ PollDisplayOnRejected(late)
             \/ PollDelayStarts(late) \/ PollDelayEnds(late)
      PROVE  Doubted(panel, panel')
  BY <1>2, <1>4 DEF PollEmptyFlush, PollDisplayOnRejected, PollDelayStarts, PollDelayEnds, t
<1>5. ASSUME NEW o \in Outcomes,
             \/ PollDisplayOff(late, o) \/ PollChargePumpOff(late, o)
             \/ PollDisplayOn(late, o) \/ PollScrollConfigure(late, o)
      PROVE  Doubted(panel, panel')
  BY <1>2, <1>5
     DEF PollDisplayOff, PollChargePumpOff, PollDisplayOn, PollScrollConfigure, t
<1>. QED BY <1>3, <1>4, <1>5

\* A scroll's first and last command; it was admitted outside any iteration.
LEMMA PollScrollIsSafe ==
  ASSUME FrameInv, OtherPhase, NEW late, NEW o \in Outcomes,
         PollScrollDeactivate(late, o) \/ PollScrollActivate(late, o)
  PROVE  FrameStep
<1>1. /\ ~Running(flush) /\ ~Running(flush') /\ ~Begun(op)
      /\ panel \in PanelType /\ frame \in FrameType /\ device \in DeviceType
      /\ Ticked(late) \in PanelType /\ Doubted(panel, Ticked(late))
      /\ Ticked(late).controlDirty = panel.controlDirty
      /\ Ticked(late).initialized = panel.initialized
      /\ RotationSafe(panel, frame, device) /\ BaselineSafe(panel, frame, op, device)
  BY DuringOtherPhase, DoubtedPanel DEF FrameInv, FrameSafe, Ticked
<1>2. ~frame.iterating
  <2>1. op.kind = "SCROLL"
    BY DuringOperation
       DEF PollScrollDeactivate, PollScrollActivate, FrameInv, ControlInv, KindOfPhase
  <2>. QED BY <2>1, DuringOtherPhase
<1>3. CASE o # "OK"
  <2>1. panel' = MarkControlDirty(Ticked(late)) /\ frame' = frame
    BY <1>3 DEF PollScrollDeactivate, PollScrollActivate
  <2>. QED BY <1>1, <1>2, <2>1, DoubtedPanel, DoubtfulFrame DEF IterationSafe
<1>4. CASE o = "OK" /\ panel.scrolling /\ PollScrollDeactivate(late, o)
  <2>1. /\ ~frame'.synced /\ ~frame'.iterating
        /\ frame'.dirty = MarkAllDirty(frame.dirty, frame.window)
    BY <1>1, <1>4 DEF PollScrollDeactivate, OnScrollDeactivated, FrameType
  <2>. QED BY <1>1, <2>1, MarkedFrame
<1>5. CASE o = "OK" /\ ~panel.scrolling /\ PollScrollDeactivate(late, o)
  <2>1. /\ frame' = frame /\ device' = ApplyScrollOff(device)
        /\ panel' = [Ticked(late) EXCEPT !.scrolling = FALSE]
    BY <1>5 DEF PollScrollDeactivate, OnScrollDeactivated, TookEffect
  <2>2. /\ ~device'.rotating /\ device'.discarded = device.discarded
        /\ device'.forgot = device.forgot
        /\ ~device.rotating => device'.stale = device.stale
    BY <1>1, <2>1 DEF ApplyScrollOff, DeviceType
  <2>3. /\ panel'.controlDirty = panel.controlDirty
        /\ panel'.initialized = panel.initialized
    BY <1>1, <2>1 DEF PanelType
  <2>4. Rebuilt
    BY <1>1, <2>1, <2>2, <2>3, StillRebuilt DEF Known
  <2>5. BaselineSafe(panel', frame', op', device')
    BY <1>1, <1>5, <2>1, <2>2, <2>3 DEF BaselineSafe, RotationSafe, Covered
  <2>. QED BY <1>1, <1>2, <2>1, <2>2, <2>4, <2>5, NoJobFrame
           DEF FrameStep, FrameSafe, RotationSafe, IterationSafe
<1>6. CASE o = "OK" /\ PollScrollActivate(late, o)
  <2>1. /\ frame' = frame /\ device' = ApplyScrollOn(device)
        /\ panel' = [Ticked(late) EXCEPT !.scrolling = TRUE]
    BY <1>6 DEF PollScrollActivate, TookEffect
  <2>2. /\ device'.stale = device.stale /\ device'.discarded = device.discarded
        /\ device'.forgot = device.forgot
    BY <1>1, <2>1 DEF ApplyScrollOn, DeviceType
  <2>3. /\ panel'.controlDirty = panel.controlDirty /\ panel'.scrolling
        /\ panel'.initialized = panel.initialized
    BY <1>1, <2>1 DEF PanelType
  <2>4. Rebuilt
    BY <1>1, <2>1, <2>2, <2>3, StillRebuilt DEF Known
  <2>5. BaselineSafe(panel', frame', op', device')
    BY <1>1, <2>1, <2>2, <2>3 DEF BaselineSafe, Covered
  <2>. QED BY <1>1, <1>2, <2>1, <2>3, <2>4, <2>5, NoJobFrame
           DEF FrameStep, FrameSafe, RotationSafe, IterationSafe
<1>. QED BY <1>3, <1>4, <1>5, <1>6

\* The init sequence: it ends an iteration at once and the baseline at its end.
LEMMA PollInitializeIsSafe ==
  ASSUME FrameInv, EffectStep, JobSafe(panel', flush', op'),
         NEW late, NEW o \in Outcomes, PollInitialize(late, o)
  PROVE  FrameStep
<1>1. /\ panel \in PanelType /\ frame \in FrameType /\ device \in DeviceType
      /\ op \in OpType /\ TypeOK /\ JobInv /\ op.phase = "INITIALIZE_COMMAND"
      /\ op.state = "ACTIVE" /\ ~Running(flush)
      /\ RotationSafe(panel, frame, device) /\ BaselineSafe(panel, frame, op, device)
      /\ frame.dirty \in [Pages -> SUBSET Cols]
  BY DuringOperation
     DEF FrameInv, ControlInv, FrameSafe, TypeOK, PollInitialize, Polls, OperationActive,
         JobInv, JobSafe, FrameType
<1>. DEFINE fr == [frame EXCEPT !.iterating = FALSE]
            all == MarkAllDirty(frame.dirty, frame.window)
            d == IF TookEffect(o) THEN ApplyInitStep(device, op.step) ELSE device
            prefix == op.tx # 0
<1>2. \/ /\ CommandFails(o, prefix) /\ frame' = fr
         /\ panel' = MarkControlDirty(InvalidatePower(panel))
      \/ /\ o = "OK" /\ panel' = Ticked(late) /\ frame' = fr /\ device' = d
         /\ op' = [op EXCEPT !.step = @ + 1, !.effect = "PARTIAL", !.tx = CountTx,
                             !.touched = TRUE]
         /\ flush' = flush
      \/ /\ frame' = [fr EXCEPT !.dirty = all, !.synced = FALSE]
         /\ \/ FinishOperation(health, flush, TRUE, 1)
            \/ flush' \in Job(all)
  BY DEF PollInitialize
<1>3. fr.iterating = FALSE /\ fr.dirty = frame.dirty /\ fr.synced = frame.synced
      /\ fr.window = frame.window /\ fr \in FrameType
  BY <1>1 DEF FrameType
<1>4. CASE /\ CommandFails(o, prefix) /\ frame' = fr
           /\ panel' = MarkControlDirty(InvalidatePower(panel))
  <2>1. ~Running(flush')
    BY <1>1, <1>4, JobsOfEndedOperations DEF CommandFails, OperationActive
  <2>2. panel'.controlDirty
    BY <1>1, <1>4, DoubtedPanel
  <2>. HIDE DEF fr
  <2>. QED BY <1>3, <1>4, <2>1, <2>2, DoubtfulFrame DEF IterationSafe
<1>5. CASE /\ o = "OK" /\ panel' = Ticked(late) /\ frame' = fr /\ device' = d
           /\ op' = [op EXCEPT !.step = @ + 1, !.effect = "PARTIAL", !.tx = CountTx,
                               !.touched = TRUE]
           /\ flush' = flush
  <2>1. Begun(op')
    <3>1. CountTx # 0
      BY <1>1 DEF CountTx, OpType, TxCap
    <3>. QED BY <1>1, <1>5, <3>1 DEF OpType, Begun
  <2>2. /\ panel'.controlDirty = panel.controlDirty /\ panel'.scrolling = panel.scrolling
        /\ panel'.initialized = panel.initialized
    BY <1>1, <1>5, DoubtedPanel DEF Ticked
  <2>3. /\ device'.forgot = device.forgot /\ device'.discarded = device.discarded
        /\ device'.rotating => device.rotating
        /\ ~device.rotating => device'.stale = device.stale
    BY <1>1, <1>5 DEF ApplyInitStep, ApplyDisplayOff, ApplyScrollOff, DeviceType
  <2>. HIDE DEF fr, d
  <2>4. Rebuilt
    BY <1>1, <1>3, <1>5, <2>2, <2>3, StillRebuilt DEF Known
  <2>5. RotationSafe(panel', frame', device')
    BY <1>1, <1>3, <1>5, <2>2, <2>3 DEF RotationSafe
  <2>6. BaselineSafe(panel', frame', op', device')
    BY <1>1, <1>3, <1>5, <2>1, <2>2, <2>3 DEF BaselineSafe, RotationSafe, Covered
  <2>. QED BY <1>1, <1>3, <1>5, <2>4, <2>5, <2>6, NoJobFrame
           DEF FrameStep, FrameSafe, IterationSafe
<1>6. CASE /\ frame' = [fr EXCEPT !.dirty = all, !.synced = FALSE]
           /\ \/ FinishOperation(health, flush, TRUE, 1)
              \/ flush' \in Job(all)
  <2>1. ~frame'.synced /\ ~frame'.iterating /\ frame'.dirty = all
    BY <1>1, <1>6 DEF FrameType
  <2>2. CASE FinishOperation(health, flush, TRUE, 1)
    <3>1. op'.phase # "FLUSH_PHASE"
      BY <2>2, CommandEndsOperation DEF QuietPhases
    <3>2. ~Running(flush')
      BY <3>1 DEF EffectStep, JobSafe
    <3>. QED BY <2>1, <3>2, MarkedFrame
  <2>3. CASE flush' \in Job(all)
    <3>1. all \in [Pages -> SUBSET Cols]
      BY <1>1, DirtyTypes
    <3>2. Rebuilt
      BY <2>1, WindowFacts DEF Rebuilt, MarkAllDirty
    <3>. HIDE DEF all
    <3>. QED BY <2>1, <2>3, <3>1, <3>2, JobStarts, UnclaimedFrame
  <2>. QED BY <1>6, <2>2, <2>3
<1>. HIDE DEF fr, all, d, prefix
<1>. QED BY <1>2, <1>4, <1>5, <1>6

LEMMA PollIsSafe ==
  ASSUME FrameInv, JobSafe(panel', flush', op'), NEW late, PollOperation(late)
  PROVE  FrameStep
<1>1. /\ TruthInv /\ panel \in PanelType /\ op \in OpType /\ ControlInv
  BY DuringOperation DEF FrameInv, ControlInv
<1>2. EffectStep /\ OperationActive
  BY <1>1, OperationWorks, PollsAreOfActive
<1>3. ASSUME PollDeadline(late) PROVE FrameStep
  BY <1>2, <1>3, TerminateIsSafe DEF PollDeadline
<1>4. ASSUME NEW o \in Outcomes, PollInitialize(late, o) PROVE FrameStep
  BY <1>2, <1>4, PollInitializeIsSafe
<1>5. ASSUME \/ PollFlushPhaseTimeout(late)
             \/ \E o \in Outcomes, k \in Cols : PollFlushPhase(late, o, k)
      PROVE  FrameStep
  BY <1>2, <1>5, PollFlushPhaseIsSafe
<1>6. ASSUME op.phase \notin {"INITIALIZE_COMMAND", "FLUSH_PHASE"}, op'.phase # "FLUSH_PHASE"
      PROVE  OtherPhase
  BY <1>2, <1>6 DEF OtherPhase
<1>7. ASSUME NEW o \in Outcomes,
             \/ PollDisplayOff(late, o) \/ PollChargePumpOff(late, o)
             \/ PollDisplayOn(late, o) \/ PollScrollDeactivate(late, o)
             \/ PollScrollConfigure(late, o) \/ PollScrollActivate(late, o)
      PROVE  FrameStep
  <2>1. op'.phase # "FLUSH_PHASE"
    BY <1>1, <1>7, PollCommandTracks
  <2>2. op.phase \notin {"INITIALIZE_COMMAND", "FLUSH_PHASE"}
    BY <1>7 DEF PollDisplayOff, PollChargePumpOff, PollDisplayOn, PollScrollDeactivate,
                PollScrollConfigure, PollScrollActivate
  <2>3. OtherPhase
    BY <1>6, <2>1, <2>2
  <2>. QED BY <1>7, <2>3, PollPowerIsSafe, PollScrollIsSafe
<1>8. ASSUME \/ PollEmptyFlush(late) \/ PollDisplayOnRejected(late)
             \/ PollDelayStarts(late) \/ PollDelayEnds(late)
      PROVE  FrameStep
  <2>1. op.phase \notin {"INITIALIZE_COMMAND", "FLUSH_PHASE"}
    BY <1>8 DEF PollEmptyFlush, PollDisplayOnRejected, PollDelayStarts, PollDelayEnds
  <2>2. op'.phase # "FLUSH_PHASE"
    <3>1. PollDelayStarts(late) => op'.phase = op.phase
      BY <1>1 DEF PollDelayStarts, OpType
    <3>. QED BY <1>8, <2>1, <3>1, EndsQuietly DEF QuietPhases
  <2>3. OtherPhase
    BY <1>6, <2>1, <2>2
  <2>. QED BY <1>8, <2>3, PollPowerIsSafe
<1>. QED BY <1>3, <1>4, <1>5, <1>7, <1>8 DEF PollOperation

LEMMA OperationCallIsSafe ==
  ASSUME FrameInv, JobSafe(panel', flush', op'), OperationCall
  PROVE  FrameStep
<1>1. /\ TruthInv /\ panel \in PanelType /\ TypeOK /\ JobInv
  BY DuringOperation DEF FrameInv, ControlInv
<1>2. ASSUME CancelOperation \/ BlockingOperationStalls PROVE FrameStep
  <2>1. EffectStep /\ OperationActive
    BY <1>1, <1>2, OperationWorks DEF CancelOperation, BlockingOperationStalls
  <2>2. \E state : Terminate(state, panel)
    BY <1>2 DEF CancelOperation, BlockingOperationStalls
  <2>. QED BY <2>1, <2>2, TerminateIsSafe
<1>3. ASSUME TakeOperationResult PROVE FrameStep
  <2>1. /\ ~Running(flush) /\ panel' = panel /\ frame' = frame /\ flush' = flush
        /\ device' = device /\ ~Begun(op) /\ op'.state # "ACTIVE"
    BY <1>1, <1>3
       DEF TakeOperationResult, JobInv, JobSafe, OperationResultReady, Begun, Terminal,
           NoOperation
  <2>2. SameMemory /\ PanelDoubts /\ NoNewScroll
    BY <2>1 DEF SameMemory, PanelDoubts, NoNewScroll
  <2>. QED BY <2>1, <2>2, IdleFrame
<1>. QED BY <1>2, <1>3, StartIsSafe, PollIsSafe DEF OperationCall

-----------------------------------------------------------------------------
\* The invariant and what it implies

LEMMA FrameInvHolds == Spec => []FrameInv
<1>1. Init => FrameSafe(panel, frame, flush, op, device)
  BY DEF Init, DetachedPanel, DetachedFrame, IdleFlush, FrameSafe, RotationSafe,
         BaselineSafe, SentSafe, PageSafe, RewriteSafe, IterationSafe, Known, Running,
         FlushPhases
<1>2. Init /\ ControlInv => FrameInv
  BY <1>1 DEF FrameInv
<1>3. FrameInv /\ [Next]_vars /\ ControlInv' => FrameInv'
  <2>. SUFFICES ASSUME FrameInv, [Next]_vars, ControlInv' PROVE FrameInv'
    OBVIOUS
  <2>1. JobSafe(panel', flush', op')
    BY DEF ControlInv, TruthInv, JobInv
  <2>2. UNCHANGED vars => FrameStep
    BY DEF vars, FrameInv, FrameStep
  <2>3. FrameStep
    BY <2>1, <2>2, LifecycleIsSafe, OperationCallIsSafe, FlushCallIsSafe, FrameCallIsSafe,
       ControlCallIsSafe DEF Next
  <2>. QED BY <2>3 DEF FrameInv, FrameStep
<1>. QED BY <1>2, <1>3, ControlInvHolds, PTL DEF Spec

LEMMA BaselineCovers ==
  ASSUME FrameInv, frame.synced, ~panel.controlDirty, Begun(op) => ~panel.scrolling
  PROVE  device.stale \subseteq DirtyCells(frame.dirty) \cup device.discarded
<1>1. device.stale \subseteq Cells
  BY DuringOperation DEF FrameInv, ControlInv, DeviceType
<1>2. \A q \in Pages, x \in Cols : Covered(q, x, frame, device)
  BY DEF FrameInv, FrameSafe, BaselineSafe
<1>3. ASSUME NEW c \in device.stale, c \notin device.discarded
      PROVE  c \in DirtyCells(frame.dirty)
  <2>1. PICK q \in Pages, x \in Cols : c = <<q, x>>
    BY <1>1, <1>3 DEF Cells
  <2>2. x \in frame.dirty[q]
    BY <1>2, <1>3, <2>1 DEF Covered
  <2>. QED BY <2>1, <2>2, CellFacts DEF DirtyCells
<1>. QED BY <1>3

LEMMA FrameInvImplies ==
  ASSUME FrameInv
  PROVE  SyncSound /\ BaselineRebuildable /\ WindowsBehindShown
<1>1. SyncSound
  BY BaselineCovers DEF SyncSound
<1>2. BaselineRebuildable
  <2>. SUFFICES ASSUME panel.initialized, ~PageMode, ~frame.synced, ~panel.controlDirty,
                       ~IsFlushing, ~device.forgot
                PROVE  Cells \subseteq DirtyCells(frame.dirty)
    BY DEF BaselineRebuildable, DirtyCells
  <2>1. \A q \in Pages, x \in Cols : x \in frame.dirty[q]
    BY DEF FrameInv, FrameSafe, RewriteSafe, Known, Running, IsFlushing
  <2>. QED BY <2>1 DEF DirtyCells, Cells
<1>3. WindowsBehindShown
  <2>. SUFFICES ASSUME frame.iterating,
                       NEW p \in Pages, NEW x \in Cols, NEW w \in Windows,
                       p \in WindowPages(w),
                       \/ w < frame.window
                       \/ w = frame.window /\ flush.state = "DONE" /\ ~IsDirty,
                       <<p, x>> \in device.stale
                PROVE  FALSE
    BY DEF WindowsBehindShown
  <2>1. /\ PageMode /\ p \notin Behind(frame.window)
        /\ p \in WindowPages(frame.window) => x \in frame.dirty[p]
    BY DEF FrameInv, FrameSafe, IterationSafe
  <2>2. CASE w = frame.window /\ ~IsDirty
    BY <2>1, <2>2 DEF IsDirty, DirtyPages
  <2>3. CASE w < frame.window
    <3>1. /\ frame.window \in Int /\ w \in Int /\ p \in Int /\ PagesPerBuffer \in Nat
          /\ TotalPages \in Int
      BY DuringOperation, ConfigAssumption
         DEF FrameInv, ControlInv, TypeOK, FrameType, Windows, Pages, ConfigAssumption
    <3>2. \A a, b \in Int, c \in Nat : a <= b => a * c <= b * c
      <4>. SUFFICES ASSUME NEW a \in Int, NEW b \in Int, NEW c \in Nat, a <= b
                    PROVE  a * c <= b * c
        OBVIOUS
      <4>1. \A i, j \in Nat : i * j >= 0
        OBVIOUS
      <4>2. b - a \in Nat /\ (b - a) * c >= 0
        BY <4>1
      <4>3. (b - a) * c = b * c - a * c
        BY Z3
      <4>. QED BY <4>2, <4>3
    <3>. DEFINE u == (w + 1) * PagesPerBuffer
                v == frame.window * PagesPerBuffer
    <3>3. u <= v
      BY <2>3, <3>1, <3>2
    <3>4. p < u
      BY <2>1 DEF WindowPages
    <3>5. ~(p < v)
      BY <2>1 DEF Behind
    <3>6. u \in Int /\ v \in Int
      BY <3>1
    <3>. HIDE DEF u, v
    <3>. QED BY <3>1, <3>3, <3>4, <3>5, <3>6
  <2>. QED BY <2>2, <2>3
<1>. QED BY <1>1, <1>2, <1>3

\* A claimed baseline covers every cell that may not show the drawn frame,
\* whatever was drawn during a transfer, failed half-way, timed out or rotated.
THEOREM BaselineIsSound == Spec => []SyncSound
BY FrameInvHolds, FrameInvImplies, PTL

\* With a full framebuffer one more flush rebuilds a lost baseline, however the
\* job that was rebuilding it ended, unless the owner cleared the record.
THEOREM BaselineCanBeRebuilt == Spec => []BaselineRebuildable
BY FrameInvHolds, FrameInvImplies, PTL

\* firstPage() and nextPage() leave the windows behind the current one on the
\* glass, and a window whose flush is done unless something raced with it.
THEOREM WindowsAreShown == Spec => []WindowsBehindShown
BY FrameInvHolds, FrameInvImplies, PTL

-----------------------------------------------------------------------------
\* DISPLAY_ON

\* An operation about to send DISPLAY_ON knows its panel.
WakeSafe(p, o) == o.phase = "DISPLAY_ON" => ~p.controlDirty

WakeInv == FrameInv /\ WakeSafe(panel, op)

LEMMA OperationCallKeepsWake ==
  ASSUME WakeInv, OperationCall
  PROVE  WakeSafe(panel', op')
<1>1. /\ FrameInv /\ ControlInv /\ TruthInv /\ panel \in PanelType /\ op \in OpType
      /\ JobInv /\ PowerDuring(panel, op)
  BY DuringOperation DEF WakeInv, FrameInv, ControlInv
<1>2. ASSUME op'.phase # "DISPLAY_ON" PROVE WakeSafe(panel', op')
  BY <1>2 DEF WakeSafe
<1>3. ASSUME NEW kind \in Kinds, NEW deadline \in BOOLEAN, StartOperation(kind, deadline)
      PROVE  WakeSafe(panel', op')
  <2>1. /\ panel' = panel /\ (kind = "WAKE" => ~panel.controlDirty)
        /\ op' = op \/ op' = NewOperation(kind, deadline)
    BY <1>3 DEF StartOperation, OperationAdmitted
  <2>2. NewOperation(kind, deadline).phase = "DISPLAY_ON" => kind = "WAKE"
    BY DEF NewOperation, NoOperation, FirstPhase, Kinds
  <2>. QED BY <2>1, <2>2 DEF WakeInv, WakeSafe
<1>4. ASSUME NEW late, NEW o \in Outcomes, PollInitialize(late, o)
      PROVE  op'.phase # "DISPLAY_ON"
  <2>. DEFINE prefix == op.tx # 0
  <2>1. op.phase = "INITIALIZE_COMMAND"
    BY <1>4 DEF PollInitialize
  <2>2. \/ CommandFails(o, prefix)
        \/ FinishOperation(health, flush, TRUE, 1)
        \/ op' = [op EXCEPT !.step = @ + 1, !.effect = "PARTIAL", !.tx = CountTx,
                            !.touched = TRUE]
        \/ op' = [op EXCEPT !.phase = "FLUSH_PHASE", !.effect = "PARTIAL", !.tx = CountTx,
                            !.touched = TRUE]
    BY <1>4 DEF PollInitialize
  <2>. HIDE DEF prefix
  <2>. QED BY <1>1, <2>1, <2>2, CommandEndsOperation DEF QuietPhases, OpType
<1>5. ASSUME NEW late, NEW o \in Outcomes, NEW k \in Cols, PollFlushPhase(late, o, k)
      PROVE  WakeSafe(panel', op')
  <2>1. op.phase = "FLUSH_PHASE" /\ op.state = "ACTIVE" /\ panel' = TickPowerOn(panel, late)
    BY <1>5 DEF PollFlushPhase, InFlushPhase, Polls, OperationActive, Ticked
  <2>2. ~panel.controlDirty
    BY <1>1, <2>1 DEF JobInv, JobSafe
  <2>. QED BY <1>1, <2>1, <2>2, DoubtedPanel DEF WakeSafe
<1>6. ASSUME NEW late, PollFlushPhaseTimeout(late) PROVE op'.phase # "DISPLAY_ON"
  <2>. DEFINE effect == IF op.tx = 0 THEN "NONE" ELSE "PARTIAL"
  <2>1. op' = EndOperation("FAILED", effect, op.touched)
    BY <1>6 DEF PollFlushPhaseTimeout
  <2>. HIDE DEF effect
  <2>. QED BY <2>1, EndedOperation DEF QuietPhases
<1>7. ASSUME NEW late, NEW o \in Outcomes,
             \/ PollDisplayOff(late, o) \/ PollChargePumpOff(late, o)
             \/ PollDisplayOn(late, o) \/ PollScrollDeactivate(late, o)
             \/ PollScrollConfigure(late, o) \/ PollScrollActivate(late, o)
      PROVE  op'.phase # "DISPLAY_ON"
  <2>. DEFINE prefix == op.tx # 0
              unborn == [health EXCEPT !.state = "UNINIT"]
              ended == \/ CommandFails(o, prefix) \/ CommandFails(o, TRUE)
                       \/ FinishOperation(health, flush, TRUE, 1)
                       \/ FinishOperation(unborn, flush, TRUE, 1)
              next == \E phase \in {"CHARGE_PUMP_OFF", "DISPLAY_ON_DELAY",
                                    "SCROLL_CONFIGURE", "SCROLL_ACTIVATE"} :
                        CommandSucceeds(phase)
  <2>1. next => op'.phase # "DISPLAY_ON"
    BY <1>1 DEF CommandSucceeds, OpType
  <2>2. ended => op'.phase # "DISPLAY_ON"
    <3>. HIDE DEF prefix, unborn
    <3>. QED BY CommandEndsOperation DEF QuietPhases
  <2>3. PollDisplayOff(late, o) => ended \/ next
    BY DEF PollDisplayOff
  <2>4. PollChargePumpOff(late, o) => ended \/ next
    BY DEF PollChargePumpOff
  <2>5. PollDisplayOn(late, o) => ended \/ next
    BY DEF PollDisplayOn
  <2>6. PollScrollDeactivate(late, o) => ended \/ next
    BY DEF PollScrollDeactivate
  <2>7. PollScrollConfigure(late, o) => ended \/ next
    BY DEF PollScrollConfigure
  <2>8. PollScrollActivate(late, o) => ended \/ next
    BY DEF PollScrollActivate
  <2>. HIDE DEF ended, next
  <2>. QED BY <1>7, <2>1, <2>2, <2>3, <2>4, <2>5, <2>6, <2>7, <2>8
<1>8. ASSUME NEW late, PollDelayStarts(late) PROVE op'.phase # "DISPLAY_ON"
  BY <1>1, <1>8 DEF PollDelayStarts, OpType
<1>9. ASSUME NEW late, \/ PollEmptyFlush(late) \/ PollDisplayOnRejected(late)
                       \/ PollDelayEnds(late) \/ PollDeadline(late)
      PROVE  op'.phase # "DISPLAY_ON"
  BY <1>9, EndsQuietly DEF PollDeadline, QuietPhases
<1>10. CancelOperation \/ BlockingOperationStalls => op'.phase # "DISPLAY_ON"
  BY EndsQuietly DEF CancelOperation, BlockingOperationStalls, QuietPhases
<1>11. TakeOperationResult => op'.phase # "DISPLAY_ON"
  BY DEF TakeOperationResult, NoOperation
<1>12. ASSUME NEW late, PollOperation(late) PROVE WakeSafe(panel', op')
  BY <1>2, <1>4, <1>5, <1>6, <1>7, <1>8, <1>9, <1>12 DEF PollOperation
<1>. QED BY <1>2, <1>3, <1>10, <1>11, <1>12 DEF OperationCall

LEMMA NextKeepsWake ==
  ASSUME WakeInv, [Next]_vars
  PROVE  WakeSafe(panel', op')
<1>1. /\ FrameInv /\ ControlInv /\ TruthInv /\ panel \in PanelType /\ op \in OpType
      /\ PowerDuring(panel, op) /\ WakeSafe(panel, op)
  BY DuringOperation DEF WakeInv, FrameInv, ControlInv
<1>2. ~OperationActive => op.phase # "DISPLAY_ON"
  BY <1>1 DEF PowerDuring, ControlPhases, OperationActive
<1>3. ASSUME op' = op, ~OperationActive \/ panel'.controlDirty = panel.controlDirty
      PROVE  WakeSafe(panel', op')
  BY <1>1, <1>2, <1>3 DEF WakeSafe
<1>4. CASE FlushCall
  <2>1. op' = op
    BY <1>1, <1>4, QuietCalls
  <2>2. ~OperationActive
    BY <1>4 DEF FlushCall, RequestFlush, PollFlush, PollFlushTimeout, PollFlushWaits,
                PollFlushEnded, PollFlushSends, LegacyPoll, WaitFlushGivesUp, LegacyOwner
  <2>. QED BY <1>3, <2>1, <2>2
<1>5. CASE FrameCall
  BY <1>1, <1>3, <1>5, QuietCalls
<1>6. ASSUME NEW late, TickPanelGuard(late) PROVE WakeSafe(panel', op')
  BY <1>1, <1>3, <1>6, DoubtedPanel DEF TickPanelGuard, Ticked
<1>7. ASSUME NEW o, TrackedWrite(o) PROVE WakeSafe(panel', op')
  BY <1>3, <1>7 DEF TrackedWrite, DirectI2cAdmitted
<1>8. CASE Lifecycle \/ \E really \in BOOLEAN : PanelReset(really)
  <2>1. \/ \E state, effect, touched : op' = EndOperation(state, effect, touched)
        \/ op' = NoOperation
        \/ op' = op /\ ~OperationActive
    BY <1>8 DEF PanelReset, InvalidatePanelState, Lifecycle, Attach, Detach, DirectI2cAdmitted
  <2>. QED BY <1>2, <2>1, EndedOperation DEF QuietPhases, NoOperation, WakeSafe
<1>9. CASE ControlCall
  BY <1>6, <1>7, <1>8, <1>9
     DEF ControlCall, SetRegister, SetFlipX, StopScroll, SleepNow, WakeNow, SendRawCommand
<1>10. CASE UNCHANGED vars
  BY <1>1, <1>10 DEF vars, WakeSafe
<1>. QED BY <1>4, <1>5, <1>8, <1>9, <1>10, OperationCallKeepsWake DEF Next

LEMMA WakeInvHolds == Spec => []WakeInv
<1>1. Init => WakeSafe(panel, op)
  BY DEF Init, NoOperation, WakeSafe
<1>2. Init /\ FrameInv => WakeInv
  BY <1>1 DEF WakeInv
<1>3. WakeInv /\ [Next]_vars /\ FrameInv' => WakeInv'
  BY NextKeepsWake DEF WakeInv
<1>. QED BY <1>2, <1>3, FrameInvHolds, PTL DEF Spec

\* Which of the driver's own steps turn the display on.
LEMMA OnlyWakesLight ==
  ASSUME WakeInv, [Next]_vars, ~device.lit, device'.lit
  PROVE  \/ \E o \in Outcomes : WakeNow(o) \/ SendRawCommand(o)
         \/ \E late : \E o \in Outcomes : PollDisplayOn(late, o)
<1>. SUFFICES ASSUME \A o \in Outcomes : ~WakeNow(o) /\ ~SendRawCommand(o),
                     \A late : \A o \in Outcomes : ~PollDisplayOn(late, o)
              PROVE  FALSE
  OBVIOUS
<1>1. TruthInv /\ device \in DeviceType
  BY DuringOperation DEF WakeInv, FrameInv, ControlInv
<1>2. device' # device
  OBVIOUS
<1>3. /\ ~ApplyDisplayOff(device).lit /\ ~ApplyScrollOff(device).lit
      /\ ~ApplyScrollOn(device).lit /\ ~AllStale.lit
  BY <1>1, Lit
<1>4. ~(FlushCall \/ FrameCall \/ \E late : TickPanelGuard(late))
  BY <1>1, QuietCalls
<1>5. ~Lifecycle
  BY <1>3 DEF Lifecycle, Attach, Detach
<1>6. \A really \in BOOLEAN : ~PanelReset(really)
  BY <1>1, <1>2 DEF PanelReset, AllStale, DeviceType
<1>7. \A o \in Outcomes : /\ ~SetRegister(o) /\ ~StopScroll(o) /\ ~SleepNow(o)
                          /\ \A changed \in BOOLEAN : ~SetFlipX(o, changed)
  BY <1>2, <1>3 DEF SetRegister, StopScroll, SleepNow, SetFlipX
<1>8. ~ControlCall
  BY <1>4, <1>6, <1>7 DEF ControlCall
<1>9. \A late, o, k : ~PollFlushPhase(late, o, k)
  BY <1>1, FlushKeepsLit DEF PollFlushPhase
<1>10. \A late, o : ~PollInitialize(late, o)
  <2>. SUFFICES ASSUME NEW late, NEW o, PollInitialize(late, o) PROVE FALSE
    OBVIOUS
  <2>. DEFINE d == IF TookEffect(o) THEN ApplyInitStep(device, op.step) ELSE device
  <2>1. device' = d \/ device' = [d EXCEPT !.forgot = FALSE, !.discarded = {}]
    BY DEF PollInitialize
  <2>2. ~d.lit /\ d \in DeviceType
    BY <1>1, <1>3, DeviceTypes DEF ApplyInitStep
  <2>. HIDE DEF d
  <2>. QED BY <2>1, <2>2 DEF DeviceType
<1>11. \A late, o :
         /\ ~PollDisplayOff(late, o) /\ ~PollChargePumpOff(late, o)
         /\ ~PollScrollDeactivate(late, o) /\ ~PollScrollConfigure(late, o)
         /\ ~PollScrollActivate(late, o)
  BY <1>2, <1>3 DEF PollDisplayOff, PollChargePumpOff, PollScrollDeactivate,
                    PollScrollConfigure, PollScrollActivate
<1>12. \A late : /\ ~PollDeadline(late) /\ ~PollFlushPhaseTimeout(late)
                 /\ ~PollEmptyFlush(late) /\ ~PollDisplayOnRejected(late)
                 /\ ~PollDelayStarts(late) /\ ~PollDelayEnds(late)
  BY <1>2 DEF PollDeadline, Terminate, PollFlushPhaseTimeout, PollEmptyFlush,
              PollDisplayOnRejected, PollDelayStarts, PollDelayEnds
<1>13. ~OperationCall
  BY <1>2, <1>9, <1>10, <1>11, <1>12
     DEF OperationCall, PollOperation, StartOperation, CancelOperation,
         BlockingOperationStalls, Terminate, TakeOperationResult
<1>. QED BY <1>2, <1>4, <1>5, <1>8, <1>13 DEF Next, vars

LEMMA WakeRevealsTheFrame ==
  ASSUME WakeInv, [Next]_vars, ~device.lit, device'.lit
  PROVE  device.stale \subseteq device.discarded \/ \E o \in Outcomes : SendRawCommand(o)
<1>1. FrameInv /\ TracksSafe(panel, op, device) /\ WakeSafe(panel, op)
  BY DEF WakeInv, FrameInv, ControlInv
<1>2. ASSUME ~panel.controlDirty, ~Begun(op), ~IsDirty, frame.synced
      PROVE  device.stale \subseteq device.discarded
  <2>1. DirtyCells(frame.dirty) = {}
    BY <1>2 DEF IsDirty, DirtyPages, DirtyCells, Cells
  <2>. QED BY <1>1, <1>2, <2>1, BaselineCovers
<1>3. ASSUME NEW late, NEW o \in Outcomes, PollDisplayOn(late, o)
      PROVE  device.stale \subseteq device.discarded
  BY <1>1, <1>2, <1>3 DEF PollDisplayOn, WakeSafe, Begun
<1>4. ASSUME NEW o \in Outcomes, WakeNow(o)
      PROVE  device.stale \subseteq device.discarded
  <2>1. /\ panel.initialized /\ ~panel.controlDirty /\ ~Begun(op)
        /\ panel.sleeping => ~IsDirty /\ frame.synced
    BY <1>4 DEF WakeNow, TrackedWrite, WakeAdmitted, DirectI2cAdmitted, OperationActive, Begun
  <2>2. panel.sleeping
    BY <1>1, <2>1 DEF TracksSafe, Tracks, Known
  <2>. QED BY <1>2, <2>1, <2>2
<1>. QED BY <1>3, <1>4, OnlyWakesLight

\* Neither setSleep(FALSE) nor a wake or resync operation lights up a cell that
\* does not show the drawn frame, unless the owner cleared its record.
THEOREM NothingOldIsRevealed == Spec => NoStaleWake
<1>1. WakeInv /\ [Next]_vars =>
        [~device.lit /\ device'.lit =>
           \/ device.stale \subseteq device.discarded
           \/ \E o \in Outcomes : SendRawCommand(o)]_vars
  BY WakeRevealsTheFrame
<1>. QED BY <1>1, WakeInvHolds, PTL DEF Spec, NoStaleWake
=============================================================================
