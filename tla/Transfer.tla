------------------------------- MODULE Transfer -------------------------------
(***************************************************************************)
(* Where the bytes go: the flush engine's windows, chunks and buffer       *)
(* offsets against the address pointers of the controller, which advance   *)
(* by themselves with every data byte that arrives.                        *)
(*                                                                         *)
(* A display page has one pixel per column here.  A byte of the framebuffer *)
(* or of GDDRAM is the set of the display pages whose pixels are lit in    *)
(* it: a byte that reaches the wrong page is told by what it holds.  The   *)
(* panel is initialized and off, so that every poll may send.              *)
(***************************************************************************)
EXTENDS Integers, FiniteSetsExt

CONSTANTS
  Width,         \* Config::width
  TotalPages,    \* height / 8
  BufferSizes,   \* values of Config::pageBufferPages
  ChunkBytes,    \* FLUSH_DATA_CHUNK_BYTES
  WriteBytes,    \* Config::maxWriteBytes
  Budgets,       \* bound: byte budgets of a poll
  MaxWrites,     \* bound: transactions of a poll
  MaxChanges,    \* bound: drawing calls and requests that mark a rectangle
  MaxFaults      \* bound: failed transactions

ASSUME TransferAssumption ==
  /\ {Width, TotalPages, ChunkBytes, MaxWrites} \subseteq Nat \ {0}
  /\ Width <= 128   \* MAX_WIDTH; a clean page has the range 255..0
  /\ BufferSizes \subseteq 1..TotalPages
  /\ WriteBytes \in Nat /\ WriteBytes >= 2   \* MIN_WRITE_BYTES is larger
  /\ Budgets \subseteq Nat \ {0}
  /\ {MaxChanges, MaxFaults} \subseteq Nat

VARIABLES
  ram,      \* the framebuffer: byte offset -> pages that are lit in it
  dirty,    \* _dirtyMinCol, _dirtyMaxCol of each page
  job,      \* the flush job
  iter,     \* _currentBufferPage, _inPageIteration, _gddramSynchronized, and
            \* the size of the framebuffer, which never changes
  poll,     \* what the executing poll may still send
  regs,     \* the controller's address window and pointers
  gddram,   \* the controller's memory
  bound     \* drawing calls and failed transactions so far

vars == <<ram, dirty, job, iter, poll, regs, gddram, bound>>

BufferPages == iter.pages
Columns == 0..(Width - 1)
DisplayPages == 0..(TotalPages - 1)
Offsets == 0..(Width * BufferPages - 1)
Cells == DisplayPages \X Columns
Noise == -1          \* what GDDRAM holds before anything was written

PageMode == BufferPages < TotalPages
IsFlushing == job.state \in {"SET_COL", "SET_PAGE", "SEND_DATA"}

NoRange == [min |-> 255, max |-> 0]
DirtyPages == {p \in DisplayPages : dirty[p].min <= dirty[p].max}
DirtyColumns(p) == dirty[p].min .. dirty[p].max

\* The display pages that the RAM window holds.
InWindow(w) == {p \in DisplayPages : w * BufferPages <= p /\ p < (w + 1) * BufferPages}
Window == InWindow(iter.window)

\* bufferIndex(), and the flush engine's bufOffset
Offset(p, c) == c + (p % BufferPages) * Width

NoJob ==
  [state |-> "IDLE", page |-> 0, last |-> 0, min |-> 0, max |-> 0, col |-> 0,
   raced |-> FALSE, bytes |-> 0, failed |-> FALSE]
NoPoll == [writes |-> 0, bytes |-> 0]

Init ==
  /\ iter \in [window : {0}, active : {FALSE}, synced : {FALSE}, pages : BufferSizes]
  /\ ram = [o \in Offsets |-> {}]
  /\ dirty = [p \in DisplayPages |-> NoRange]
  /\ job = NoJob
  /\ poll = NoPoll
  /\ regs = [c0 |-> 0, c1 |-> Width - 1, p0 |-> 0, p1 |-> TotalPages - 1, col |-> 0, page |-> 0]
  /\ gddram = [x \in Cells |-> {Noise}]
  /\ bound = [changes |-> 0, faults |-> 0]

-----------------------------------------------------------------------------
\* Drawing

Marked(d, p, c0, c1) ==
  [d EXCEPT ![p] = [min |-> Min({@.min, c0}), max |-> Max({@.max, c1})]]

\* markDirtyRect(), markAllDirty(): pages outside the RAM window are ignored.
MarkedRect(d, rect) ==
  [p \in DisplayPages |->
     IF p \in Window \cap (rect.p0 .. rect.p1)
     THEN Marked(d, p, rect.c0, rect.c1)[p] ELSE d[p]]

\* Wrong: a drawing call that changes no new column does not count.
RacedMutant(rect) ==
  job.raced \/ (IsFlushing /\ job.page \in Window \cap (rect.p0 .. rect.p1)
                           /\ rect.c0 < dirty[job.page].min)

\* _dirtyGeneration differs from the one the page's transfer started with.
Raced(rect) == job.raced \/ (IsFlushing /\ job.page \in Window \cap (rect.p0 .. rect.p1))

\* What is left of a rectangle that is clipped to the panel.
Rectangles ==
  {r \in [c0 : Columns, c1 : Columns, p0 : DisplayPages, p1 : DisplayPages] :
     r.c0 <= r.c1 /\ r.p0 <= r.p1}
Whole == [c0 |-> 0, c1 |-> Width - 1, p0 |-> 0, p1 |-> TotalPages - 1]

\* The pixels of a rectangle that fall into the RAM window are lit or put out.
Painted(rect, on) ==
  [o \in Offsets |->
     LET hit == {p \in Window \cap (rect.p0 .. rect.p1) :
                   \E c \in rect.c0 .. rect.c1 : Offset(p, c) = o}
     IN  IF on THEN ram[o] \cup hit ELSE ram[o] \ hit]

Mutate ==
  /\ poll = NoPoll
  /\ PageMode => iter.active
  /\ bound.changes < MaxChanges
  /\ bound' = [bound EXCEPT !.changes = @ + 1]
  /\ UNCHANGED <<iter, poll, regs, gddram>>

DrawRect(rect, on) ==
  /\ Mutate
  /\ ram' = Painted(rect, on)
  /\ dirty' = MarkedRect(dirty, rect)
  /\ job' = [job EXCEPT !.raced = Raced(rect)]

Blank == [o \in Offsets |-> {}]

Clear ==
  /\ Mutate
  /\ ram' = Blank
  /\ dirty' = MarkedRect(dirty, Whole)
  /\ job' = [job EXCEPT !.raced = Raced(Whole)]

-----------------------------------------------------------------------------
\* Requesting a job

\* Wrong: a new job goes on counting the bytes of the one before.
PageOfJobMutant(d, p, last) ==
  [NoJob EXCEPT !.state = "SET_COL", !.page = p, !.last = last, !.bytes = job.bytes,
                !.min = d[p].min, !.max = d[p].max, !.col = d[p].min]

\* The job's first window is that of the first dirty page.
PageOfJob(d, p, last) ==
  [NoJob EXCEPT !.state = "SET_COL", !.page = p, !.last = last,
                !.min = d[p].min, !.max = d[p].max, !.col = d[p].min]

\* A terminal job is consumed; its error is kept until the next job.
Consumed == IF job.state = "ERROR" THEN [NoJob EXCEPT !.failed = TRUE]
            ELSE IF job.state = "DONE" THEN NoJob ELSE job

RequestedJob(d) ==
  LET pages == {p \in DisplayPages : d[p].min <= d[p].max}
  IN  IF pages = {} THEN Consumed ELSE PageOfJob(d, Min(pages), Max(pages))

RequestFlush ==
  /\ poll = NoPoll /\ ~IsFlushing
  /\ job' = RequestedJob(dirty)
  /\ UNCHANGED <<ram, dirty, iter, poll, regs, gddram, bound>>

RequestFlushRect(rect) ==
  /\ poll = NoPoll /\ ~IsFlushing
  /\ PageMode => iter.active
  /\ bound.changes < MaxChanges
  /\ bound' = [bound EXCEPT !.changes = @ + 1]
  /\ dirty' = MarkedRect(dirty, rect)
  /\ job' = RequestedJob(dirty')
  /\ UNCHANGED <<ram, iter, poll, regs, gddram>>

-----------------------------------------------------------------------------
\* The controller: what arrives of a transaction takes effect, also when the
\* driver is told that it failed.

SetColumns(r, c0, c1) == [r EXCEPT !.c0 = c0, !.c1 = c1, !.col = c0]
SetPages(r, p0, p1) == [r EXCEPT !.p0 = p0, !.p1 = p1, !.page = p0]

\* Horizontal addressing: the pointers after k data bytes, wrapping inside the
\* window that was set.
Advanced(r, k) ==
  LET w == r.c1 - r.c0 + 1
      h == r.p1 - r.p0 + 1
      at == ((r.page - r.p0) * w + (r.col - r.c0) + k) % (w * h)
  IN  [r EXCEPT !.page = r.p0 + (at \div w), !.col = r.c0 + (at % w)]

\* k data bytes arrive, the first of them from buffer offset o.
Stored(o, k) ==
  [x \in Cells |->
     LET hits == {i \in 0..(k - 1) : <<Advanced(regs, i).page, Advanced(regs, i).col>> = x}
     IN  IF hits = {} THEN gddram[x] ELSE ram[o + Max(hits)]]

-----------------------------------------------------------------------------
\* Polling

PollFlush(n, budget) ==
  /\ poll = NoPoll /\ IsFlushing
  /\ poll' = [writes |-> n, bytes |-> budget]
  /\ UNCHANGED <<ram, dirty, job, iter, regs, gddram, bound>>

\* A poll consumes a terminal job, unless nextPage() is to see it.
PollFlushEnded ==
  /\ poll = NoPoll /\ job.state \in {"DONE", "ERROR"} /\ ~iter.active
  /\ job' = Consumed
  /\ UNCHANGED <<ram, dirty, iter, poll, regs, gddram, bound>>

\* The poll goes on unless its transactions or, at data, its bytes are used up.
PollAfter(state, bytes) ==
  IF state \notin {"SET_COL", "SET_PAGE", "SEND_DATA"} THEN NoPoll
  ELSE IF poll.writes = 1 \/ (state = "SEND_DATA" /\ bytes = 0) THEN NoPoll
  ELSE [writes |-> poll.writes - 1, bytes |-> bytes]

\* Without a baseline a failed full-frame rewrite starts over.
FailFlush ==
  /\ job' = [NoJob EXCEPT !.state = "ERROR", !.failed = TRUE]
  /\ dirty' = IF ~iter.synced /\ ~PageMode THEN MarkedRect(dirty, Whole) ELSE dirty

Fault ==
  /\ bound.faults < MaxFaults
  /\ bound' = [bound EXCEPT !.faults = @ + 1]
  /\ poll' = NoPoll
  /\ FailFlush
  /\ UNCHANGED <<ram, iter>>

SendColumns ==
  /\ poll # NoPoll /\ job.state = "SET_COL"
  /\ regs' = SetColumns(regs, job.min, job.max)
  /\ job' = [job EXCEPT !.state = "SET_PAGE"]
  /\ poll' = PollAfter("SET_PAGE", poll.bytes)
  /\ UNCHANGED <<ram, dirty, iter, gddram, bound>>

SendPage ==
  /\ poll # NoPoll /\ job.state = "SET_PAGE"
  /\ regs' = SetPages(regs, job.page, job.page)
  /\ job' = [job EXCEPT !.state = "SEND_DATA", !.col = job.min]
  /\ poll' = PollAfter("SEND_DATA", poll.bytes)
  /\ UNCHANGED <<ram, dirty, iter, gddram, bound>>

\* The command is rejected, or executed although the driver is told otherwise.
SendAddressFails ==
  /\ poll # NoPoll /\ job.state \in {"SET_COL", "SET_PAGE"}
  /\ Fault
  /\ regs' \in {regs, IF job.state = "SET_COL" THEN SetColumns(regs, job.min, job.max)
                      ELSE SetPages(regs, job.page, job.page)}
  /\ UNCHANGED gddram

\* The bytes of the next data transaction.
Chunk == Min({job.max - job.col + 1, ChunkBytes, WriteBytes - 1, poll.bytes})

\* The page is clean unless it was drawn to during its transfer; the job goes on
\* to the next dirty page up to its last, or ends.  Every byte of the frame sent
\* by one job makes a baseline.
FinishPage(bytes) ==
  LET clean == IF job.raced THEN dirty ELSE [dirty EXCEPT ![job.page] = NoRange]
      rest == {p \in (job.page + 1) .. job.last : clean[p].min <= clean[p].max}
  IN  /\ dirty' = clean
      /\ IF rest = {}
         THEN /\ job' = [NoJob EXCEPT !.state = "DONE", !.bytes = bytes]
              /\ iter' = [iter EXCEPT !.synced =
                            @ \/ (~PageMode /\ bytes = Width * BufferPages)]
         ELSE /\ job' = [PageOfJob(clean, Min(rest), job.last) EXCEPT !.bytes = bytes]
              /\ UNCHANGED iter

SendData ==
  /\ poll # NoPoll /\ job.state = "SEND_DATA"
  /\ gddram' = Stored(Offset(job.page, job.col), Chunk)
  /\ regs' = Advanced(regs, Chunk)
  /\ IF job.col + Chunk <= job.max
     THEN /\ job' = [job EXCEPT !.col = @ + Chunk, !.bytes = @ + Chunk]
          /\ UNCHANGED <<dirty, iter>>
     ELSE FinishPage(job.bytes + Chunk)
  /\ poll' = PollAfter(job'.state, poll.bytes - Chunk)
  /\ UNCHANGED <<ram, bound>>

\* A prefix of the chunk may have arrived.
SendDataFails ==
  /\ poll # NoPoll /\ job.state = "SEND_DATA"
  /\ Fault
  /\ \E k \in 0..Chunk :
       /\ gddram' = Stored(Offset(job.page, job.col), k)
       /\ regs' = Advanced(regs, k)

-----------------------------------------------------------------------------
\* Page iteration

FirstPage ==
  /\ poll = NoPoll /\ ~IsFlushing
  /\ DirtyPages = {} \/ ~job.failed
  /\ ram' = Blank
  /\ job' = [NoJob EXCEPT !.failed = job.failed /\ job.state = "IDLE"]
  /\ iter' = [iter EXCEPT !.window = 0, !.active = PageMode, !.synced = FALSE]
  /\ dirty' = [p \in DisplayPages |->
                 IF p \in InWindow(0) THEN [min |-> 0, max |-> Width - 1]
                 ELSE NoRange]
  /\ UNCHANGED <<poll, regs, gddram, bound>>

NextPage ==
  /\ poll = NoPoll /\ iter.active /\ ~IsFlushing
  /\ UNCHANGED <<poll, regs, gddram, bound>>

NextPageAfterError ==
  /\ NextPage
  /\ job.state = "ERROR"
  /\ job' = [NoJob EXCEPT !.failed = TRUE]
  /\ UNCHANGED <<ram, dirty, iter>>

\* The window was drawn to during its transfer: it stays selected.
NextPageRedraws ==
  /\ NextPage
  /\ job.state = "DONE" /\ DirtyPages # {}
  /\ job' = NoJob
  /\ iter' = [iter EXCEPT !.synced = FALSE]
  /\ UNCHANGED <<ram, dirty>>

LastWindow == (iter.window + 1) * BufferPages >= TotalPages

\* Wrong: the next window starts with the content of the one before.
NextPageSelectsMutant ==
  /\ NextPage
  /\ job.state = "DONE" /\ DirtyPages = {} /\ ~LastWindow
  /\ job' = NoJob
  /\ iter' = [iter EXCEPT !.window = @ + 1]
  /\ ram' = ram
  /\ dirty' = [p \in DisplayPages |->
                 IF p \in InWindow(iter.window + 1) THEN [min |-> 0, max |-> Width - 1]
                 ELSE NoRange]

NextPageSelects ==
  /\ NextPage
  /\ job.state = "DONE" /\ DirtyPages = {} /\ ~LastWindow
  /\ job' = NoJob
  /\ iter' = [iter EXCEPT !.window = @ + 1]
  /\ ram' = Blank
  /\ dirty' = [p \in DisplayPages |->
                 IF p \in InWindow(iter.window + 1) THEN [min |-> 0, max |-> Width - 1]
                 ELSE NoRange]

\* The window index returns to 0; the framebuffer keeps the last window.
NextPageEnds ==
  /\ NextPage
  /\ job.state = "DONE" /\ DirtyPages = {} /\ LastWindow
  /\ job' = NoJob
  /\ iter' = [iter EXCEPT !.window = 0, !.active = FALSE, !.synced = TRUE]
  /\ UNCHANGED <<ram, dirty>>

NextPageSends ==
  /\ NextPage
  /\ job.state = "IDLE"
  /\ dirty' = MarkedRect(dirty, Whole)
  /\ job' = RequestedJob(dirty')
  /\ UNCHANGED <<ram, iter>>

Next ==
  \/ \E rect \in Rectangles, on \in BOOLEAN : DrawRect(rect, on)
  \/ Clear
  \/ RequestFlush
  \/ \E rect \in Rectangles : RequestFlushRect(rect)
  \/ \E n \in 1..MaxWrites, budget \in Budgets : PollFlush(n, budget)
  \/ PollFlushEnded
  \/ SendColumns \/ SendPage \/ SendAddressFails
  \/ SendData \/ SendDataFails
  \/ FirstPage
  \/ NextPageAfterError \/ NextPageRedraws \/ NextPageSelects \/ NextPageEnds \/ NextPageSends

Spec == Init /\ [][Next]_vars

-----------------------------------------------------------------------------
\* Properties

\* When the engine is about to send data, the controller's pointers stand where
\* its next byte belongs, whatever failed before and however the page was cut.
PointersAgree ==
  job.state = "SEND_DATA" => regs.page = job.page /\ regs.col = job.col

\* A page of GDDRAM never holds what was drawn for another page: no chunk is
\* taken from the wrong window of the framebuffer or runs over the end of its
\* page.  (The owner of a page-mode driver draws inside iterations.)
RightPage ==
  /\ PointersAgree
  /\ \A x \in Cells : gddram[x] \subseteq {x[1], Noise}

\* With a baseline, GDDRAM shows every byte of the framebuffer that is not
\* recorded as dirty, byte by byte: nothing drawn is forgotten, by clipping, by
\* a race with the transfer of its page, or by a transfer that failed half-way.
CleanIsShown ==
  (IF PageMode THEN iter.active ELSE iter.synced) =>
    \A p \in Window : \A c \in Columns :
      c \in DirtyColumns(p) \/ gddram[<<p, c>>] = ram[Offset(p, c)]

\* gddramSynchronized promises a complete frame: every byte of every page was
\* written, also by an iteration whose last window is not full.
BaselineIsWhole == iter.synced => \A x \in Cells : Noise \notin gddram[x]
=============================================================================
