-------------------------- MODULE Transfer_proofs --------------------------
(***************************************************************************)
(* Proofs about where the bytes go, for any width of at most 128 columns,  *)
(* any number of pages, window sizes, chunks and budgets: a byte that is   *)
(* sent lands where it belongs, what is not recorded as dirty is shown,    *)
(* and a baseline is a whole frame.  TransferInv is the inductive          *)
(* invariant; it follows the pointers of the controller, the columns that  *)
(* a job has sent of its page and the bytes that it has counted.           *)
(***************************************************************************)
EXTENDS Transfer, WellFoundedInduction, TLAPS

\* What a column range, a job and the pointers of the controller are.
Ranges == {NoRange} \cup [min : Columns, max : Columns]
JobType ==
  [state : {"IDLE", "SET_COL", "SET_PAGE", "SEND_DATA", "DONE", "ERROR"},
   page : DisplayPages, last : DisplayPages, min : Columns, max : Columns,
   col : Columns, raced : BOOLEAN, bytes : Nat, failed : BOOLEAN]
RegsType ==
  [c0 : Columns, c1 : Columns, p0 : DisplayPages, p1 : DisplayPages, col : Int, page : Int]

Typed ==
  /\ iter \in [window : Nat, active : BOOLEAN, synced : BOOLEAN, pages : BufferSizes]
  /\ ram \in [Offsets -> SUBSET DisplayPages]
  /\ dirty \in [DisplayPages -> Ranges]
  /\ job \in JobType
  /\ poll \in [writes : Nat, bytes : Nat]
  /\ regs \in RegsType
  /\ gddram \in [Cells -> SUBSET (DisplayPages \cup {Noise})]

\* A full framebuffer has one window; pages outside the window are clean, and
\* outside an iteration a page-mode driver has nothing to send.
WindowSafe ==
  /\ ~PageMode => iter.window = 0 /\ ~iter.active
  /\ DirtyPages \subseteq Window
  /\ PageMode /\ ~iter.active => DirtyPages = {} /\ ~IsFlushing

\* A byte of the framebuffer holds pixels of its own page only.
RamSafe ==
  (PageMode => iter.active) =>
    \A p \in Window : \A c \in Columns : ram[Offset(p, c)] \subseteq {p}

\* The job sends a part of what is recorded of its page, all of it unless the page
\* was drawn to since, and the controller's pointers follow it.
JobSafe ==
  IsFlushing =>
    /\ job.page \in Window /\ job.page <= job.last
    /\ job.min <= job.max
    /\ dirty[job.page].min <= job.min /\ job.max <= dirty[job.page].max
    /\ ~job.raced => dirty[job.page] = [min |-> job.min, max |-> job.max]
    /\ job.state = "SET_PAGE" => regs.c0 = job.min /\ regs.c1 = job.max
       /\ regs.col = job.min
    /\ job.state = "SEND_DATA" =>
         /\ regs.c0 = job.min /\ regs.c1 = job.max /\ regs.col = job.col
         /\ regs.p0 = job.page /\ regs.p1 = job.page /\ regs.page = job.page
         /\ job.min <= job.col /\ job.col <= job.max
         /\ poll # NoPoll => poll.bytes > 0

PollSafe == poll # NoPoll => IsFlushing /\ poll.writes > 0

\* The columns of its page that the job has sent.
SentColumns == IF job.state = "SEND_DATA" THEN job.min .. (job.col - 1) ELSE {}

Shown(p, c) == gddram[<<p, c>>] = ram[Offset(p, c)]
Written(p, c) == Noise \notin gddram[<<p, c>>]

\* What was sent of the page is there, unless it was drawn to since.
SentSafe ==
  IsFlushing => \A c \in SentColumns :
    Written(job.page, c) /\ (~job.raced => Shown(job.page, c))

\* No job sends more than every byte of the pages before its own; one that has
\* sent them all has left each of them shown, or recorded as dirty again.
Sent == IF job.state = "SEND_DATA" THEN job.col - job.min ELSE 0
RewriteSafe ==
  IsFlushing =>
    /\ job.bytes <= Width * job.page + Sent
    /\ ~PageMode /\ job.bytes = Width * job.page + Sent =>
         \A p \in DisplayPages : p < job.page => \A c \in Columns :
           Written(p, c) /\ (c \in DirtyColumns(p) \/ Shown(p, c))

\* The windows behind an iteration are written.
IterationSafe ==
  PageMode /\ iter.active =>
    \A p \in DisplayPages : p < iter.window * BufferPages
      => \A c \in Columns : Written(p, c)

TransferInv ==
  /\ Typed /\ WindowSafe /\ RamSafe /\ JobSafe /\ PollSafe /\ SentSafe /\ RewriteSafe
  /\ IterationSafe /\ CleanIsShown /\ BaselineIsWhole
  /\ \A x \in Cells : gddram[x] \subseteq {x[1], Noise}

-----------------------------------------------------------------------------
\* Arithmetic

\* What the assumption says of each constant.
LEMMA TransferConstants ==
  /\ Width \in Nat /\ Width > 0 /\ Width <= 128
  /\ TotalPages \in Nat /\ TotalPages > 0
  /\ ChunkBytes \in Nat /\ ChunkBytes > 0 /\ WriteBytes \in Nat /\ WriteBytes >= 2
  /\ MaxWrites \in Nat
  /\ \A b \in BufferSizes : b \in Nat /\ b > 0 /\ b <= TotalPages
  /\ \A b \in Budgets : b \in Nat /\ b > 0
BY TransferAssumption

\* A set of naturals has a least member, and a bounded one a greatest: the
\* engine looks for the first and the last dirty page, and for the shortest chunk.
LEMMA MinOfNaturals ==
  ASSUME NEW S, S \subseteq Nat, S # {}
  PROVE  Min(S) \in S /\ \A x \in S : Min(S) <= x
<1>1. IsWellFoundedOn(OpToRel(<, Nat), Nat) BY NatLessThanWellFounded
<1>2. PICK m \in S : \A y \in S : ~(<<y, m>> \in OpToRel(<, Nat)) BY <1>1, WFMin
<1>3. \A y \in S : m <= y
  <2> TAKE y \in S
  <2>1. ~(<<y, m>> \in OpToRel(<, Nat)) BY <1>2
  <2>2. ~(y < m) BY <2>1 DEF OpToRel
  <2> QED BY <2>2
<1> QED BY <1>3 DEF Min

\* The greatest member mirrors the least one of the distances to the bound.
LEMMA MaxOfNaturals ==
  ASSUME NEW n \in Nat, NEW S, S \subseteq 0..n, S # {}
  PROVE  Max(S) \in S /\ \A x \in S : x <= Max(S)
<1> DEFINE T == {n - x : x \in S}
<1>1. T \subseteq Nat /\ T # {}
  <2>1. \A x \in S : n - x \in Nat OBVIOUS
  <2>2. T \subseteq Nat BY <2>1
  <2>3. PICK x \in S : TRUE OBVIOUS
  <2>4. n - x \in T BY <2>3
  <2> QED BY <2>2, <2>4
<1>2. Min(T) \in T /\ \A y \in T : Min(T) <= y
  <2> HIDE DEF T
  <2> QED BY <1>1, MinOfNaturals
<1>3. PICK m \in S : Min(T) = n - m BY <1>2
<1>4. \A x \in S : n - m <= n - x BY <1>2, <1>3
<1>5. \A x \in S : x <= m BY <1>4
<1> QED BY <1>5 DEF Max

\* The bounds of a marked range.
LEMMA TwoNaturals ==
  ASSUME NEW a \in Nat, NEW b \in Nat
  PROVE  /\ Min({a, b}) = IF a <= b THEN a ELSE b
         /\ Max({a, b}) = IF a <= b THEN b ELSE a
<1>1. Min({a, b}) \in {a, b} /\ Min({a, b}) <= a /\ Min({a, b}) <= b
  BY MinOfNaturals, {a, b} \subseteq Nat, {a, b} # {}
<1>2. {a, b} \subseteq 0..(a + b) /\ {a, b} # {} /\ a + b \in Nat OBVIOUS
<1>3. Max({a, b}) \in {a, b} /\ a <= Max({a, b}) /\ b <= Max({a, b})
  BY <1>2, MaxOfNaturals
<1> QED BY <1>1, <1>3

\* A column receives the byte that was last sent for it; no other is.
LEMMA MaxOfOne ==
  ASSUME NEW a \in Nat PROVE Max({a}) = a
BY TwoNaturals, {a, a} = {a}

\* Two numbers less than w apart are not a multiple of w apart, unless equal.
LEMMA NoMultiple ==
  ASSUME NEW w \in Nat, NEW k \in Int, w * k < w, w * k > -w
  PROVE  k = 0
<1>1. ASSUME k >= 1 PROVE FALSE
  <2> DEFINE j == k - 1
  <2>1. j \in Nat /\ k = j + 1 BY <1>1
  <2>2. w * k = w * j + w BY <2>1
  <2>3. w * j >= 0 BY <2>1
  <2> QED BY <2>2, <2>3
<1>2. ASSUME k <= -1 PROVE FALSE
  <2> DEFINE j == -k - 1
  <2>1. j \in Nat /\ k = -j - 1 BY <1>2
  <2>2. w * k = -(w * j) - w BY <2>1
  <2>3. w * j >= 0 BY <2>1
  <2> QED BY <2>2, <2>3
<1> QED BY <1>1, <1>2

\* Quotient and remainder are what adds up.
LEMMA Division ==
  ASSUME NEW w \in Nat, w > 0, NEW a \in Int, NEW q \in Int, NEW r \in 0..(w - 1),
    a = w * q + r
  PROVE  a % w = r /\ a \div w = q
<1> DEFINE p == a \div w
           s == a % w
<1>1. p \in Int /\ s \in 0..(w - 1) /\ a = w * p + s OBVIOUS
<1> HIDE DEF p, s
<1>2. w * (q - p) = s - r BY <1>1
<1>3. q - p \in Int BY <1>1
<1>4. q - p = 0 BY <1>1, <1>2, <1>3, NoMultiple
<1>5. q = p BY <1>1, <1>4
<1>6. s = r BY <1>1, <1>5
<1> QED BY <1>5, <1>6 DEF p, s

-----------------------------------------------------------------------------
\* Buffer offsets

\* The last window may be larger than what is left of the display.
LEMMA WindowIsOfDisplay == Window \subseteq DisplayPages
BY DEF Window, InWindow

\* Noise is no page.
LEMMA PagesAreNaturals ==
  /\ \A p \in DisplayPages : p \in Nat /\ p < TotalPages /\ p # Noise
  /\ \A c \in Columns : c \in Nat /\ c < Width
BY TransferConstants DEF DisplayPages, Columns, Noise

\* bufferIndex() stays inside the framebuffer for every page of the display.
LEMMA OffsetInBuffer ==
  ASSUME Typed, NEW p \in DisplayPages, NEW c \in Columns
  PROVE  Offset(p, c) \in Offsets
<1> DEFINE b == BufferPages
           r == p % b
           x == r * Width
           y == Width * b
<1>1. b \in Nat /\ b > 0 /\ p \in Nat /\ c \in Nat /\ c < Width /\ Width \in Nat
      /\ Width > 0
  BY TransferConstants, PagesAreNaturals DEF Typed, BufferPages
<1>2. Offset(p, c) = c + x BY DEF Offset
<1>3. Offsets = 0..(y - 1) BY DEF Offsets
<1> HIDE DEF b
<1>4. r \in 0..(b - 1) BY <1>1
<1> HIDE DEF r
<1>5. x >= 0 /\ (b - 1 - r) * Width >= 0 /\ x \in Int /\ y \in Int BY <1>1, <1>4
<1>6. (b - 1 - r) * Width = y - Width - x BY <1>1, <1>4
<1>7. y - Width - x >= 0 BY <1>5, <1>6
<1> HIDE DEF x, y
<1> QED BY <1>1, <1>2, <1>3, <1>5, <1>7

\* A byte of the window has a place of its own in the framebuffer.
LEMMA OffsetFacts ==
  ASSUME Typed, NEW p \in Window, NEW c \in Columns
  PROVE  /\ Offset(p, c) \in Offsets
         /\ \A d \in Columns : Offset(p, d) = Offset(p, c) + (d - c)
         /\ \A q \in Window, d \in Columns : Offset(q, d) = Offset(p, c) => q = p /\ d = c
<1> USE TransferConstants
<1> DEFINE b == BufferPages
           w == iter.window
<1>1. b \in Nat /\ b > 0 /\ w \in Nat /\ b <= TotalPages BY DEF Typed, BufferPages
<1>2. \A q \in Window : q \in Nat /\ w * b <= q /\ q < w * b + b
  <2>1. (w + 1) * b = w * b + b BY <1>1
  <2> QED BY <2>1 DEF Window, InWindow, DisplayPages
<1> HIDE DEF b, w
<1>3. \A q \in Window : q % b = q - w * b /\ q % b \in 0..(b - 1)
  <2> TAKE q \in Window
  <2> DEFINE r == q - w * b
  <2>0. w * b \in Nat BY <1>1
  <2>1. r \in 0..(b - 1) BY <1>1, <1>2, <2>0
  <2>2. q = b * w + r BY <1>1, <1>2
  <2> HIDE DEF r
  <2>3. q \in Int BY <1>2
  <2>4. q % b = r BY <1>1, <2>1, <2>2, <2>3, Division
  <2> QED BY <2>1, <2>4 DEF r
<1>4. \A q \in Window, d \in Columns : Offset(q, d) = d + (q % b) * Width
  BY DEF Offset, b
<1>5. \A d \in Columns : d \in 0..(Width - 1) BY DEF Columns
<1>6. Offset(p, c) \in Offsets BY OffsetInBuffer, WindowIsOfDisplay
<1>7. ASSUME NEW d \in Columns PROVE Offset(p, d) = Offset(p, c) + (d - c)
  <2> DEFINE x == (p % b) * Width
  <2>1. Offset(p, d) = d + x /\ Offset(p, c) = c + x BY <1>4
  <2>2. x \in Int BY <1>1, <1>3
  <2> HIDE DEF x
  <2> QED BY <1>5, <2>1, <2>2
<1>8. ASSUME NEW q \in Window, NEW d \in Columns, Offset(q, d) = Offset(p, c)
      PROVE  q = p /\ d = c
  <2> DEFINE r == p % b
             s == q % b
  <2>1. r \in 0..(b - 1) /\ s \in 0..(b - 1) BY <1>3
  <2>2. d + s * Width = c + r * Width BY <1>4, <1>8
  <2>3. r = p - w * b /\ s = q - w * b BY <1>3
  <2> HIDE DEF r, s
  <2>4. d \in 0..(Width - 1) /\ c \in 0..(Width - 1) BY <1>5
  <2>5. Width * (s - r) = c - d BY <2>1, <2>2, <2>4
  <2>6. s - r \in Int BY <1>1, <2>1
  <2>7. s - r = 0 BY <2>4, <2>5, <2>6, NoMultiple
  <2>8. d = c BY <2>1, <2>4, <2>5, <2>7
  <2>9. w * b \in Int /\ p \in Int /\ q \in Int BY <1>1, <1>2
  <2> QED BY <2>1, <2>3, <2>7, <2>8, <2>9
<1> QED BY <1>6, <1>7, <1>8

\* The size of the framebuffer is never changed.
LEMMA SameBuffer ==
  ASSUME iter'.pages = iter.pages
  PROVE  /\ (PageMode' <=> PageMode) /\ Offsets' = Offsets /\ BufferPages' = BufferPages
         /\ \A p, c : Offset(p, c)' = Offset(p, c)
         /\ \A w : InWindow(w)' = InWindow(w)
         /\ iter'.window = iter.window => Window' = Window
BY DEF PageMode, Offsets, BufferPages, Offset, InWindow, Window

\* A full framebuffer's window is the whole display.
LEMMA FullWindow ==
  ASSUME Typed, WindowSafe, ~PageMode
  PROVE  Window = DisplayPages /\ BufferPages = TotalPages
<1>1. BufferPages \in Nat /\ BufferPages <= TotalPages /\ BufferPages > 0
  BY TransferConstants DEF Typed, BufferPages
<1>2. BufferPages = TotalPages BY <1>1, TransferConstants DEF PageMode
<1>3. iter.window = 0 BY DEF WindowSafe
<1>4. 0 * BufferPages = 0 /\ (0 + 1) * BufferPages = TotalPages BY <1>1, <1>2
<1>5. InWindow(0) = {p \in DisplayPages : 0 <= p /\ p < TotalPages} BY <1>4 DEF InWindow
<1>6. \A p \in DisplayPages : 0 <= p /\ p < TotalPages BY TransferConstants DEF DisplayPages
<1> QED BY <1>2, <1>3, <1>5, <1>6 DEF Window

\* The bounds of a recorded range.
LEMMA RangeFacts ==
  ASSUME NEW r \in Ranges
  PROVE  /\ r.min \in Nat /\ r.max \in Nat
         /\ r.min <= r.max => r.min \in Columns /\ r.max \in Columns
         /\ r \in [min : Columns, max : Columns] \/ (r = NoRange /\ r.min > r.max)
BY PagesAreNaturals DEF Ranges, NoRange

-----------------------------------------------------------------------------
\* Drawing

\* Marking a rectangle only adds to what is recorded, in the window.
LEMMA MarkedFacts ==
  ASSUME Typed, NEW rect \in Rectangles, NEW d, d = MarkedRect(dirty, rect)
  PROVE  /\ d \in [DisplayPages -> Ranges]
         /\ \A p \in DisplayPages : p \notin Window \cap (rect.p0 .. rect.p1)
            => d[p] = dirty[p]
         /\ \A p \in Window \cap (rect.p0 .. rect.p1) :
              /\ d[p].min <= dirty[p].min /\ d[p].min <= rect.c0
              /\ dirty[p].max <= d[p].max /\ rect.c1 <= d[p].max
         /\ \A p \in DisplayPages, c \in Columns :
              c \in dirty[p].min .. dirty[p].max => c \in d[p].min .. d[p].max
<1>0. rect.c0 \in Columns /\ rect.c1 \in Columns /\ rect.c0 <= rect.c1 BY DEF Rectangles
<1>1. \A p \in DisplayPages : dirty[p] \in Ranges BY DEF Typed
<1>2. \A p \in DisplayPages :
        d[p] = IF p \in Window \cap (rect.p0 .. rect.p1)
               THEN Marked(dirty, p, rect.c0, rect.c1)[p] ELSE dirty[p]
  BY DEF MarkedRect
<1>3. ASSUME NEW p \in Window \cap (rect.p0 .. rect.p1)
      PROVE  /\ d[p] \in [min : Columns, max : Columns]
             /\ d[p].min <= dirty[p].min /\ d[p].min <= rect.c0
             /\ dirty[p].max <= d[p].max /\ rect.c1 <= d[p].max
  <2>0. p \in DisplayPages BY WindowIsOfDisplay
  <2>1. d[p] = [min |-> Min({dirty[p].min, rect.c0}), max |-> Max({dirty[p].max, rect.c1})]
    BY <1>2, <2>0 DEF Marked, Typed
  <2>2. /\ dirty[p].min \in Nat /\ dirty[p].max \in Nat
        /\ dirty[p] \in [min : Columns, max : Columns] \/ dirty[p] = NoRange
    BY <1>1, <2>0, RangeFacts
  <2>3. rect.c0 \in Nat /\ rect.c1 \in Nat /\ rect.c0 < Width BY <1>0, PagesAreNaturals
  <2>4. /\ d[p].min = IF dirty[p].min <= rect.c0 THEN dirty[p].min ELSE rect.c0
        /\ d[p].max = IF dirty[p].max <= rect.c1 THEN rect.c1 ELSE dirty[p].max
    <3>1. Min({dirty[p].min, rect.c0})
          = IF dirty[p].min <= rect.c0 THEN dirty[p].min ELSE rect.c0
      BY <2>2, <2>3, TwoNaturals
    <3>2. Max({dirty[p].max, rect.c1})
          = IF dirty[p].max <= rect.c1 THEN rect.c1 ELSE dirty[p].max
      BY <2>2, <2>3, TwoNaturals
    <3> QED BY <2>1, <3>1, <3>2
  <2>5. d[p].min \in Columns /\ d[p].max \in Columns
    BY <1>0, <2>2, <2>3, <2>4, PagesAreNaturals, TransferConstants DEF NoRange
  <2>6. d[p] \in [min : Columns, max : Columns] BY <2>1, <2>5
  <2> QED BY <2>2, <2>3, <2>4, <2>6
<1>4. d \in [DisplayPages -> Ranges]
  <2>1. \A p \in DisplayPages : d[p] \in Ranges BY <1>1, <1>2, <1>3 DEF Ranges
  <2>2. d = [p \in DisplayPages |-> d[p]] BY DEF MarkedRect
  <2> QED BY <2>1, <2>2
<1>5. ASSUME NEW p \in DisplayPages, NEW c \in Columns, c \in dirty[p].min .. dirty[p].max
      PROVE  c \in d[p].min .. d[p].max
  <2>1. /\ dirty[p].min \in Nat /\ dirty[p].max \in Nat /\ d[p].min \in Nat
           /\ d[p].max \in Nat
    BY <1>1, <1>4, RangeFacts
  <2> QED BY <1>2, <1>3, <1>5, <2>1
<1> QED BY <1>2, <1>3, <1>4, <1>5

\* What is drawn is recorded, and a page that is being sent is told of it.
LEMMA DrawnInv ==
  ASSUME TransferInv, NEW rect \in Rectangles, PageMode => iter.active,
         ram' \in [Offsets -> SUBSET DisplayPages],
         \A p \in Window, c \in Columns :
           /\ ram'[Offset(p, c)] \subseteq {p}
           /\ p \notin rect.p0 .. rect.p1 \/ c \notin rect.c0 .. rect.c1 =>
                ram'[Offset(p, c)] = ram[Offset(p, c)],
         dirty' = MarkedRect(dirty, rect), job' = [job EXCEPT !.raced = Raced(rect)],
         UNCHANGED <<iter, poll, regs, gddram>>
  PROVE  TransferInv'
<1>0. /\ Typed /\ WindowSafe /\ RamSafe /\ JobSafe /\ PollSafe /\ SentSafe /\ RewriteSafe
      /\ IterationSafe /\ CleanIsShown /\ BaselineIsWhole
      /\ \A x \in Cells : gddram[x] \subseteq {x[1], Noise}
  BY DEF TransferInv
<1>1. /\ (PageMode' <=> PageMode) /\ Offsets' = Offsets /\ BufferPages' = BufferPages
      /\ \A p, c : Offset(p, c)' = Offset(p, c)
      /\ Window' = Window /\ DisplayPages' = DisplayPages /\ iter' = iter
         /\ gddram' = gddram
      /\ poll' = poll /\ regs' = regs
  BY SameBuffer
<1>2. /\ dirty' \in [DisplayPages -> Ranges]
      /\ \A p \in DisplayPages : p \notin Window \cap (rect.p0 .. rect.p1)
         => dirty'[p] = dirty[p]
      /\ \A p \in Window \cap (rect.p0 .. rect.p1) :
           /\ dirty'[p].min <= dirty[p].min /\ dirty'[p].min <= rect.c0
           /\ dirty[p].max <= dirty'[p].max /\ rect.c1 <= dirty'[p].max
      /\ \A p \in DisplayPages, c \in Columns :
           c \in dirty[p].min .. dirty[p].max => c \in dirty'[p].min .. dirty'[p].max
  BY <1>0, MarkedFacts
<1>3. /\ job.state = job'.state /\ job.page = job'.page /\ job.last = job'.last
      /\ job.min = job'.min /\ job.max = job'.max /\ job.col = job'.col
         /\ job.bytes = job'.bytes
      /\ job' \in JobType /\ (IsFlushing' <=> IsFlushing)
      /\ IsFlushing /\ ~job'.raced => ~job.raced
         /\ job.page \notin Window \cap (rect.p0 .. rect.p1)
  <2>1. job \in JobType BY <1>0 DEF Typed
  <2>2. Raced(rect) \in BOOLEAN BY <2>1 DEF Raced, JobType, IsFlushing
  <2>3. job'.raced = Raced(rect) /\ job' \in JobType BY <2>1, <2>2 DEF JobType
  <2> QED BY <2>1, <2>3 DEF JobType, IsFlushing, Raced
\* A byte is as it was, or recorded.
<1>4. ASSUME NEW p \in Window, NEW c \in Columns
      PROVE  c \in dirty'[p].min .. dirty'[p].max \/ ram'[Offset(p, c)] = ram[Offset(p, c)]
  <2>1. CASE p \in rect.p0 .. rect.p1 /\ c \in rect.c0 .. rect.c1
    <3>1. dirty'[p].min <= rect.c0 /\ rect.c1 <= dirty'[p].max BY <1>2, <2>1
    <3>2. p \in DisplayPages BY WindowIsOfDisplay
    <3>3. dirty'[p].min \in Nat /\ dirty'[p].max \in Nat BY <1>2, <3>2, RangeFacts
    <3>4. rect.c0 \in Nat /\ rect.c1 \in Nat BY PagesAreNaturals DEF Rectangles
    <3> QED BY <2>1, <3>1, <3>3, <3>4
  <2>2. CASE ~(p \in rect.p0 .. rect.p1 /\ c \in rect.c0 .. rect.c1)
    BY <2>2
  <2> QED BY <2>1, <2>2
<1>5. Typed' BY <1>0, <1>1, <1>2, <1>3 DEF Typed
<1>6. WindowSafe'
  <2>1. DirtyPages' \subseteq Window
    <3> SUFFICES ASSUME NEW p \in DisplayPages,
        dirty'[p].min <= dirty'[p].max PROVE p \in Window
      BY DEF DirtyPages
    <3>1. CASE p \in Window \cap (rect.p0 .. rect.p1) BY <3>1
    <3>2. CASE p \notin Window \cap (rect.p0 .. rect.p1)
      <4>1. p \in DirtyPages BY <1>2, <3>2 DEF DirtyPages
      <4> QED BY <1>0, <4>1 DEF WindowSafe
    <3> QED BY <3>1, <3>2
  <2> QED BY <1>0, <1>1, <2>1 DEF WindowSafe
<1>7. RamSafe' BY <1>1 DEF RamSafe
<1>8. JobSafe'
  <2> SUFFICES ASSUME IsFlushing PROVE JobSafe' BY <1>3 DEF JobSafe
  <2>1. job.page \in Window /\ job.page \in DisplayPages
    BY <1>0, WindowIsOfDisplay DEF JobSafe
  <2>2. dirty'[job.page].min <= job.min /\ job.max <= dirty'[job.page].max
    <3>1. dirty[job.page] \in Ranges /\ dirty'[job.page] \in Ranges
      BY <1>0, <1>2, <2>1 DEF Typed
    <3>2. job.min \in Nat /\ job.max \in Nat BY <1>0, PagesAreNaturals DEF Typed, JobType
    <3>3. dirty[job.page].min <= job.min /\ job.max <= dirty[job.page].max
      BY <1>0 DEF JobSafe
    <3>4. /\ dirty'[job.page].min <= dirty[job.page].min
          /\ dirty[job.page].max <= dirty'[job.page].max
      <4>1. dirty[job.page].min <= dirty[job.page].min
            /\ dirty[job.page].max <= dirty[job.page].max
        BY <3>1, RangeFacts
      <4> QED BY <1>2, <2>1, <4>1
    <3> QED BY <3>1, <3>2, <3>3, <3>4, RangeFacts
  <2>3. ~job'.raced => dirty'[job.page] = [min |-> job.min, max |-> job.max]
    BY <1>0, <1>2, <1>3, <2>1 DEF JobSafe
  <2> QED BY <1>0, <1>1, <1>3, <2>1, <2>2, <2>3 DEF JobSafe
<1>9. PollSafe' BY <1>0, <1>1, <1>3 DEF PollSafe, NoPoll
<1>10. SentSafe'
  <2> SUFFICES ASSUME IsFlushing, NEW c \in SentColumns
               PROVE  Written(job.page, c)' /\ (~job'.raced => Shown(job.page, c)')
    BY <1>3 DEF SentSafe, SentColumns
  <2>1. Written(job.page, c) /\ (~job.raced => Shown(job.page, c)) BY <1>0 DEF SentSafe
  <2>2. c \in Columns /\ job.page \in Window /\ job.page \in DisplayPages
    <3>1. job.min \in Nat /\ job.col \in Nat /\ job.col < Width
      BY <1>0, PagesAreNaturals DEF Typed, JobType
    <3> QED
      BY <1>0, <3>1, WindowIsOfDisplay, TransferConstants DEF SentColumns, JobSafe, Columns
  <2>3. Written(job.page, c)' BY <1>1, <2>1 DEF Written
  <2>4. ASSUME ~job'.raced PROVE Shown(job.page, c)'
    <3>1. job.page \notin rect.p0 .. rect.p1 /\ ~job.raced BY <1>3, <2>2, <2>4
    <3>2. ram'[Offset(job.page, c)] = ram[Offset(job.page, c)] BY <2>2, <3>1
    <3> QED BY <1>1, <1>3, <2>1, <3>1, <3>2 DEF Shown
  <2> QED BY <2>3, <2>4
<1>11. RewriteSafe'
  <2> SUFFICES ASSUME IsFlushing, ~PageMode, job.bytes = Width * job.page + Sent,
                      NEW p \in DisplayPages, p < job.page, NEW c \in Columns
               PROVE  Written(p, c)' /\ (c \in DirtyColumns(p)' \/ Shown(p, c)')
    <3>1. Sent' = Sent BY <1>3 DEF Sent
    <3>2. IsFlushing => job.bytes <= Width * job.page + Sent BY <1>0 DEF RewriteSafe
    <3> QED BY <1>1, <1>3, <3>1, <3>2 DEF RewriteSafe
  <2>1. Written(p, c) /\ (c \in DirtyColumns(p) \/ Shown(p, c)) BY <1>0 DEF RewriteSafe
  <2>2. p \in Window BY <1>0, FullWindow
  <2>3. CASE c \in DirtyColumns(p) BY <1>1, <1>2, <2>1, <2>3 DEF DirtyColumns, Written
  <2>4. CASE Shown(p, c) BY <1>1, <1>4, <2>1, <2>2, <2>4 DEF DirtyColumns, Written, Shown
  <2> QED BY <2>1, <2>3, <2>4
<1>12. IterationSafe' BY <1>0, <1>1 DEF IterationSafe, Written
<1>13. CleanIsShown'
  <2> SUFFICES ASSUME IF PageMode THEN iter.active ELSE iter.synced,
                      NEW p \in Window, NEW c \in Columns
               PROVE  c \in DirtyColumns(p)' \/ gddram'[<<p, c>>] = ram'[Offset(p, c)]
    BY <1>1 DEF CleanIsShown
  <2>1. c \in DirtyColumns(p) \/ gddram[<<p, c>>] = ram[Offset(p, c)]
    BY <1>0 DEF CleanIsShown
  <2>2. p \in DisplayPages BY WindowIsOfDisplay
  <2> QED BY <1>1, <1>2, <1>4, <2>1, <2>2 DEF DirtyColumns
<1>14. BaselineIsWhole' /\ (\A x \in Cells : gddram[x] \subseteq {x[1], Noise})'
  BY <1>0, <1>1 DEF BaselineIsWhole
<1> QED BY <1>5, <1>6, <1>7, <1>8, <1>9, <1>10, <1>11, <1>12, <1>13, <1>14 DEF TransferInv

\* A rectangle is painted where the window has its bytes, and nowhere else.
LEMMA PaintedFacts ==
  ASSUME Typed, RamSafe, PageMode
    => iter.active, NEW rect \in Rectangles, NEW on \in BOOLEAN
  PROVE  /\ Painted(rect, on) \in [Offsets -> SUBSET DisplayPages]
         /\ \A p \in Window, c \in Columns :
              /\ Painted(rect, on)[Offset(p, c)] \subseteq {p}
              /\ p \notin rect.p0 .. rect.p1 \/ c \notin rect.c0 .. rect.c1 =>
                   Painted(rect, on)[Offset(p, c)] = ram[Offset(p, c)]
<1> DEFINE Hit(o) == {p \in Window \cap (rect.p0 .. rect.p1) :
                        \E c \in rect.c0 .. rect.c1 : Offset(p, c) = o}
<1>1. Painted(rect, on)
      = [o \in Offsets |-> IF on THEN ram[o] \cup Hit(o) ELSE ram[o] \ Hit(o)]
  BY DEF Painted
<1>2. \A o \in Offsets : Hit(o) \subseteq DisplayPages BY WindowIsOfDisplay
<1>3. ram \in [Offsets -> SUBSET DisplayPages] BY DEF Typed
<1>4. Painted(rect, on) \in [Offsets -> SUBSET DisplayPages]
  <2> HIDE DEF Hit
  <2>1. \A o \in Offsets : ram[o] \subseteq DisplayPages BY <1>3
  <2>2. \A o \in Offsets :
          (IF on THEN ram[o] \cup Hit(o) ELSE ram[o] \ Hit(o)) \in SUBSET DisplayPages
    BY <1>2, <2>1
  <2> QED BY <1>1, <2>2
<1>5. ASSUME NEW p \in Window, NEW c \in Columns
      PROVE  /\ Painted(rect, on)[Offset(p, c)] \subseteq {p}
             /\ p \notin rect.p0 .. rect.p1 \/ c \notin rect.c0 .. rect.c1 =>
                  Painted(rect, on)[Offset(p, c)] = ram[Offset(p, c)]
  <2>1. Offset(p, c) \in Offsets BY OffsetFacts
  <2>2. \A d \in rect.c0 .. rect.c1 : d \in Columns
    BY PagesAreNaturals, TransferConstants DEF Rectangles, Columns
  <2>3. \A q \in Window, d \in Columns : Offset(q, d) = Offset(p, c) => q = p /\ d = c
    BY OffsetFacts
  <2>4. Hit(Offset(p, c)) \subseteq {p} BY <2>2, <2>3
  <2>5. p \notin rect.p0 .. rect.p1 \/ c \notin rect.c0 .. rect.c1 => Hit(Offset(p, c)) = {}
    BY <2>2, <2>3
  <2>6. ram[Offset(p, c)] \subseteq {p} BY DEF RamSafe
  <2> HIDE DEF Hit
  <2>7. Painted(rect, on)[Offset(p, c)] =
          IF on THEN ram[Offset(p, c)] \cup Hit(Offset(p, c))
          ELSE ram[Offset(p, c)] \ Hit(Offset(p, c))
    BY <1>1, <2>1
  <2> QED BY <2>4, <2>5, <2>6, <2>7
<1> QED BY <1>4, <1>5

\* Marking everything is marking a rectangle.
LEMMA WholeIsARectangle == Whole \in Rectangles
<1>1. 0 \in Columns /\ Width - 1 \in Columns /\ 0 <= Width - 1
  BY TransferConstants DEF Columns
<1>2. 0 \in DisplayPages /\ TotalPages - 1 \in DisplayPages /\ 0 <= TotalPages - 1
  BY TransferConstants DEF DisplayPages
<1> QED BY <1>1, <1>2 DEF Whole, Rectangles

\* An empty framebuffer.
LEMMA BlankFacts ==
  Blank \in [Offsets -> SUBSET DisplayPages] /\ \A o \in Offsets : Blank[o] = {}
BY DEF Blank

\* Both kinds of drawing call record what they draw.
LEMMA DrawingInv ==
  ASSUME TransferInv, (\E rect \in Rectangles, on \in BOOLEAN : DrawRect(rect, on)) \/ Clear
  PROVE  TransferInv'
<1>0. Typed /\ RamSafe BY DEF TransferInv
<1>1. ASSUME NEW rect \in Rectangles, NEW on \in BOOLEAN, DrawRect(rect, on)
      PROVE  TransferInv'
  <2>1. /\ PageMode => iter.active
        /\ ram' = Painted(rect, on) /\ dirty' = MarkedRect(dirty, rect)
        /\ job' = [job EXCEPT !.raced = Raced(rect)]
           /\ UNCHANGED <<iter, poll, regs, gddram>>
    BY <1>1 DEF DrawRect, Mutate
  <2>2. /\ ram' \in [Offsets -> SUBSET DisplayPages]
        /\ \A p \in Window, c \in Columns :
             /\ ram'[Offset(p, c)] \subseteq {p}
             /\ p \notin rect.p0 .. rect.p1 \/ c \notin rect.c0 .. rect.c1 =>
                  ram'[Offset(p, c)] = ram[Offset(p, c)]
    BY <1>0, <2>1, PaintedFacts
  <2> QED BY <2>1, <2>2, DrawnInv
<1>2. CASE Clear
  <2>1. /\ PageMode => iter.active
        /\ ram' = Blank /\ dirty' = MarkedRect(dirty, Whole)
        /\ job' = [job EXCEPT !.raced = Raced(Whole)]
           /\ UNCHANGED <<iter, poll, regs, gddram>>
    BY <1>2 DEF Clear, Mutate
  <2>2. \A p \in Window, c \in Columns : ram'[Offset(p, c)] = {}
    BY <1>0, <2>1, OffsetFacts, BlankFacts
  <2>3. \A p \in Window, c \in Columns : p \in Whole.p0 .. Whole.p1
        /\ c \in Whole.c0 .. Whole.c1
    BY WindowIsOfDisplay DEF Whole, DisplayPages, Columns
  <2>4. ram' \in [Offsets -> SUBSET DisplayPages] BY <2>1, BlankFacts
  <2>5. \A p \in Window, c \in Columns :
          /\ ram'[Offset(p, c)] \subseteq {p}
          /\ p \notin Whole.p0 .. Whole.p1 \/ c \notin Whole.c0 .. Whole.c1 =>
               ram'[Offset(p, c)] = ram[Offset(p, c)]
    BY <2>2, <2>3
  <2> QED BY <2>1, <2>4, <2>5, DrawnInv, WholeIsARectangle
<1> QED BY <1>1, <1>2

-----------------------------------------------------------------------------
\* Jobs

\* The jobs that are not on a page are jobs.
LEMMA JobStates ==
  /\ NoJob \in JobType
  /\ \A j \in JobType, failed \in BOOLEAN : [j EXCEPT !.failed = failed] \in JobType
  /\ job \in JobType => Consumed \in JobType
  /\ [NoJob EXCEPT !.state = "ERROR", !.failed = TRUE] \in JobType
<1>1. 0 \in Columns /\ 0 \in DisplayPages BY TransferConstants DEF Columns, DisplayPages
<1>2. NoJob \in JobType BY <1>1 DEF NoJob, JobType
<1>3. \A j \in JobType, failed \in BOOLEAN : [j EXCEPT !.failed = failed] \in JobType
  BY DEF JobType
<1>4. [NoJob EXCEPT !.state = "ERROR", !.failed = TRUE] \in JobType
  <2>1. [NoJob EXCEPT !.state = "ERROR"] \in JobType BY <1>2 DEF JobType
  <2>2. [NoJob EXCEPT !.state = "ERROR", !.failed = TRUE]
          = [[NoJob EXCEPT !.state = "ERROR"] EXCEPT !.failed = TRUE]
    BY DEF NoJob
  <2> QED BY <1>3, <2>1, <2>2
<1> QED BY <1>2, <1>3, <1>4 DEF Consumed

\* A job that starts on a page has all of the page's record to send.
LEMMA PageOfJobFacts ==
  ASSUME NEW d, NEW p \in DisplayPages, NEW last \in DisplayPages,
         d[p] \in Ranges, d[p].min <= d[p].max, NEW new, new = PageOfJob(d, p, last)
  PROVE  /\ new \in JobType /\ new.state = "SET_COL" /\ new.page = p /\ new.last = last
         /\ new.min = d[p].min /\ new.max = d[p].max /\ ~new.raced /\ new.bytes = 0
         /\ d[p] = [min |-> new.min, max |-> new.max]
<1> DEFINE lo == d[p].min
           hi == d[p].max
           j == [NoJob EXCEPT !.state = "SET_COL", !.page = p, !.last = last]
           k == [j EXCEPT !.min = lo, !.max = hi]
<1>1. lo \in Columns /\ hi \in Columns /\ d[p] = [min |-> lo, max |-> hi] BY RangeFacts
<1>2. PageOfJob(d, p, last) = [k EXCEPT !.col = lo] BY DEF PageOfJob
<1> HIDE DEF lo, hi
<1>3. NoJob \in JobType /\ ~NoJob.raced /\ NoJob.bytes = 0 BY JobStates DEF NoJob
<1>4. /\ j \in JobType /\ j.state = "SET_COL" /\ j.page = p /\ j.last = last
      /\ ~j.raced /\ j.bytes = 0
  BY <1>3 DEF JobType
<1> HIDE DEF j
<1>5. /\ k \in JobType /\ k.state = "SET_COL" /\ k.page = p /\ k.last = last
      /\ k.min = lo /\ k.max = hi /\ ~k.raced /\ k.bytes = 0
  BY <1>1, <1>4 DEF JobType
<1> HIDE DEF k
<1>6. LET m == [k EXCEPT !.col = lo]
      IN  /\ m \in JobType /\ m.state = "SET_COL" /\ m.page = p /\ m.last = last
          /\ m.min = lo /\ m.max = hi /\ ~m.raced /\ m.bytes = 0
  BY <1>1, <1>5 DEF JobType
<1> QED BY <1>1, <1>2, <1>6 DEF lo, hi

\* Without a job, its parts of the invariant say nothing.
LEMMA IdleInv ==
  ASSUME Typed', WindowSafe', RamSafe', IterationSafe', CleanIsShown', BaselineIsWhole',
         (\A x \in Cells : gddram[x] \subseteq {x[1], Noise})', ~IsFlushing', poll' = NoPoll
  PROVE  TransferInv'
<1>1. JobSafe' /\ SentSafe' /\ RewriteSafe' BY DEF JobSafe, SentSafe, RewriteSafe
<1>2. PollSafe' BY DEF PollSafe, NoPoll
<1> QED BY <1>1, <1>2 DEF TransferInv

\* The parts that do not speak of the job.
LEMMA OthersStay ==
  ASSUME TransferInv, UNCHANGED <<ram, iter, gddram>>,
         \A p \in DisplayPages, c \in Columns :
           c \in dirty[p].min .. dirty[p].max => c \in dirty'[p].min .. dirty'[p].max
  PROVE  /\ RamSafe' /\ IterationSafe' /\ CleanIsShown' /\ BaselineIsWhole'
         /\ (\A x \in Cells : gddram[x] \subseteq {x[1], Noise})'
<1>1. /\ (PageMode' <=> PageMode) /\ Offsets' = Offsets /\ BufferPages' = BufferPages
      /\ \A p, c : Offset(p, c)' = Offset(p, c)
      /\ Window' = Window /\ iter' = iter /\ gddram' = gddram /\ ram' = ram
  BY SameBuffer
<1>2. RamSafe' BY <1>1 DEF TransferInv, RamSafe
<1>3. IterationSafe' BY <1>1 DEF TransferInv, IterationSafe, Written
<1>4. CleanIsShown'
  <2> SUFFICES ASSUME IF PageMode THEN iter.active ELSE iter.synced,
                      NEW p \in Window, NEW c \in Columns
               PROVE  c \in DirtyColumns(p)' \/ gddram'[<<p, c>>] = ram'[Offset(p, c)]
    BY <1>1 DEF CleanIsShown
  <2>1. c \in DirtyColumns(p) \/ gddram[<<p, c>>] = ram[Offset(p, c)]
    BY DEF TransferInv, CleanIsShown
  <2> QED BY <1>1, <2>1, WindowIsOfDisplay DEF DirtyColumns
<1> QED BY <1>1, <1>2, <1>3, <1>4 DEF TransferInv, BaselineIsWhole

\* A request starts on the first page that has something recorded.
LEMMA RequestedInv ==
  ASSUME TransferInv, ~IsFlushing, poll = NoPoll,
    UNCHANGED <<ram, iter, poll, regs, gddram>>,
         \/ dirty' = dirty
         \/ (PageMode => iter.active)
            /\ \E rect \in Rectangles : dirty' = MarkedRect(dirty, rect),
         job' = RequestedJob(dirty')
  PROVE  TransferInv'
<1>0. Typed /\ WindowSafe BY DEF TransferInv
<1>1. /\ (PageMode' <=> PageMode) /\ Offsets' = Offsets /\ Window' = Window /\ iter' = iter
  BY SameBuffer
<1>2. /\ dirty' \in [DisplayPages -> Ranges]
      /\ \A p \in DisplayPages, c \in Columns :
           c \in dirty[p].min .. dirty[p].max => c \in dirty'[p].min .. dirty'[p].max
      /\ \A p \in DisplayPages : p \notin Window => dirty'[p] = dirty[p]
      /\ PageMode /\ ~iter.active => dirty' = dirty
  <2>1. CASE dirty' = dirty BY <1>0, <2>1 DEF Typed
  <2>2. ASSUME PageMode
        => iter.active, NEW rect \in Rectangles, dirty' = MarkedRect(dirty, rect)
        PROVE  /\ dirty' \in [DisplayPages -> Ranges]
               /\ \A p \in DisplayPages, c \in Columns :
                    c \in dirty[p].min .. dirty[p].max
                      => c \in dirty'[p].min .. dirty'[p].max
               /\ \A p \in DisplayPages : p \notin Window => dirty'[p] = dirty[p]
               /\ PageMode => iter.active
    BY <1>0, <2>2, MarkedFacts
  <2> QED BY <2>1, <2>2
<1>3. PICK pages : pages = {p \in DisplayPages : dirty'[p].min <= dirty'[p].max} OBVIOUS
<1>4. DirtyPages' = pages /\ pages \subseteq Window
      /\ (PageMode /\ ~iter.active => pages = {})
  BY <1>0, <1>2, <1>3 DEF DirtyPages, WindowSafe
<1>5. RamSafe' /\ IterationSafe' /\ CleanIsShown' /\ BaselineIsWhole'
      /\ (\A x \in Cells : gddram[x] \subseteq {x[1], Noise})'
  BY <1>2, OthersStay
<1>6. CASE pages = {}
  <2>1. job' = Consumed BY <1>3, <1>6 DEF RequestedJob
  <2>2. Consumed.state \notin {"SET_COL", "SET_PAGE", "SEND_DATA"}
    BY DEF Consumed, NoJob, IsFlushing
  <2>3. ~IsFlushing' /\ job' \in JobType
    BY <1>0, <2>1, <2>2, JobStates DEF Typed, IsFlushing
  <2>4. Typed' BY <1>0, <1>1, <1>2, <2>3 DEF Typed
  <2>5. WindowSafe' BY <1>0, <1>1, <1>4, <2>3 DEF WindowSafe
  <2> QED BY <1>5, <2>3, <2>4, <2>5, IdleInv
<1>7. CASE pages # {}
  <2> DEFINE first == Min(pages)
             last == Max(pages)
  <2>1. pages \subseteq 0..(TotalPages - 1) /\ TotalPages - 1 \in Nat /\ pages \subseteq Nat
    BY <1>3, TransferConstants DEF DisplayPages
  <2>2. first \in pages /\ last \in pages /\ first <= last
    BY <1>7, <2>1, MinOfNaturals, MaxOfNaturals
  <2>3. job' = PageOfJob(dirty', first, last) BY <1>3, <1>7 DEF RequestedJob
  <2> HIDE DEF first, last
  <2>4. first \in DisplayPages /\ last \in DisplayPages
        /\ dirty'[first].min <= dirty'[first].max
    BY <1>3, <2>2
  <2>5. /\ job' \in JobType /\ job'.state = "SET_COL" /\ job'.page = first
           /\ job'.last = last
        /\ job'.min = dirty'[first].min /\ job'.max = dirty'[first].max
        /\ ~job'.raced /\ job'.bytes = 0
           /\ dirty'[first] = [min |-> job'.min, max |-> job'.max]
    <3>1. PICK d, new : d = dirty' /\ new = job' OBVIOUS
    <3>2. /\ d[first] \in Ranges /\ d[first].min <= d[first].max
          /\ new = PageOfJob(d, first, last)
      BY <1>2, <2>3, <2>4, <3>1
    <3>3. /\ new \in JobType /\ new.state = "SET_COL" /\ new.page = first /\ new.last = last
          /\ new.min = d[first].min /\ new.max = d[first].max
          /\ ~new.raced /\ new.bytes = 0 /\ d[first] = [min |-> new.min, max |-> new.max]
      BY <2>4, <3>2, PageOfJobFacts
    <3> QED BY <3>1, <3>3
  <2>6. IsFlushing' /\ SentColumns' = {} /\ Sent' = 0
    BY <2>5 DEF IsFlushing, SentColumns, Sent
  <2>7. Typed' BY <1>0, <1>1, <1>2, <2>5 DEF Typed
  <2>8. WindowSafe' BY <1>0, <1>1, <1>4, <1>7 DEF WindowSafe
  <2>9. JobSafe'
    <3>1. /\ first \in Window /\ first <= last BY <1>4, <2>2
    <3>2. /\ dirty'[first].min <= job'.min /\ job'.max <= dirty'[first].max
          /\ job'.min <= job'.max
      <4>1. dirty'[first] \in Ranges BY <1>2, <2>4
      <4> QED BY <2>4, <2>5, <4>1, RangeFacts
    <3> QED BY <1>1, <2>5, <3>1, <3>2 DEF JobSafe
  <2>10. PollSafe' BY DEF PollSafe, NoPoll
  <2>11. SentSafe' BY <2>6 DEF SentSafe
  <2>12. RewriteSafe'
    <3>1. first \in Nat BY <2>4, PagesAreNaturals
    <3>2. 0 <= Width * first + 0 BY <3>1, TransferConstants
    <3>3. first > 0 => 0 # Width * first + 0 BY <3>1, TransferConstants
    <3>4. first = 0 => \A p \in DisplayPages : ~(p < first) BY PagesAreNaturals
    <3> QED BY <2>5, <2>6, <3>1, <3>2, <3>3, <3>4 DEF RewriteSafe
  <2> QED BY <1>5, <2>7, <2>8, <2>9, <2>10, <2>11, <2>12 DEF TransferInv
<1> QED BY <1>6, <1>7

\* Every way to request a job: whole frame, rectangle, and the next page's.
LEMMA RequestInv ==
  ASSUME TransferInv,
         RequestFlush \/ (\E rect \in Rectangles : RequestFlushRect(rect)) \/ NextPageSends
  PROVE  TransferInv'
<1>1. CASE RequestFlush BY <1>1, RequestedInv DEF RequestFlush
<1>2. ASSUME NEW rect \in Rectangles, RequestFlushRect(rect) PROVE TransferInv'
  BY <1>2, RequestedInv DEF RequestFlushRect
<1>3. CASE NextPageSends
  <2>1. /\ poll = NoPoll /\ iter.active /\ ~IsFlushing
           /\ UNCHANGED <<ram, iter, poll, regs, gddram>>
        /\ dirty' = MarkedRect(dirty, Whole) /\ job' = RequestedJob(dirty')
    BY <1>3 DEF NextPageSends, NextPage
  <2> QED BY <2>1, RequestedInv, WholeIsARectangle
<1> QED BY <1>1, <1>2, <1>3
-----------------------------------------------------------------------------
\* Polls and address windows

\* A poll that goes on has a transaction left and, at data, bytes.
LEMMA PollAfterFacts ==
  ASSUME TransferInv, poll # NoPoll, NEW state, NEW bytes \in Nat, NEW next,
         next = PollAfter(state, bytes)
  PROVE  /\ next \in [writes : Nat, bytes : Nat]
         /\ next # NoPoll => /\ state \in {"SET_COL", "SET_PAGE", "SEND_DATA"}
                             /\ next.writes > 0
                             /\ state = "SEND_DATA" => next.bytes > 0
<1>1. poll \in [writes : Nat, bytes : Nat] /\ poll.writes > 0
  BY DEF TransferInv, Typed, PollSafe
<1>2. CASE next = NoPoll BY <1>2 DEF NoPoll
<1>3. CASE next # NoPoll
  <2>1. /\ state \in {"SET_COL", "SET_PAGE", "SEND_DATA"}
        /\ poll.writes # 1 /\ ~(state = "SEND_DATA" /\ bytes = 0)
        /\ next = [writes |-> poll.writes - 1, bytes |-> bytes]
    BY <1>3 DEF PollAfter
  <2>2. poll.writes - 1 \in Nat /\ poll.writes - 1 > 0 BY <1>1, <2>1
  <2> QED BY <2>1, <2>2
<1> QED BY <1>2, <1>3

\* A poll that starts has both; one that finds a terminal job consumes it.
LEMMA PollInv ==
  ASSUME TransferInv,
         (\E n \in 1..MaxWrites, budget \in Budgets : PollFlush(n, budget))
           \/ PollFlushEnded
  PROVE  TransferInv'
<1>0. Typed /\ WindowSafe BY DEF TransferInv
<1>1. ASSUME NEW n \in 1..MaxWrites, NEW budget \in Budgets, PollFlush(n, budget)
      PROVE  TransferInv'
  <2>1. /\ IsFlushing /\ poll' = [writes |-> n, bytes |-> budget]
        /\ UNCHANGED <<ram, dirty, job, iter, regs, gddram, bound>>
    BY <1>1 DEF PollFlush
  <2>2. n \in Nat /\ n > 0 /\ budget \in Nat /\ budget > 0 BY TransferConstants
  <2>3. /\ (PageMode' <=> PageMode) /\ Offsets' = Offsets /\ BufferPages' = BufferPages
        /\ \A p, c : Offset(p, c)' = Offset(p, c)
        /\ Window' = Window /\ (IsFlushing' <=> IsFlushing) /\ Sent' = Sent
        /\ SentColumns' = SentColumns
    BY <2>1, SameBuffer DEF IsFlushing, Sent, SentColumns
  <2>4. Typed' BY <1>0, <2>1, <2>2, <2>3 DEF Typed
  <2>5. WindowSafe' BY <1>0, <2>1, <2>3 DEF WindowSafe, DirtyPages
  <2>6. JobSafe' BY <2>1, <2>2, <2>3 DEF TransferInv, JobSafe
  <2>7. PollSafe' BY <2>1, <2>2, <2>3 DEF PollSafe
  <2>8. SentSafe' BY <2>1, <2>3 DEF TransferInv, SentSafe, Written, Shown
  <2>9. RewriteSafe'
    BY <2>1, <2>3 DEF TransferInv, RewriteSafe, Written, Shown, DirtyColumns
  <2> QED BY <2>1, <2>4, <2>5, <2>6, <2>7, <2>8, <2>9, OthersStay DEF TransferInv
<1>2. CASE PollFlushEnded
  <2>1. /\ poll = NoPoll /\ job.state \in {"DONE", "ERROR"} /\ job' = Consumed
        /\ UNCHANGED <<ram, dirty, iter, poll, regs, gddram, bound>>
    BY <1>2 DEF PollFlushEnded
  <2>2. Consumed \in JobType /\ Consumed.state = "IDLE"
    BY <1>0, <2>1, JobStates DEF Typed, Consumed, NoJob
  <2>3. ~IsFlushing' BY <2>1, <2>2 DEF IsFlushing
  <2>4. Typed' BY <1>0, <2>1, <2>2, SameBuffer DEF Typed
  <2>5. WindowSafe' BY <1>0, <2>1, <2>3, SameBuffer DEF WindowSafe, DirtyPages
  <2> QED BY <2>1, <2>3, <2>4, <2>5, OthersStay, IdleInv
<1> QED BY <1>1, <1>2

\* An address window is that of the job; the job's record is not touched.
LEMMA AddressInv ==
  ASSUME TransferInv, SendColumns \/ SendPage
  PROVE  TransferInv'
<1>0. Typed /\ WindowSafe /\ JobSafe BY DEF TransferInv
<1>1. /\ job \in JobType /\ regs \in RegsType /\ poll.bytes \in Nat BY <1>0 DEF Typed
<1>2. /\ poll # NoPoll /\ UNCHANGED <<ram, dirty, iter, gddram, bound>>
      /\ job.state \in {"SET_COL", "SET_PAGE"}
  BY DEF SendColumns, SendPage
<1>3. /\ job' \in JobType /\ regs' \in RegsType /\ job'.state \in {"SET_PAGE", "SEND_DATA"}
      /\ job'.page = job.page /\ job'.last = job.last /\ job'.min = job.min
         /\ job'.max = job.max
      /\ job'.raced = job.raced /\ job'.bytes = job.bytes
      /\ job'.state = "SEND_DATA" => job'.col = job'.min
  <2>1. CASE SendColumns
    <3>1. /\ job' = [job EXCEPT !.state = "SET_PAGE"]
          /\ regs' = [regs EXCEPT !.c0 = job.min, !.c1 = job.max, !.col = job.min]
      BY <2>1 DEF SendColumns, SetColumns
    <3>2. job.min \in Int BY <1>1, PagesAreNaturals DEF JobType
    <3> QED BY <1>1, <3>1, <3>2 DEF JobType, RegsType
  <2>2. CASE SendPage
    <3>1. /\ job' = [job EXCEPT !.state = "SEND_DATA", !.col = job.min]
          /\ regs' = [regs EXCEPT !.p0 = job.page, !.p1 = job.page, !.page = job.page]
      BY <2>2 DEF SendPage, SetPages
    <3>2. job.page \in Int BY <1>1, PagesAreNaturals DEF JobType
    <3> QED BY <1>1, <3>1, <3>2 DEF JobType, RegsType
  <2> QED BY <2>1, <2>2
<1>4. /\ poll' \in [writes : Nat, bytes : Nat]
      /\ poll' # NoPoll => /\ poll'.writes > 0
                           /\ job'.state = "SEND_DATA" => poll'.bytes > 0
  <2>1. poll' = PollAfter(job'.state, poll.bytes)
    BY <1>1, <1>2 DEF SendColumns, SendPage, JobType
  <2> QED BY <1>1, <1>2, <2>1, PollAfterFacts
<1>5. /\ (PageMode' <=> PageMode) /\ Offsets' = Offsets /\ BufferPages' = BufferPages
      /\ \A p, c : Offset(p, c)' = Offset(p, c)
      /\ Window' = Window /\ IsFlushing /\ IsFlushing'
  BY <1>2, <1>3, SameBuffer DEF IsFlushing
<1>6. /\ SentColumns = {} /\ Sent = 0 /\ SentColumns' = {} /\ Sent' = 0
  <2>1. job.min \in Nat /\ job'.min \in Nat /\ job'.col \in Nat
    BY <1>1, <1>3, PagesAreNaturals DEF JobType
  <2> QED BY <1>2, <1>3, <2>1 DEF SentColumns, Sent
<1>7. Typed' BY <1>0, <1>2, <1>3, <1>4, <1>5 DEF Typed
<1>8. WindowSafe' BY <1>0, <1>2, <1>5 DEF WindowSafe, DirtyPages
<1>9. JobSafe'
  <2>1. /\ job.page \in Window /\ job.page <= job.last
        /\ job.min <= job.max
        /\ dirty[job.page].min <= job.min /\ job.max <= dirty[job.page].max
        /\ ~job.raced => dirty[job.page] = [min |-> job.min, max |-> job.max]
    BY <1>0, <1>5 DEF JobSafe
  <2>2. job'.state = "SET_PAGE" =>
          regs'.c0 = job.min /\ regs'.c1 = job.max /\ regs'.col = job.min
    <3>1. ASSUME job'.state = "SET_PAGE"
          PROVE  regs' = [regs EXCEPT !.c0 = job.min, !.c1 = job.max, !.col = job.min]
      BY <1>1, <3>1 DEF SendColumns, SendPage, SetColumns, JobType
    <3> QED BY <1>1, <3>1 DEF RegsType
  <2>3. job'.state = "SEND_DATA" =>
          /\ regs'.c0 = job.min /\ regs'.c1 = job.max /\ regs'.col = job.min
          /\ regs'.p0 = job.page /\ regs'.p1 = job.page /\ regs'.page = job.page
    <3>1. ASSUME job'.state = "SEND_DATA"
          PROVE  /\ regs'
            = [regs EXCEPT !.p0 = job.page, !.p1 = job.page, !.page = job.page]
                 /\ job.state = "SET_PAGE"
      BY <1>1, <3>1 DEF SendColumns, SendPage, SetPages, JobType
    <3>2. job.state = "SET_PAGE" => regs.c0 = job.min /\ regs.c1 = job.max
          /\ regs.col = job.min
      BY <1>0, <1>5 DEF JobSafe
    <3> QED BY <1>1, <3>1, <3>2 DEF RegsType
  <2>4. job.min <= job.min BY <1>1, PagesAreNaturals DEF JobType
  <2> QED BY <1>2, <1>3, <1>4, <1>5, <2>1, <2>2, <2>3, <2>4 DEF JobSafe, NoPoll
<1>10. PollSafe' BY <1>4, <1>5 DEF PollSafe, NoPoll
<1>11. SentSafe' BY <1>6 DEF SentSafe
<1>12. RewriteSafe'
  BY <1>2, <1>3, <1>5, <1>6 DEF TransferInv, RewriteSafe, Written, Shown, DirtyColumns
<1> QED BY <1>2, <1>7, <1>8, <1>9, <1>10, <1>11, <1>12, OthersStay DEF TransferInv

-----------------------------------------------------------------------------
\* Data bytes

\* Where the job stands when it sends data.
LEMMA SendingFacts ==
  ASSUME TransferInv, job.state = "SEND_DATA"
  PROVE  /\ job.page \in Window /\ job.page \in DisplayPages /\ job.page \in Nat
         /\ {job.min, job.col, job.max} \subseteq Columns
         /\ {job.min, job.col, job.max} \subseteq Nat
         /\ job.min <= job.col /\ job.col <= job.max /\ job.max < Width
         /\ regs \in RegsType
         /\ regs.c0 = job.min /\ regs.c1 = job.max /\ regs.col = job.col
         /\ regs.p0 = job.page /\ regs.p1 = job.page /\ regs.page = job.page
         /\ IsFlushing
<1>1. Typed /\ JobSafe /\ IsFlushing BY DEF TransferInv, IsFlushing
<1>2. /\ job.page \in Window
      /\ regs.c0 = job.min /\ regs.c1 = job.max /\ regs.col = job.col
      /\ regs.p0 = job.page /\ regs.p1 = job.page /\ regs.page = job.page
      /\ job.min <= job.col /\ job.col <= job.max
  BY <1>1 DEF JobSafe
<1>3. regs \in RegsType /\ {job.min, job.col, job.max} \subseteq Columns
  BY <1>1 DEF Typed, JobType
<1> QED BY <1>1, <1>2, <1>3, PagesAreNaturals, WindowIsOfDisplay

\* A transaction sends at least one byte and never runs over the end of the window.
LEMMA ChunkFacts ==
  ASSUME TransferInv, job.state = "SEND_DATA", poll # NoPoll
  PROVE  Chunk \in Nat /\ Chunk >= 1 /\ job.col + Chunk <= job.max + 1
    /\ Chunk <= poll.bytes
<1> DEFINE S == {job.max - job.col + 1, ChunkBytes, WriteBytes - 1, poll.bytes}
<1>1. poll.bytes \in Nat /\ poll.bytes > 0
  BY DEF TransferInv, Typed, JobSafe, IsFlushing
<1>2. job.max \in Nat /\ job.col \in Nat /\ job.col <= job.max BY SendingFacts
<1>3. \A x \in S : x \in Nat /\ x >= 1 BY <1>1, <1>2, TransferConstants
<1>4. job.max - job.col + 1 \in S /\ poll.bytes \in S OBVIOUS
<1>5. Chunk = Min(S) BY DEF Chunk
<1> HIDE DEF S
<1>6. Min(S) \in S /\ \A x \in S : Min(S) <= x BY <1>3, <1>4, MinOfNaturals
<1>7. Min(S) \in Nat /\ Min(S) >= 1 /\ Min(S) <= job.max - job.col + 1
      /\ Min(S) <= poll.bytes
  BY <1>3, <1>4, <1>6
<1> QED BY <1>2, <1>5, <1>7

\* The pointers stay on the page and move along its columns.
LEMMA AdvancedFacts ==
  ASSUME TransferInv, job.state = "SEND_DATA", NEW k \in Nat, job.col + k <= job.max + 1
  PROVE  /\ Advanced(regs, k) \in RegsType
         /\ Advanced(regs, k).c0 = job.min /\ Advanced(regs, k).c1 = job.max
         /\ Advanced(regs, k).p0 = job.page /\ Advanced(regs, k).p1 = job.page
         /\ job.col + k <= job.max =>
              Advanced(regs, k).page = job.page /\ Advanced(regs, k).col = job.col + k
<1> DEFINE w == job.max - job.min + 1
           at == (job.col - job.min + k) % w
<1>1. /\ job.page \in Nat /\ job.min \in Nat /\ job.col \in Nat /\ job.max \in Nat
      /\ job.min <= job.col /\ job.col <= job.max /\ regs \in RegsType
      /\ regs.c0 = job.min /\ regs.c1 = job.max /\ regs.col = job.col
      /\ regs.p0 = job.page /\ regs.p1 = job.page /\ regs.page = job.page
  BY SendingFacts
<1>2. w \in Nat /\ w > 0 BY <1>1
<1>3. at \in 0..(w - 1) BY <1>1, <1>2
<1>4. Advanced(regs, k)
      = [regs EXCEPT !.page = job.page + (at \div w), !.col = job.min + (at % w)]
  <2> DEFINE v == regs.c1 - regs.c0 + 1
             h == regs.p1 - regs.p0 + 1
             b == ((regs.page - regs.p0) * v + (regs.col - regs.c0) + k) % (v * h)
  <2>1. v = w /\ h = 1 /\ regs.page - regs.p0 = 0 BY <1>1
  <2>2. Advanced(regs, k)
        = [regs EXCEPT !.page = regs.p0 + (b \div v), !.col = regs.c0 + (b % v)]
    BY DEF Advanced
  <2>3. v * h = w BY <1>2, <2>1
  <2>4. (regs.page - regs.p0) * v + (regs.col - regs.c0) + k = job.col - job.min + k
    <3>1. 0 * w = 0 BY <1>2
    <3> HIDE DEF w, v
    <3> QED BY <1>1, <2>1, <3>1
  <2>5. b = at BY <2>3, <2>4
  <2> HIDE DEF b, at, v, w, h
  <2> QED BY <1>1, <2>1, <2>2, <2>5
<1>5. at \div w = 0 /\ at % w = at
  <2> HIDE DEF at, w
  <2>1. at = w * 0 + at BY <1>2, <1>3
  <2> QED BY <1>2, <1>3, <2>1, Division
<1>6. job.col + k <= job.max => at = job.col - job.min + k
  <2> SUFFICES ASSUME job.col + k <= job.max PROVE at = job.col - job.min + k OBVIOUS
  <2> DEFINE a == job.col - job.min + k
  <2>1. a \in 0..(w - 1) BY <1>1
  <2>2. at = a % w OBVIOUS
  <2> HIDE DEF a, w, at
  <2>3. a = w * 0 + a BY <1>2, <2>1
  <2>4. a % w = a BY <1>2, <2>1, <2>3, Division
  <2> QED BY <2>2, <2>4 DEF a
<1>7. Advanced(regs, k) = [regs EXCEPT !.page = job.page, !.col = job.min + at]
  <2> DEFINE q == at \div w
             r == at % w
  <2>1. q = 0 /\ r = at BY <1>5
  <2>2. Advanced(regs, k) = [regs EXCEPT !.page = job.page + q, !.col = job.min + r] BY <1>4
  <2> HIDE DEF q, r, at
  <2>3. job.page + q = job.page BY <1>1, <2>1
  <2> QED BY <2>1, <2>2, <2>3
<1> HIDE DEF at, w
<1>8. job.page \in Int /\ job.min + at \in Int BY <1>1, <1>2, <1>3
<1>9. job.col + k <= job.max => job.min + at = job.col + k BY <1>1, <1>6
<1> QED BY <1>1, <1>7, <1>8, <1>9 DEF RegsType

\* The bytes that arrive are those of the framebuffer, each where it belongs.
LEMMA StoredFacts ==
  ASSUME TransferInv, job.state = "SEND_DATA", NEW k \in Nat, job.col + k <= job.max + 1,
         NEW new, new = Stored(Offset(job.page, job.col), k)
  PROVE  /\ new \in [Cells -> SUBSET (DisplayPages \cup {Noise})]
         /\ \A p \in DisplayPages, c \in Columns :
              new[<<p, c>>] = IF p = job.page /\ c \in job.col .. (job.col + k - 1)
                              THEN ram[Offset(p, c)] ELSE gddram[<<p, c>>]
<1> DEFINE o == Offset(job.page, job.col)
           Hits(x) == {i \in 0..(k - 1) : <<Advanced(regs, i).page, Advanced(regs, i).col>> = x}
<1>0. Typed /\ job.page \in Window /\ job.col \in Columns /\ job.col \in Nat
      /\ job.max \in Nat
      /\ job.page \in DisplayPages
  BY SendingFacts DEF TransferInv
<1>1. new = [x \in Cells |-> IF Hits(x) = {} THEN gddram[x] ELSE ram[o + Max(Hits(x))]]
  BY DEF Stored
<1>2. \A i \in 0..(k - 1) : Advanced(regs, i).page = job.page
      /\ Advanced(regs, i).col = job.col + i
  <2> TAKE i \in 0..(k - 1)
  <2>1. i \in Nat /\ job.col + i <= job.max + 1 /\ job.col + i <= job.max BY <1>0
  <2> QED BY <2>1, AdvancedFacts
<1>3. \A x : Hits(x) = {i \in 0..(k - 1) : <<job.page, job.col + i>> = x} BY <1>2
<1> HIDE DEF Hits
<1>4. ASSUME NEW p \in DisplayPages, NEW c \in Columns
      PROVE  new[<<p, c>>] = IF p = job.page /\ c \in job.col .. (job.col + k - 1)
                             THEN ram[Offset(p, c)] ELSE gddram[<<p, c>>]
  <2>1. new[<<p, c>>] = IF Hits(<<p, c>>) = {} THEN gddram[<<p, c>>]
                        ELSE ram[o + Max(Hits(<<p, c>>))]
    <3> HIDE DEF o
    <3> QED BY <1>1 DEF Cells
  <2>2. c \in Nat BY PagesAreNaturals
  <2>3. ASSUME p = job.page, c \in job.col .. (job.col + k - 1)
        PROVE  new[<<p, c>>] = ram[Offset(p, c)]
    <3>1. Hits(<<p, c>>) = {c - job.col}
      <4>1. c - job.col \in 0..(k - 1) /\ job.col + (c - job.col) = c BY <1>0, <2>2, <2>3
      <4>2. \A i \in 0..(k - 1) : <<job.page, job.col + i>> = <<p, c>> => i = c - job.col
        BY <1>0, <2>2
      <4> QED BY <1>3, <2>3, <4>1, <4>2
    <3>2. c - job.col \in Nat BY <1>0, <2>2, <2>3
    <3>3. Max(Hits(<<p, c>>)) = c - job.col BY <3>1, <3>2, MaxOfOne
    <3>4. Offset(p, c) = o + (c - job.col) BY <1>0, <2>3, OffsetFacts
    <3> HIDE DEF o
    <3> QED BY <2>1, <3>1, <3>3, <3>4
  <2>4. ASSUME ~(p = job.page /\ c \in job.col .. (job.col + k - 1))
        PROVE  new[<<p, c>>] = gddram[<<p, c>>]
    <3>1. \A i \in 0..(k - 1) : <<job.page, job.col + i>> # <<p, c>>
      <4> SUFFICES ASSUME NEW i \in 0..(k - 1), job.page = p,
          job.col + i = c PROVE FALSE OBVIOUS
      <4> QED BY <1>0, <2>4
    <3>2. Hits(<<p, c>>) = {} BY <1>3, <3>1
    <3> QED BY <2>1, <3>2
  <2> QED BY <2>3, <2>4
<1>5. new \in [Cells -> SUBSET (DisplayPages \cup {Noise})]
  <2>1. ASSUME NEW x \in Cells PROVE new[x] \in SUBSET (DisplayPages \cup {Noise})
    <3>1. PICK p \in DisplayPages, c \in Columns : x = <<p, c>> BY DEF Cells
    <3>2. gddram[x] \in SUBSET (DisplayPages \cup {Noise}) BY <1>0 DEF Typed
    <3>3. p = job.page => ram[Offset(p, c)] \in SUBSET DisplayPages
      BY <1>0, OffsetFacts DEF Typed
    <3>4. new[x] = gddram[x] \/ (p = job.page /\ new[x] = ram[Offset(p, c)]) BY <1>4, <3>1
    <3> QED BY <3>2, <3>3, <3>4
  <2>2. new = [x \in Cells |-> new[x]]
    <3> HIDE DEF o
    <3> QED BY <1>1
  <2> QED BY <2>1, <2>2
<1> QED BY <1>4, <1>5

\* What a data transaction changes in GDDRAM.
LEMMA ArrivedFacts ==
  ASSUME TransferInv, job.state = "SEND_DATA", NEW k \in Nat, job.col + k <= job.max + 1,
         gddram' = Stored(Offset(job.page, job.col), k)
  PROVE  /\ gddram' \in [Cells -> SUBSET (DisplayPages \cup {Noise})]
         /\ \A p \in DisplayPages, c \in Columns :
              p = job.page /\ c \in job.col .. (job.col + k - 1) =>
                gddram'[<<p, c>>] = ram[Offset(p, c)] /\ Noise \notin gddram'[<<p, c>>]
         /\ \A p \in DisplayPages, c \in Columns :
              ~(p = job.page /\ c \in job.col .. (job.col + k - 1)) =>
                gddram'[<<p, c>>] = gddram[<<p, c>>]
         /\ \A x \in Cells : gddram'[x] \subseteq {x[1], Noise}
<1>0. /\ Typed /\ WindowSafe /\ RamSafe /\ job.page \in Window /\ job.page \in DisplayPages
      /\ IsFlushing
  BY SendingFacts DEF TransferInv
<1>1. PICK new : new = gddram' OBVIOUS
<1>2. /\ new \in [Cells -> SUBSET (DisplayPages \cup {Noise})]
      /\ \A p \in DisplayPages, c \in Columns :
           new[<<p, c>>] = IF p = job.page /\ c \in job.col .. (job.col + k - 1)
                           THEN ram[Offset(p, c)] ELSE gddram[<<p, c>>]
  BY <1>1, StoredFacts
<1>3. \A c \in Columns : ram[Offset(job.page, c)] \subseteq {job.page}
  BY <1>0 DEF RamSafe, WindowSafe
<1>4. job.page # Noise BY <1>0, PagesAreNaturals
<1>5. ASSUME NEW x \in Cells PROVE new[x] \subseteq {x[1], Noise}
  <2>1. PICK p \in DisplayPages, c \in Columns : x = <<p, c>> BY DEF Cells
  <2>2. gddram[x] \subseteq {x[1], Noise} BY DEF TransferInv
  <2> QED BY <1>2, <1>3, <2>1, <2>2
<1> QED BY <1>1, <1>2, <1>3, <1>4, <1>5

\* A failure takes nothing back: what may have been half sent is still recorded.
LEMMA FaultInv ==
  ASSUME TransferInv, IsFlushing, Fault, regs' \in RegsType,
         gddram' \in [Cells -> SUBSET (DisplayPages \cup {Noise})],
         \A p \in DisplayPages, c \in Columns : Noise \notin gddram[<<p, c>>] =>
           Noise \notin gddram'[<<p, c>>],
         \A p \in DisplayPages, c \in Columns :
           ~(p = job.page /\ c \in job.min .. job.max)
             => gddram'[<<p, c>>] = gddram[<<p, c>>],
         \A x \in Cells : gddram'[x] \subseteq {x[1], Noise}
  PROVE  TransferInv'
<1>0. Typed /\ WindowSafe /\ RamSafe /\ JobSafe BY DEF TransferInv
<1>1. /\ poll' = NoPoll /\ job' = [NoJob EXCEPT !.state = "ERROR", !.failed = TRUE]
      /\ dirty' = IF ~iter.synced /\ ~PageMode THEN MarkedRect(dirty, Whole) ELSE dirty
      /\ UNCHANGED <<ram, iter>>
  BY DEF Fault, FailFlush
<1>2. /\ (PageMode' <=> PageMode) /\ Offsets' = Offsets /\ BufferPages' = BufferPages
      /\ \A p, c : Offset(p, c)' = Offset(p, c)
      /\ Window' = Window /\ iter' = iter /\ ram' = ram
  BY <1>1, SameBuffer
<1>3. /\ dirty' \in [DisplayPages -> Ranges]
      /\ \A p \in DisplayPages, c \in Columns :
           c \in dirty[p].min .. dirty[p].max => c \in dirty'[p].min .. dirty'[p].max
      /\ \A p \in DisplayPages : p \notin Window => dirty'[p] = dirty[p]
  <2>1. CASE dirty' = dirty BY <1>0, <2>1 DEF Typed
  <2>2. CASE dirty' = MarkedRect(dirty, Whole)
    BY <1>0, <2>2, MarkedFacts, WholeIsARectangle
  <2> QED BY <1>1, <2>1, <2>2
<1>4. job' \in JobType /\ ~IsFlushing'
  <2>1. [NoJob EXCEPT !.state = "ERROR", !.failed = TRUE].state = "ERROR" BY DEF NoJob
  <2> QED BY <1>1, <2>1, JobStates DEF IsFlushing
<1>5. Typed'
  <2>1. poll' \in [writes : Nat, bytes : Nat] BY <1>1 DEF NoPoll
  <2> QED BY <1>0, <1>2, <1>3, <1>4, <2>1 DEF Typed
<1>6. WindowSafe'
  <2>1. PageMode => iter.active BY <1>0 DEF WindowSafe
  <2>2. DirtyPages' \subseteq Window BY <1>0, <1>3 DEF WindowSafe, DirtyPages
  <2> QED BY <1>0, <1>2, <2>1, <2>2 DEF WindowSafe
<1>7. RamSafe' BY <1>0, <1>2 DEF RamSafe
<1>8. IterationSafe' BY <1>2 DEF TransferInv, IterationSafe, Written
<1>9. CleanIsShown'
  <2> SUFFICES ASSUME IF PageMode THEN iter.active ELSE iter.synced,
                      NEW p \in Window, NEW c \in Columns
               PROVE  c \in DirtyColumns(p)' \/ gddram'[<<p, c>>] = ram'[Offset(p, c)]
    BY <1>2 DEF CleanIsShown
  <2>1. c \in DirtyColumns(p) \/ gddram[<<p, c>>] = ram[Offset(p, c)]
    BY DEF TransferInv, CleanIsShown
  <2>2. p \in DisplayPages BY WindowIsOfDisplay
  <2>3. CASE c \in DirtyColumns(p) BY <1>3, <2>2, <2>3 DEF DirtyColumns
  <2>4. CASE c \notin DirtyColumns(p)
    <3>1. ASSUME p = job.page, c \in job.min .. job.max PROVE FALSE
      <4>1. dirty[p].min <= job.min /\ job.max <= dirty[p].max BY <1>0, <3>1 DEF JobSafe
      <4>2. dirty[p].min \in Nat /\ dirty[p].max \in Nat
        BY <1>0, <2>2, RangeFacts DEF Typed
      <4>3. job.min \in Nat /\ job.max \in Nat BY <1>0, PagesAreNaturals DEF Typed, JobType
      <4> QED BY <2>4, <3>1, <4>1, <4>2, <4>3 DEF DirtyColumns
    <3> QED BY <1>2, <2>1, <2>2, <2>4, <3>1
  <2> QED BY <2>3, <2>4
<1>10. BaselineIsWhole' BY <1>2 DEF TransferInv, BaselineIsWhole, Cells
<1> QED BY <1>1, <1>4, <1>5, <1>6, <1>7, <1>8, <1>9, <1>10, IdleInv

\* A rejected command and a data transaction cut anywhere are such failures.
LEMMA FailsInv ==
  ASSUME TransferInv, SendAddressFails \/ SendDataFails
  PROVE  TransferInv'
<1>0. Typed BY DEF TransferInv
<1>1. CASE SendAddressFails
  <2>1. /\ Fault /\ job.state \in {"SET_COL", "SET_PAGE"} /\ gddram' = gddram
        /\ regs' \in {regs, IF job.state = "SET_COL" THEN SetColumns(regs, job.min, job.max)
                            ELSE SetPages(regs, job.page, job.page)}
    BY <1>1 DEF SendAddressFails
  <2>2. /\ job \in JobType /\ regs \in RegsType /\ job.min \in Columns
           /\ job.max \in Columns
        /\ job.page \in DisplayPages /\ job.min \in Int /\ job.page \in Int
    BY <1>0, PagesAreNaturals DEF Typed, JobType
  <2>3. /\ SetColumns(regs, job.min, job.max) \in RegsType
        /\ SetPages(regs, job.page, job.page) \in RegsType
    BY <2>2 DEF SetColumns, SetPages, RegsType
  <2>4. regs' \in RegsType BY <2>1, <2>2, <2>3
  <2>5. IsFlushing BY <2>1 DEF IsFlushing
  <2>6. /\ gddram' \in [Cells -> SUBSET (DisplayPages \cup {Noise})]
        /\ \A x \in Cells : gddram'[x] \subseteq {x[1], Noise}
    BY <1>0, <2>1 DEF Typed, TransferInv
  <2> QED BY <2>1, <2>4, <2>5, <2>6, FaultInv
<1>2. CASE SendDataFails
  <2>1. PICK k \in 0..Chunk :
          gddram' = Stored(Offset(job.page, job.col), k) /\ regs' = Advanced(regs, k)
    BY <1>2 DEF SendDataFails
  <2>2. Fault /\ job.state = "SEND_DATA" /\ poll # NoPoll BY <1>2 DEF SendDataFails
  <2>3. k \in Nat /\ job.col + k <= job.max + 1 BY <2>2, ChunkFacts, SendingFacts
  <2>4. regs' \in RegsType BY <2>1, <2>2, <2>3, AdvancedFacts
  <2>5. /\ gddram' \in [Cells -> SUBSET (DisplayPages \cup {Noise})]
        /\ \A p \in DisplayPages, c \in Columns :
             p = job.page /\ c \in job.col .. (job.col + k - 1) =>
               gddram'[<<p, c>>] = ram[Offset(p, c)] /\ Noise \notin gddram'[<<p, c>>]
        /\ \A p \in DisplayPages, c \in Columns :
             ~(p = job.page /\ c \in job.col .. (job.col + k - 1)) =>
               gddram'[<<p, c>>] = gddram[<<p, c>>]
        /\ \A x \in Cells : gddram'[x] \subseteq {x[1], Noise}
    BY <2>1, <2>2, <2>3, ArrivedFacts
  <2>6. \A c \in job.col .. (job.col + k - 1) : c \in job.min .. job.max
    BY <2>2, <2>3, SendingFacts
  <2>7. IsFlushing BY <2>2 DEF IsFlushing
  <2> QED BY <2>2, <2>4, <2>5, <2>6, <2>7, FaultInv
<1> QED BY <1>1, <1>2

\* The page goes on: its pointers, its columns and its bytes move together.
LEMMA GoesOnInv ==
  ASSUME TransferInv, SendData, job.col + Chunk <= job.max
  PROVE  TransferInv'
<1>0. /\ Typed /\ WindowSafe /\ RamSafe /\ JobSafe /\ SentSafe /\ RewriteSafe
  BY DEF TransferInv
<1>1. /\ poll # NoPoll /\ job.state = "SEND_DATA"
      /\ gddram' = Stored(Offset(job.page, job.col), Chunk) /\ regs' = Advanced(regs, Chunk)
      /\ job' = [job EXCEPT !.col = @ + Chunk, !.bytes = @ + Chunk]
      /\ poll' = PollAfter(job'.state, poll.bytes - Chunk)
      /\ UNCHANGED <<dirty, iter, ram, bound>>
  BY DEF SendData
<1>2. PICK k : k = Chunk OBVIOUS
<1>3. /\ k \in Nat /\ k >= 1 /\ job.col + k <= job.max /\ job.col + k <= job.max + 1
      /\ k <= poll.bytes
  BY <1>1, <1>2, ChunkFacts, SendingFacts
<1>4. /\ job.page \in Window /\ job.page \in DisplayPages /\ job.page \in Nat
      /\ job.min \in Nat /\ job.col \in Nat /\ job.max \in Nat /\ job.max < Width
      /\ job.min <= job.col /\ job.col <= job.max /\ IsFlushing
      /\ job \in JobType /\ job.bytes \in Nat
  BY <1>0, <1>1, SendingFacts DEF Typed, JobType
<1>5. /\ job' \in JobType /\ job'.state = "SEND_DATA" /\ job'.page = job.page
      /\ job'.last = job.last /\ job'.min = job.min /\ job'.max = job.max
      /\ job'.raced = job.raced /\ job'.col = job.col + k /\ job'.bytes = job.bytes + k
  <2>1. job.col + k \in Columns BY <1>3, <1>4, TransferConstants DEF Columns
  <2>2. job.bytes + k \in Nat BY <1>3, <1>4
  <2> QED BY <1>1, <1>2, <1>4, <2>1, <2>2 DEF JobType
<1>6. /\ regs' \in RegsType
      /\ regs'.c0 = job.min /\ regs'.c1 = job.max /\ regs'.p0 = job.page
         /\ regs'.p1 = job.page
      /\ regs'.page = job.page /\ regs'.col = job.col + k
  BY <1>1, <1>2, <1>3, AdvancedFacts
<1>7. /\ gddram' \in [Cells -> SUBSET (DisplayPages \cup {Noise})]
      /\ \A p \in DisplayPages, c \in Columns :
           p = job.page /\ c \in job.col .. (job.col + k - 1) =>
             gddram'[<<p, c>>] = ram[Offset(p, c)] /\ Noise \notin gddram'[<<p, c>>]
      /\ \A p \in DisplayPages, c \in Columns :
           ~(p = job.page /\ c \in job.col .. (job.col + k - 1)) =>
             gddram'[<<p, c>>] = gddram[<<p, c>>]
      /\ \A x \in Cells : gddram'[x] \subseteq {x[1], Noise}
  BY <1>1, <1>2, <1>3, ArrivedFacts
<1>8. /\ poll' \in [writes : Nat, bytes : Nat]
      /\ poll' # NoPoll => poll'.writes > 0 /\ poll'.bytes > 0
  <2>1. poll.bytes \in Nat BY <1>0 DEF Typed
  <2>2. poll.bytes - k \in Nat BY <1>3, <2>1
  <2>3. poll' = PollAfter("SEND_DATA", poll.bytes - k) BY <1>1, <1>2, <1>5
  <2> QED BY <1>1, <2>2, <2>3, PollAfterFacts
<1>9. /\ (PageMode' <=> PageMode) /\ Offsets' = Offsets /\ BufferPages' = BufferPages
      /\ \A p, c : Offset(p, c)' = Offset(p, c)
      /\ Window' = Window /\ iter' = iter /\ ram' = ram /\ dirty' = dirty /\ IsFlushing'
  BY <1>1, <1>5, SameBuffer DEF IsFlushing
<1>10. Typed' BY <1>0, <1>5, <1>6, <1>7, <1>8, <1>9 DEF Typed
<1>11. WindowSafe' BY <1>0, <1>4, <1>9 DEF WindowSafe, DirtyPages
<1>12. RamSafe' BY <1>0, <1>9 DEF RamSafe
<1>13. JobSafe'
  <2>1. /\ job.page <= job.last /\ job.min <= job.max
        /\ dirty[job.page].min <= job.min /\ job.max <= dirty[job.page].max
        /\ ~job.raced => dirty[job.page] = [min |-> job.min, max |-> job.max]
    BY <1>0, <1>4 DEF JobSafe
  <2>2. job.min <= job.col + k BY <1>3, <1>4
  <2> QED BY <1>3, <1>4, <1>5, <1>6, <1>8, <1>9, <2>1, <2>2 DEF JobSafe, NoPoll
<1>14. PollSafe' BY <1>8, <1>9 DEF PollSafe, NoPoll
<1>15. SentSafe'
  <2> SUFFICES ASSUME NEW c \in job.min .. (job.col + k - 1)
               PROVE  /\ Noise \notin gddram'[<<job.page, c>>]
                      /\ ~job.raced => gddram'[<<job.page, c>>] = ram[Offset(job.page, c)]
    <3>1. SentColumns' = job.min .. (job.col + k - 1) BY <1>3, <1>4, <1>5 DEF SentColumns
    <3> QED BY <1>5, <1>9, <3>1 DEF SentSafe, Written, Shown
  <2>1. c \in Columns BY <1>3, <1>4, TransferConstants DEF Columns
  <2>2. CASE c >= job.col
    <3>1. c \in job.col .. (job.col + k - 1) BY <1>3, <1>4, <2>2
    <3> QED BY <1>4, <1>7, <2>1, <3>1
  <2>3. CASE c < job.col
    <3>1. c \in SentColumns /\ c \notin job.col .. (job.col + k - 1)
      BY <1>1, <1>3, <1>4, <2>3 DEF SentColumns
    <3>2. Written(job.page, c) /\ (~job.raced => Shown(job.page, c))
      BY <1>0, <1>4, <3>1 DEF SentSafe
    <3> QED BY <1>4, <1>7, <2>1, <3>1, <3>2 DEF Written, Shown
  <2> QED BY <1>3, <1>4, <2>2, <2>3
<1>16. RewriteSafe'
  <2> DEFINE x == Width * job.page
  <2>1. x \in Int BY <1>4, TransferConstants
  <2>2. Sent = job.col - job.min /\ Sent' = job.col + k - job.min
    <3>1. Sent = job.col - job.min BY <1>1 DEF Sent
    <3>2. Sent' = job'.col - job'.min BY <1>5 DEF Sent
    <3> QED BY <1>3, <1>4, <1>5, <3>1, <3>2
  <2>3. job.bytes <= x + Sent BY <1>0, <1>4 DEF RewriteSafe
  <2> HIDE DEF x
  <2>4. job'.bytes <= x + Sent' BY <1>3, <1>4, <1>5, <2>1, <2>2, <2>3
  <2>5. job'.bytes = x + Sent' => job.bytes = x + Sent BY <1>3, <1>4, <1>5, <2>1, <2>2
  <2>6. ASSUME ~PageMode, job'.bytes = x + Sent', NEW p \in DisplayPages, p < job.page,
               NEW c \in Columns
        PROVE  Written(p, c)' /\ (c \in DirtyColumns(p)' \/ Shown(p, c)')
    <3>1. Written(p, c) /\ (c \in DirtyColumns(p) \/ Shown(p, c))
      BY <1>0, <1>4, <2>5, <2>6 DEF RewriteSafe, x
    <3>2. gddram'[<<p, c>>] = gddram[<<p, c>>]
      <4>1. p # job.page BY <1>4, <2>6, PagesAreNaturals
      <4> QED BY <1>7, <4>1
    <3> QED BY <1>9, <3>1, <3>2 DEF Written, Shown, DirtyColumns
  <2> QED BY <1>5, <1>9, <2>4, <2>6 DEF RewriteSafe, x
<1>17. IterationSafe' BY <1>7, <1>9 DEF TransferInv, IterationSafe, Written
<1>18. CleanIsShown'
  <2> SUFFICES ASSUME IF PageMode THEN iter.active ELSE iter.synced,
                      NEW p \in Window, NEW c \in Columns
               PROVE  c \in DirtyColumns(p) \/ gddram'[<<p, c>>] = ram[Offset(p, c)]
    BY <1>9 DEF CleanIsShown, DirtyColumns
  <2>1. c \in DirtyColumns(p) \/ gddram[<<p, c>>] = ram[Offset(p, c)]
    BY DEF TransferInv, CleanIsShown
  <2>2. p \in DisplayPages BY WindowIsOfDisplay
  <2> QED BY <1>7, <2>1, <2>2
<1>19. BaselineIsWhole' BY <1>7, <1>9 DEF TransferInv, BaselineIsWhole, Cells
<1> QED BY <1>7, <1>10, <1>11, <1>12, <1>13, <1>14, <1>15, <1>16, <1>17, <1>18, <1>19
        DEF TransferInv

\* A job that has sent every byte of the pages below q sends the last of them now.
LEMMA WholePagesSent ==
  ASSUME TransferInv, job.state = "SEND_DATA", poll # NoPoll, job.col + Chunk = job.max + 1,
         NEW q \in Nat, job.page < q
  PROVE  /\ job.bytes + Chunk \in Nat /\ job.bytes + Chunk <= Width * q
         /\ job.bytes + Chunk = Width * q =>
              /\ q = job.page + 1 /\ job.min = 0 /\ job.max = Width - 1
              /\ job.bytes = Width * job.page + Sent
<1> DEFINE x == Width * job.page
           y == Width * (q - job.page - 1)
<1>1. PICK k : k = Chunk OBVIOUS
<1>2. /\ job.page \in Nat /\ job.min \in Nat /\ job.col \in Nat /\ job.max \in Nat
      /\ job.min <= job.col /\ job.col <= job.max /\ job.max < Width
      /\ job.bytes \in Nat /\ k \in Nat /\ job.col + k = job.max + 1
  BY <1>1, SendingFacts, ChunkFacts DEF TransferInv, Typed, JobType
<1>3. job.bytes <= x + Sent /\ Sent = job.col - job.min
  BY SendingFacts DEF TransferInv, RewriteSafe, Sent
<1>4. Width * q = x + Width + y /\ x \in Int BY <1>2, TransferConstants
<1>5. y \in Int /\ y >= q - job.page - 1
  <2> DEFINE d == q - job.page - 1
  <2>1. d \in Nat BY <1>2
  <2> HIDE DEF d
  <2>2. Width * d = d + (Width - 1) * d /\ (Width - 1) * d >= 0 /\ (Width - 1) * d \in Int
    BY <2>1, TransferConstants
  <2>3. y = Width * d BY DEF d
  <2> HIDE DEF y
  <2>4. y \in Int /\ y >= d BY <2>1, <2>2, <2>3
  <2> QED BY <2>4 DEF d
<1> HIDE DEF x, y
<1>6. job.bytes + k <= x + Width + y /\ job.bytes + k \in Nat
  BY <1>2, <1>3, <1>4, <1>5, TransferConstants
<1>7. ASSUME job.bytes + k = x + Width + y
      PROVE  q = job.page + 1 /\ job.min = 0 /\ job.max = Width - 1 /\ job.bytes = x + Sent
  <2>1. q - job.page - 1 >= 0 /\ y >= 0 BY <1>2, <1>5
  <2>2. Sent \in Int /\ Sent + k = job.max - job.min + 1 BY <1>2, <1>3
  <2>3. Width + y <= job.max - job.min + 1
    BY <1>2, <1>3, <1>4, <1>5, <1>7, <2>2, TransferConstants
  <2>4. y = 0 /\ job.max - job.min + 1 = Width BY <1>2, <1>5, <2>1, <2>3, TransferConstants
  <2>5. q = job.page + 1 /\ job.min = 0 /\ job.max = Width - 1
    BY <1>2, <1>5, <2>1, <2>4, TransferConstants
  <2>6. job.bytes = x + Sent BY <1>2, <1>4, <1>7, <2>2, <2>4, TransferConstants
  <2> QED BY <2>5, <2>6
<1> QED BY <1>1, <1>4, <1>6, <1>7 DEF x

\* The page that ends here is clean, and shown, unless it was drawn to.
LEMMA PageEndsFacts ==
  ASSUME TransferInv, job.state = "SEND_DATA", poll # NoPoll, job.col + Chunk = job.max + 1,
         gddram' = Stored(Offset(job.page, job.col), Chunk), ram' = ram,
         dirty' = IF job.raced THEN dirty ELSE [dirty EXCEPT ![job.page] = NoRange]
  PROVE  /\ gddram' \in [Cells -> SUBSET (DisplayPages \cup {Noise})]
         /\ dirty' \in [DisplayPages -> Ranges] /\ DirtyPages' \subseteq DirtyPages
         /\ \A x \in Cells : gddram'[x] \subseteq {x[1], Noise}
         /\ \A p \in DisplayPages, c \in Columns :
              Noise \notin gddram[<<p, c>>] => Noise \notin gddram'[<<p, c>>]
         /\ \A p \in Window, c \in Columns :
              c \in DirtyColumns(p) \/ gddram[<<p, c>>] = ram[Offset(p, c)] =>
                c \in dirty'[p].min .. dirty'[p].max
                  \/ gddram'[<<p, c>>] = ram[Offset(p, c)]
         /\ \A q \in Nat : ~PageMode /\ job.page < q /\ job.bytes + Chunk = Width * q =>
              \A p \in DisplayPages, c \in Columns : p < q =>
                /\ Noise \notin gddram'[<<p, c>>]
                /\ \/ c \in dirty'[p].min .. dirty'[p].max
                   \/ gddram'[<<p, c>>] = ram[Offset(p, c)]
<1>0. Typed /\ WindowSafe /\ JobSafe /\ SentSafe /\ RewriteSafe BY DEF TransferInv
<1>1. PICK k : k = Chunk OBVIOUS
<1>2. /\ job.page \in Window /\ job.page \in DisplayPages /\ job.page \in Nat
      /\ job.min \in Nat /\ job.col \in Nat /\ job.max \in Nat /\ job.max < Width
      /\ job.min <= job.col /\ job.col <= job.max /\ IsFlushing
      /\ k \in Nat /\ job.col + k = job.max + 1 /\ job.col + k - 1 = job.max
      /\ job.col + k <= job.max + 1
  BY <1>1, SendingFacts, ChunkFacts
<1>3. /\ gddram' \in [Cells -> SUBSET (DisplayPages \cup {Noise})]
      /\ \A p \in DisplayPages, c \in Columns :
           p = job.page /\ c \in job.col .. job.max =>
             gddram'[<<p, c>>] = ram[Offset(p, c)] /\ Noise \notin gddram'[<<p, c>>]
      /\ \A p \in DisplayPages, c \in Columns :
           ~(p = job.page /\ c \in job.col .. job.max) =>
             gddram'[<<p, c>>] = gddram[<<p, c>>]
      /\ \A x \in Cells : gddram'[x] \subseteq {x[1], Noise}
  BY <1>1, <1>2, ArrivedFacts
<1>4. /\ dirty' \in [DisplayPages -> Ranges]
      /\ \A p \in DisplayPages : p # job.page => dirty'[p] = dirty[p]
      /\ job.raced => dirty' = dirty
      /\ ~job.raced => dirty'[job.page] = NoRange
  <2>1. NoRange \in Ranges BY DEF Ranges
  <2> QED BY <1>0, <1>2, <2>1 DEF Typed
<1>5. DirtyPages' \subseteq DirtyPages
  <2>1. ~(NoRange.min <= NoRange.max) BY DEF NoRange
  <2> QED BY <1>4, <2>1 DEF DirtyPages
<1>6. /\ dirty[job.page].min <= job.min /\ job.max <= dirty[job.page].max
      /\ dirty[job.page].min \in Nat /\ dirty[job.page].max \in Nat
      /\ ~job.raced => dirty[job.page] = [min |-> job.min, max |-> job.max]
  BY <1>0, <1>2, RangeFacts DEF JobSafe, Typed
<1>7. ASSUME NEW c \in Columns, c \in job.min .. job.max
      PROVE  /\ Noise \notin gddram'[<<job.page, c>>]
             /\ \/ c \in dirty'[job.page].min .. dirty'[job.page].max
                \/ gddram'[<<job.page, c>>] = ram[Offset(job.page, c)]
  <2>1. job.raced => c \in dirty'[job.page].min .. dirty'[job.page].max
    BY <1>2, <1>4, <1>6, <1>7
  <2>2. CASE c >= job.col BY <1>2, <1>3, <1>7, <2>2
  <2>3. CASE c < job.col
    <3>1. c \in SentColumns BY <1>2, <1>7, <2>3 DEF SentColumns
    <3>2. Written(job.page, c) /\ (~job.raced => Shown(job.page, c))
      BY <1>0, <1>2, <3>1 DEF SentSafe
    <3>3. gddram'[<<job.page, c>>] = gddram[<<job.page, c>>] BY <1>2, <1>3, <2>3
    <3> QED BY <2>1, <3>2, <3>3 DEF Written, Shown
  <2> QED BY <1>2, <1>7, <2>2, <2>3
<1>8. ASSUME NEW p \in Window, NEW c \in Columns,
             c \in DirtyColumns(p) \/ gddram[<<p, c>>] = ram[Offset(p, c)]
      PROVE  c \in dirty'[p].min .. dirty'[p].max \/ gddram'[<<p, c>>] = ram[Offset(p, c)]
  <2>0. p \in DisplayPages BY WindowIsOfDisplay
  <2>1. CASE p # job.page BY <1>3, <1>4, <1>8, <2>0, <2>1 DEF DirtyColumns
  <2>2. CASE p = job.page /\ c \in job.min .. job.max BY <1>7, <2>2
  <2>3. CASE p = job.page /\ c \notin job.min .. job.max
    <3>1. gddram'[<<p, c>>] = gddram[<<p, c>>]
      <4>1. c \notin job.col .. job.max BY <1>2, <2>3
      <4> QED BY <1>3, <2>0, <4>1
    <3>2. ~job.raced => c \notin DirtyColumns(p) BY <1>6, <2>3 DEF DirtyColumns
    <3> QED BY <1>4, <1>8, <3>1, <3>2 DEF DirtyColumns
  <2> QED BY <2>1, <2>2, <2>3
<1>9. ASSUME NEW q \in Nat, ~PageMode, job.page < q, job.bytes + Chunk = Width * q,
             NEW p \in DisplayPages, NEW c \in Columns, p < q
      PROVE  /\ Noise \notin gddram'[<<p, c>>]
             /\ \/ c \in dirty'[p].min .. dirty'[p].max
                \/ gddram'[<<p, c>>] = ram[Offset(p, c)]
  <2>1. /\ q = job.page + 1 /\ job.min = 0 /\ job.max = Width - 1
        /\ job.bytes = Width * job.page + Sent
    BY <1>9, WholePagesSent
  <2>2. c \in job.min .. job.max BY <2>1 DEF Columns
  <2>3. CASE p = job.page BY <1>7, <2>2, <2>3
  <2>4. CASE p # job.page
    <3>1. p < job.page
      <4>1. p < job.page + 1 BY <1>9, <2>1
      <4> QED BY <1>2, <2>4, <4>1, PagesAreNaturals
    <3>2. Written(p, c) /\ (c \in DirtyColumns(p) \/ Shown(p, c))
      BY <1>0, <1>2, <1>9, <2>1, <3>1 DEF RewriteSafe
    <3> QED BY <1>3, <1>4, <2>4, <3>2 DEF Written, Shown, DirtyColumns
  <2> QED BY <2>3, <2>4
<1> QED BY <1>3, <1>4, <1>5, <1>8, <1>9

\* The page is done: the job ends, or goes on to its next dirty page.
LEMMA FinishInv ==
  ASSUME TransferInv, SendData, ~(job.col + Chunk <= job.max)
  PROVE  TransferInv'
<1> DEFINE bytes == job.bytes + Chunk
           rest == {p \in (job.page + 1) .. job.last : dirty'[p].min <= dirty'[p].max}
<1>0. /\ Typed /\ WindowSafe /\ RamSafe /\ CleanIsShown /\ BaselineIsWhole /\ IterationSafe
  BY DEF TransferInv
<1>1. /\ poll # NoPoll /\ job.state = "SEND_DATA" /\ ram' = ram
      /\ gddram' = Stored(Offset(job.page, job.col), Chunk) /\ regs' = Advanced(regs, Chunk)
      /\ poll' = PollAfter(job'.state, poll.bytes - Chunk)
      /\ FinishPage(bytes)
  BY DEF SendData
<1>2. /\ job.page \in Window /\ job.page \in DisplayPages /\ job.page \in Nat
      /\ job.col \in Nat /\ job.max \in Nat /\ IsFlushing
      /\ Chunk \in Nat /\ job.col + Chunk = job.max + 1 /\ Chunk <= poll.bytes
      /\ job.last \in DisplayPages
  <2>1. PICK k : k = Chunk OBVIOUS
  <2>2. job.col + k = job.max + 1 BY <1>1, <2>1, SendingFacts, ChunkFacts
  <2> QED BY <1>0, <1>1, <2>1, <2>2, SendingFacts, ChunkFacts DEF Typed, JobType
<1>3. /\ dirty' = IF job.raced THEN dirty ELSE [dirty EXCEPT ![job.page] = NoRange]
      /\ rest = {} =>
           /\ job' = [NoJob EXCEPT !.state = "DONE", !.bytes = bytes]
           /\ iter' = [iter EXCEPT !.synced =
                         @ \/ (~PageMode /\ bytes = Width * BufferPages)]
      /\ rest # {} =>
         /\ job' = [PageOfJob(dirty', Min(rest), job.last) EXCEPT !.bytes = bytes]
                      /\ iter' = iter
  BY <1>1 DEF FinishPage
<1>4. /\ gddram' \in [Cells -> SUBSET (DisplayPages \cup {Noise})]
      /\ dirty' \in [DisplayPages -> Ranges] /\ DirtyPages' \subseteq DirtyPages
      /\ \A x \in Cells : gddram'[x] \subseteq {x[1], Noise}
      /\ \A p \in DisplayPages, c \in Columns :
           Noise \notin gddram[<<p, c>>] => Noise \notin gddram'[<<p, c>>]
      /\ \A p \in Window, c \in Columns :
           c \in DirtyColumns(p) \/ gddram[<<p, c>>] = ram[Offset(p, c)] =>
             c \in dirty'[p].min .. dirty'[p].max \/ gddram'[<<p, c>>] = ram[Offset(p, c)]
      /\ \A q \in Nat : ~PageMode /\ job.page < q /\ bytes = Width * q =>
           \A p \in DisplayPages, c \in Columns : p < q =>
             /\ Noise \notin gddram'[<<p, c>>]
             /\ \/ c \in dirty'[p].min .. dirty'[p].max
                \/ gddram'[<<p, c>>] = ram[Offset(p, c)]
  BY <1>1, <1>2, <1>3, PageEndsFacts
<1>5. \A q \in Nat : job.page < q => bytes <= Width * q /\ bytes \in Nat
  BY <1>1, <1>2, WholePagesSent
<1>6. regs' \in RegsType
  <2>1. job.col + Chunk <= job.max + 1 BY <1>2
  <2> QED BY <1>1, <1>2, <2>1, AdvancedFacts
<1>7. poll.bytes - Chunk \in Nat BY <1>0, <1>2 DEF Typed
<1>8. bytes \in Nat
  <2>1. job.page + 1 \in Nat /\ job.page < job.page + 1 BY <1>2
  <2> QED BY <1>5, <2>1
<1>9. PICK b : b = bytes OBVIOUS
<1>10. PICK r : r = rest OBVIOUS
<1> HIDE DEF bytes, rest
<1>11. PageMode => iter.active BY <1>0, <1>2 DEF WindowSafe
<1>12. /\ iter' \in [window : Nat, active : BOOLEAN, synced : BOOLEAN, pages : BufferSizes]
       /\ iter'.window = iter.window /\ iter'.active = iter.active
          /\ iter'.pages = iter.pages
       /\ iter'.synced <=> iter.synced \/ (r = {} /\ ~PageMode /\ b = Width * BufferPages)
  <2>1. iter \in [window : Nat, active : BOOLEAN, synced : BOOLEAN, pages : BufferSizes]
    BY <1>0 DEF Typed
  <2>2. PICK s \in BOOLEAN :
          s <=> iter.synced \/ (r = {} /\ ~PageMode /\ b = Width * BufferPages)
    OBVIOUS
  <2>3. iter' = [iter EXCEPT !.synced = s]
    <3>1. CASE r = {}
      <4>1. s = (iter.synced \/ (~PageMode /\ bytes = Width * BufferPages))
        BY <1>9, <2>2, <3>1
      <4> QED BY <1>3, <1>10, <3>1, <4>1
    <3>2. CASE r # {} BY <1>3, <1>10, <2>1, <2>2, <3>2
    <3> QED BY <3>1, <3>2
  <2> QED BY <2>1, <2>2, <2>3
<1>13. /\ (PageMode' <=> PageMode) /\ Offsets' = Offsets /\ BufferPages' = BufferPages
       /\ \A p, c : Offset(p, c)' = Offset(p, c)
       /\ Window' = Window
  BY <1>12, SameBuffer
<1>14. WindowSafe'
  BY <1>0, <1>4, <1>11, <1>12, <1>13 DEF WindowSafe
<1>15. RamSafe' BY <1>0, <1>1, <1>12, <1>13 DEF RamSafe
<1>16. IterationSafe' BY <1>0, <1>4, <1>12, <1>13 DEF IterationSafe, Written
\* The rewrite that completes the baseline has sent all pages of the display.
<1>17. ASSUME ~PageMode, b = Width * BufferPages, NEW p \in DisplayPages, NEW c \in Columns
       PROVE  /\ Noise \notin gddram'[<<p, c>>]
              /\ \/ c \in dirty'[p].min .. dirty'[p].max
                 \/ gddram'[<<p, c>>] = ram[Offset(p, c)]
  <2>1. BufferPages = TotalPages BY <1>0, <1>17, FullWindow
  <2>2. TotalPages \in Nat /\ job.page < TotalPages /\ p < TotalPages
    BY <1>2, PagesAreNaturals, TransferConstants
  <2>3. bytes = Width * TotalPages BY <1>9, <1>17, <2>1
  <2> QED BY <1>4, <1>17, <2>2, <2>3
<1>18. CleanIsShown'
  <2> SUFFICES ASSUME IF PageMode THEN iter.active ELSE iter'.synced,
                      NEW p \in Window, NEW c \in Columns
               PROVE  c \in dirty'[p].min .. dirty'[p].max
                      \/ gddram'[<<p, c>>] = ram[Offset(p, c)]
    BY <1>1, <1>12, <1>13 DEF CleanIsShown, DirtyColumns
  <2>1. CASE IF PageMode THEN iter.active ELSE iter.synced
    BY <1>0, <1>4, <2>1 DEF CleanIsShown
  <2>2. CASE ~PageMode /\ b = Width * BufferPages BY <1>17, <2>2, WindowIsOfDisplay
  <2> QED BY <1>12, <2>1, <2>2
<1>19. BaselineIsWhole'
  <2> SUFFICES ASSUME iter'.synced, NEW x \in Cells PROVE Noise \notin gddram'[x]
    BY DEF BaselineIsWhole
  <2>1. PICK p \in DisplayPages, c \in Columns : x = <<p, c>> BY DEF Cells
  <2>2. CASE iter.synced BY <1>0, <1>4, <2>1, <2>2 DEF BaselineIsWhole
  <2>3. CASE ~PageMode /\ b = Width * BufferPages BY <1>17, <2>1, <2>3
  <2> QED BY <1>12, <2>2, <2>3
<1>20. CASE r = {}
  <2>1. job' = [NoJob EXCEPT !.state = "DONE", !.bytes = b] BY <1>3, <1>9, <1>10, <1>20
  <2>2. job' \in JobType /\ job'.state = "DONE"
    <3>1. NoJob \in JobType /\ b \in Nat BY <1>8, <1>9, JobStates
    <3> QED BY <2>1, <3>1 DEF JobType
  <2>3. ~IsFlushing' BY <2>2 DEF IsFlushing
  <2>4. poll' = NoPoll BY <1>1, <2>2 DEF PollAfter
  <2>5. Typed'
    <3>1. poll' \in [writes : Nat, bytes : Nat] BY <2>4 DEF NoPoll
    <3> QED BY <1>0, <1>1, <1>4, <1>6, <1>12, <1>13, <2>2, <3>1 DEF Typed
  <2> QED BY <1>4, <1>14, <1>15, <1>16, <1>18, <1>19, <2>3, <2>4, <2>5, IdleInv
<1>21. CASE r # {}
  <2>1. PICK q : q = Min(r) OBVIOUS
  <2>2. q \in r
    <3>1. r \subseteq Nat BY <1>2, <1>10 DEF rest
    <3> QED BY <1>21, <2>1, <3>1, MinOfNaturals
  <2>3. /\ q \in Nat /\ job.page < q /\ q <= job.last /\ q \in DisplayPages
        /\ dirty'[q].min <= dirty'[q].max
    BY <1>2, <1>10, <2>2, PagesAreNaturals, TransferConstants DEF rest, DisplayPages
  <2>4. PICK new : new = PageOfJob(dirty', q, job.last) OBVIOUS
  <2>5. job' = [new EXCEPT !.bytes = b] BY <1>3, <1>9, <1>10, <1>21, <2>1, <2>4
  <2>6. PICK d : d = dirty' OBVIOUS
  <2>7. d[q] \in Ranges /\ d[q].min <= d[q].max /\ new = PageOfJob(d, q, job.last)
    BY <1>4, <2>3, <2>4, <2>6
  <2>8. /\ new \in JobType /\ new.state = "SET_COL" /\ new.page = q /\ new.last = job.last
        /\ new.min = d[q].min /\ new.max = d[q].max /\ ~new.raced /\ new.bytes = 0
        /\ d[q] = [min |-> new.min, max |-> new.max]
    <3>1. PICK last : last = job.last OBVIOUS
    <3>2. /\ q \in DisplayPages /\ last \in DisplayPages
          /\ d[q] \in Ranges /\ d[q].min <= d[q].max /\ new = PageOfJob(d, q, last)
      BY <1>2, <2>3, <2>7, <3>1
    <3>3. /\ new \in JobType /\ new.state = "SET_COL" /\ new.page = q /\ new.last = last
          /\ new.min = d[q].min /\ new.max = d[q].max /\ ~new.raced /\ new.bytes = 0
          /\ d[q] = [min |-> new.min, max |-> new.max]
      BY <3>2, PageOfJobFacts
    <3> QED BY <3>1, <3>3
  <2>9. /\ job' \in JobType /\ job'.state = "SET_COL" /\ job'.page = q
           /\ job'.last = job.last
        /\ job'.min = d[q].min /\ job'.max = d[q].max /\ ~job'.raced /\ job'.bytes = b
        /\ d[q] = [min |-> job'.min, max |-> job'.max]
    <3>1. b \in Nat BY <1>8, <1>9
    <3> QED BY <2>5, <2>8, <3>1 DEF JobType
  <2>10. /\ IsFlushing' /\ SentColumns' = {} /\ Sent' = 0
    BY <2>9 DEF IsFlushing, SentColumns, Sent
  <2>11. poll' \in [writes : Nat, bytes : Nat] /\ (poll' # NoPoll => poll'.writes > 0)
    <3>1. poll' = PollAfter("SET_COL", poll.bytes - Chunk) BY <1>1, <2>9
    <3> QED BY <1>1, <1>7, <3>1, PollAfterFacts
  <2>12. Typed' BY <1>0, <1>1, <1>4, <1>6, <1>12, <1>13, <2>9, <2>11 DEF Typed
  <2>13. JobSafe'
    <3>1. q \in DirtyPages' BY <2>3 DEF DirtyPages
    <3>2. q \in Window BY <1>14, <1>13, <3>1 DEF WindowSafe
    <3>3. /\ d[q].min <= job'.min /\ job'.max <= d[q].max /\ job'.min <= job'.max
      BY <2>7, <2>9, RangeFacts
    <3> QED BY <1>13, <2>3, <2>6, <2>9, <3>2, <3>3 DEF JobSafe
  <2>14. PollSafe' BY <2>10, <2>11 DEF PollSafe, NoPoll
  <2>15. SentSafe' BY <2>10 DEF SentSafe
  <2>16. RewriteSafe'
    <3>1. b <= Width * q + 0 /\ Width * q + 0 = Width * q
      BY <1>5, <1>9, <2>3, TransferConstants
    <3>2. ASSUME ~PageMode, b = Width * q, NEW p \in DisplayPages, p < q, NEW c \in Columns
          PROVE  Written(p, c)' /\ (c \in DirtyColumns(p)' \/ Shown(p, c)')
      <4>1. /\ Noise \notin gddram'[<<p, c>>]
            /\ c \in dirty'[p].min .. dirty'[p].max \/ gddram'[<<p, c>>] = ram[Offset(p, c)]
        BY <1>4, <1>9, <2>3, <3>2
      <4> QED BY <1>1, <1>13, <4>1 DEF Written, Shown, DirtyColumns
    <3> QED BY <1>13, <2>9, <2>10, <3>1, <3>2 DEF RewriteSafe
  <2> QED BY <1>4, <1>14, <1>15, <1>16, <1>18, <1>19, <2>12, <2>13, <2>14, <2>15, <2>16
          DEF TransferInv
<1> QED BY <1>20, <1>21

-----------------------------------------------------------------------------
\* Page iteration

\* A window is selected empty, and recorded as dirty from edge to edge.
LEMMA SelectsInv ==
  ASSUME TransferInv, NEW w \in Nat, ~PageMode => w = 0,
         iter' \in [window : Nat, active : BOOLEAN, synced : BOOLEAN, pages : BufferSizes],
         iter'.pages = iter.pages, iter'.window = w, iter'.active <=> PageMode,
         iter'.synced => PageMode /\ iter.synced,
         ram' = Blank, job' \in JobType, job'.state = "IDLE",
         dirty' = [p \in DisplayPages |->
                     IF p \in InWindow(w) THEN [min |-> 0, max |-> Width - 1] ELSE NoRange],
         poll = NoPoll, UNCHANGED <<poll, regs, gddram>>,
         \A p \in DisplayPages, c \in Columns : p < w * BufferPages => Written(p, c)
  PROVE  TransferInv'
<1>0. Typed BY DEF TransferInv
<1>1. /\ (PageMode' <=> PageMode) /\ Offsets' = Offsets /\ BufferPages' = BufferPages
      /\ \A p, c : Offset(p, c)' = Offset(p, c)
      /\ Window' = InWindow(w)
  BY SameBuffer DEF Window
<1>2. /\ dirty' \in [DisplayPages -> Ranges]
      /\ \A p \in DisplayPages : p \notin InWindow(w) => dirty'[p] = NoRange
      /\ \A p \in InWindow(w), c \in Columns : c \in dirty'[p].min .. dirty'[p].max
  <2>1. [min |-> 0, max |-> Width - 1] \in Ranges /\ NoRange \in Ranges
    BY TransferConstants DEF Ranges, Columns
  <2>2. InWindow(w) \subseteq DisplayPages BY DEF InWindow
  <2>3. \A p \in InWindow(w) : dirty'[p] = [min |-> 0, max |-> Width - 1] BY <2>2
  <2>4. \A c \in Columns : c \in 0 .. (Width - 1) BY DEF Columns
  <2> QED BY <2>1, <2>3, <2>4
<1>3. Typed'
  <2>1. ram' \in [Offsets -> SUBSET DisplayPages] BY BlankFacts
  <2> QED BY <1>0, <1>1, <1>2, <2>1 DEF Typed
<1>4. WindowSafe'
  <2>1. ~(NoRange.min <= NoRange.max) BY DEF NoRange
  <2>2. DirtyPages' \subseteq InWindow(w) BY <1>2, <2>1 DEF DirtyPages
  <2> QED BY <1>1, <2>2 DEF WindowSafe
<1>5. RamSafe'
  <2>1. \A p \in InWindow(w), c \in Columns : ram'[Offset(p, c)] = {}
    BY <1>0, OffsetInBuffer, BlankFacts DEF InWindow
  <2> QED BY <1>1, <2>1 DEF RamSafe
<1>6. IterationSafe' BY <1>1 DEF IterationSafe, Written
<1>7. CleanIsShown' BY <1>1, <1>2 DEF CleanIsShown, DirtyColumns
<1>8. BaselineIsWhole' BY DEF TransferInv, BaselineIsWhole
<1>9. (\A x \in Cells : gddram[x] \subseteq {x[1], Noise})' BY DEF TransferInv
<1>10. ~IsFlushing' BY DEF IsFlushing
<1> QED BY <1>3, <1>4, <1>5, <1>6, <1>7, <1>8, <1>9, <1>10, IdleInv

\* An iteration starts on the first window, and makes no promise of a baseline.
LEMMA FirstPageInv ==
  ASSUME TransferInv, FirstPage
  PROVE  TransferInv'
<1>0. iter \in [window : Nat, active : BOOLEAN, synced : BOOLEAN, pages : BufferSizes]
      /\ BufferPages \in Nat
  BY TransferConstants DEF TransferInv, Typed, BufferPages
<1>1. /\ poll = NoPoll /\ ram' = Blank /\ UNCHANGED <<poll, regs, gddram>>
      /\ job' = [NoJob EXCEPT !.failed = job.failed /\ job.state = "IDLE"]
      /\ iter' = [iter EXCEPT !.window = 0, !.active = PageMode, !.synced = FALSE]
      /\ dirty' = [p \in DisplayPages |->
                     IF p \in InWindow(0) THEN [min |-> 0, max |-> Width - 1] ELSE NoRange]
  BY DEF FirstPage
<1>2. PageMode \in BOOLEAN BY DEF PageMode
<1>3. /\ iter' \in [window : Nat, active : BOOLEAN, synced : BOOLEAN, pages : BufferSizes]
      /\ iter'.pages = iter.pages /\ iter'.window = 0 /\ (iter'.active <=> PageMode)
      /\ ~iter'.synced
  BY <1>0, <1>1, <1>2
<1>4. job' \in JobType /\ job'.state = "IDLE"
  <2>1. (job.failed /\ job.state = "IDLE") \in BOOLEAN OBVIOUS
  <2> QED BY <1>1, <2>1, JobStates DEF NoJob
<1>5. \A p \in DisplayPages, c \in Columns : p < 0 * BufferPages => Written(p, c)
  <2>1. 0 * BufferPages = 0 BY <1>0
  <2> QED BY <2>1, PagesAreNaturals
<1> QED BY <1>1, <1>3, <1>4, <1>5, SelectsInv

\* A window that was sent and is clean is written, and so are those before it.
LEMMA WindowIsWritten ==
  ASSUME TransferInv, iter.active, DirtyPages = {}
  PROVE  PageMode /\ \A p \in DisplayPages, c \in Columns :
           p < (iter.window + 1) * BufferPages => Written(p, c)
<1>0. Typed /\ WindowSafe /\ RamSafe /\ IterationSafe /\ CleanIsShown BY DEF TransferInv
<1>1. PageMode BY <1>0 DEF WindowSafe
<1>2. ASSUME NEW p \in DisplayPages, NEW c \in Columns, p < (iter.window + 1) * BufferPages
      PROVE  Written(p, c)
  <2>1. CASE p < iter.window * BufferPages BY <1>0, <1>1, <2>1 DEF IterationSafe
  <2>2. CASE p \in Window
    <3>1. c \notin DirtyColumns(p)
      <4>1. dirty[p] \in Ranges /\ ~(dirty[p].min <= dirty[p].max)
        BY <1>0 DEF Typed, DirtyPages
      <4>2. dirty[p].min \in Nat /\ dirty[p].max \in Nat BY <4>1, RangeFacts
      <4> QED BY <4>1, <4>2, PagesAreNaturals DEF DirtyColumns
    <3>2. gddram[<<p, c>>] = ram[Offset(p, c)] BY <1>0, <1>1, <2>2, <3>1 DEF CleanIsShown
    <3>3. ram[Offset(p, c)] \subseteq {p} BY <1>0, <2>2 DEF RamSafe
    <3> QED BY <3>2, <3>3, PagesAreNaturals DEF Written
  <2>3. p < iter.window * BufferPages \/ p \in Window
    <3> DEFINE m == iter.window * BufferPages
    <3>1. m \in Int /\ p \in Nat
      BY <1>0, PagesAreNaturals, TransferConstants DEF Typed, BufferPages
    <3> HIDE DEF m
    <3>2. p < m \/ m <= p BY <3>1
    <3> QED BY <1>2, <3>2 DEF Window, InWindow, m
  <2> QED BY <2>1, <2>2, <2>3
<1> QED BY <1>1, <1>2

\* What nextPage() does at a job's end; the last window completes a baseline.
LEMMA NextPageInv ==
  ASSUME TransferInv,
         NextPageAfterError \/ NextPageRedraws \/ NextPageSelects \/ NextPageEnds
  PROVE  TransferInv'
<1>0. Typed /\ WindowSafe /\ iter.active /\ poll = NoPoll
      /\ UNCHANGED <<poll, regs, gddram>>
  BY DEF TransferInv, NextPageAfterError, NextPageRedraws, NextPageSelects, NextPageEnds,
     NextPage
<1>1. /\ iter \in [window : Nat, active : BOOLEAN, synced : BOOLEAN, pages : BufferSizes]
      /\ PageMode
  BY <1>0 DEF Typed, WindowSafe
<1>2. job' \in JobType /\ job'.state = "IDLE" /\ ~IsFlushing'
  <2>1. job' = NoJob \/ job' = [NoJob EXCEPT !.failed = TRUE]
    BY DEF NextPageAfterError, NextPageRedraws, NextPageSelects, NextPageEnds
  <2>2. NoJob \in JobType /\ NoJob.state = "IDLE" BY JobStates DEF NoJob
  <2>3. /\ [NoJob EXCEPT !.failed = TRUE] \in JobType
        /\ [NoJob EXCEPT !.failed = TRUE].state = "IDLE"
    BY <2>2 DEF JobType
  <2>4. job' \in JobType /\ job'.state = "IDLE" BY <2>1, <2>2, <2>3
  <2> QED BY <2>4 DEF IsFlushing
<1>3. CASE NextPageAfterError
  <2>1. UNCHANGED <<ram, dirty, iter>> BY <1>3 DEF NextPageAfterError
  <2>2. Typed' BY <1>0, <1>2, <2>1, SameBuffer DEF Typed
  <2>3. WindowSafe' BY <1>0, <1>2, <2>1, SameBuffer DEF WindowSafe, DirtyPages
  <2> QED BY <1>0, <1>2, <2>1, <2>2, <2>3, OthersStay, IdleInv
<1>4. CASE NextPageRedraws
  <2>1. iter' = [iter EXCEPT !.synced = FALSE] /\ UNCHANGED <<ram, dirty>>
    BY <1>4 DEF NextPageRedraws
  <2>2. /\ iter' \in [window : Nat, active : BOOLEAN, synced : BOOLEAN, pages : BufferSizes]
        /\ iter'.pages = iter.pages /\ iter'.window = iter.window /\ iter'.active
           /\ ~iter'.synced
    BY <1>0, <1>1, <2>1
  <2>3. /\ (PageMode' <=> PageMode) /\ Offsets' = Offsets /\ BufferPages' = BufferPages
        /\ \A p, c : Offset(p, c)' = Offset(p, c)
        /\ Window' = Window
    BY <2>2, SameBuffer
  <2>4. Typed' BY <1>0, <1>2, <2>1, <2>2, <2>3 DEF Typed
  <2>5. WindowSafe' BY <1>0, <1>1, <2>1, <2>2, <2>3 DEF WindowSafe, DirtyPages
  <2>6. RamSafe' BY <1>0, <2>1, <2>3 DEF TransferInv, RamSafe
  <2>7. IterationSafe' BY <1>0, <2>2, <2>3 DEF TransferInv, IterationSafe, Written
  <2>8. CleanIsShown' BY <1>0, <1>1, <2>1, <2>3 DEF TransferInv, CleanIsShown, DirtyColumns
  <2>9. BaselineIsWhole' BY <2>2 DEF BaselineIsWhole
  <2>10. (\A x \in Cells : gddram[x] \subseteq {x[1], Noise})' BY <1>0 DEF TransferInv
  <2> QED BY <1>0, <1>2, <2>4, <2>5, <2>6, <2>7, <2>8, <2>9, <2>10, IdleInv
<1>5. CASE NextPageSelects
  <2>1. /\ DirtyPages = {} /\ ram' = Blank /\ iter' = [iter EXCEPT !.window = @ + 1]
        /\ dirty' = [p \in DisplayPages |->
                       IF p \in InWindow(iter.window + 1) THEN [min |-> 0, max |-> Width - 1]
                       ELSE NoRange]
    BY <1>5 DEF NextPageSelects
  <2>2. PICK w : w = iter.window + 1 OBVIOUS
  <2>3. /\ iter' \in [window : Nat, active : BOOLEAN, synced : BOOLEAN, pages : BufferSizes]
        /\ iter'.pages = iter.pages /\ iter'.window = w /\ w \in Nat
        /\ (iter'.active <=> PageMode) /\ (iter'.synced => PageMode /\ iter.synced)
    BY <1>0, <1>1, <2>1, <2>2
  <2>4. \A p \in DisplayPages, c \in Columns : p < w * BufferPages => Written(p, c)
    BY <1>0, <2>1, <2>2, WindowIsWritten
  <2> QED BY <1>0, <1>1, <1>2, <2>1, <2>2, <2>3, <2>4, SelectsInv
<1>6. CASE NextPageEnds
  <2>1. /\ DirtyPages = {} /\ LastWindow /\ UNCHANGED <<ram, dirty>>
        /\ iter' = [iter EXCEPT !.window = 0, !.active = FALSE, !.synced = TRUE]
    BY <1>6 DEF NextPageEnds
  <2>2. /\ iter' \in [window : Nat, active : BOOLEAN, synced : BOOLEAN, pages : BufferSizes]
        /\ iter'.pages = iter.pages /\ ~iter'.active
    BY <1>1, <2>1
  <2>3. (PageMode' <=> PageMode) /\ Offsets' = Offsets BY <2>2, SameBuffer
  <2>4. Typed' BY <1>0, <1>2, <2>1, <2>2, <2>3 DEF Typed
  <2>5. WindowSafe'
    <3>1. DirtyPages' = {} BY <2>1 DEF DirtyPages
    <3> QED BY <1>1, <1>2, <2>3, <3>1 DEF WindowSafe
  <2>6. RamSafe' BY <1>1, <2>2, <2>3 DEF RamSafe
  <2>7. IterationSafe' BY <2>2 DEF IterationSafe
  <2>8. CleanIsShown' BY <1>1, <2>2, <2>3 DEF CleanIsShown
  <2>9. BaselineIsWhole'
    <3> SUFFICES ASSUME NEW x \in Cells PROVE Noise \notin gddram'[x] BY DEF BaselineIsWhole
    <3>1. PICK p \in DisplayPages, c \in Columns : x = <<p, c>> BY DEF Cells
    <3> DEFINE m == (iter.window + 1) * BufferPages
    <3>2. m \in Int /\ TotalPages <= m /\ p \in Nat /\ p < TotalPages
      BY <1>1, <2>1, PagesAreNaturals, TransferConstants DEF LastWindow, BufferPages
    <3> HIDE DEF m
    <3>3. p < m BY <3>2, TransferConstants
    <3>4. Written(p, c) BY <1>0, <2>1, <3>3, WindowIsWritten DEF m
    <3> QED BY <1>0, <3>1, <3>4 DEF Written
  <2>10. (\A x \in Cells : gddram[x] \subseteq {x[1], Noise})' BY <1>0 DEF TransferInv
  <2> QED BY <1>0, <1>2, <2>4, <2>5, <2>6, <2>7, <2>8, <2>9, <2>10, IdleInv
<1> QED BY <1>3, <1>4, <1>5, <1>6

-----------------------------------------------------------------------------
\* The invariant

\* Nothing is dirty, and nothing is promised.
LEMMA InitInv == Init => TransferInv
<1> SUFFICES ASSUME Init PROVE TransferInv OBVIOUS
<1>1. /\ iter \in [window : {0}, active : {FALSE}, synced : {FALSE}, pages : BufferSizes]
      /\ ram = [o \in Offsets |-> {}] /\ dirty = [p \in DisplayPages |-> NoRange]
      /\ job = NoJob /\ poll = NoPoll /\ gddram = [x \in Cells |-> {Noise}]
      /\ regs = [c0 |-> 0, c1 |-> Width - 1, p0 |-> 0, p1 |-> TotalPages - 1,
                 col |-> 0, page |-> 0]
  BY DEF Init
<1>2. Typed
  <2>1. iter \in [window : Nat, active : BOOLEAN, synced : BOOLEAN, pages : BufferSizes]
    <3>1. PICK pages \in BufferSizes :
            iter = [window |-> 0, active |-> FALSE, synced |-> FALSE, pages |-> pages]
      BY <1>1
    <3> QED BY <3>1
  <2>2. ram \in [Offsets -> SUBSET DisplayPages] BY <1>1
  <2>3. dirty \in [DisplayPages -> Ranges] BY <1>1 DEF Ranges
  <2>4. job \in JobType BY <1>1, JobStates
  <2>5. poll \in [writes : Nat, bytes : Nat] BY <1>1 DEF NoPoll
  <2>6. regs \in RegsType
    BY <1>1, TransferConstants DEF RegsType, Columns, DisplayPages
  <2>7. gddram \in [Cells -> SUBSET (DisplayPages \cup {Noise})] BY <1>1
  <2> QED BY <2>1, <2>2, <2>3, <2>4, <2>5, <2>6, <2>7 DEF Typed
<1>3. ~IsFlushing /\ iter.window = 0 /\ ~iter.active /\ ~iter.synced
  BY <1>1 DEF IsFlushing, NoJob
<1>4. WindowSafe
  <2>1. ~(NoRange.min <= NoRange.max) BY DEF NoRange
  <2>2. DirtyPages = {} BY <1>1, <2>1 DEF DirtyPages
  <2> QED BY <1>3, <2>2 DEF WindowSafe
<1>5. RamSafe BY <1>1, <1>2, OffsetFacts DEF RamSafe
<1>6. JobSafe /\ PollSafe /\ SentSafe /\ RewriteSafe /\ IterationSafe
  BY <1>1, <1>3 DEF JobSafe, PollSafe, SentSafe, RewriteSafe, IterationSafe
<1>7. CleanIsShown /\ BaselineIsWhole BY <1>3 DEF CleanIsShown, BaselineIsWhole
<1> QED BY <1>1, <1>2, <1>4, <1>5, <1>6, <1>7 DEF TransferInv

\* Steps that change nothing of this.
LEMMA StutterInv ==
  ASSUME TransferInv, UNCHANGED vars
  PROVE  TransferInv'
<1>1. /\ ram' = ram /\ dirty' = dirty /\ job' = job /\ iter' = iter /\ poll' = poll
      /\ regs' = regs /\ gddram' = gddram
  BY DEF vars
<1>2. /\ (PageMode' <=> PageMode) /\ Offsets' = Offsets /\ BufferPages' = BufferPages
      /\ \A p, c : Offset(p, c)' = Offset(p, c)
      /\ Window' = Window /\ (IsFlushing' <=> IsFlushing) /\ Sent' = Sent
      /\ SentColumns' = SentColumns
  BY <1>1, SameBuffer DEF IsFlushing, Sent, SentColumns
<1>3. Typed' BY <1>1, <1>2 DEF TransferInv, Typed
<1>4. WindowSafe' BY <1>1, <1>2 DEF TransferInv, WindowSafe, DirtyPages
<1>5. JobSafe' BY <1>1, <1>2 DEF TransferInv, JobSafe, NoPoll
<1>6. PollSafe' BY <1>1, <1>2 DEF TransferInv, PollSafe, NoPoll
<1>7. SentSafe' BY <1>1, <1>2 DEF TransferInv, SentSafe, Written, Shown
<1>8. RewriteSafe' BY <1>1, <1>2 DEF TransferInv, RewriteSafe, Written, Shown, DirtyColumns
<1>9. UNCHANGED <<ram, iter, gddram>> BY <1>1
<1> QED BY <1>1, <1>3, <1>4, <1>5, <1>6, <1>7, <1>8, <1>9, OthersStay DEF TransferInv

\* Every action keeps the invariant.
LEMMA NextInv == TransferInv /\ [Next]_vars => TransferInv'
<1> SUFFICES ASSUME TransferInv, [Next]_vars PROVE TransferInv' OBVIOUS
<1>1. CASE (\E rect \in Rectangles, on \in BOOLEAN : DrawRect(rect, on)) \/ Clear
  BY <1>1, DrawingInv
<1>2. CASE RequestFlush \/ (\E rect \in Rectangles : RequestFlushRect(rect))
      \/ NextPageSends
  BY <1>2, RequestInv
<1>3. CASE (\E n \in 1..MaxWrites, budget \in Budgets : PollFlush(n, budget))
      \/ PollFlushEnded
  BY <1>3, PollInv
<1>4. CASE SendColumns \/ SendPage BY <1>4, AddressInv
<1>5. CASE SendAddressFails \/ SendDataFails BY <1>5, FailsInv
<1>6. CASE SendData BY <1>6, GoesOnInv, FinishInv
<1>7. CASE FirstPage BY <1>7, FirstPageInv
<1>8. CASE NextPageAfterError \/ NextPageRedraws \/ NextPageSelects \/ NextPageEnds
  BY <1>8, NextPageInv
<1>9. CASE UNCHANGED vars BY <1>9, StutterInv
<1> QED BY <1>1, <1>2, <1>3, <1>4, <1>5, <1>6, <1>7, <1>8, <1>9 DEF Next

\* The invariant holds in every reachable state.
LEMMA TransferIsSound == Spec => []TransferInv
BY InitInv, NextInv, PTL DEF Spec

\* However a page is cut into budgets and chunks, whatever failed before, the
\* pointers of the controller stand where the next byte belongs, and no byte of
\* GDDRAM holds pixels of another page.
THEOREM BytesLandRight == Spec => []RightPage
<1>1. TransferInv => RightPage
  <2> SUFFICES ASSUME TransferInv PROVE RightPage OBVIOUS
  <2>1. PointersAgree BY SendingFacts DEF PointersAgree
  <2> QED BY <2>1 DEF RightPage, TransferInv
<1> QED BY <1>1, TransferIsSound, PTL

\* With a baseline, GDDRAM shows every byte of the framebuffer that is not recorded
\* as dirty: nothing drawn is forgotten.
THEOREM CleanBytesAreShown == Spec => []CleanIsShown
<1>1. TransferInv => CleanIsShown BY DEF TransferInv
<1> QED BY <1>1, TransferIsSound, PTL

\* gddramSynchronized promises that every byte of every page was written.
THEOREM BaselinesAreWhole == Spec => []BaselineIsWhole
<1>1. TransferInv => BaselineIsWhole BY DEF TransferInv
<1> QED BY <1>1, TransferIsSound, PTL
=============================================================================
