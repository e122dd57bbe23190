------------------------------- MODULE Drawing -------------------------------
(***************************************************************************)
(* The drawing calls on the RAM buffer: which bits they change and which   *)
(* column ranges they record dirty, in whatever window is selected.  The   *)
(* calls do nothing on a detached object, so the object is attached here.  *)
(***************************************************************************)
EXTENDS Raster, FiniteSets

CONSTANTS
  Xs, Ys,      \* coordinates of a call
  Sizes,       \* widths and heights of rectangles and bitmaps
  Centres,     \* centres of circles
  Radii,       \* radii of circles
  Ends,        \* endpoints of lines
  Starts,      \* where texts begin
  Texts,       \* texts
  Bands,       \* sizes of test patterns
  MaxCalls     \* calls of a behaviour

ASSUME InputAssumption ==
  /\ Xs \subseteq Int /\ Ys \subseteq Int /\ Sizes \subseteq Int
  /\ Centres \cup Ends \cup Starts \subseteq Int \X Int
  /\ \A s \in Texts : s \in Seq({s[i] : i \in DOMAIN s})
  /\ Radii \subseteq Int /\ Bands \subseteq Nat \ {0}
  /\ MaxCalls \in Nat

VARIABLES
  window,   \* _currentBufferPage: selected before the first call
  buffer,   \* addresses of the bits that are set
  dirty,    \* recorded column range of each page
  call,     \* the last call, and the pixels its arguments ask to set and clear
  calls     \* calls so far

vars == <<window, buffer, dirty, call, calls>>

Pages == 0..(TotalPages - 1)
Cols == 0..(Width - 1)
WindowPages ==
  {p \in Pages : PageMode => p \div PagesPerBuffer = window}

AllAddresses == (0..(Width * PagesPerBuffer - 1)) \X (0..(ByteBits - 1))

\* The bit that the flush engine sends for a pixel of the window: it finds the
\* byte by its own arithmetic (SEND_DATA), not by bufferIndex().
SentBit(p) ==
  <<p[1] + ((p[2] \div ByteBits) % PagesPerBuffer) * Width, p[2] % ByteBits>>

Lit(p) == SentBit(p) \in buffer
Seen == {p \in Screen : p[2] \div ByteBits \in WindowPages}

-----------------------------------------------------------------------------
\* Dirty tracking: a page keeps the hull of the ranges marked on it.

NonEmpty(r) == r.x0 <= r.x1 /\ r.y0 <= r.y1
HullOf(S) == {c \in Cols : \E a, b \in S : a <= c /\ c <= b}

\* Wrong: the last page that a rectangle touches is not marked.
MarkRectsMutant(rects) ==
  [p \in Pages |->
     IF p \notin WindowPages THEN dirty[p]
     ELSE HullOf(dirty[p] \cup UNION {r.x0..r.x1 : r \in {q \in rects :
            NonEmpty(q) /\ q.y0 \div ByteBits <= p
              /\ p <= AtLeast(q.y0 \div ByteBits, q.y1 \div ByteBits - 1)}})]

\* markDirty() for every page that one of the clipped rectangles touches;
\* pages outside the window are ignored.
MarkRects(rects) ==
  [p \in Pages |->
     IF p \notin WindowPages THEN dirty[p]
     ELSE HullOf(dirty[p] \cup UNION {r.x0..r.x1 : r \in {q \in rects :
            NonEmpty(q) /\ q.y0 \div ByteBits <= p /\ p <= q.y1 \div ByteBits}})]

MarkPixels(pixels) == MarkRects({ClipRect(p[1], p[2], 1, 1) : p \in pixels \cap Screen})

MarkAll == [p \in Pages |-> IF p \in WindowPages THEN Cols ELSE dirty[p]]

\* The bits of the drawn pixels change, the given ranges become dirty, and the
\* call is recorded together with the pixels its arguments ask for.
Paint(on, pixels, marks, asked) ==
  /\ calls' = calls + 1
  /\ buffer' = IF on THEN buffer \cup Addresses(window, pixels)
               ELSE buffer \ Addresses(window, pixels)
  /\ dirty' = marks
  /\ call' = asked
  /\ UNCHANGED window

Asked(kind, on, pixels, args) ==
  [kind |-> kind, set |-> IF on THEN pixels ELSE {}, clear |-> IF on THEN {} ELSE pixels,
   args |-> args]

-----------------------------------------------------------------------------
\* What the arguments of a call mean, independently of how it draws

InRect(x, y, w, h) ==
  {p \in Screen : x <= p[1] /\ p[1] < x + w /\ y <= p[2] /\ p[2] < y + h}

OnBorder(x, y, w, h) ==
  {p \in InRect(x, y, w, h) : p[1] \in {x, x + w - 1} \/ p[2] \in {y, y + h - 1}}

\* Bit i of a bitmap is pixel i of its rows, each row padded to whole bytes.
Stride(w) == ((w + ByteBits - 1) \div ByteBits) * ByteBits
InBitmap(x, y, w, h, bits) ==
  {p \in InRect(x, y, w, h) : (p[2] - y) * Stride(w) + (p[1] - x) \in bits}

Rewinds(s, i) == {j \in 1..(i - 1) : s[j] \in {"\n", "\r"}}
Feeds(s, i) == {j \in 1..(i - 1) : s[j] = "\n"}
Printed(s) == {i \in 1..AtMost(MaxChars, Len(s)) : s[i] \notin {"\n", "\r"}}
ColumnOf(s, i) == Cardinality({j \in Printed(s) : j < i /\ \A k \in Rewinds(s, i) : k < j})

LaidOut(x, y, s) ==
  UNION {CharPixels(x + CharWidth * ColumnOf(s, i),
                    y + CharHeight * Cardinality(Feeds(s, i)), s[i]) : i \in Printed(s)}

-----------------------------------------------------------------------------
\* The calls

SetPixel(x, y, on) ==
  Paint(on, {<<x, y>>}, MarkPixels({<<x, y>>}),
        Asked("pixel", on, InRect(x, y, 1, 1), <<>>))

DrawHLine(x, y, w, on) ==
  Paint(on, RectPixels(x, y, w, 1), MarkRects({ClipRect(x, y, w, 1)}),
        Asked("hline", on, InRect(x, y, w, 1), <<>>))

DrawVLine(x, y, h, on) ==
  Paint(on, RectPixels(x, y, 1, h), MarkRects({ClipRect(x, y, 1, h)}),
        Asked("vline", on, InRect(x, y, 1, h), <<>>))

FillRect(x, y, w, h, on) ==
  Paint(on, RectPixels(x, y, w, h), MarkRects({ClipRect(x, y, w, h)}),
        Asked("rect", on, InRect(x, y, w, h), <<>>))

DrawRect(x, y, w, h, on) ==
  LET edges == IF w <= 0 \/ h <= 0 THEN {} ELSE OutlineRects(x, y, w, h)
  IN  Paint(on, UNION {RectPixels(e[1], e[2], e[3], e[4]) : e \in edges},
            MarkRects({ClipRect(e[1], e[2], e[3], e[4]) : e \in edges}),
            Asked("outline", on, OnBorder(x, y, w, h), <<>>))

DrawLine(a, b, on) ==
  LET line == LinePixels(a, b)
  IN  Paint(on, line, MarkPixels(line), Asked("line", on, line, [from |-> a, to |-> b]))

DrawCircle(c, r, on) ==
  LET circle == OutlinePixels(c, r)
  IN  Paint(on, circle, MarkPixels(circle),
            Asked("circle", on, CirclePixels(c, r) \cap Screen, [centre |-> c, radius |-> r]))

FillCircle(c, r, on) ==
  LET disc == DiscPixels(c, r)
  IN  Paint(on, disc, MarkPixels(disc),
            Asked("disc", on, disc, [centre |-> c, radius |-> r]))

\* Wrong: the last, incomplete byte of a row is not counted.
RequiredBytesMutant(w, h) == (w \div ByteBits) * h

RequiredBytes(w, h) == ((w + ByteBits - 1) \div ByteBits) * h

\* The byte of the bitmap that holds a pixel of it.
BitmapByte(w, col, row) ==
  row * ((w + ByteBits - 1) \div ByteBits) + col \div ByteBits

\* drawBitmap(): only '1' bits are drawn, the whole clipped rectangle becomes
\* dirty.  A source that is too small is refused; bits is what it holds.
DrawBitmap(x, y, w, h, size, bits, on) ==
  LET area == RectPixels(x, y, w, h)
      SourceByte(p) == BitmapByte(w, p[1] - x, p[2] - y)
      ones == {p \in area :
                 SourceByte(p) * ByteBits + ((p[1] - x) % ByteBits) \in bits}
  IN  IF w > 0 /\ h > 0 /\ size < RequiredBytes(w, h)
      THEN Paint(on, {}, dirty, Asked("refused", on, {}, <<>>))
      ELSE Paint(on, ones, MarkRects(IF area = {} THEN {} ELSE {ClipRect(x, y, w, h)}),
                 Asked("bitmap", on, InBitmap(x, y, w, h, bits),
                       [size |-> size,
                        read |-> {SourceByte(p) : p \in {q \in area : InWindow(window, q[2])}}]))

\* drawTextN(), and drawText() on a terminated string: the cell of every drawn
\* character becomes dirty.
DrawText(x, y, s, on) ==
  LET run == TextRun(x, y, s)
  IN  Paint(on, UNION {CharPixels(c[1], c[2], c[3]) : c \in run.cells},
            MarkRects({ClipRect(c[1], c[2], GlyphWidth, GlyphHeight) : c \in run.cells}),
            Asked("text", on, LaidOut(x, y, s), [x |-> x, y |-> y, text |-> s]))

\* _fillPattern(): every pixel of the window is set or cleared.
FillPattern(kind, size) ==
  LET on == PatternPixels(kind, size)
  IN  /\ calls' = calls + 1
      /\ buffer' = (buffer \ Addresses(window, Screen)) \cup Addresses(window, on)
      /\ dirty' = MarkAll
      /\ call' = [kind |-> "pattern", set |-> on, clear |-> Screen \ on, args |-> <<>>]
      /\ UNCHANGED window

\* clear() and fill() write every byte of the buffer, also those below the display.
FillBuffer(on) ==
  /\ calls' = calls + 1
  /\ buffer' = IF on THEN AllAddresses ELSE {}
  /\ dirty' = MarkAll
  /\ call' = Asked("all", on, Screen, <<>>)
  /\ UNCHANGED window

Nothing == [kind |-> "nothing", set |-> {}, clear |-> {}, args |-> <<>>]

\* A blank or filled buffer, its window clean, as a flush leaves it, or with the
\* first column dirty, as an earlier call leaves it.
Init ==
  /\ window \in Windows
  /\ buffer \in {{}, AllAddresses}
  /\ \E marked \in {{}, {0}} :
       dirty = [p \in Pages |-> IF p \in WindowPages THEN marked ELSE {}]
  /\ call = Nothing
  /\ calls = 0

PatternKinds == {"CHECKERBOARD", "VERTICAL_STRIPES", "HORIZONTAL_STRIPES"}

\* The sources: no '1' bit, every one alone, and all.
Sources(size) ==
  LET bits == 0..(size * ByteBits - 1)
  IN  {{}, bits} \cup {{i} : i \in bits}

BitmapCall ==
  \E x \in Xs, y \in Ys, w, h \in Sizes, on \in BOOLEAN :
    LET required == (Stride(w) \div ByteBits) * h
    IN  \E size \in {required - 1, required} \cap Nat :
          \E bits \in Sources(size) : DrawBitmap(x, y, w, h, size, bits, on)

AnyCall ==
  \/ \E on \in BOOLEAN : FillBuffer(on)
  \/ \E x \in Xs, y \in Ys, on \in BOOLEAN :
       \/ SetPixel(x, y, on)
       \/ \E n \in Sizes : DrawHLine(x, y, n, on) \/ DrawVLine(x, y, n, on)
       \/ \E w, h \in Sizes : FillRect(x, y, w, h, on) \/ DrawRect(x, y, w, h, on)
  \/ \E a, b \in Ends, on \in BOOLEAN : DrawLine(a, b, on)
  \/ \E c \in Centres, r \in Radii, on \in BOOLEAN :
       DrawCircle(c, r, on) \/ FillCircle(c, r, on)
  \/ \E p \in Starts, s \in Texts, on \in BOOLEAN : DrawText(p[1], p[2], s, on)
  \/ BitmapCall
  \/ \E kind \in PatternKinds, size \in Bands : FillPattern(kind, size)

Next == calls < MaxCalls /\ AnyCall

Spec == Init /\ [][Next]_vars

-----------------------------------------------------------------------------
\* What the flush will send of this window is exactly what the calls asked for,
\* whichever window is selected: drawing window by window composes the frame
\* that a full framebuffer would hold, and no other pixel changes.
DrawsWhatWasAsked ==
  [][\A p \in Seen :
       Lit(p)' <=> p \in call'.set \/ (Lit(p) /\ p \notin call'.clear)]_vars

\* Every pixel that a call changes lies in a recorded dirty range, and no range
\* is forgotten: a flush that sends the ranges leaves nothing old behind.
ChangesAreDirty ==
  [][\A p \in Seen :
       /\ Lit(p)' # Lit(p) => p[1] \in dirty'[p[2] \div ByteBits]
       /\ dirty[p[2] \div ByteBits] \subseteq dirty'[p[2] \div ByteBits]]_vars

\* A bitmap whose size was accepted is never read beyond that size.
BitmapReadInBounds ==
  call.kind = "bitmap" => \A byte \in call.args.read : byte \in 0..(call.args.size - 1)

-----------------------------------------------------------------------------
\* Lines

Drawn == call.set \cup call.clear

Span(a, b) == AtLeast(Abs(b[1] - a[1]), Abs(b[2] - a[2]))
Offset(p, a, b) == Abs((b[1] - a[1]) * (p[2] - a[2]) - (b[2] - a[2]) * (p[1] - a[1]))

\* Every drawn pixel is less than one pixel from the segment along its minor axis.
FollowsSegment(a, b) ==
  \A p \in Drawn : Offset(p, a, b) < AtLeast(1, Span(a, b))

\* Every point of the segment on the display has a drawn pixel next to it.
CoversSegment(a, b) ==
  LET m == AtLeast(1, Span(a, b))
      At(i) == <<a[1] * m + (b[1] - a[1]) * i, a[2] * m + (b[2] - a[2]) * i>>
  IN  \A i \in 0..m :
        At(i) \in (0..((Width - 1) * m)) \X (0..((Height - 1) * m)) =>
          \E p \in Drawn : Abs(At(i)[1] - p[1] * m) < m /\ Abs(At(i)[2] - p[2] * m) < m

\* drawLine(): clipping on the borders neither bends a line, though the raster
\* starts again from a rounded point, nor drops a visible part of it.
LineIsTheSegment ==
  call.kind = "line" =>
    FollowsSegment(call.args.from, call.args.to) /\ CoversSegment(call.args.from, call.args.to)

-----------------------------------------------------------------------------
\* Circles

Sq(n) == n * n

\* Every pixel is less than half a pixel outside and less than one and a half
\* pixels inside the true circle.
Round(c, r) ==
  \A p \in Drawn :
    4 * (Sq(p[1] - c[1]) + Sq(p[2] - c[2])) \in (Sq(2 * r - 3) + 1)..(Sq(2 * r + 1) - 1)

\* All that the outline encloses, clipped like it.
Enclosed(c, r) ==
  LET outline == CirclePixels(c, r)
  IN  {p \in Screen : \E q, q2 \in outline :
         q[1] = p[1] /\ q2[1] = p[1] /\ q[2] <= p[2] /\ p[2] <= q2[2]}

\* What fillCircle() loses of a small disc, whose second row is narrower than its first:
\* see DiscsAreMirrored.
LeftOut(c, r) == IF r \in 1..3 THEN {<<c[1] - r, c[2]>>} ELSE {}

\* drawCircle() draws a circle, not a polygon that drifts with the radius, and
\* fillCircle() fills exactly that circle: no gap and nothing outside, but for the
\* leftmost pixel of the three smallest discs.
CirclesAreRound ==
  /\ call.kind = "circle" /\ call.args.radius > 1 => Round(call.args.centre, call.args.radius)
  /\ call.kind = "disc" =>
       Drawn = Enclosed(call.args.centre, call.args.radius)
                 \ LeftOut(call.args.centre, call.args.radius)

\* A comment in fillCircle() (src/SSD1315.cpp:3193) says that in the row of the centre
\* the mirrored spans repeat the columns already drawn, so that leaving them out loses
\* nothing: the left half of a disc is the mirror image of the right half.
DiscsAreMirrored ==
  call.kind = "disc" =>
    \A p \in Drawn :
      LET mirrored == <<2 * call.args.centre[1] - p[1], p[2]>>
      IN  mirrored \in Screen => mirrored \in Drawn

-----------------------------------------------------------------------------
\* Text

InItsWidth(x, s) == \A p \in Drawn : x <= p[1] /\ p[1] < x + TextWidth(s)

OneLine(s) == Len(s) <= MaxChars /\ \A i \in 1..Len(s) : s[i] \notin {"\n", "\r"}

\* The text drawn in two calls, the second where the first ended.
InTwoCalls(x, y, s, i) ==
  LET first == SubSeq(s, 1, i)
  IN  LaidOut(x, y, first) \cup LaidOut(TextRun(x, y, first).x, y, SubSeq(s, i + 1, Len(s)))

\* drawText() and getTextWidth() fit together: a caller that clears the width
\* before drawing leaves no pixel of the text outside it, and a caller that goes on
\* at the returned cursor draws what one call would, also off the display and at
\* the end of int16_t.
TextIsCoherent ==
  call.kind = "text" =>
    /\ InItsWidth(call.args.x, call.args.text)
    /\ OneLine(call.args.text) =>
         \A i \in 0..Len(call.args.text) :
           Drawn = InTwoCalls(call.args.x, call.args.y, call.args.text, i)
=============================================================================
