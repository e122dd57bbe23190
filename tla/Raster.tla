-------------------------------- MODULE Raster --------------------------------
(***************************************************************************)
(* The geometry of the drawing primitives (src/SSD1315.cpp): which display *)
(* pixels a call touches, computed the way the code computes them.  Pixels *)
(* are pairs <<x, y>>; a window is the part of the display that the RAM    *)
(* buffer covers.                                                          *)
(***************************************************************************)
EXTENDS Integers, Sequences

CONSTANTS
  Width,           \* Config::width
  TotalPages,      \* Config::height / 8
  PagesPerBuffer,  \* Config::pageBufferPages
  ByteBits,        \* 8: pixels of a byte, rows of a page
  GlyphWidth,      \* FONT_WIDTH
  GlyphHeight,     \* FONT_HEIGHT
  CharWidth,       \* CHAR_WIDTH
  CharHeight,      \* CHAR_HEIGHT
  Glyph,           \* FONT_5X7: the pixels of each printable character
  MaxChars,        \* TEXT_MAX_CHARS
  MaxInt16         \* INT16_MAX

ASSUME RasterAssumption ==
  /\ Width \in Nat \ {0} /\ TotalPages \in Nat \ {0}
  /\ PagesPerBuffer \in 1..TotalPages
  /\ ByteBits \in Nat \ {0}
  /\ CharWidth \in Nat /\ GlyphWidth \in 1..CharWidth
  /\ CharHeight \in Nat /\ GlyphHeight \in 1..CharHeight
  /\ \A c \in DOMAIN Glyph :
       Glyph[c] \subseteq (0..(GlyphWidth - 1)) \X (0..(GlyphHeight - 1))
  /\ MaxChars \in Nat /\ MaxInt16 \in Nat
  /\ MaxInt16 >= Width /\ MaxInt16 >= TotalPages * ByteBits
  /\ MaxInt16 >= MaxChars * CharWidth /\ MaxInt16 >= CharHeight

Height == TotalPages * ByteBits
Screen == (0..(Width - 1)) \X (0..(Height - 1))
Windows == 0..((TotalPages - 1) \div PagesPerBuffer)
PageMode == PagesPerBuffer < TotalPages

Abs(n) == IF n < 0 THEN -n ELSE n
AtLeast(lo, n) == IF n < lo THEN lo ELSE n
AtMost(hi, n) == IF n > hi THEN hi ELSE n

-----------------------------------------------------------------------------
\* The window and the byte buffer behind it

YOffset(w) == w * PagesPerBuffer * ByteBits

BufY(w, y) == IF PageMode THEN y - YOffset(w) ELSE y

\* _bufferRow(): the row is on the display and in the window.
InWindow(w, y) ==
  /\ y \in 0..(Height - 1)
  /\ PageMode => BufY(w, y) \in 0..(PagesPerBuffer * ByteBits - 1)

\* bufferIndex() and bufferBit(): the byte and the bit that hold a pixel.
Address(w, p) ==
  <<p[1] + ((BufY(w, p[2]) \div ByteBits) % PagesPerBuffer) * Width,
    BufY(w, p[2]) % ByteBits>>

Visible(w, p) == p \in Screen /\ InWindow(w, p[2])
Addresses(w, pixels) == {Address(w, p) : p \in {q \in pixels : Visible(w, q)}}

-----------------------------------------------------------------------------
\* Rectangles

\* The rectangle clipped to the display, in wide arithmetic; empty when a
\* bound is crossed.
ClipRect(x, y, w, h) ==
  [x0 |-> AtLeast(0, x), y0 |-> AtLeast(0, y),
   x1 |-> AtMost(Width - 1, x + w - 1), y1 |-> AtMost(Height - 1, y + h - 1)]

Covered(r) == (r.x0..r.x1) \X (r.y0..r.y1)

\* fillRect(), and the lines drawHLine() and drawVLine() as its thin cases.
RectPixels(x, y, w, h) ==
  IF w <= 0 \/ h <= 0 THEN {} ELSE Covered(ClipRect(x, y, w, h))

\* Wrong: the outline is that of the clipped rectangle.
OutlineRectsMutant(x, y, w, h) ==
  LET r == ClipRect(x, y, w, h)
      cw == r.x1 - r.x0 + 1
      ch == r.y1 - r.y0 + 1
  IN  {<<r.x0, r.y0, cw, 1>>, <<r.x0, r.y1, cw, 1>>, <<r.x0, r.y0, 1, ch>>, <<r.x1, r.y0, 1, ch>>}

\* drawRect(): its four true edges, each clipped on its own.  An edge whose
\* coordinate is beyond int16_t is not on the display.
OutlineRects(x, y, w, h) ==
  LET right == x + w - 1
      bottom == y + h - 1
  IN  {<<x, y, w, 1>>, <<x, y, 1, h>>}
        \cup (IF bottom # y /\ bottom <= MaxInt16 THEN {<<x, bottom, w, 1>>} ELSE {})
        \cup (IF right # x /\ right <= MaxInt16 THEN {<<right, y, 1, h>>} ELSE {})

-----------------------------------------------------------------------------
\* Lines: Cohen-Sutherland clipping, then Bresenham

OutCode(p) ==
  (IF p[1] < 0 THEN {"LEFT"} ELSE IF p[1] > Width - 1 THEN {"RIGHT"} ELSE {})
    \cup (IF p[2] < 0 THEN {"TOP"} ELSE IF p[2] > Height - 1 THEN {"BOTTOM"} ELSE {})

\* Division of C++ rounds towards zero.
Quotient(n, d) ==
  IF (n < 0) = (d < 0) THEN Abs(n) \div Abs(d) ELSE -(Abs(n) \div Abs(d))

DivideRoundNearest(n, d) ==
  IF (n < 0) = (d < 0) THEN Quotient(n + Quotient(d, 2), d) ELSE Quotient(n - Quotient(d, 2), d)

\* Where the line from a to b crosses the border named by code; computed from
\* the original endpoints, so that rounding does not accumulate.
Crossing(a, b, code) ==
  LET dx == b[1] - a[1]
      dy == b[2] - a[2]
      AtY(y) == <<a[1] + DivideRoundNearest(dx * (y - a[2]), dy), y>>
      AtX(x) == <<x, a[2] + DivideRoundNearest(dy * (x - a[1]), dx)>>
  IN  CASE "TOP" \in code -> AtY(0)
        [] "BOTTOM" \in code -> AtY(Height - 1)
        [] code = {"RIGHT"} -> AtX(Width - 1)
        [] code = {"LEFT"} -> AtX(0)

\* Wrong: one clip per axis is taken to be enough.
MaxClipsMutant == 2

MaxClips == 4

\* One iteration of the clipping loop: the first endpoint that is off the display
\* moves to a border, unless the loop is over.  A crossed border is never parallel to
\* the line: then both endpoints would be beyond it.
ClipStep(a, b, t) ==
  LET cp == OutCode(t.p)
      cq == OutCode(t.q)
  IN  CASE cp \cup cq = {} \/ cp \cap cq # {} -> t
        [] cp # {} /\ cp \cap cq = {} -> [t EXCEPT !.p = Crossing(a, b, cp)]
        [] cp = {} /\ cq # {} -> [t EXCEPT !.q = Crossing(a, b, cq)]

\* The endpoints after each iteration.
ClipLoop(a, b) ==
  LET t[i \in 0..MaxClips] == IF i = 0 THEN [p |-> a, q |-> b] ELSE ClipStep(a, b, t[i - 1])
  IN  t

\* The clipped endpoints; none when the line misses the display or clipping does not
\* settle in MaxClips iterations.
ClipLine(a, b) ==
  LET end == ClipLoop(a, b)[MaxClips]
  IN  IF OutCode(end.p) \cup OutCode(end.q) = {} THEN {<<end.p, end.q>>} ELSE {}

\* One round of the raster loop, which ends at q.
LineStep(p, q, t) ==
  LET dx == Abs(q[1] - p[1])
      dy == Abs(q[2] - p[2])
      alongX == 2 * t.err > -dy
      alongY == 2 * t.err < dx
  IN  IF <<t.x, t.y>> = q THEN t
      ELSE [x |-> IF alongX THEN t.x + (IF p[1] < q[1] THEN 1 ELSE -1) ELSE t.x,
            y |-> IF alongY THEN t.y + (IF p[2] < q[2] THEN 1 ELSE -1) ELSE t.y,
            err |-> t.err - (IF alongX THEN dy ELSE 0) + (IF alongY THEN dx ELSE 0)]

\* The pixel and the error after each round.  A round moves on in at least one
\* direction, so that the loop ends within these rounds.
LineLoop(p, q) ==
  LET dx == Abs(q[1] - p[1])
      dy == Abs(q[2] - p[2])
      t[i \in 0..(dx + dy)] ==
        IF i = 0 THEN [x |-> p[1], y |-> p[2], err |-> dx - dy] ELSE LineStep(p, q, t[i - 1])
  IN  t

Bresenham(p, q) ==
  LET t == LineLoop(p, q)
  IN  {<<t[i].x, t[i].y>> : i \in DOMAIN t}

LinePixels(a, b) == UNION {Bresenham(e[1], e[2]) : e \in ClipLine(a, b)}

-----------------------------------------------------------------------------
\* Circles

\* Wrong: the error is not corrected when the column moves.
CircleStepMutant(t, y) ==
  LET err == t.err + 1 + 2 * y
  IN  IF 2 * (err - t.x) + 1 > 0 THEN [x |-> t.x - 1, err |-> err] ELSE [x |-> t.x, err |-> err]

\* The end of an iteration of the circle loops, which moves on to row y.
CircleStep(t, y) ==
  LET err == t.err + 1 + 2 * y
  IN  IF 2 * (err - t.x) + 1 > 0
      THEN [x |-> t.x - 1, err |-> err + 1 - 2 * (t.x - 1)]
      ELSE [x |-> t.x, err |-> err]

\* The column and the error in each row, from the row of the centre on.
CircleLoop(r) ==
  LET t[y \in 0..r] == IF y = 0 THEN [x |-> r, err |-> 0] ELSE CircleStep(t[y - 1], y)
  IN  t

\* The first octant, which the loops step through while x >= y; x never grows.
Octant(r) ==
  LET t == CircleLoop(r)
  IN  {<<t[y].x, y>> : y \in {row \in 0..r : t[row].x >= row}}

\* The bounding box meets the display.
TouchesDisplay(c, r) ==
  c[1] + r >= 0 /\ c[2] + r >= 0 /\ c[1] - r < Width /\ c[2] - r < Height

\* drawCircle() before clipping: the octant and its seven reflections.
CirclePixels(c, r) ==
  {<<c[1] + sx * o[1], c[2] + sy * o[2]>> : sx, sy \in {-1, 1}, o \in Octant(r)}
    \cup {<<c[1] + sx * o[2], c[2] + sy * o[1]>> : sx, sy \in {-1, 1}, o \in Octant(r)}

OutlinePixels(c, r) == IF TouchesDisplay(c, r) THEN CirclePixels(c, r) \cap Screen ELSE {}

\* The vertical spans <<x, y, height>> for one point, on one side of the centre.
SpansOn(side, c, o) ==
  {<<c[1] + side * o[1], c[2] - o[2], 2 * o[2] + 1>>,
   <<c[1] + side * o[2], c[2] - o[1], 2 * o[1] + 1>>}

\* fillCircle() leaves the mirrored ones out in the row of the centre.
Spans(c, o) == SpansOn(1, c, o) \cup (IF o[2] # 0 THEN SpansOn(-1, c, o) ELSE {})

DiscPixels(c, r) ==
  IF ~TouchesDisplay(c, r) THEN {}
  ELSE UNION {RectPixels(s[1], s[2], 1, s[3]) : s \in UNION {Spans(c, o) : o \in Octant(r)}}

-----------------------------------------------------------------------------
\* Text.  A text is a sequence of characters: members of DOMAIN Glyph, "\n",
\* "\r", and anything else, which is drawn as a filled box.

CharPixels(x, y, c) ==
  IF c \in DOMAIN Glyph THEN {<<x + g[1], y + g[2]>> : g \in Glyph[c]} \cap Screen
  ELSE RectPixels(x, y, GlyphWidth, GlyphHeight)

IsInt16(n) == n \in -(MaxInt16 + 1)..MaxInt16

\* What one character does to the cursor and to the list of cells drawn.
Advance(startX, t, c) ==
  CASE c = "\n" -> [t EXCEPT !.x = startX, !.y = @ + CharHeight]
    [] c = "\r" -> [t EXCEPT !.x = startX]
    [] OTHER -> [t EXCEPT !.x = @ + CharWidth,
                          !.cells = IF IsInt16(t.x) /\ IsInt16(t.y)
                                    THEN @ \cup {<<t.x, t.y, c>>} ELSE @]

Bounded(s) == SubSeq(s, 1, AtMost(MaxChars, Len(s)))

\* The cursor and the cells after each character.
TextLoop(x, y, s) ==
  LET t[i \in 0..Len(s)] ==
        IF i = 0 THEN [x |-> x, y |-> y, cells |-> {}] ELSE Advance(x, t[i - 1], s[i])
  IN  t

Saturated(n) == AtLeast(-(MaxInt16 + 1), AtMost(MaxInt16, n))

\* Wrong: the cursor stops behind the last glyph, without its spacing.
TextRunMutant(x, y, s) ==
  LET end == TextLoop(x, y, Bounded(s))[Len(Bounded(s))]
  IN  [end EXCEPT !.x = Saturated(@ - CharWidth + GlyphWidth)]

\* drawTextN(): the cursor after the text, saturated, and the cells it drew.
TextRun(x, y, s) ==
  LET end == TextLoop(x, y, Bounded(s))[Len(Bounded(s))]
  IN  [end EXCEPT !.x = Saturated(@)]

WidthStep(t, c) ==
  IF c \in {"\n", "\r"} THEN [widest |-> AtLeast(t.widest, t.run), run |-> 0]
  ELSE [widest |-> t.widest, run |-> t.run + CharWidth]

WidthLoop(s) ==
  LET t[i \in 0..Len(s)] ==
        IF i = 0 THEN [widest |-> 0, run |-> 0] ELSE WidthStep(t[i - 1], s[i])
  IN  t

\* getTextWidthN(): the widest run between rewinds of the cursor, saturated.
TextWidth(s) ==
  LET end == WidthLoop(Bounded(s))[Len(Bounded(s))]
  IN  AtMost(MaxInt16, AtLeast(end.widest, end.run))

-----------------------------------------------------------------------------
\* Test patterns: bands are counted from the top of the display, whatever the
\* window.
PatternPixels(kind, size) ==
  {p \in Screen :
     LET column == p[1] \div size
         band == p[2] \div size
     IN  CASE kind = "CHECKERBOARD" -> (column + band) % 2 = 1
           [] kind = "VERTICAL_STRIPES" -> column % 2 = 1
           [] kind = "HORIZONTAL_STRIPES" -> band % 2 = 1}
===============================================================================
