--------------------------- MODULE Drawing_proofs ---------------------------
(***************************************************************************)
(* The drawing calls, for every display, window, glyph table and argument. *)
(* Loops of the code are recursive functions over the rounds they have     *)
(* made, and what holds of every round is shown by induction over a set of *)
(* rounds.  The order is: loops, circles, arithmetic, where pixels are,    *)
(* discs, texts, lines (raster, distances, clipping, pixels), calls.       *)
(***************************************************************************)
EXTENDS Drawing, FiniteSetTheorems, SequenceTheorems, WellFoundedInduction, TLAPS

-----------------------------------------------------------------------------
\* Loops

\* A set of rounds that contains the first and with each round the next contains all.
LEMMA EveryRound ==
  ASSUME NEW n \in Nat, NEW P, 0 \in P, \A i \in 1..n : i - 1 \in P => i \in P
  PROVE  0..n \subseteq P
<1> DEFINE S == (0..n) \ P
<1>1. SUFFICES ASSUME S # {} PROVE FALSE OBVIOUS
<1>2. S \subseteq Nat OBVIOUS
<1>3. IsWellFoundedOn(OpToRel(<, Nat), Nat) BY NatLessThanWellFounded
<1>4. PICK m \in S : \A y \in S : ~(<<y, m>> \in OpToRel(<, Nat))
  BY <1>1, <1>2, <1>3, WFMin
<1>5. m \in 1..n /\ m \notin P
  <2>1. m \in 0..n /\ m \notin P OBVIOUS
  <2>2. m # 0 BY <2>1
  <2> QED BY <2>1, <2>2
<1>6. m - 1 \notin S
  <2>1. m - 1 < m /\ m - 1 \in Nat /\ m \in Nat BY <1>5
  <2> QED BY <1>4, <2>1 DEF OpToRel
<1>7. m - 1 \in P BY <1>5, <1>6
<1> QED BY <1>5, <1>7

\* A loop that goes from state to state: run holds the state after each round.
Runs(run, n, first, next) ==
  run = [i \in 0..n |-> IF i = 0 THEN first ELSE next[<<run[i - 1], i>>]]

LEMMA LoopRuns ==
  ASSUME NEW n \in Nat, NEW S, NEW first \in S, NEW next \in [S \X (1..n) -> S]
  PROVE  \E run \in [0..n -> S] : Runs(run, n, first, next)
<1> DEFINE Run(m) == {run \in [0..m -> S] :
                        run[0] = first /\ \A i \in 1..m : run[i] = next[<<run[i - 1], i>>]}
           P == {m \in 0..n : Run(m) # {}}
<1>1. 0 \in P
  <2>1. [i \in 0..0 |-> first] \in Run(0) OBVIOUS
  <2> QED BY <2>1
<1>2. ASSUME NEW m \in 1..n, m - 1 \in P PROVE m \in P
  <2>1. PICK run \in Run(m - 1) : TRUE BY <1>2
  <2> DEFINE longer == [i \in 0..m |-> IF i = m THEN next[<<run[m - 1], m>>] ELSE run[i]]
  <2>2. run \in [0..(m - 1) -> S] /\ m - 1 \in 0..(m - 1) OBVIOUS
  <2>3. next[<<run[m - 1], m>>] \in S BY <2>2
  <2>4. longer \in [0..m -> S] BY <2>2, <2>3
  <2>5. longer[0] = first BY <2>1
  <2>6. ASSUME NEW i \in 1..m PROVE longer[i] = next[<<longer[i - 1], i>>]
    <3>1. longer[i - 1] = run[i - 1] OBVIOUS
    <3>2. CASE i = m BY <3>1, <3>2
    <3>3. CASE i # m
      <4>1. i \in 1..(m - 1) BY <3>3
      <4>2. longer[i] = run[i] BY <3>3
      <4> QED BY <2>1, <3>1, <4>1, <4>2
    <3> QED BY <3>2, <3>3
  <2>7. longer \in Run(m)
    <3> HIDE DEF longer
    <3> QED BY <2>4, <2>5, <2>6
  <2>8. m \in 0..n OBVIOUS
  <2> HIDE DEF Run, longer
  <2> QED BY <2>7, <2>8
<1>3. n \in P
  <2> HIDE DEF P
  <2> QED BY <1>1, <1>2, EveryRound
<1>4. PICK run \in Run(n) : TRUE BY <1>3
<1>5. Runs(run, n, first, next)
  <2>1. run = [i \in 0..n |-> run[i]] OBVIOUS
  <2>2. \A i \in 0..n : i = 0 \/ i \in 1..n OBVIOUS
  <2> QED BY <2>1, <2>2, <1>4 DEF Runs
<1> QED BY <1>4, <1>5

-----------------------------------------------------------------------------
\* Circles

LoopState == [x : Int, err : Int]

LEMMA StepIsState ==
  ASSUME NEW s \in LoopState, NEW y \in Nat
  PROVE  CircleStep(s, y) \in LoopState
BY DEF CircleStep, LoopState

\* The loop does what its recursive definition says.
LEMMA CircleLoopRuns ==
  ASSUME NEW r \in Nat, NEW t, t = CircleLoop(r)
  PROVE  /\ t \in [0..r -> LoopState] /\ t[0] = [x |-> r, err |-> 0]
         /\ \A y \in 1..r : t[y] = CircleStep(t[y - 1], y)
<1> DEFINE first == [x |-> r, err |-> 0]
           next == [p \in LoopState \X (1..r) |-> CircleStep(p[1], p[2])]
           Rule(f) == f = [y \in 0..r |-> IF y = 0 THEN first ELSE CircleStep(f[y - 1], y)]
<1>1. first \in LoopState BY DEF LoopState
<1>2. next \in [LoopState \X (1..r) -> LoopState]
  <2>1. \A s \in LoopState, y \in 1..r : CircleStep(s, y) \in LoopState BY StepIsState
  <2> QED BY <2>1
<1>3. PICK run \in [0..r -> LoopState] : Runs(run, r, first, next)
  <2> HIDE DEF first, next
  <2> QED BY <1>1, <1>2, LoopRuns
<1>4. Rule(run)
  <2>1. \A y \in 1..r : next[<<run[y - 1], y>>] = CircleStep(run[y - 1], y)
    <3> TAKE y \in 1..r
    <3>1. y - 1 \in 0..r OBVIOUS
    <3>2. <<run[y - 1], y>> \in LoopState \X (1..r) BY <3>1
    <3> QED BY <3>2
  <2> HIDE DEF first, next
  <2>2. \A y \in 0..r : y = 0 \/ y \in 1..r OBVIOUS
  <2> QED BY <1>3, <2>1, <2>2 DEF Runs
<1>5. t = CHOOSE f : Rule(f) BY DEF CircleLoop
<1>6. Rule(t) BY <1>4, <1>5
<1> HIDE DEF first
<1>7. \A y \in 1..r : t[y] = CircleStep(t[y - 1], y)
  <2> TAKE y \in 1..r
  <2>1. y \in 0..r /\ y # 0 OBVIOUS
  <2> QED BY <1>6, <2>1
<1>8. t[0] = first BY <1>6
<1>9. \A y \in 0..r : t[y] \in LoopState
  <2> DEFINE P == {y \in 0..r : t[y] \in LoopState}
  <2>1. 0 \in P BY <1>1, <1>8
  <2>2. ASSUME NEW y \in 1..r, y - 1 \in P PROVE y \in P
    <3>1. PICK s \in LoopState : s = t[y - 1] BY <2>2
    <3>2. CircleStep(s, y) \in LoopState BY StepIsState
    <3>3. t[y] \in LoopState BY <1>7, <3>1, <3>2
    <3>4. y \in 0..r OBVIOUS
    <3> QED BY <3>3, <3>4
  <2>3. 0..r \subseteq P
    <3> HIDE DEF P
    <3> QED BY <2>1, <2>2, EveryRound
  <2> QED BY <2>3
<1>10. t = [y \in 0..r |-> t[y]] BY <1>6
<1> QED BY <1>7, <1>8, <1>9, <1>10 DEF first

\* A point of the loop: near the circle, and what the error is of.  The error exceeds
\* the distance by what the code adds too much in each step; close to the diagonal it
\* may be a little larger than it is behind a step that did not move.
Near(s, y, r) == Sq(s.x) + Sq(y) - Sq(r) \in (3 - 3 * r)..r
OnCircle(s, y, r) ==
  /\ s.x <= r
  /\ s.err = Sq(s.x) + Sq(y) - Sq(r) + 2 * y + 2 * (r - s.x)
  /\ Near(s, y, r)
  /\ s.x - y >= 2 => s.err <= s.x - 1
  /\ s.x - y = 1 => s.err <= s.x

LEMMA Squares ==
  ASSUME NEW n \in Int
  PROVE  Sq(n) \in Int /\ Sq(n - 1) = Sq(n) - 2 * n + 1
BY DEF Sq

LEMMA StepStaysOnCircle ==
  ASSUME NEW r \in Nat, r >= 2, NEW s \in LoopState, NEW y \in 1..r,
         OnCircle(s, y - 1, r), NEW u, u = CircleStep(s, y), u.x >= y
  PROVE  OnCircle(u, y, r)
<1>0. y \in Nat /\ u \in LoopState BY StepIsState
<1>1. s.x \in Int /\ s.err \in Int /\ u.x \in Int /\ u.err \in Int
  BY <1>0 DEF LoopState
<1>2. PICK x, e, d, f : /\ x = s.x /\ e = s.err
                        /\ d = Sq(s.x) + Sq(y - 1) - Sq(r) /\ f = Sq(u.x) + Sq(y) - Sq(r)
  OBVIOUS
<1>3. /\ Sq(x) \in Int /\ Sq(y) \in Int /\ Sq(r) \in Int
      /\ Sq(x - 1) = Sq(x) - 2 * x + 1 /\ Sq(y - 1) = Sq(y) - 2 * y + 1
  <2>1. x \in Int /\ y \in Int /\ r \in Int BY <1>1, <1>2
  <2> QED BY <2>1, Squares
<1>4. /\ x \in Int /\ x <= r /\ d \in (3 - 3 * r)..r
      /\ e = d + 2 * (y - 1) + 2 * (r - x)
      /\ x - (y - 1) >= 2 => e <= x - 1
      /\ x - (y - 1) = 1 => e <= x
  BY <1>1, <1>2 DEF OnCircle, Near
<1>5. CASE 2 * (e + 1 + 2 * y - x) + 1 > 0
  <2>1. u.x = x - 1 /\ u.err = e + 1 + 2 * y + 1 - 2 * (x - 1)
    BY <1>1, <1>2, <1>5 DEF CircleStep
  <2>2. f = d + 2 * y - 2 * x BY <1>2, <1>3, <1>4, <2>1
  <2>3. x - 1 >= y BY <2>1
  <2>4. f \in (3 - 3 * r)..r BY <1>4, <1>5, <2>2, <2>3
  <2>5. u.err = f + 2 * y + 2 * (r - u.x) BY <1>4, <2>1, <2>2
  <2>6. u.x - y >= 2 => u.err <= u.x - 1 BY <1>4, <2>1
  <2>7. u.x - y = 1 => u.err <= u.x BY <1>4, <2>1
  <2> QED BY <1>2, <1>4, <2>1, <2>4, <2>5, <2>6, <2>7 DEF OnCircle, Near
<1>6. CASE ~(2 * (e + 1 + 2 * y - x) + 1 > 0)
  <2>1. u.x = x /\ u.err = e + 1 + 2 * y BY <1>1, <1>2, <1>6 DEF CircleStep
  <2>2. f = d + 2 * y - 1 BY <1>2, <1>3, <1>4, <2>1
  <2>3. f \in (3 - 3 * r)..r BY <1>4, <1>6, <2>1, <2>2
  <2>4. u.err = f + 2 * y + 2 * (r - u.x) BY <1>4, <2>1, <2>2
  <2>5. u.err <= u.x - 1 BY <1>4, <1>6, <2>1
  <2> QED BY <1>1, <1>2, <1>4, <2>1, <2>3, <2>4, <2>5 DEF OnCircle, Near
<1> QED BY <1>5, <1>6

\* Every round of the loop that draws.
LEMMA LoopStaysOnCircle ==
  ASSUME NEW r \in Nat, NEW t, t = CircleLoop(r), NEW y \in 0..r, t[y].x >= y
  PROVE  /\ t[y].x \in 0..r
         /\ r >= 2 => OnCircle(t[y], y, r)
<1>1. /\ t \in [0..r -> LoopState] /\ t[0] = [x |-> r, err |-> 0]
      /\ \A i \in 1..r : t[i] = CircleStep(t[i - 1], i)
  BY CircleLoopRuns
<1> DEFINE P == {i \in 0..r : /\ t[i].x <= r
                              /\ t[i].x >= i /\ r >= 2 => OnCircle(t[i], i, r)}
<1>2. 0 \in P
  <2>1. t[0].x = r /\ t[0].err = 0 BY <1>1
  <2>2. Sq(0) = 0 /\ Sq(r) \in Int BY DEF Sq
  <2>3. r >= 2 => OnCircle(t[0], 0, r) BY <2>1, <2>2 DEF OnCircle, Near
  <2> QED BY <2>1, <2>3
<1>3. ASSUME NEW i \in 1..r, i - 1 \in P PROVE i \in P
  <2>1. PICK s \in LoopState : s = t[i - 1] BY <1>1
  <2>2. PICK u \in LoopState : u = t[i] BY <1>1
  <2>3. u = CircleStep(s, i) BY <1>1, <2>1, <2>2
  <2>4. s.x <= r /\ (s.x >= i - 1 /\ r >= 2 => OnCircle(s, i - 1, r)) BY <1>3, <2>1
  <2>5. s.x \in Int /\ u.x \in Int /\ u.x <= s.x BY <2>3 DEF CircleStep, LoopState
  <2>6. u.x <= r BY <2>4, <2>5
  <2>7. ASSUME u.x >= i, r >= 2 PROVE OnCircle(u, i, r)
    <3>1. s.x >= i - 1 BY <2>5, <2>7
    <3> QED BY <2>3, <2>4, <2>7, <3>1, StepStaysOnCircle
  <2> QED BY <2>2, <2>6, <2>7
<1>4. y \in P
  <2> HIDE DEF P
  <2> QED BY <1>2, <1>3, EveryRound
<1>5. t[y].x \in Int BY <1>1 DEF LoopState
<1> QED BY <1>4, <1>5

\* What the octant is for every radius: points between the axis and the diagonal, near
\* the circle.
LEMMA OctantIsRound ==
  ASSUME NEW r \in Int, NEW o \in Octant(r)
  PROVE  /\ r >= 0 /\ o = <<o[1], o[2]>> /\ o[1] \in 0..r /\ o[2] \in 0..r
         /\ r >= 2 => Sq(o[1]) + Sq(o[2]) - Sq(r) \in (3 - 3 * r)..r
<1>1. PICK t : t = CircleLoop(r) OBVIOUS
<1>2. PICK y \in {row \in 0..r : t[row].x >= row} : o = <<t[y].x, y>>
  BY <1>1 DEF Octant
<1>3. r \in Nat /\ y \in 0..r /\ t[y].x >= y BY <1>2
<1>4. t[y].x \in 0..r /\ (r >= 2 => OnCircle(t[y], y, r))
  BY <1>1, <1>3, LoopStaysOnCircle
<1> QED BY <1>2, <1>3, <1>4 DEF OnCircle, Near

-----------------------------------------------------------------------------
\* What a call records

\* The fields of the record of a call.
Records(kind, on, pixels, args) ==
  /\ call'.kind = kind /\ call'.args = args /\ call'.set \cup call'.clear = pixels
  /\ \A p : /\ p \in call'.set <=> on /\ p \in pixels
            /\ p \in call'.clear <=> ~on /\ p \in pixels

LEMMA PaintRecords ==
  ASSUME NEW on \in BOOLEAN, NEW pixels, NEW marks, NEW kind, NEW asked, NEW args,
         Paint(on, pixels, marks, Asked(kind, on, asked, args))
  PROVE  Records(kind, on, asked, args)
BY DEF Paint, Asked, Records


-----------------------------------------------------------------------------
\* Arithmetic

LEMMA Dimensions ==
  /\ Width \in Nat /\ Width > 0 /\ TotalPages \in Nat /\ TotalPages > 0
  /\ PagesPerBuffer \in Nat /\ PagesPerBuffer > 0 /\ PagesPerBuffer <= TotalPages
  /\ ByteBits \in Nat /\ ByteBits > 0 /\ Height \in Nat
BY RasterAssumption DEF Height

LEMMA Int16Limits == MaxInt16 \in Nat /\ MaxInt16 >= Width /\ MaxInt16 >= Height
BY RasterAssumption DEF Height

LEMMA Product ==
  ASSUME NEW a \in Nat, NEW b \in Nat
  PROVE  a * b \in Nat /\ (a > 0 /\ b > 0 => a * b >= a /\ a * b >= b /\ a * b > 0)
<1>1. a * b \in Nat OBVIOUS
<1>2. ASSUME a > 0, b > 0 PROVE a * b >= a /\ a * b >= b
  <2> DEFINE c == a - 1
             d == b - 1
  <2>1. c \in Nat /\ d \in Nat /\ a = c + 1 /\ b = d + 1 BY <1>2
  <2>2. a * b = a * d + a /\ a * b = c * b + b BY <2>1
  <2>3. a * d >= 0 /\ c * b >= 0 BY <2>1
  <2> QED BY <2>2, <2>3
<1> QED BY <1>1, <1>2

\* A multiple of w that is less than w from zero is zero.
LEMMA NoMultiple ==
  ASSUME NEW w \in Nat, NEW k \in Int, w * k < w, w * k > -w
  PROVE  k = 0
<1>1. ASSUME k >= 1 PROVE FALSE
  <2>1. k \in Nat /\ k > 0 BY <1>1
  <2>2. w > 0 => w * k >= w BY <2>1, Product
  <2>3. w = 0 => w * k = 0 BY <1>1
  <2> QED BY <2>2, <2>3
<1>2. ASSUME k <= -1 PROVE FALSE
  <2>1. -k \in Nat /\ -k > 0 BY <1>2
  <2>2. w > 0 => w * (-k) >= w BY <2>1, Product
  <2>3. w * (-k) = -(w * k) OBVIOUS
  <2>4. w = 0 => w * k = 0 BY <1>2
  <2> QED BY <2>2, <2>3, <2>4
<1> QED BY <1>1, <1>2

LEMMA DivMod ==
  ASSUME NEW w \in Nat, w > 0, NEW a \in Int
  PROVE  a \div w \in Int /\ a % w \in 0..(w - 1) /\ a = w * (a \div w) + (a % w)
<1> DEFINE p == a \div w
           s == a % w
<1>1. p \in Int /\ s \in 0..(w - 1) /\ a = w * p + s OBVIOUS
<1> QED BY <1>1

\* Quotient and remainder are what adds up.
LEMMA Division ==
  ASSUME NEW w \in Nat, w > 0, NEW a \in Int, NEW q \in Int, NEW r \in 0..(w - 1),
         a = w * q + r
  PROVE  a % w = r /\ a \div w = q
<1>1. PICK p \in Int, s \in 0..(w - 1) : p = a \div w /\ s = a % w /\ a = w * p + s
  BY DivMod
<1>2. w * (q - p) = s - r BY <1>1
<1>3. q - p = 0 BY <1>1, <1>2, NoMultiple
<1>4. q = p BY <1>1, <1>3
<1> QED BY <1>1, <1>2, <1>4

LEMMA QuotientGrows ==
  ASSUME NEW w \in Nat, w > 0, NEW a \in Int, NEW b \in Int, a <= b
  PROVE  a \div w <= b \div w
<1>1. PICK p \in Int, s \in 0..(w - 1) : p = a \div w /\ s = a % w /\ a = w * p + s
  BY DivMod
<1>2. PICK q \in Int, r \in 0..(w - 1) : q = b \div w /\ r = b % w /\ b = w * q + r
  BY DivMod
<1>3. SUFFICES ASSUME p > q PROVE FALSE BY <1>1, <1>2
<1>4. w * (p - q) >= w BY <1>1, <1>2, <1>3, Product
<1>5. w * (p - q) = w * p - w * q BY <1>1, <1>2
<1> QED BY <1>1, <1>2, <1>4, <1>5

-----------------------------------------------------------------------------
\* Pixels and bits

\* Whether a row is in the window, and where, told by its place: page q = PagesPerBuffer *
\* v + u, bit b.
LEMMA RowInWindow ==
  ASSUME NEW y \in 0..(Height - 1), NEW w \in Nat, NEW q \in Pages,
         NEW b \in 0..(ByteBits - 1), NEW v \in Nat, NEW u \in 0..(PagesPerBuffer - 1),
         y = ByteBits * q + b, q = PagesPerBuffer * v + u, ~PageMode => q = u
  PROVE  /\ InWindow(w, y) <=> (PageMode => v = w)
         /\ InWindow(w, y) => /\ (BufY(w, y) \div ByteBits) % PagesPerBuffer = u
                              /\ BufY(w, y) % ByteBits = b
<1> DEFINE size == PagesPerBuffer * ByteBits
           inner == ByteBits * u + b
<1>1. y \in Int /\ q \in Int BY Dimensions DEF Pages
<1>2. size \in Nat /\ size > 0 BY Dimensions, Product
<1>3. inner \in 0..(size - 1)
  <2>1. ByteBits * u \in Nat BY Dimensions, Product
  <2>2. ByteBits * (PagesPerBuffer - 1 - u) \in Nat BY Dimensions, Product
  <2>3. ByteBits * (PagesPerBuffer - 1 - u) = size - ByteBits - ByteBits * u
    BY Dimensions
  <2>4. inner <= size - 1 BY <2>1, <2>2, <2>3, <1>2, Dimensions
  <2>5. inner \in Nat BY <2>1, Dimensions
  <2> QED BY <2>4, <2>5, <1>2
<1>4. /\ InWindow(w, y) <=> (PageMode => v = w)
      /\ InWindow(w, y) => BufY(w, y) = inner
  <2>1. CASE ~PageMode
    <3>1. BufY(w, y) = y /\ InWindow(w, y) BY <2>1, <1>1, Dimensions DEF BufY, InWindow
    <3>2. y = inner BY <2>1
    <3> QED BY <2>1, <3>1, <3>2
  <2>2. CASE PageMode
    <3>1. YOffset(w) = size * w BY Dimensions DEF YOffset
    <3>2. ByteBits * q = size * v + ByteBits * u BY Dimensions
    <3>3. size * (v - w) = size * v - size * w BY <1>2
    <3>4. y = size * v + inner BY <3>2, <1>1, Dimensions
    <3>5. BufY(w, y) = y - size * w BY <2>2, <3>1 DEF BufY
    <3>6. InWindow(w, y) <=> BufY(w, y) \in 0..(size - 1)
      BY <2>2, <1>1, Dimensions DEF InWindow
    <3> HIDE DEF size, inner
    <3>7. PICK k \in Int : k = size * (v - w) BY <1>2
    <3>8. PICK i \in 0..(size - 1) : i = inner BY <1>3
    <3>9. BufY(w, y) = k + i
      <4>1. size * v \in Int /\ size * w \in Int BY <1>2
      <4> QED BY <3>3, <3>4, <3>5, <3>7, <3>8, <4>1, <1>1
    <3>10. ASSUME v = w PROVE BufY(w, y) = i /\ InWindow(w, y)
      <4>1. k = 0 BY <3>7, <3>10, <1>2
      <4> QED BY <4>1, <3>6, <3>8, <3>9, <1>2
    <3>11. ASSUME InWindow(w, y) PROVE v = w
      <4>1. size * (v - w) < size /\ size * (v - w) > -size
        BY <3>6, <3>7, <3>8, <3>9, <3>11, <1>2
      <4>2. v - w = 0 BY <4>1, <1>2, NoMultiple
      <4> QED BY <4>2
    <3> QED BY <2>2, <3>8, <3>10, <3>11
  <2> QED BY <2>1, <2>2
<1>5. inner \div ByteBits = u /\ inner % ByteBits = b
  <2>1. inner \in Int /\ u \in Int BY <1>3, <1>2, Dimensions
  <2> QED BY <2>1, Dimensions, Division
<1>6. u % PagesPerBuffer = u
  <2>1. u = PagesPerBuffer * 0 + u BY Dimensions
  <2> QED BY <2>1, Dimensions, Division
<1> HIDE DEF inner
<1> QED BY <1>4, <1>5, <1>6

\* The page and the bit of a row.
LEMMA RowPlace ==
  ASSUME NEW y \in 0..(Height - 1), NEW q, q = y \div ByteBits, NEW b, b = y % ByteBits,
         NEW v, v = q \div PagesPerBuffer, NEW u, u = q % PagesPerBuffer
  PROVE  /\ q \in Pages /\ b \in 0..(ByteBits - 1) /\ y = ByteBits * q + b
         /\ v \in Nat /\ u \in 0..(PagesPerBuffer - 1) /\ q = PagesPerBuffer * v + u
         /\ ~PageMode => q = u
<1>1. y \in Nat /\ y < Height /\ Height = TotalPages * ByteBits
  BY Dimensions DEF Height
<1>2. q \in Int /\ b \in 0..(ByteBits - 1) /\ y = ByteBits * q + b
  BY <1>1, Dimensions, DivMod
<1>3. q >= 0
  <2>1. SUFFICES ASSUME q < 0 PROVE FALSE BY <1>2
  <2>2. ByteBits * (-q) >= ByteBits BY <2>1, <1>2, Dimensions, Product
  <2>3. ByteBits * (-q) = -(ByteBits * q) BY <1>2, Dimensions
  <2> QED BY <2>2, <2>3, <1>1, <1>2, Dimensions
<1>4. q < TotalPages
  <2>1. SUFFICES ASSUME q >= TotalPages PROVE FALSE BY <1>2, Dimensions
  <2>2. ByteBits * (q - TotalPages) \in Nat BY <2>1, <1>2, Dimensions, Product
  <2>3. ByteBits * (q - TotalPages) = ByteBits * q - TotalPages * ByteBits
    BY <1>2, Dimensions
  <2> QED BY <2>2, <2>3, <1>1, <1>2, Dimensions
<1>5. v \in Int /\ u \in 0..(PagesPerBuffer - 1) /\ q = PagesPerBuffer * v + u
  BY <1>2, Dimensions, DivMod
<1>6. v >= 0
  <2>1. SUFFICES ASSUME v < 0 PROVE FALSE BY <1>5
  <2>2. PagesPerBuffer * (-v) >= PagesPerBuffer BY <2>1, <1>5, Dimensions, Product
  <2>3. PagesPerBuffer * (-v) = -(PagesPerBuffer * v) BY <1>5, Dimensions
  <2> QED BY <2>2, <2>3, <1>3, <1>5, Dimensions
<1>7. ASSUME ~PageMode PROVE q = u
  <2>1. PagesPerBuffer = TotalPages BY <1>7, Dimensions DEF PageMode
  <2>2. q = PagesPerBuffer * 0 + q /\ q \in 0..(PagesPerBuffer - 1)
    BY <2>1, <1>2, <1>3, <1>4, Dimensions
  <2> QED BY <2>2, <1>2, Dimensions, Division
<1>8. q \in Pages BY <1>2, <1>3, <1>4, Dimensions DEF Pages
<1> QED BY <1>2, <1>5, <1>6, <1>7, <1>8

LEMMA WindowsAreNaturals == \A w \in Windows : w \in Nat
<1>1. ((TotalPages - 1) \div PagesPerBuffer) \in Int BY Dimensions, DivMod
<1> QED BY <1>1 DEF Windows

LEMMA PixelShape ==
  ASSUME NEW p \in Screen
  PROVE  p = <<p[1], p[2]>> /\ p[1] \in Cols /\ p[2] \in 0..(Height - 1)
BY DEF Screen, Cols

\* bufferIndex() and bufferBit() agree with the flush engine about where a pixel of
\* the window is; no pixel outside it has a place.
LEMMA AddressIsSent ==
  ASSUME window \in Windows, NEW p \in Screen
  PROVE  /\ p \in Seen <=> Visible(window, p)
         /\ p \in Seen => Address(window, p) = SentBit(p)
         /\ p[2] \div ByteBits \in Pages
<1>1. p[2] \in 0..(Height - 1) BY PixelShape
<1>2. PICK y, q, b, v, u : /\ y = p[2] /\ q = y \div ByteBits /\ b = y % ByteBits
                           /\ v = q \div PagesPerBuffer /\ u = q % PagesPerBuffer
  OBVIOUS
<1>3. PICK w \in Nat : w = window BY WindowsAreNaturals
<1>4. /\ q \in Pages /\ b \in 0..(ByteBits - 1) /\ y = ByteBits * q + b
      /\ v \in Nat /\ u \in 0..(PagesPerBuffer - 1) /\ q = PagesPerBuffer * v + u
      /\ ~PageMode => q = u
  BY <1>1, <1>2, RowPlace
<1>5. /\ InWindow(w, y) <=> (PageMode => v = w)
      /\ InWindow(w, y) => /\ (BufY(w, y) \div ByteBits) % PagesPerBuffer = u
                           /\ BufY(w, y) % ByteBits = b
  BY <1>1, <1>2, <1>4, RowInWindow
<1>6. q \in WindowPages <=> InWindow(w, y) BY <1>2, <1>3, <1>4, <1>5 DEF WindowPages
<1>7. p \in Seen <=> Visible(window, p) BY <1>2, <1>3, <1>6 DEF Seen, Visible
<1>8. ASSUME Visible(window, p) PROVE Address(window, p) = SentBit(p)
  <2>1. InWindow(w, y) BY <1>2, <1>3, <1>8 DEF Visible
  <2>2. Address(window, p) = <<p[1] + u * Width, b>> BY <2>1, <1>2, <1>3, <1>5 DEF Address
  <2>3. SentBit(p) = <<p[1] + u * Width, b>> BY <1>2 DEF SentBit
  <2> QED BY <2>2, <2>3
<1> QED BY <1>2, <1>4, <1>7, <1>8

\* No two pixels of the window share a bit.
LEMMA BitsDiffer ==
  ASSUME window \in Windows, NEW p \in Seen, NEW p2 \in Seen, SentBit(p) = SentBit(p2)
  PROVE  p = p2
<1>1. p \in Screen /\ p2 \in Screen BY DEF Seen
<1>2. /\ p = <<p[1], p[2]>> /\ p[1] \in Cols /\ p[2] \in 0..(Height - 1)
      /\ p2 = <<p2[1], p2[2]>> /\ p2[1] \in Cols /\ p2[2] \in 0..(Height - 1)
  BY <1>1, PixelShape
<1>3. PICK q, b, v, u : /\ q = p[2] \div ByteBits /\ b = p[2] % ByteBits
                        /\ v = q \div PagesPerBuffer /\ u = q % PagesPerBuffer
  OBVIOUS
<1>4. PICK q2, b2, v2, u2 : /\ q2 = p2[2] \div ByteBits /\ b2 = p2[2] % ByteBits
                            /\ v2 = q2 \div PagesPerBuffer /\ u2 = q2 % PagesPerBuffer
  OBVIOUS
<1>5. /\ q \in Pages /\ b \in 0..(ByteBits - 1) /\ p[2] = ByteBits * q + b
      /\ v \in Nat /\ u \in 0..(PagesPerBuffer - 1) /\ q = PagesPerBuffer * v + u
      /\ ~PageMode => q = u
  BY <1>2, <1>3, RowPlace
<1>6. /\ q2 \in Pages /\ b2 \in 0..(ByteBits - 1) /\ p2[2] = ByteBits * q2 + b2
      /\ v2 \in Nat /\ u2 \in 0..(PagesPerBuffer - 1) /\ q2 = PagesPerBuffer * v2 + u2
      /\ ~PageMode => q2 = u2
  BY <1>2, <1>4, RowPlace
<1>7. PageMode => v = v2
  <2>1. PageMode => v = window /\ v2 = window BY <1>3, <1>4 DEF Seen, WindowPages
  <2> QED BY <2>1
<1>8. p[1] + u * Width = p2[1] + u2 * Width /\ b = b2 BY <1>3, <1>4 DEF SentBit
<1>9. u = u2 /\ p[1] = p2[1]
  <2>1. PICK c \in 0..(Width - 1), c2 \in 0..(Width - 1) : c = p[1] /\ c2 = p2[1]
    BY <1>2 DEF Cols
  <2>2. u \in Int /\ u2 \in Int BY <1>5, <1>6, Dimensions
  <2> DEFINE k == u * Width
             k2 == u2 * Width
  <2>6. k \in Int /\ k2 \in Int BY <2>2, Dimensions
  <2>7. k - k2 = c2 - c
    <3>1. c + k = c2 + k2 BY <1>8, <2>1
    <3> HIDE DEF k, k2
    <3> QED BY <3>1, <2>6, <2>1, Dimensions
  <2>3. Width * (u - u2) = c2 - c
    <3>1. Width * (u - u2) = k - k2 BY <2>2, Dimensions
    <3> QED BY <2>7, <3>1
  <2>4. u - u2 = 0 BY <2>1, <2>2, <2>3, Dimensions, NoMultiple
  <2>5. u = u2 BY <2>2, <2>4
  <2> QED BY <1>8, <2>1, <2>2, <2>5, Dimensions
<1>10. q = q2 BY <1>5, <1>6, <1>7, <1>9
<1> QED BY <1>2, <1>5, <1>6, <1>8, <1>9, <1>10

\* Every pixel of the window has its bit in the buffer.
LEMMA SentIsInBuffer ==
  ASSUME NEW p \in Seen
  PROVE  SentBit(p) \in AllAddresses
<1>1. p \in Screen BY DEF Seen
<1>2. PICK c \in 0..(Width - 1) : c = p[1] BY <1>1, PixelShape DEF Cols
<1>3. PICK u, b : u = (p[2] \div ByteBits) % PagesPerBuffer /\ b = p[2] % ByteBits OBVIOUS
<1>4. u \in 0..(PagesPerBuffer - 1) /\ b \in 0..(ByteBits - 1)
  BY <1>1, <1>3, PixelShape, RowPlace
<1>5. PICK k \in Int, n \in Int, rest \in Nat :
        k = u * Width /\ n = Width * PagesPerBuffer /\ n = k + Width + rest
  <2>1. Width * (PagesPerBuffer - 1 - u) \in Nat BY <1>4, Dimensions, Product
  <2>2. Width * (PagesPerBuffer - 1 - u) = Width * PagesPerBuffer - Width - u * Width
    BY <1>4, Dimensions
  <2>3. u * Width \in Int /\ Width * PagesPerBuffer \in Int BY <1>4, Dimensions
  <2> QED BY <2>1, <2>2, <2>3, Dimensions
<1>6. c + k \in 0..(n - 1)
  <2>1. k >= 0 BY <1>4, <1>5, Dimensions, Product
  <2> QED BY <1>2, <1>5, <2>1, Dimensions
<1>7. SentBit(p) = <<c + u * Width, b>> BY <1>2, <1>3 DEF SentBit
<1> QED BY <1>4, <1>5, <1>6, <1>7 DEF AllAddresses

-----------------------------------------------------------------------------
\* Rectangles

Rects == [x0 : Int, y0 : Int, x1 : Int, y1 : Int]

LEMMA ClipIsRect ==
  ASSUME NEW x \in Int, NEW y \in Int, NEW w \in Int, NEW h \in Int
  PROVE  ClipRect(x, y, w, h) \in Rects
BY Dimensions DEF ClipRect, Rects, AtLeast, AtMost

\* Clipping a rectangle keeps its pixels on the display, and no others.
LEMMA ClipKeepsPixels ==
  ASSUME NEW x \in Int, NEW y \in Int, NEW w \in Int, NEW h \in Int
  PROVE  Covered(ClipRect(x, y, w, h)) = InRect(x, y, w, h)
<1>1. PICK r \in Rects : r = ClipRect(x, y, w, h) BY ClipIsRect
<1>2. /\ r.x0 = AtLeast(0, x) /\ r.x1 = AtMost(Width - 1, x + w - 1)
      /\ r.y0 = AtLeast(0, y) /\ r.y1 = AtMost(Height - 1, y + h - 1)
  BY <1>1 DEF ClipRect
<1>3. \A c : c \in r.x0..r.x1 <=> c \in 0..(Width - 1) /\ x <= c /\ c < x + w
  BY <1>2, Dimensions DEF AtLeast, AtMost
<1>4. \A c : c \in r.y0..r.y1 <=> c \in 0..(Height - 1) /\ y <= c /\ c < y + h
  BY <1>2, Dimensions DEF AtLeast, AtMost
<1>5. \A p : p \in Covered(r) <=> p \in InRect(x, y, w, h)
  BY <1>3, <1>4 DEF Covered, InRect, Screen
<1> QED BY <1>1, <1>5

LEMMA RectIsAsked ==
  ASSUME NEW x \in Int, NEW y \in Int, NEW w \in Int, NEW h \in Int
  PROVE  RectPixels(x, y, w, h) = InRect(x, y, w, h)
<1>1. CASE w <= 0 \/ h <= 0
  <2>1. \A p \in Screen : p[1] \in Int /\ p[2] \in Int BY Dimensions DEF Screen
  <2>2. InRect(x, y, w, h) = {} BY <1>1, <2>1 DEF InRect
  <2> QED BY <1>1, <2>2 DEF RectPixels
<1>2. CASE ~(w <= 0 \/ h <= 0) BY <1>2, ClipKeepsPixels DEF RectPixels
<1> QED BY <1>1, <1>2

\* The four edges that drawRect() draws are the border; an edge that int16_t cannot name
\* is not on the display.
LEMMA EdgesAreBorder ==
  ASSUME NEW x \in Int, NEW y \in Int, NEW w \in Int, NEW h \in Int, w > 0, h > 0,
         NEW p \in Screen
  PROVE  /\ OutlineRects(x, y, w, h) \subseteq Int \X Int \X Int \X Int
         /\ (\E e \in OutlineRects(x, y, w, h) : p \in InRect(e[1], e[2], e[3], e[4]))
              <=> p \in OnBorder(x, y, w, h)
<1>1. PICK right \in Int, bottom \in Int : right = x + w - 1 /\ bottom = y + h - 1
  OBVIOUS
<1>2. PICK edges : edges = OutlineRects(x, y, w, h) OBVIOUS
<1>3. \A e : e \in edges <=>
         \/ e = <<x, y, w, 1>> \/ e = <<x, y, 1, h>>
         \/ e = <<x, bottom, w, 1>> /\ bottom # y /\ bottom <= MaxInt16
         \/ e = <<right, y, 1, h>> /\ right # x /\ right <= MaxInt16
  BY <1>1, <1>2 DEF OutlineRects
<1>4. p[1] \in 0..(Width - 1) /\ p[2] \in 0..(Height - 1) BY DEF Screen
<1>5. p[1] <= MaxInt16 /\ p[2] <= MaxInt16
  BY <1>4, Dimensions, Int16Limits
<1>6. p[1] \in Int /\ p[2] \in Int BY <1>4, Dimensions
<1>7. p \in OnBorder(x, y, w, h) <=>
        /\ x <= p[1] /\ p[1] <= right /\ y <= p[2] /\ p[2] <= bottom
        /\ p[1] = x \/ p[1] = right \/ p[2] = y \/ p[2] = bottom
  BY <1>1, <1>6 DEF OnBorder, InRect
<1>8. (\E e \in edges : p \in InRect(e[1], e[2], e[3], e[4])) <=>
        \/ p \in InRect(x, y, w, 1) \/ p \in InRect(x, y, 1, h)
        \/ p \in InRect(x, bottom, w, 1) /\ bottom # y /\ bottom <= MaxInt16
        \/ p \in InRect(right, y, 1, h) /\ right # x /\ right <= MaxInt16
  <2> DEFINE At(e) == p \in InRect(e[1], e[2], e[3], e[4])
  <2>1. /\ At(<<x, y, w, 1>>) <=> p \in InRect(x, y, w, 1)
        /\ At(<<x, y, 1, h>>) <=> p \in InRect(x, y, 1, h)
        /\ At(<<x, bottom, w, 1>>) <=> p \in InRect(x, bottom, w, 1)
        /\ At(<<right, y, 1, h>>) <=> p \in InRect(right, y, 1, h)
    OBVIOUS
  <2> HIDE DEF At
  <2>2. (\E e \in edges : At(e)) <=>
          \/ p \in InRect(x, y, w, 1) \/ p \in InRect(x, y, 1, h)
          \/ p \in InRect(x, bottom, w, 1) /\ bottom # y /\ bottom <= MaxInt16
          \/ p \in InRect(right, y, 1, h) /\ right # x /\ right <= MaxInt16
    BY <1>3, <2>1
  <2> QED BY <2>2 DEF At
<1>9. /\ p \in InRect(x, y, w, 1) <=> x <= p[1] /\ p[1] <= right /\ p[2] = y
      /\ p \in InRect(x, y, 1, h) <=> y <= p[2] /\ p[2] <= bottom /\ p[1] = x
      /\ p \in InRect(x, bottom, w, 1) <=> x <= p[1] /\ p[1] <= right /\ p[2] = bottom
      /\ p \in InRect(right, y, 1, h) <=> y <= p[2] /\ p[2] <= bottom /\ p[1] = right
  BY <1>1, <1>6 DEF InRect
<1>10. x <= right /\ y <= bottom BY <1>1
<1>11. edges \subseteq Int \X Int \X Int \X Int BY <1>3
<1> QED BY <1>2, <1>5, <1>6, <1>7, <1>8, <1>9, <1>10, <1>11

-----------------------------------------------------------------------------
\* Painting

\* The window is one of the display, and the recorded ranges are of its columns.
Placed == window \in Windows /\ dirty \in [Pages -> SUBSET Cols]

\* What the last step did to the window: the two action properties as formulas of a step.
StepDraws ==
  \A p \in Seen : Lit(p)' <=> p \in call'.set \/ (Lit(p) /\ p \notin call'.clear)

StepMarks ==
  \A p \in Seen :
    /\ Lit(p)' # Lit(p) => p[1] \in dirty'[p[2] \div ByteBits]
    /\ dirty[p[2] \div ByteBits] \subseteq dirty'[p[2] \div ByteBits]

\* A bit of the window is among the addresses of a drawing if the pixel is.
LEMMA BitIsPainted ==
  ASSUME window \in Windows, NEW p \in Seen, NEW pixels
  PROVE  SentBit(p) \in Addresses(window, pixels) <=> p \in pixels
<1>1. p \in Screen /\ Visible(window, p) /\ Address(window, p) = SentBit(p)
  BY AddressIsSent DEF Seen
<1>2. ASSUME p \in pixels PROVE SentBit(p) \in Addresses(window, pixels)
  BY <1>1, <1>2 DEF Addresses
<1>3. ASSUME SentBit(p) \in Addresses(window, pixels) PROVE p \in pixels
  <2>1. PICK q \in pixels : Visible(window, q) /\ SentBit(p) = Address(window, q)
    BY <1>3 DEF Addresses
  <2>2. q \in Screen BY <2>1 DEF Visible
  <2>3. q \in Seen /\ Address(window, q) = SentBit(q) BY <2>1, <2>2, AddressIsSent
  <2>4. SentBit(p) = SentBit(q) BY <2>1, <2>3
  <2> QED BY <2>3, <2>4, BitsDiffer
<1> QED BY <1>2, <1>3

\* Marking keeps what was marked and adds the columns of every rectangle on each page that
\* it touches.
LEMMA MarksCover ==
  ASSUME Placed, NEW rects \in SUBSET Rects
  PROVE  /\ MarkRects(rects) \in [Pages -> SUBSET Cols]
         /\ \A page \in Pages : dirty[page] \subseteq MarkRects(rects)[page]
         /\ \A p \in Seen, r \in rects :
              p \in Covered(r) => p[1] \in MarkRects(rects)[p[2] \div ByteBits]
<1>1. \A S : HullOf(S) \subseteq Cols BY DEF HullOf
<1>2. \A S : S \cap Cols \subseteq HullOf(S)
  <2>1. \A c \in Cols : c <= c BY Dimensions DEF Cols
  <2> QED BY <2>1 DEF HullOf
<1>3. \A page \in Pages : dirty[page] \subseteq Cols BY DEF Placed
<1>4. MarkRects(rects) \in [Pages -> SUBSET Cols]
  <2> DEFINE Marked(page) == dirty[page] \cup UNION {r.x0..r.x1 : r \in {q \in rects :
               NonEmpty(q) /\ q.y0 \div ByteBits <= page /\ page <= q.y1 \div ByteBits}}
  <2>1. MarkRects(rects) =
          [page \in Pages |-> IF page \notin WindowPages THEN dirty[page]
                              ELSE HullOf(Marked(page))]
    BY DEF MarkRects
  <2>2. \A page \in Pages : HullOf(Marked(page)) \in SUBSET Cols BY <1>1
  <2> HIDE DEF Marked
  <2> QED BY <2>1, <2>2, <1>3
<1>5. \A page \in Pages : dirty[page] \subseteq MarkRects(rects)[page]
  BY <1>2, <1>3 DEF MarkRects
<1>6. ASSUME NEW p \in Seen, NEW r \in rects, p \in Covered(r)
      PROVE  p[1] \in MarkRects(rects)[p[2] \div ByteBits]
  <2>1. p \in Screen /\ p[2] \div ByteBits \in WindowPages BY DEF Seen
  <2>2. p[1] \in Cols /\ p[2] \in Int BY <2>1, PixelShape, Dimensions
  <2>3. r.x0 \in Int /\ r.x1 \in Int /\ r.y0 \in Int /\ r.y1 \in Int BY DEF Rects
  <2>4. p[1] \in r.x0..r.x1 /\ p[2] \in r.y0..r.y1 BY <1>6 DEF Covered
  <2>5. r.y0 <= p[2] /\ p[2] <= r.y1 /\ r.x0 <= r.x1 BY <2>2, <2>3, <2>4
  <2>6. NonEmpty(r) BY <2>2, <2>3, <2>5 DEF NonEmpty
  <2>7. r.y0 \div ByteBits <= p[2] \div ByteBits /\ p[2] \div ByteBits <= r.y1 \div ByteBits
    BY <2>2, <2>3, <2>5, Dimensions, QuotientGrows
  <2> DEFINE Touched == {q \in rects : /\ NonEmpty(q)
                                       /\ q.y0 \div ByteBits <= p[2] \div ByteBits
                                       /\ p[2] \div ByteBits <= q.y1 \div ByteBits}
             Marked == dirty[p[2] \div ByteBits] \cup UNION {q.x0..q.x1 : q \in Touched}
  <2>8. r \in Touched BY <2>6, <2>7
  <2>9. p[1] \in Marked
    <3> HIDE DEF Touched
    <3> QED BY <2>4, <2>8
  <2>10. p[2] \div ByteBits \in Pages BY <2>1 DEF WindowPages
  <2>11. MarkRects(rects)[p[2] \div ByteBits] = HullOf(Marked)
    BY <2>1, <2>10 DEF MarkRects
  <2> HIDE DEF Marked
  <2> QED BY <1>2, <2>2, <2>9, <2>11
<1> QED BY <1>4, <1>5, <1>6

Sound == StepDraws /\ StepMarks /\ Placed'

\* A call that paints what it is asked to paint and marks every page it paints on.
LEMMA PaintIsSound ==
  ASSUME Placed, NEW on \in BOOLEAN, NEW pixels, NEW marks \in [Pages -> SUBSET Cols],
         NEW asked, NEW kind, NEW args,
         Paint(on, pixels, marks, Asked(kind, on, asked, args)),
         \A page \in Pages : dirty[page] \subseteq marks[page],
         \A p \in Seen : p \in pixels <=> p \in asked,
         \A p \in Seen : p \in pixels => p[1] \in marks[p[2] \div ByteBits]
  PROVE  Sound
<1>1. Records(kind, on, asked, args) BY PaintRecords
<1>2. /\ dirty' = marks /\ window' = window
      /\ buffer' = IF on THEN buffer \cup Addresses(window, pixels)
                   ELSE buffer \ Addresses(window, pixels)
  BY DEF Paint
<1>3. ASSUME NEW p \in Seen
      PROVE  Lit(p)' <=> IF on THEN Lit(p) \/ p \in pixels ELSE Lit(p) /\ p \notin pixels
  <2>1. SentBit(p) \in Addresses(window, pixels) <=> p \in pixels
    BY BitIsPainted DEF Placed
  <2> QED BY <1>2, <2>1 DEF Lit
<1>4. StepDraws BY <1>1, <1>3 DEF StepDraws, Records
<1>5. ASSUME NEW p \in Seen
      PROVE  /\ Lit(p)' # Lit(p) => p[1] \in dirty'[p[2] \div ByteBits]
             /\ dirty[p[2] \div ByteBits] \subseteq dirty'[p[2] \div ByteBits]
  <2>1. p[2] \div ByteBits \in Pages BY DEF Seen, WindowPages
  <2>2. p \notin pixels => Lit(p)' = Lit(p) BY <1>3 DEF Lit
  <2> QED BY <1>2, <2>1, <2>2
<1>6. StepMarks BY <1>5 DEF StepMarks
<1>7. Placed' BY <1>2 DEF Placed
<1> QED BY <1>4, <1>6, <1>7 DEF Sound

\* The same for a call that marks rectangles.
LEMMA PaintInRects ==
  ASSUME Placed, NEW on \in BOOLEAN, NEW pixels, NEW rects \in SUBSET Rects, NEW asked,
         NEW kind, NEW args,
         Paint(on, pixels, MarkRects(rects), Asked(kind, on, asked, args)),
         \A p \in Seen : p \in pixels <=> p \in asked,
         \A p \in Seen : p \in pixels => \E r \in rects : p \in Covered(r)
  PROVE  Sound
<1>1. PICK marks : marks = MarkRects(rects) OBVIOUS
<1>2. /\ marks \in [Pages -> SUBSET Cols]
      /\ \A page \in Pages : dirty[page] \subseteq marks[page]
      /\ \A p \in Seen : p \in pixels => p[1] \in marks[p[2] \div ByteBits]
  BY <1>1, MarksCover
<1>3. Paint(on, pixels, marks, Asked(kind, on, asked, args)) BY <1>1
<1> QED BY <1>2, <1>3, PaintIsSound

-----------------------------------------------------------------------------
\* Outlines and discs

\* A quarter of the outline: the octant and its mirror image.
Arms(r) == Octant(r) \cup {<<o[2], o[1]>> : o \in Octant(r)}

LEMMA ArmsAreRound ==
  ASSUME NEW r \in Int, NEW a \in Arms(r)
  PROVE  /\ r >= 0 /\ a = <<a[1], a[2]>> /\ a[1] \in 0..r /\ a[2] \in 0..r
         /\ r >= 2 => Sq(a[1]) + Sq(a[2]) - Sq(r) \in (3 - 3 * r)..r
<1>1. CASE a \in Octant(r) BY <1>1, OctantIsRound
<1>2. CASE a \notin Octant(r)
  <2>1. PICK o \in Octant(r) : a = <<o[2], o[1]>> BY <1>2 DEF Arms
  <2>2. /\ r >= 0 /\ o[1] \in 0..r /\ o[2] \in 0..r
        /\ r >= 2 => Sq(o[1]) + Sq(o[2]) - Sq(r) \in (3 - 3 * r)..r
    BY OctantIsRound
  <2>3. o[1] \in Int /\ o[2] \in Int BY <2>2
  <2>4. Sq(o[1]) \in Int /\ Sq(o[2]) \in Int BY <2>3, Squares
  <2>5. a = <<a[1], a[2]>> /\ a[1] = o[2] /\ a[2] = o[1] BY <2>1
  <2>6. Sq(a[1]) + Sq(a[2]) = Sq(o[1]) + Sq(o[2]) BY <2>4, <2>5
  <2>7. ASSUME r >= 2 PROVE Sq(a[1]) + Sq(a[2]) - Sq(r) \in (3 - 3 * r)..r
    <3>1. Sq(o[1]) + Sq(o[2]) - Sq(r) \in (3 - 3 * r)..r BY <2>2, <2>7
    <3>2. Sq(r) \in Int /\ Sq(a[1]) \in Int /\ Sq(a[2]) \in Int BY <2>3, <2>5, Squares
    <3> QED BY <3>1, <3>2, <2>4, <2>6
  <2>8. r >= 0 /\ a[1] \in 0..r /\ a[2] \in 0..r BY <2>2, <2>5
  <2> QED BY <2>5, <2>7, <2>8
<1> QED BY <1>1, <1>2

\* The outline is the four reflections of the arms.
LEMMA OutlineIsArms ==
  ASSUME NEW c \in Int \X Int, NEW r \in Int, NEW q
  PROVE  q \in CirclePixels(c, r) <=>
           \E a \in Arms(r) : \E sx, sy \in {-1, 1} :
             q = <<c[1] + sx * a[1], c[2] + sy * a[2]>>
<1>1. ASSUME NEW o \in Octant(r), NEW sx \in {-1, 1}, NEW sy \in {-1, 1},
             \/ q = <<c[1] + sx * o[1], c[2] + sy * o[2]>>
             \/ q = <<c[1] + sx * o[2], c[2] + sy * o[1]>>
      PROVE  \E a \in Arms(r) : q = <<c[1] + sx * a[1], c[2] + sy * a[2]>>
  <2>1. o \in Arms(r) /\ <<o[2], o[1]>> \in Arms(r) BY DEF Arms
  <2>2. CASE q = <<c[1] + sx * o[1], c[2] + sy * o[2]>> BY <2>1, <2>2
  <2>3. CASE q = <<c[1] + sx * o[2], c[2] + sy * o[1]>>
    <3>1. PICK a \in Arms(r) : a[1] = o[2] /\ a[2] = o[1] BY <2>1
    <3> QED BY <2>3, <3>1
  <2> QED BY <1>1, <2>2, <2>3
<1>2. ASSUME q \in CirclePixels(c, r)
      PROVE  \E o \in Octant(r) : \E sx, sy \in {-1, 1} :
               \/ q = <<c[1] + sx * o[1], c[2] + sy * o[2]>>
               \/ q = <<c[1] + sx * o[2], c[2] + sy * o[1]>>
  BY <1>2 DEF CirclePixels
<1>3. ASSUME NEW a \in Arms(r), NEW sx \in {-1, 1}, NEW sy \in {-1, 1},
             q = <<c[1] + sx * a[1], c[2] + sy * a[2]>>
      PROVE  q \in CirclePixels(c, r)
  <2>1. CASE a \in Octant(r) BY <1>3, <2>1 DEF CirclePixels
  <2>2. CASE a \notin Octant(r)
    <3>1. PICK o \in Octant(r) : a = <<o[2], o[1]>> BY <2>2 DEF Arms
    <3>2. q = <<c[1] + sx * o[2], c[2] + sy * o[1]>> BY <1>3, <3>1
    <3> QED BY <3>2 DEF CirclePixels
  <2> QED BY <2>1, <2>2
<1> QED BY <1>1, <1>2, <1>3

\* A point of the outline, reflections resolved.
LEMMA OutlinePoint ==
  ASSUME NEW c \in Int \X Int, NEW r \in Int, NEW q \in CirclePixels(c, r)
  PROVE  \E a \in Arms(r) :
           /\ q = <<q[1], q[2]>> /\ q[1] \in Int /\ q[2] \in Int
           /\ q[1] - c[1] = a[1] \/ q[1] - c[1] = -a[1]
           /\ q[2] - c[2] = a[2] \/ q[2] - c[2] = -a[2]
<1>1. PICK a \in Arms(r), sx \in {-1, 1}, sy \in {-1, 1} :
        q = <<c[1] + sx * a[1], c[2] + sy * a[2]>>
  BY OutlineIsArms
<1>2. a[1] \in Int /\ a[2] \in Int /\ c[1] \in Int /\ c[2] \in Int BY ArmsAreRound
<1>3. /\ sx * a[1] = a[1] \/ sx * a[1] = -a[1]
      /\ sy * a[2] = a[2] \/ sy * a[2] = -a[2]
  BY <1>2
<1>4. PICK i \in Int, j \in Int : i = sx * a[1] /\ j = sy * a[2] BY <1>2
<1>5. q = <<c[1] + i, c[2] + j>> BY <1>1, <1>4
<1> QED BY <1>2, <1>3, <1>4, <1>5

\* drawCircle() looks at the bounding box first; a circle with a pixel on the display
\* passes.
LEMMA OutlineIsAsked ==
  ASSUME NEW c \in Int \X Int, NEW r \in Int
  PROVE  OutlinePixels(c, r) = CirclePixels(c, r) \cap Screen
<1>1. ASSUME NEW q \in CirclePixels(c, r), q \in Screen PROVE TouchesDisplay(c, r)
  <2>1. PICK a \in Arms(r) : /\ q[1] \in Int /\ q[2] \in Int
                             /\ q[1] - c[1] = a[1] \/ q[1] - c[1] = -a[1]
                             /\ q[2] - c[2] = a[2] \/ q[2] - c[2] = -a[2]
    BY OutlinePoint
  <2>2. r >= 0 /\ a[1] \in 0..r /\ a[2] \in 0..r BY ArmsAreRound
  <2>3. q[1] \in 0..(Width - 1) /\ q[2] \in 0..(Height - 1) BY <1>1 DEF Screen
  <2>4. c[1] \in Int /\ c[2] \in Int OBVIOUS
  <2> QED BY <2>1, <2>2, <2>3, <2>4, Dimensions DEF TouchesDisplay
<1> QED BY <1>1 DEF OutlinePixels

LEMMA CircleIsRound ==
  ASSUME NEW c \in Int \X Int, NEW r \in Int, r > 1, NEW q \in CirclePixels(c, r)
  PROVE  4 * (Sq(q[1] - c[1]) + Sq(q[2] - c[2])) \in (Sq(2 * r - 3) + 1)..(Sq(2 * r + 1) - 1)
<1>1. PICK a \in Arms(r) : /\ q[1] \in Int /\ q[2] \in Int
                           /\ q[1] - c[1] = a[1] \/ q[1] - c[1] = -a[1]
                           /\ q[2] - c[2] = a[2] \/ q[2] - c[2] = -a[2]
  BY OutlinePoint
<1>2. /\ a[1] \in Int /\ a[2] \in Int
      /\ Sq(a[1]) + Sq(a[2]) - Sq(r) \in (3 - 3 * r)..r
  BY ArmsAreRound
<1>3. \A n \in Int : Sq(-n) = Sq(n) BY DEF Sq
<1>4. Sq(q[1] - c[1]) = Sq(a[1]) /\ Sq(q[2] - c[2]) = Sq(a[2]) BY <1>1, <1>2, <1>3
<1>5. PICK m \in Int, n \in Int : m = Sq(a[1]) /\ n = Sq(a[2]) BY <1>2, Squares
<1>6. PICK k \in Int : k = Sq(r) BY Squares
<1>7. Sq(2 * r - 3) = 4 * k - 12 * r + 9 /\ Sq(2 * r + 1) = 4 * k + 4 * r + 1
  BY <1>6 DEF Sq
<1>8. m + n - k \in (3 - 3 * r)..r BY <1>2, <1>5, <1>6
<1>9. 4 * (m + n) \in (4 * k - 12 * r + 9 + 1)..(4 * k + 4 * r + 1 - 1) BY <1>8
<1> QED BY <1>4, <1>5, <1>7, <1>9

\* The disc without the exception that fillCircle() makes for the row of the centre.
BothSides(c, o) == SpansOn(1, c, o) \cup SpansOn(-1, c, o)
WholeDisc(c, r) ==
  IF ~TouchesDisplay(c, r) THEN {}
  ELSE UNION {RectPixels(s[1], s[2], 1, s[3]) : s \in UNION {BothSides(c, o) : o \in Octant(r)}}

\* The spans on both sides are the vertical chords of the outline.
LEMMA DiscIsChords ==
  ASSUME NEW c \in Int \X Int, NEW r \in Int, NEW p \in Screen
  PROVE  p \in WholeDisc(c, r) <=>
           /\ TouchesDisplay(c, r)
           /\ \E a \in Arms(r) : /\ p[1] - c[1] = a[1] \/ p[1] - c[1] = -a[1]
                                 /\ c[2] - a[2] <= p[2] /\ p[2] <= c[2] + a[2]
<1> DEFINE Chord(a) == /\ p[1] - c[1] = a[1] \/ p[1] - c[1] = -a[1]
                       /\ c[2] - a[2] <= p[2] /\ p[2] <= c[2] + a[2]
           All == UNION {BothSides(c, o) : o \in Octant(r)}
<1>1. p[1] \in Int /\ p[2] \in Int /\ c[1] \in Int /\ c[2] \in Int
  BY Dimensions DEF Screen
<1>2. ASSUME NEW i \in Int, NEW j \in Int, NEW s \in {-1, 1}
      PROVE  p \in RectPixels(c[1] + s * i, c[2] - j, 1, 2 * j + 1) <=>
               /\ p[1] - c[1] = s * i /\ c[2] - j <= p[2] /\ p[2] <= c[2] + j
  <2>1. PICK k \in Int : k = c[1] + s * i BY <1>1
  <2>2. c[2] - j \in Int /\ 2 * j + 1 \in Int BY <1>1
  <2>3. p \in RectPixels(k, c[2] - j, 1, 2 * j + 1) <=>
          p \in InRect(k, c[2] - j, 1, 2 * j + 1)
    BY <2>2, RectIsAsked
  <2>4. p \in InRect(k, c[2] - j, 1, 2 * j + 1) <=>
          k = p[1] /\ c[2] - j <= p[2] /\ p[2] <= c[2] + j
    BY <1>1, <2>2 DEF InRect
  <2>5. k = p[1] <=> p[1] - c[1] = s * i BY <1>1, <2>1
  <2> QED BY <2>1, <2>3, <2>4, <2>5
<1>3. ASSUME NEW o \in Octant(r)
      PROVE  (\E s \in BothSides(c, o) : p \in RectPixels(s[1], s[2], 1, s[3])) <=>
               Chord(o) \/ Chord(<<o[2], o[1]>>)
  <2>1. PICK i \in Int, j \in Int : i = o[1] /\ j = o[2] BY OctantIsRound
  <2> DEFINE At(s) == p \in RectPixels(s[1], s[2], 1, s[3])
  <2>2. \A k, m, n : At(<<k, m, n>>) <=> p \in RectPixels(k, m, 1, n) OBVIOUS
  <2>3. \A s \in {-1, 1} : s * i = (IF s = 1 THEN i ELSE -i)
                           /\ s * j = (IF s = 1 THEN j ELSE -j)
    OBVIOUS
  <2>4. (\E s \in BothSides(c, o) : At(s)) <=>
          \E s \in {-1, 1} : \/ At(<<c[1] + s * i, c[2] - j, 2 * j + 1>>)
                             \/ At(<<c[1] + s * j, c[2] - i, 2 * i + 1>>)
    <3> HIDE DEF At
    <3> QED BY <2>1 DEF BothSides, SpansOn
  <2>5. (\E s \in BothSides(c, o) : At(s)) <=>
          \E s \in {-1, 1} : \/ /\ p[1] - c[1] = s * i
                                /\ c[2] - j <= p[2] /\ p[2] <= c[2] + j
                             \/ /\ p[1] - c[1] = s * j
                                /\ c[2] - i <= p[2] /\ p[2] <= c[2] + i
    <3> HIDE DEF At
    <3>1. \A s \in {-1, 1} :
            /\ At(<<c[1] + s * i, c[2] - j, 2 * j + 1>>) <=>
                 p[1] - c[1] = s * i /\ c[2] - j <= p[2] /\ p[2] <= c[2] + j
            /\ At(<<c[1] + s * j, c[2] - i, 2 * i + 1>>) <=>
                 p[1] - c[1] = s * j /\ c[2] - i <= p[2] /\ p[2] <= c[2] + i
      <4> TAKE s \in {-1, 1}
      <4>1. p \in RectPixels(c[1] + s * i, c[2] - j, 1, 2 * j + 1) <=>
              p[1] - c[1] = s * i /\ c[2] - j <= p[2] /\ p[2] <= c[2] + j
        BY <1>2
      <4>2. p \in RectPixels(c[1] + s * j, c[2] - i, 1, 2 * i + 1) <=>
              p[1] - c[1] = s * j /\ c[2] - i <= p[2] /\ p[2] <= c[2] + i
        BY <1>2
      <4> QED BY <4>1, <4>2, <2>2
    <3> QED BY <2>4, <3>1
  <2>6. /\ Chord(o) <=> /\ p[1] - c[1] = i \/ p[1] - c[1] = -i
                        /\ c[2] - j <= p[2] /\ p[2] <= c[2] + j
        /\ Chord(<<o[2], o[1]>>) <=> /\ p[1] - c[1] = j \/ p[1] - c[1] = -j
                                     /\ c[2] - i <= p[2] /\ p[2] <= c[2] + i
    BY <2>1
  <2> HIDE DEF At, Chord
  <2>7. (\E s \in BothSides(c, o) : At(s)) <=> Chord(o) \/ Chord(<<o[2], o[1]>>)
    BY <2>3, <2>5, <2>6
  <2> QED BY <2>7 DEF At
<1>4. p \in WholeDisc(c, r) <=>
        TouchesDisplay(c, r)
          /\ \E o \in Octant(r) : \E s \in BothSides(c, o) : p \in RectPixels(s[1], s[2], 1, s[3])
  BY DEF WholeDisc
<1> HIDE DEF Chord
<1>5. (\E a \in Arms(r) : Chord(a)) <=>
        \E o \in Octant(r) : Chord(o) \/ Chord(<<o[2], o[1]>>)
  BY DEF Arms
<1>6. (\E a \in Arms(r) : Chord(a)) <=>
        \E o \in Octant(r) : \E s \in BothSides(c, o) : p \in RectPixels(s[1], s[2], 1, s[3])
  BY <1>3, <1>5
<1> QED BY <1>4, <1>6 DEF Chord

LEMMA WholeDiscIsFilled ==
  ASSUME NEW c \in Int \X Int, NEW r \in Int
  PROVE  WholeDisc(c, r) = Enclosed(c, r)
<1>1. ASSUME NEW p \in WholeDisc(c, r) PROVE p \in Screen
  <2>1. PICK o \in Octant(r) : \E s \in BothSides(c, o) : p \in RectPixels(s[1], s[2], 1, s[3])
    BY <1>1 DEF WholeDisc
  <2>2. PICK s \in BothSides(c, o) : p \in RectPixels(s[1], s[2], 1, s[3]) BY <2>1
  <2>3. o[1] \in Int /\ o[2] \in Int /\ c[1] \in Int /\ c[2] \in Int BY OctantIsRound
  <2>4. s[1] \in Int /\ s[2] \in Int /\ s[3] \in Int BY <2>3 DEF BothSides, SpansOn
  <2>5. p \in InRect(s[1], s[2], 1, s[3]) BY <2>2, <2>4, RectIsAsked
  <2> QED BY <2>5 DEF InRect
<1>2. ASSUME NEW p \in WholeDisc(c, r) PROVE p \in Enclosed(c, r)
  <2>1. PICK a \in Arms(r) : /\ p[1] - c[1] = a[1] \/ p[1] - c[1] = -a[1]
                             /\ c[2] - a[2] <= p[2] /\ p[2] <= c[2] + a[2]
    BY <1>1, <1>2, DiscIsChords
  <2>2. p \in Screen /\ p[1] \in Int /\ p[2] \in Int /\ c[1] \in Int /\ c[2] \in Int
    BY <1>1, <1>2, Dimensions DEF Screen
  <2>3. a[1] \in Int /\ a[2] \in Int BY ArmsAreRound
  <2>4. PICK sx \in {-1, 1} : c[1] + sx * a[1] = p[1] BY <2>1, <2>2, <2>3
  <2> DEFINE q == <<c[1] + sx * a[1], c[2] + (-1) * a[2]>>
             q2 == <<c[1] + sx * a[1], c[2] + 1 * a[2]>>
  <2>5. q \in CirclePixels(c, r) /\ q2 \in CirclePixels(c, r) BY OutlineIsArms
  <2>6. q[1] = p[1] /\ q2[1] = p[1] BY <2>4
  <2>7. q[2] <= p[2] /\ p[2] <= q2[2] BY <2>1, <2>2, <2>3
  <2> HIDE DEF q, q2
  <2> QED BY <2>2, <2>5, <2>6, <2>7 DEF Enclosed
<1>3. ASSUME NEW p \in Enclosed(c, r) PROVE p \in WholeDisc(c, r)
  <2>1. PICK q \in CirclePixels(c, r), q2 \in CirclePixels(c, r) :
          q[1] = p[1] /\ q2[1] = p[1] /\ q[2] <= p[2] /\ p[2] <= q2[2]
    BY <1>3 DEF Enclosed
  <2>2. /\ p \in Screen /\ p[1] \in 0..(Width - 1) /\ p[2] \in 0..(Height - 1)
        /\ c[1] \in Int /\ c[2] \in Int
    BY <1>3 DEF Enclosed, Screen
  <2>3. PICK a \in Arms(r) : /\ q[1] \in Int /\ q[2] \in Int
                             /\ q[1] - c[1] = a[1] \/ q[1] - c[1] = -a[1]
                             /\ q[2] - c[2] = a[2] \/ q[2] - c[2] = -a[2]
    BY OutlinePoint
  <2>4. PICK b \in Arms(r) : /\ q2[1] \in Int /\ q2[2] \in Int
                             /\ q2[1] - c[1] = b[1] \/ q2[1] - c[1] = -b[1]
                             /\ q2[2] - c[2] = b[2] \/ q2[2] - c[2] = -b[2]
    BY OutlinePoint
  <2>5. /\ r >= 0 /\ a[1] \in 0..r /\ a[2] \in 0..r /\ b[1] \in 0..r /\ b[2] \in 0..r
    BY ArmsAreRound
  <2>6. PICK m \in Arms(r) : m[2] \in 0..r /\ (m = a \/ m = b) /\ a[2] <= m[2] /\ b[2] <= m[2]
    BY <2>5
  <2>7. p[1] - c[1] = m[1] \/ p[1] - c[1] = -m[1] BY <2>1, <2>3, <2>4, <2>6
  <2>8. c[2] - m[2] <= p[2] /\ p[2] <= c[2] + m[2]
    BY <2>1, <2>2, <2>3, <2>4, <2>5, <2>6, Dimensions
  <2>9. TouchesDisplay(c, r)
    BY <2>2, <2>5, <2>6, <2>7, <2>8, Dimensions DEF TouchesDisplay
  <2> QED BY <2>2, <2>7, <2>8, <2>9, DiscIsChords
<1> QED BY <1>2, <1>3

LEMMA SpanIsColumn ==
  ASSUME NEW k \in Int, NEW m \in Int, NEW n \in Int, NEW p
  PROVE  p \in RectPixels(k, m, 1, n) <=>
           p \in Screen /\ p[1] = k /\ m <= p[2] /\ p[2] < m + n
<1>1. p \in RectPixels(k, m, 1, n) <=> p \in InRect(k, m, 1, n) BY RectIsAsked
<1>2. p \in Screen => p[1] \in Int BY Dimensions DEF Screen
<1> QED BY <1>1, <1>2 DEF InRect

\* The first rows of the octant: one column in two rows from radius 4 on, and only in
\* the row of the centre below that.
LEMMA FirstRows ==
  ASSUME NEW r \in Nat, NEW t, t = CircleLoop(r)
  PROVE  /\ t[0].x = r
         /\ r >= 4 => t[1].x = r
         /\ r \in 1..3 => \A y \in 1..r : t[y].x <= r - 1
<1>1. /\ t \in [0..r -> LoopState] /\ t[0] = [x |-> r, err |-> 0]
      /\ \A i \in 1..r : t[i] = CircleStep(t[i - 1], i)
  BY CircleLoopRuns
<1>2. t[0].x = r /\ t[0].err = 0 BY <1>1
<1>3. ASSUME r >= 1 PROVE t[1].x = IF r >= 4 THEN r ELSE r - 1
  <2>1. t[1] = CircleStep(t[0], 1) BY <1>1, <1>3
  <2> QED BY <1>2, <2>1 DEF CircleStep
<1>4. ASSUME NEW i \in 1..r PROVE t[i].x <= t[i - 1].x
  <2>1. PICK s \in LoopState, u \in LoopState : s = t[i - 1] /\ u = t[i] BY <1>1
  <2>2. u = CircleStep(s, i) BY <1>1, <2>1
  <2>3. u.x <= s.x BY <2>2 DEF CircleStep, LoopState
  <2> QED BY <2>1, <2>3
<1>5. ASSUME r \in 1..3, NEW y \in 1..r PROVE t[y].x <= r - 1
  <2>1. \A i \in 0..r : t[i].x \in Int BY <1>1 DEF LoopState
  <2>2. t[1].x = r - 1 BY <1>3, <1>5
  <2>3. CASE y = 1 BY <2>2, <2>3
  <2>4. CASE y = 2
    <3>1. t[2].x <= t[1].x BY <1>4, <1>5, <2>4
    <3> QED BY <2>2, <2>4, <3>1
  <2>5. CASE y = 3
    <3>1. t[2].x <= t[1].x /\ t[3].x <= t[2].x
      <4>1. r = 3 /\ 2 \in 1..r /\ 3 \in 1..r BY <1>5, <2>5
      <4>2. t[2].x <= t[2 - 1].x /\ t[3].x <= t[3 - 1].x BY <1>4, <4>1
      <4> QED BY <4>2
    <3>2. t[1].x \in Int /\ t[2].x \in Int /\ t[3].x \in Int BY <1>5, <2>1, <2>5
    <3> QED BY <2>2, <2>5, <3>1, <3>2
  <2> QED BY <1>5, <2>3, <2>4, <2>5
<1> QED BY <1>2, <1>3, <1>5

LEMMA OctantRows ==
  ASSUME NEW r \in Int
  PROVE  /\ r >= 4 => <<r, 1>> \in Octant(r)
         /\ \A o \in Octant(r) :
              /\ o[2] = 0 => o[1] = r
              /\ r \in 1..3 /\ o[2] # 0 => o[1] <= r - 1 /\ o[2] <= r - 1
<1>1. PICK t : t = CircleLoop(r) OBVIOUS
<1>2. Octant(r) = {<<t[y].x, y>> : y \in {row \in 0..r : t[row].x >= row}}
  BY <1>1 DEF Octant
<1>3. ASSUME r >= 4 PROVE <<r, 1>> \in Octant(r)
  <2>1. t[1].x = r BY <1>1, <1>3, FirstRows
  <2>2. 1 \in {row \in 0..r : t[row].x >= row} BY <1>3, <2>1
  <2> QED BY <1>2, <2>1, <2>2
<1>4. ASSUME NEW o \in Octant(r)
      PROVE  /\ o[2] = 0 => o[1] = r
             /\ r \in 1..3 /\ o[2] # 0 => o[1] <= r - 1 /\ o[2] <= r - 1
  <2>1. PICK y \in 0..r : t[y].x >= y /\ o = <<t[y].x, y>> BY <1>2
  <2>2. r \in Nat /\ o[1] = t[y].x /\ o[2] = y BY <2>1
  <2>3. o[1] \in Int BY OctantIsRound
  <2>4. o[2] = 0 => o[1] = r BY <1>1, <2>2, FirstRows
  <2>5. ASSUME r \in 1..3, o[2] # 0 PROVE o[1] <= r - 1 /\ o[2] <= r - 1
    <3>1. y \in 1..r BY <2>1, <2>2, <2>5
    <3>2. o[1] <= r - 1 BY <1>1, <2>2, <2>5, <3>1, FirstRows
    <3> QED BY <2>1, <2>2, <2>3, <2>5, <3>2
  <2> QED BY <2>4, <2>5
<1> QED BY <1>3, <1>4

\* Leaving the mirrored spans of the centre's row out loses at most the leftmost pixel.
LEMMA MirroredSpansRepeat ==
  ASSUME NEW c \in Int \X Int, NEW r \in Int, NEW p \in WholeDisc(c, r), p \notin DiscPixels(c, r)
  PROVE  p = <<c[1] - r, c[2]>>
<1>o. PICK o \in Octant(r) : \E s \in BothSides(c, o) : p \in RectPixels(s[1], s[2], 1, s[3])
  BY DEF WholeDisc
<1>1. PICK s \in BothSides(c, o) : p \in RectPixels(s[1], s[2], 1, s[3]) BY <1>o
<1>2. s \notin Spans(c, o) BY <1>1 DEF DiscPixels, WholeDisc
<1>3. s \in SpansOn(-1, c, o) /\ s \notin SpansOn(1, c, o) /\ o[2] = 0
  BY <1>1, <1>2 DEF BothSides, Spans
<1>4. /\ c[1] \in Int /\ c[2] \in Int /\ o[1] = r BY <1>3, OctantRows
<1>5. s = <<c[1] + (-1) * r, c[2] - 0, 2 * 0 + 1>>
  <2>1. \/ s = <<c[1] + (-1) * r, c[2] - 0, 2 * 0 + 1>>
        \/ s = <<c[1] + (-1) * 0, c[2] - r, 2 * r + 1>>
    BY <1>3, <1>4 DEF SpansOn
  <2>2. <<c[1] + 1 * 0, c[2] - r, 2 * r + 1>> \in SpansOn(1, c, o) BY <1>3, <1>4 DEF SpansOn
  <2>3. c[1] + 1 * 0 = c[1] + (-1) * 0 BY <1>4
  <2> QED BY <1>3, <2>1, <2>2, <2>3
<1>6. s[1] = c[1] - r /\ s[2] = c[2] /\ s[3] = 1 BY <1>4, <1>5
<1>7. c[1] - r \in Int BY <1>4
<1>8. p \in Screen /\ p[1] = c[1] - r /\ c[2] <= p[2] /\ p[2] < c[2] + 1
  BY <1>1, <1>4, <1>6, <1>7, SpanIsColumn
<1>9. p = <<p[1], p[2]>> /\ p[2] \in Int BY <1>8, Dimensions DEF Screen
<1>10. p[2] = c[2] BY <1>4, <1>8, <1>9
<1> QED BY <1>8, <1>9, <1>10

\* That pixel is drawn by the next row, if that is as wide.
LEMMA LeftmostIsDrawn ==
  ASSUME NEW c \in Int \X Int, NEW r \in Int, r \notin 1..3,
         NEW p \in WholeDisc(c, r), p = <<c[1] - r, c[2]>>
  PROVE  p \in DiscPixels(c, r)
<1>o. PICK o \in Octant(r) : \E s \in BothSides(c, o) : p \in RectPixels(s[1], s[2], 1, s[3])
  BY DEF WholeDisc
<1>1. PICK s \in BothSides(c, o) : p \in RectPixels(s[1], s[2], 1, s[3]) BY <1>o
<1>2. TouchesDisplay(c, r) BY DEF WholeDisc
<1>3. c[1] \in Int /\ c[2] \in Int /\ o[1] \in Int /\ o[2] \in Int /\ r >= 0 BY OctantIsRound
<1>4. p \in Screen
  <2>1. s[1] \in Int /\ s[2] \in Int /\ s[3] \in Int BY <1>1, <1>3 DEF BothSides, SpansOn
  <2> QED BY <1>1, <2>1, SpanIsColumn
<1>5. p[1] = c[1] - r /\ p[2] = c[2] OBVIOUS
<1>6. CASE r >= 4
  <2>1. PICK e \in Octant(r) : e = <<r, 1>> BY <1>6, OctantRows
  <2> DEFINE span == <<c[1] + (-1) * r, c[2] - 1, 2 * 1 + 1>>
  <2>2. span \in SpansOn(-1, c, e) BY <2>1 DEF SpansOn
  <2>3. span \in Spans(c, e) BY <2>1, <2>2 DEF Spans
  <2>4. span[1] = c[1] - r /\ span[2] = c[2] - 1 /\ span[3] = 3 BY <1>3
  <2>5. c[1] - r \in Int /\ c[2] - 1 \in Int BY <1>3
  <2>6. p \in RectPixels(c[1] - r, c[2] - 1, 1, 3)
    BY <1>3, <1>4, <1>5, <2>5, SpanIsColumn
  <2>7. p \in RectPixels(span[1], span[2], 1, span[3]) BY <2>4, <2>6
  <2> HIDE DEF span
  <2> QED BY <1>2, <2>3, <2>7 DEF DiscPixels
<1>7. CASE r = 0
  <2>1. o[2] = 0 /\ o[1] = 0 BY <1>7, OctantIsRound
  <2>2. s \in SpansOn(1, c, o)
    <3>1. SpansOn(-1, c, o) = SpansOn(1, c, o) BY <1>3, <2>1 DEF SpansOn
    <3> QED BY <1>1, <3>1 DEF BothSides
  <2>3. s \in Spans(c, o) BY <2>2 DEF Spans
  <2> QED BY <1>1, <1>2, <2>3 DEF DiscPixels
<1> QED BY <1>3, <1>6, <1>7

\* Of the three smallest discs the pixel is lost: every other span is nearer the centre.
LEMMA LeftmostIsLost ==
  ASSUME NEW c \in Int \X Int, NEW r \in 1..3, NEW p, p[1] = c[1] - r
  PROVE  p \notin DiscPixels(c, r)
<1>1. SUFFICES ASSUME p \in DiscPixels(c, r) PROVE FALSE OBVIOUS
<1>o. PICK o \in Octant(r) : \E s \in Spans(c, o) : p \in RectPixels(s[1], s[2], 1, s[3])
  BY <1>1 DEF DiscPixels
<1>2. PICK s \in Spans(c, o) : p \in RectPixels(s[1], s[2], 1, s[3]) BY <1>o
<1>3. c[1] \in Int /\ c[2] \in Int /\ o[1] \in 0..r /\ o[2] \in 0..r BY OctantIsRound
<1>4. PICK i \in Int, j \in Int : i = o[1] /\ j = o[2] BY <1>3
<1>5. \/ s \in SpansOn(1, c, o)
      \/ s \in SpansOn(-1, c, o) /\ i <= r - 1 /\ j <= r - 1
  <2>1. s \in SpansOn(1, c, o) \/ (s \in SpansOn(-1, c, o) /\ o[2] # 0) BY <1>2 DEF Spans
  <2>2. ASSUME o[2] # 0 PROVE o[1] <= r - 1 /\ o[2] <= r - 1
    <3>1. r \in Int /\ r \in 1..3 OBVIOUS
    <3>2. \A e \in Octant(r) : r \in 1..3 /\ e[2] # 0 => e[1] <= r - 1 /\ e[2] <= r - 1
      BY <3>1, OctantRows
    <3> QED BY <2>2, <3>1, <3>2
  <2> QED BY <1>4, <2>1, <2>2
<1>6. /\ s[2] \in Int /\ s[3] \in Int
      /\ \/ s[1] = c[1] + 1 * i \/ s[1] = c[1] + 1 * j
         \/ (s[1] = c[1] + (-1) * i \/ s[1] = c[1] + (-1) * j) /\ i <= r - 1 /\ j <= r - 1
  BY <1>3, <1>4, <1>5 DEF SpansOn
<1>7. s[1] \in Int BY <1>3, <1>6
<1>8. p[1] = s[1] BY <1>2, <1>6, <1>7, SpanIsColumn
<1> QED BY <1>3, <1>4, <1>6, <1>8

\* What fillCircle() draws.
LEMMA DiscIsFilled ==
  ASSUME NEW c \in Int \X Int, NEW r \in Int
  PROVE  DiscPixels(c, r) = Enclosed(c, r) \ LeftOut(c, r)
<1>1. WholeDisc(c, r) = Enclosed(c, r) BY WholeDiscIsFilled
<1>2. DiscPixels(c, r) \subseteq WholeDisc(c, r) BY DEF DiscPixels, WholeDisc, Spans, BothSides
<1>3. ASSUME r \in 1..3 PROVE DiscPixels(c, r) = WholeDisc(c, r) \ {<<c[1] - r, c[2]>>}
  <2>1. <<c[1] - r, c[2]>> \notin DiscPixels(c, r) BY <1>3, LeftmostIsLost
  <2>2. \A p \in WholeDisc(c, r) : p \in DiscPixels(c, r) \/ p = <<c[1] - r, c[2]>>
    BY MirroredSpansRepeat
  <2> QED BY <1>2, <2>1, <2>2
<1>4. ASSUME r \notin 1..3 PROVE DiscPixels(c, r) = WholeDisc(c, r)
  <2>1. \A p \in WholeDisc(c, r) : p \in DiscPixels(c, r)
    BY <1>4, MirroredSpansRepeat, LeftmostIsDrawn
  <2> QED BY <1>2, <2>1
<1>5. CASE r \in 1..3 BY <1>1, <1>3, <1>5 DEF LeftOut
<1>6. CASE r \notin 1..3 BY <1>1, <1>4, <1>6 DEF LeftOut
<1> QED BY <1>5, <1>6

-----------------------------------------------------------------------------
\* Texts

Controls == {"\n", "\r"}
Chars(s) == {s[i] : i \in DOMAIN s}

\* How many characters of a text are looked at.
Limit(s) == AtMost(MaxChars, Len(s))

LEMMA CellSizes ==
  /\ GlyphWidth \in Nat /\ GlyphWidth > 0 /\ GlyphHeight \in Nat /\ GlyphHeight > 0
  /\ CharWidth \in Nat /\ CharHeight \in Nat
  /\ GlyphWidth <= CharWidth /\ GlyphHeight <= CharHeight /\ CharHeight <= MaxInt16
  /\ MaxChars \in Nat /\ MaxChars * CharWidth <= MaxInt16
<1>1. /\ GlyphWidth \in 1..CharWidth /\ GlyphHeight \in 1..CharHeight
      /\ MaxChars \in Nat /\ MaxChars * CharWidth <= MaxInt16 /\ CharHeight <= MaxInt16
      /\ CharWidth \in Nat /\ CharHeight \in Nat
  BY RasterAssumption
<1> QED BY <1>1

LEMMA BoundedText ==
  ASSUME NEW s, s \in Seq(Chars(s))
  PROVE  /\ Limit(s) \in Nat /\ Limit(s) <= Len(s) /\ Limit(s) <= MaxChars
         /\ Len(s) <= MaxChars => Limit(s) = Len(s)
         /\ Bounded(s) \in Seq(Chars(s)) /\ Len(Bounded(s)) = Limit(s)
         /\ \A i \in 1..Limit(s) : Bounded(s)[i] = s[i] /\ s[i] \in Chars(s)
         /\ Printed(s) = {i \in 1..Limit(s) : s[i] \notin Controls}
<1>1. Len(s) \in Nat /\ \A i \in 1..Len(s) : s[i] \in Chars(s) OBVIOUS
<1>2. PICK n : n = Limit(s) OBVIOUS
<1>3. /\ n \in Nat /\ n <= Len(s) /\ n <= MaxChars
      /\ Len(s) <= MaxChars => n = Len(s)
  BY <1>1, <1>2, CellSizes DEF Limit, AtMost
<1>4. Bounded(s) = SubSeq(s, 1, n) BY <1>2 DEF Bounded, Limit
<1>5. \A i \in 1..n : s[i] \in Chars(s) BY <1>1, <1>3
<1>6. /\ SubSeq(s, 1, n) \in Seq(Chars(s))
      /\ Len(SubSeq(s, 1, n)) = IF 1 <= n THEN n - 1 + 1 ELSE 0
      /\ \A i \in 1..(n - 1 + 1) : SubSeq(s, 1, n)[i] = s[1 + i - 1]
  BY <1>3, <1>5, SubSeqProperties
<1>7. Len(SubSeq(s, 1, n)) = n BY <1>3, <1>6
<1>8. \A i \in 1..n : SubSeq(s, 1, n)[i] = s[i]
  <2> TAKE i \in 1..n
  <2>1. i \in 1..(n - 1 + 1) /\ 1 + i - 1 = i BY <1>3
  <2> QED BY <1>6, <2>1
<1>9. Printed(s) = {i \in 1..n : s[i] \notin Controls} BY <1>2 DEF Printed, Limit, Controls
<1> QED BY <1>2, <1>3, <1>4, <1>5, <1>6, <1>7, <1>8, <1>9

\* The column and the line of a character, in characters, as the text advances.
LineOf(s, i) == Cardinality(Feeds(s, i))

LEMMA ColumnsAdvance ==
  ASSUME NEW s, s \in Seq(Chars(s)), NEW i \in 1..Limit(s)
  PROVE  /\ ColumnOf(s, i) \in Nat /\ ColumnOf(s, i) < i
         /\ ColumnOf(s, 1) = 0
         /\ ColumnOf(s, i + 1) = IF s[i] \in Controls THEN 0 ELSE ColumnOf(s, i) + 1
<1> DEFINE Row(k) == {j \in Printed(s) : j < k /\ \A c \in Rewinds(s, k) : c < j}
<1>0. Limit(s) \in Nat /\ Printed(s) = {k \in 1..Limit(s) : s[k] \notin Controls}
  BY BoundedText
<1>1. ASSUME NEW k \in 1..(Limit(s) + 1)
      PROVE  IsFiniteSet(Row(k)) /\ Cardinality(Row(k)) \in Nat /\ Cardinality(Row(k)) < k
  <2>1. k \in Int /\ k >= 1 BY <1>0
  <2>2. Row(k) \in SUBSET (1..(k - 1)) BY <1>0, <2>1
  <2>3. IsFiniteSet(1..(k - 1)) /\ Cardinality(1..(k - 1)) = k - 1
    BY <2>1, FS_Interval
  <2> HIDE DEF Row
  <2>4. IsFiniteSet(Row(k)) /\ Cardinality(Row(k)) <= k - 1 BY <2>2, <2>3, FS_Subset
  <2>5. Cardinality(Row(k)) \in Nat BY <2>4, FS_CardinalityType
  <2> QED BY <2>1, <2>4, <2>5
<1>2. ASSUME s[i] \in Controls PROVE Row(i + 1) = {}
  <2>1. i \in Rewinds(s, i + 1) BY <1>0, <1>2 DEF Rewinds, Controls
  <2>2. \A j \in Printed(s) : j \in Int BY <1>0
  <2> QED BY <1>0, <2>1, <2>2
<1>3. ASSUME s[i] \notin Controls PROVE Row(i + 1) = Row(i) \cup {i} /\ i \notin Row(i)
  <2>1. Rewinds(s, i + 1) = Rewinds(s, i)
    <3>1. \A j : j \in 1..i <=> j \in 1..(i - 1) \/ j = i BY <1>0
    <3>2. i + 1 - 1 = i BY <1>0
    <3> QED BY <1>3, <3>1, <3>2 DEF Rewinds, Controls
  <2>2. i \in Printed(s) BY <1>0, <1>3
  <2>3. \A c \in Rewinds(s, i) : c < i BY <1>0 DEF Rewinds
  <2>4. \A j \in Printed(s) : j < i + 1 <=> j < i \/ j = i BY <1>0
  <2>5. ~(i < i) BY <1>0
  <2> QED BY <2>1, <2>2, <2>3, <2>4, <2>5
<1>4. Row(1) = {}
  <2>1. \A j \in Printed(s) : ~(j < 1) BY <1>0
  <2> QED BY <2>1
<1> HIDE DEF Row
<1>5. \A k : ColumnOf(s, k) = Cardinality(Row(k)) BY DEF ColumnOf, Row
<1>6. Cardinality(Row(1)) = 0 BY <1>4, FS_EmptySet
<1>7. i \in 1..(Limit(s) + 1) BY <1>0
<1>8. Cardinality(Row(i)) \in Nat /\ Cardinality(Row(i)) < i /\ IsFiniteSet(Row(i))
  BY <1>1, <1>7
<1>9. ASSUME s[i] \in Controls PROVE Cardinality(Row(i + 1)) = 0
  BY <1>2, <1>9, FS_EmptySet
<1>10. ASSUME s[i] \notin Controls
       PROVE  Cardinality(Row(i + 1)) = Cardinality(Row(i)) + 1
  <2>1. Row(i + 1) = Row(i) \cup {i} /\ i \notin Row(i) BY <1>3, <1>10
  <2> QED BY <2>1, <1>8, FS_AddElement
<1> QED BY <1>5, <1>6, <1>8, <1>9, <1>10

LEMMA LinesAdvance ==
  ASSUME NEW s, s \in Seq(Chars(s)), NEW i \in 1..Limit(s)
  PROVE  /\ LineOf(s, i) \in Nat /\ LineOf(s, 1) = 0
         /\ LineOf(s, i + 1) = IF s[i] = "\n" THEN LineOf(s, i) + 1 ELSE LineOf(s, i)
<1>0. Limit(s) \in Nat /\ i \in Nat /\ i >= 1 /\ i + 1 - 1 = i BY BoundedText
<1>1. Feeds(s, i) \in SUBSET (1..(i - 1)) BY DEF Feeds
<1>2. IsFiniteSet(1..(i - 1)) BY <1>0, FS_Interval
<1>3. IsFiniteSet(Feeds(s, i)) BY <1>1, <1>2, FS_Subset
<1>4. \A j : j \in 1..i <=> j \in 1..(i - 1) \/ j = i BY <1>0
<1>5. s[i] # "\n" => Feeds(s, i + 1) = Feeds(s, i) BY <1>0, <1>4 DEF Feeds
<1>6. s[i] = "\n" => Feeds(s, i + 1) = Feeds(s, i) \cup {i} /\ i \notin Feeds(s, i)
  <2>1. i \notin 1..(i - 1) BY <1>0
  <2> QED BY <1>0, <1>4, <2>1 DEF Feeds
<1>7. Feeds(s, 1) = {} BY DEF Feeds
<1>8. LineOf(s, i) \in Nat BY <1>3, FS_CardinalityType DEF LineOf
<1>9. LineOf(s, 1) = 0 BY <1>7, FS_EmptySet DEF LineOf
<1>10. s[i] = "\n" => LineOf(s, i + 1) = LineOf(s, i) + 1
  BY <1>3, <1>6, FS_AddElement DEF LineOf
<1>11. s[i] # "\n" => LineOf(s, i + 1) = LineOf(s, i) BY <1>5 DEF LineOf
<1> QED BY <1>8, <1>9, <1>10, <1>11

\* The place of a character, and the cells of the characters up to one.
CellX(x, s, i) == x + CharWidth * ColumnOf(s, i)
CellY(y, s, i) == y + CharHeight * LineOf(s, i)

CellsTo(x, y, s, n) ==
  {<<CellX(x, s, i), CellY(y, s, i), s[i]>> :
     i \in {j \in Printed(s) : j <= n /\ IsInt16(CellX(x, s, j)) /\ IsInt16(CellY(y, s, j))}}

TextStates(C) == [x : Int, y : Int, cells : SUBSET (Int \X Int \X C)]

LEMMA AdvanceIsState ==
  ASSUME NEW C, NEW x \in Int, NEW t \in TextStates(C), NEW c \in C
  PROVE  Advance(x, t, c) \in TextStates(C)
<1>1. t.x \in Int /\ t.y \in Int /\ t.cells \in SUBSET (Int \X Int \X C)
  BY DEF TextStates
<1>2. \A c2 \in {c} : <<t.x, t.y, c2>> \in Int \X Int \X C BY <1>1
<1>3. t.cells \cup {<<t.x, t.y, c>>} \in SUBSET (Int \X Int \X C) BY <1>1, <1>2
<1>4. Advance(x, t, c) \in [x : {x, t.x, t.x + CharWidth}, y : {t.y, t.y + CharHeight},
                            cells : {t.cells, t.cells \cup {<<t.x, t.y, c>>}}]
  BY DEF Advance, TextStates
<1> QED BY <1>1, <1>3, <1>4, CellSizes DEF TextStates

LEMMA AdvanceMoves ==
  ASSUME NEW C, NEW x \in Int, NEW t \in TextStates(C), NEW c \in C
  PROVE  /\ Advance(x, t, c).x = IF c \in Controls THEN x ELSE t.x + CharWidth
         /\ Advance(x, t, c).y = IF c = "\n" THEN t.y + CharHeight ELSE t.y
<1>1. t = [x |-> t.x, y |-> t.y, cells |-> t.cells] BY DEF TextStates
<1>2. CASE c = "\n" BY <1>1, <1>2 DEF Advance, Controls
<1>3. CASE c = "\r" BY <1>1, <1>3 DEF Advance, Controls
<1>4. CASE c \notin Controls BY <1>1, <1>4 DEF Advance, Controls
<1> QED BY <1>2, <1>3, <1>4 DEF Controls

LEMMA AdvanceDraws ==
  ASSUME NEW C, NEW x \in Int, NEW t \in TextStates(C), NEW c \in C
  PROVE  Advance(x, t, c).cells =
           IF c \notin Controls /\ IsInt16(t.x) /\ IsInt16(t.y)
           THEN t.cells \cup {<<t.x, t.y, c>>} ELSE t.cells
<1>1. t = [x |-> t.x, y |-> t.y, cells |-> t.cells] BY DEF TextStates
<1>2. CASE c = "\n" BY <1>1, <1>2 DEF Advance, Controls
<1>3. CASE c = "\r" BY <1>1, <1>3 DEF Advance, Controls
<1>4. CASE c \notin Controls BY <1>1, <1>4 DEF Advance, Controls
<1> QED BY <1>2, <1>3, <1>4 DEF Controls

LEMMA TextLoopRuns ==
  ASSUME NEW C, NEW b \in Seq(C), NEW x \in Int, NEW y \in Int, NEW t, t = TextLoop(x, y, b)
  PROVE  /\ t \in [0..Len(b) -> TextStates(C)]
         /\ t[0] = [x |-> x, y |-> y, cells |-> {}]
         /\ \A i \in 1..Len(b) : t[i] = Advance(x, t[i - 1], b[i])
<1> DEFINE n == Len(b)
           S == TextStates(C)
           first == [x |-> x, y |-> y, cells |-> {}]
           next == [p \in S \X (1..n) |-> Advance(x, p[1], b[p[2]])]
           Rule(f) == f = [i \in 0..n |-> IF i = 0 THEN first ELSE Advance(x, f[i - 1], b[i])]
<1>0. n \in Nat /\ \A i \in 1..n : b[i] \in C OBVIOUS
<1>1. first \in S BY DEF TextStates
<1>2. next \in [S \X (1..n) -> S]
  <2>1. \A s \in S, i \in 1..n : Advance(x, s, b[i]) \in S BY <1>0, AdvanceIsState
  <2> HIDE DEF S, n
  <2> QED BY <2>1
<1>3. PICK run \in [0..n -> S] : Runs(run, n, first, next)
  <2> HIDE DEF first, next, S, n
  <2> QED BY <1>0, <1>1, <1>2, LoopRuns
<1>4. Rule(run)
  <2> HIDE DEF S, n, first
  <2>1. \A i \in 1..n : next[<<run[i - 1], i>>] = Advance(x, run[i - 1], b[i])
    <3> TAKE i \in 1..n
    <3>1. i - 1 \in 0..n BY <1>0
    <3>2. <<run[i - 1], i>> \in S \X (1..n) BY <3>1, <1>3
    <3> QED BY <3>2
  <2> HIDE DEF next
  <2>2. \A i \in 0..n : i = 0 \/ i \in 1..n BY <1>0
  <2> QED BY <1>3, <2>1, <2>2 DEF Runs
<1>5. t = CHOOSE f : Rule(f) BY DEF TextLoop
<1>6. Rule(t) BY <1>4, <1>5
<1> HIDE DEF first, S, n
<1>7. \A i \in 1..n : t[i] = Advance(x, t[i - 1], b[i])
  <2> TAKE i \in 1..n
  <2>1. i \in 0..n /\ i # 0 BY <1>0
  <2> QED BY <1>6, <2>1
<1>8. t[0] = first BY <1>0, <1>6
<1>9. \A i \in 0..n : t[i] \in S
  <2> DEFINE P == {i \in 0..n : t[i] \in S}
  <2>1. 0 \in P BY <1>0, <1>1, <1>8
  <2>2. ASSUME NEW i \in 1..n, i - 1 \in P PROVE i \in P
    <3>1. PICK s \in S : s = t[i - 1] BY <2>2
    <3>2. Advance(x, s, b[i]) \in S BY <1>0, <3>1, AdvanceIsState DEF S
    <3>3. t[i] \in S BY <1>7, <3>1, <3>2
    <3>4. i \in 0..n BY <1>0
    <3> QED BY <3>3, <3>4
  <2>3. 0..n \subseteq P
    <3> HIDE DEF P
    <3> QED BY <1>0, <2>1, <2>2, EveryRound
  <2> QED BY <2>3
<1>10. t = [i \in 0..n |-> t[i]] BY <1>6
<1> QED BY <1>7, <1>8, <1>9, <1>10 DEF first, S, n

\* After each character the cursor is at the next cell, and the cells before it that
\* int16_t can name are drawn.
LaysOut(t, n, x, y, s) ==
  /\ t.x = CellX(x, s, n + 1) /\ t.y = CellY(y, s, n + 1)
  /\ t.cells = CellsTo(x, y, s, n)

LEMMA TextLoopLaysOut ==
  ASSUME NEW s, s \in Seq(Chars(s)), NEW x \in Int, NEW y \in Int,
         NEW t, t = TextLoop(x, y, Bounded(s)), NEW n \in 0..Limit(s)
  PROVE  /\ t[n] \in TextStates(Chars(s))
         /\ LaysOut(t[n], n, x, y, s)
<1> DEFINE L == Limit(s)
           Good(i) == /\ t[i].x = CellX(x, s, i + 1) /\ t[i].y = CellY(y, s, i + 1)
                      /\ t[i].cells = CellsTo(x, y, s, i)
           P == {i \in 0..L : Good(i)}
<1>0. /\ L \in Nat /\ Bounded(s) \in Seq(Chars(s)) /\ Len(Bounded(s)) = L
      /\ \A i \in 1..L : Bounded(s)[i] = s[i] /\ s[i] \in Chars(s)
      /\ Printed(s) = {i \in 1..L : s[i] \notin Controls}
  BY BoundedText
<1>1. /\ t \in [0..L -> TextStates(Chars(s))]
      /\ t[0] = [x |-> x, y |-> y, cells |-> {}]
      /\ \A i \in 1..L : t[i] = Advance(x, t[i - 1], s[i])
  <2>1. PICK b \in Seq(Chars(s)) : b = Bounded(s) BY <1>0
  <2>2. Len(b) = L /\ \A i \in 1..L : b[i] = s[i] BY <1>0, <2>1
  <2>3. t = TextLoop(x, y, b) BY <2>1
  <2> HIDE DEF L
  <2>4. /\ t \in [0..Len(b) -> TextStates(Chars(s))]
        /\ t[0] = [x |-> x, y |-> y, cells |-> {}]
        /\ \A i \in 1..Len(b) : t[i] = Advance(x, t[i - 1], b[i])
    BY <2>3, TextLoopRuns
  <2> QED BY <2>2, <2>4
<1>2. 0 \in P
  <2>1. CASE L = 0 \* no character: nothing is laid out
    <3>1. Printed(s) = {} BY <1>0, <2>1
    <3>2. ColumnOf(s, 1) = 0 /\ LineOf(s, 1) = 0
      <4>1. Feeds(s, 1) = {} BY DEF Feeds
      <4>2. {j \in Printed(s) : j < 1 /\ \A k \in Rewinds(s, 1) : k < j} = {} BY <3>1
      <4> QED BY <4>1, <4>2, FS_EmptySet DEF ColumnOf, LineOf
    <3>3. CellX(x, s, 1) = x /\ CellY(y, s, 1) = y BY <3>2, CellSizes DEF CellX, CellY
    <3>4. CellsTo(x, y, s, 0) = {} BY <3>1 DEF CellsTo
    <3>5. 0 + 1 = 1 /\ 0 \in 0..L BY <1>0
    <3>6. t[0].x = x /\ t[0].y = y /\ t[0].cells = {} BY <1>1
    <3>7. Good(0) BY <3>3, <3>4, <3>5, <3>6
    <3> QED BY <3>5, <3>7
  <2>2. CASE L # 0
    <3>1. 1 \in 1..L BY <1>0, <2>2
    <3>2. ColumnOf(s, 1) = 0 /\ LineOf(s, 1) = 0 BY <3>1, ColumnsAdvance, LinesAdvance
    <3>3. CellX(x, s, 1) = x /\ CellY(y, s, 1) = y BY <3>2, CellSizes DEF CellX, CellY
    <3>4. \A j \in Printed(s) : ~(j <= 0) BY <1>0
    <3>5. CellsTo(x, y, s, 0) = {} BY <3>4 DEF CellsTo
    <3>6. 0 + 1 = 1 /\ 0 \in 0..L BY <1>0
    <3>7. t[0].x = x /\ t[0].y = y /\ t[0].cells = {} BY <1>1
    <3>8. Good(0) BY <3>3, <3>5, <3>6, <3>7
    <3> QED BY <3>6, <3>8
  <2> QED BY <2>1, <2>2
<1>3. ASSUME NEW i \in 1..L, i - 1 \in P PROVE i \in P
  <2>1. /\ t[i - 1].x = CellX(x, s, i) /\ t[i - 1].y = CellY(y, s, i)
        /\ t[i - 1].cells = CellsTo(x, y, s, i - 1)
    <3>1. i - 1 + 1 = i BY <1>0
    <3> QED BY <1>3, <3>1
  <2>2. PICK u \in TextStates(Chars(s)) : u = t[i - 1]
    <3>1. i - 1 \in 0..L BY <1>0
    <3> QED BY <1>1, <3>1
  <2>3. s[i] \in Chars(s) BY <1>0
  <2>4. t[i] = Advance(x, u, s[i]) BY <1>1, <2>2
  <2>5. /\ t[i].x = IF s[i] \in Controls THEN x ELSE u.x + CharWidth
        /\ t[i].y = IF s[i] = "\n" THEN u.y + CharHeight ELSE u.y
        /\ t[i].cells = IF s[i] \notin Controls /\ IsInt16(u.x) /\ IsInt16(u.y)
                        THEN u.cells \cup {<<u.x, u.y, s[i]>>} ELSE u.cells
    <3>1. PICK c \in Chars(s) : c = s[i] BY <2>3
    <3>2. /\ Advance(x, u, c).x = IF c \in Controls THEN x ELSE u.x + CharWidth
          /\ Advance(x, u, c).y = IF c = "\n" THEN u.y + CharHeight ELSE u.y
      BY AdvanceMoves
    <3>3. Advance(x, u, c).cells = IF c \notin Controls /\ IsInt16(u.x) /\ IsInt16(u.y)
                                   THEN u.cells \cup {<<u.x, u.y, c>>} ELSE u.cells
      BY AdvanceDraws
    <3>4. t[i] = Advance(x, u, c) BY <2>4, <3>1
    <3> QED BY <3>1, <3>2, <3>3, <3>4
  <2>6. /\ ColumnOf(s, i) \in Nat
        /\ ColumnOf(s, i + 1) = IF s[i] \in Controls THEN 0 ELSE ColumnOf(s, i) + 1
    BY ColumnsAdvance
  <2>7. /\ LineOf(s, i) \in Nat
        /\ LineOf(s, i + 1) = IF s[i] = "\n" THEN LineOf(s, i) + 1 ELSE LineOf(s, i)
    BY LinesAdvance
  <2>8. t[i].x = CellX(x, s, i + 1)
    <3>1. u.x = x + CharWidth * ColumnOf(s, i) BY <2>1, <2>2 DEF CellX
    <3>2. PICK col \in Nat : col = ColumnOf(s, i) BY <2>6
    <3>3. PICK m \in Int : m = CharWidth * col /\ CharWidth * (col + 1) = m + CharWidth
      BY CellSizes
    <3>4. CASE s[i] \in Controls
      <4>1. ColumnOf(s, i + 1) = 0 /\ CharWidth * 0 = 0 BY <2>6, <3>4, CellSizes
      <4>2. CellX(x, s, i + 1) = x BY <4>1 DEF CellX
      <4> QED BY <2>5, <3>4, <4>2
    <3>5. CASE s[i] \notin Controls
      <4>1. ColumnOf(s, i + 1) = col + 1 BY <2>6, <3>2, <3>5
      <4>2. CellX(x, s, i + 1) = x + (m + CharWidth) BY <3>3, <4>1 DEF CellX
      <4>3. u.x = x + m BY <3>1, <3>2, <3>3
      <4>4. t[i].x = u.x + CharWidth BY <2>5, <3>5
      <4> QED BY <4>2, <4>3, <4>4, CellSizes
    <3> QED BY <3>4, <3>5
  <2>9. t[i].y = CellY(y, s, i + 1)
    <3>1. u.y = y + CharHeight * LineOf(s, i) BY <2>1, <2>2 DEF CellY
    <3>2. CharHeight * (LineOf(s, i) + 1) = CharHeight * LineOf(s, i) + CharHeight
      BY <2>7, CellSizes
    <3>3. CharHeight * LineOf(s, i) \in Int BY <2>7, CellSizes
    <3> QED BY <2>5, <2>7, <3>1, <3>2, <3>3, CellSizes DEF CellY
  <2>10. t[i].cells = CellsTo(x, y, s, i)
    <3> DEFINE Named(j) == IsInt16(CellX(x, s, j)) /\ IsInt16(CellY(y, s, j))
               Cell(j) == <<CellX(x, s, j), CellY(y, s, j), s[j]>>
    <3>1. \A j \in Printed(s) : j <= i <=> j <= i - 1 \/ j = i BY <1>0
    <3>2. i \in Printed(s) <=> s[i] \notin Controls BY <1>0
    <3>3. i <= i BY <1>0
    <3>4. \A k : CellsTo(x, y, s, k) = {Cell(j) : j \in {j \in Printed(s) : j <= k /\ Named(j)}}
      BY DEF CellsTo
    <3>5. u.x = CellX(x, s, i) /\ u.y = CellY(y, s, i) /\ u.cells = CellsTo(x, y, s, i - 1)
      BY <2>1, <2>2
    <3>6. t[i].cells = IF s[i] \notin Controls /\ Named(i)
                       THEN CellsTo(x, y, s, i - 1) \cup {Cell(i)} ELSE CellsTo(x, y, s, i - 1)
      BY <2>5, <3>5
    <3> HIDE DEF Named, Cell
    <3>7. \A c : c \in CellsTo(x, y, s, i) <=>
                   c \in CellsTo(x, y, s, i - 1)
                     \/ (s[i] \notin Controls /\ Named(i) /\ c = Cell(i))
      BY <3>1, <3>2, <3>3, <3>4
    <3>8. \A c : c \in t[i].cells <=> c \in CellsTo(x, y, s, i) BY <3>6, <3>7
    <3>9. \E cells : cells = t[i].cells /\ cells \subseteq CellsTo(x, y, s, i)
                       /\ CellsTo(x, y, s, i) \subseteq cells
      BY <3>8
    <3> QED BY <3>9
  <2> QED BY <1>0, <2>8, <2>9, <2>10
<1>4. n \in P
  <2> HIDE DEF P, L
  <2> QED BY <1>0, <1>2, <1>3, EveryRound DEF L
<1> QED BY <1>1, <1>4 DEF LaysOut

-----------------------------------------------------------------------------
\* What a text draws

\* The pixels of a character are in its cell.
LEMMA CharInCell ==
  ASSUME NEW x \in Int, NEW y \in Int, NEW c
  PROVE  CharPixels(x, y, c) \subseteq InRect(x, y, GlyphWidth, GlyphHeight)
<1>1. CASE c \in DOMAIN Glyph
  <2>1. Glyph[c] \subseteq (0..(GlyphWidth - 1)) \X (0..(GlyphHeight - 1))
    BY <1>1, RasterAssumption
  <2>2. ASSUME NEW p \in CharPixels(x, y, c) PROVE p \in InRect(x, y, GlyphWidth, GlyphHeight)
    <3>1. PICK g \in Glyph[c] : p = <<x + g[1], y + g[2]>> /\ p \in Screen
      BY <1>1, <2>2 DEF CharPixels
    <3>2. g[1] \in 0..(GlyphWidth - 1) /\ g[2] \in 0..(GlyphHeight - 1) BY <2>1
    <3>3. /\ x <= x + g[1] /\ x + g[1] < x + GlyphWidth
          /\ y <= y + g[2] /\ y + g[2] < y + GlyphHeight
      BY <3>2, CellSizes
    <3>4. p[1] = x + g[1] /\ p[2] = y + g[2] BY <3>1
    <3> QED BY <3>1, <3>3, <3>4 DEF InRect
  <2> QED BY <2>2
<1>2. CASE c \notin DOMAIN Glyph BY <1>2, RectIsAsked, CellSizes DEF CharPixels
<1> QED BY <1>1, <1>2

\* A cell that begins beyond the columns from -CharWidth to the last, or its rows beyond
\* int16_t, has no pixel.
LEMMA CellOffDisplay ==
  ASSUME NEW x \in Int, NEW y \in Int, NEW c,
         x >= Width \/ x + CharWidth <= 0 \/ y > MaxInt16 \/ y + MaxInt16 < 0
  PROVE  CharPixels(x, y, c) = {}
<1>1. SUFFICES ASSUME NEW p \in CharPixels(x, y, c) PROVE FALSE OBVIOUS
<1>2. p \in InRect(x, y, GlyphWidth, GlyphHeight) BY CharInCell
<1>3. p \in Screen /\ x <= p[1] /\ p[1] < x + GlyphWidth /\ y <= p[2] /\ p[2] < y + GlyphHeight
  BY <1>2 DEF InRect
<1>4. p[1] \in 0..(Width - 1) /\ p[2] \in 0..(Height - 1) BY <1>3, PixelShape DEF Cols
<1> QED BY <1>3, <1>4, CellSizes, Dimensions, Int16Limits

\* The cell of a printed character is at most MaxChars characters from the start.
LEMMA PlaceOfPrinted ==
  ASSUME NEW s, s \in Seq(Chars(s)), NEW i \in Printed(s), NEW x \in Int, NEW y \in Int
  PROVE  /\ i \in 1..Limit(s) /\ MaxChars >= 1 /\ CharWidth <= MaxInt16
         /\ CellX(x, s, i) \in Int /\ CellY(y, s, i) \in Int
         /\ CharWidth * (ColumnOf(s, i) + 1) \in Nat
         /\ CharWidth * (ColumnOf(s, i) + 1) <= MaxInt16
         /\ CharWidth * (ColumnOf(s, i) + 1) = CharWidth * ColumnOf(s, i) + CharWidth
         /\ CharWidth * ColumnOf(s, i) \in Nat
<1>1. /\ i \in 1..Limit(s) /\ Limit(s) \in Nat /\ Limit(s) <= MaxChars
  BY BoundedText
<1>2. ColumnOf(s, i) \in Nat /\ ColumnOf(s, i) < i /\ LineOf(s, i) \in Nat
  BY <1>1, ColumnsAdvance, LinesAdvance
<1>3. PICK c \in Nat : c = ColumnOf(s, i) BY <1>2
<1>4. PICK m \in Nat : m = MaxChars /\ c + 1 <= m BY <1>1, <1>2, <1>3, CellSizes
<1>5. CharWidth * (m - (c + 1)) \in Nat BY <1>4, CellSizes, Product
<1>6. CharWidth * (m - (c + 1)) = m * CharWidth - CharWidth * (c + 1) BY CellSizes
<1>7. CharWidth * c \in Nat /\ CharWidth * (c + 1) \in Nat BY CellSizes, Product
<1>8. CharWidth * (c + 1) <= m * CharWidth BY <1>5, <1>6, <1>7, CellSizes
<1>9. CharWidth * (c + 1) = CharWidth * c + CharWidth BY CellSizes
<1>10. m * CharWidth <= MaxInt16 BY <1>4, CellSizes
<1>11. CellX(x, s, i) \in Int BY <1>3, <1>7 DEF CellX
<1>12. CellY(y, s, i) \in Int
  <2>1. CharHeight * LineOf(s, i) \in Nat BY <1>2, CellSizes, Product
  <2> QED BY <2>1 DEF CellY
<1>13. CharWidth * (c + 1) <= MaxInt16 /\ CharWidth <= MaxInt16
  BY <1>7, <1>8, <1>9, <1>10, CellSizes, Int16Limits
<1>14. MaxChars >= 1 BY <1>4
<1> QED BY <1>1, <1>3, <1>7, <1>9, <1>11, <1>12, <1>13, <1>14

\* The run draws the layout: a character that int16_t cannot place has no pixel.
LEMMA RunIsLayout ==
  ASSUME NEW s, s \in Seq(Chars(s)), NEW x \in Int, NEW y \in Int
  PROVE  /\ TextRun(x, y, s).cells = CellsTo(x, y, s, Limit(s))
         /\ TextRun(x, y, s).x = Saturated(CellX(x, s, Limit(s) + 1))
         /\ UNION {CharPixels(c[1], c[2], c[3]) : c \in TextRun(x, y, s).cells} = LaidOut(x, y, s)
<1>1. Limit(s) \in Nat /\ Len(Bounded(s)) = Limit(s) BY BoundedText
<1>2. PICK end \in TextStates(Chars(s)) :
        /\ end = TextLoop(x, y, Bounded(s))[Limit(s)]
        /\ end.x = CellX(x, s, Limit(s) + 1) /\ end.cells = CellsTo(x, y, s, Limit(s))
  <2>1. PICK n \in 0..Limit(s) : n = Limit(s) BY <1>1
  <2>2. PICK t : t = TextLoop(x, y, Bounded(s)) OBVIOUS
  <2>3. t[n] \in TextStates(Chars(s)) /\ LaysOut(t[n], n, x, y, s)
    BY <2>2, TextLoopLaysOut
  <2> QED BY <2>1, <2>2, <2>3 DEF LaysOut
<1>3. /\ TextRun(x, y, s).cells = CellsTo(x, y, s, Limit(s))
      /\ TextRun(x, y, s).x = Saturated(CellX(x, s, Limit(s) + 1))
  <2>1. TextRun(x, y, s) = [end EXCEPT !.x = Saturated(@)] BY <1>1, <1>2 DEF TextRun
  <2> QED BY <1>2, <2>1 DEF TextStates
<1>4. LaidOut(x, y, s) =
        UNION {CharPixels(CellX(x, s, i), CellY(y, s, i), s[i]) : i \in Printed(s)}
  BY DEF LaidOut, CellX, CellY, LineOf
<1>5. ASSUME NEW i \in Printed(s), ~(IsInt16(CellX(x, s, i)) /\ IsInt16(CellY(y, s, i)))
      PROVE  CharPixels(CellX(x, s, i), CellY(y, s, i), s[i]) = {}
  <2>1. PICK cx \in Int, cy \in Int : cx = CellX(x, s, i) /\ cy = CellY(y, s, i)
    BY PlaceOfPrinted
  <2>2. CharWidth <= MaxInt16 BY PlaceOfPrinted
  <2>3. cx >= Width \/ cx + CharWidth <= 0 \/ cy > MaxInt16 \/ cy + MaxInt16 < 0
    BY <1>5, <2>1, <2>2, CellSizes, Int16Limits, Dimensions DEF IsInt16
  <2> QED BY <2>1, <2>3, CellOffDisplay
<1>6. \A i \in Printed(s) : i <= Limit(s)
  BY BoundedText, <1>1
<1>7. ASSUME NEW p
      PROVE  (\E c \in CellsTo(x, y, s, Limit(s)) : p \in CharPixels(c[1], c[2], c[3])) <=>
               \E i \in Printed(s) : p \in CharPixels(CellX(x, s, i), CellY(y, s, i), s[i])
  <2> DEFINE Touches(c) == p \in CharPixels(c[1], c[2], c[3])
             Cell(i) == <<CellX(x, s, i), CellY(y, s, i), s[i]>>
             Named(i) == IsInt16(CellX(x, s, i)) /\ IsInt16(CellY(y, s, i))
  <2>1. \A i : Touches(Cell(i)) <=> p \in CharPixels(CellX(x, s, i), CellY(y, s, i), s[i])
    OBVIOUS
  <2>2. CellsTo(x, y, s, Limit(s)) = {Cell(i) : i \in {j \in Printed(s) : j <= Limit(s) /\ Named(j)}}
    BY DEF CellsTo
  <2>3. \A i \in Printed(s) : ~Named(i) => ~Touches(Cell(i)) BY <1>5, <2>1
  <2> HIDE DEF Touches, Cell, Named
  <2>4. (\E c \in CellsTo(x, y, s, Limit(s)) : Touches(c)) <=>
          \E i \in Printed(s) : Touches(Cell(i))
    BY <1>6, <2>2, <2>3
  <2>5. (\E c \in CellsTo(x, y, s, Limit(s)) : Touches(c)) <=>
          \E i \in Printed(s) : p \in CharPixels(CellX(x, s, i), CellY(y, s, i), s[i])
    BY <2>1, <2>4
  <2> QED BY <2>5 DEF Touches
<1>8. UNION {CharPixels(c[1], c[2], c[3]) : c \in TextRun(x, y, s).cells} = LaidOut(x, y, s)
  BY <1>3, <1>4, <1>7
<1> QED BY <1>3, <1>8

\* getTextWidthN() measures what drawTextN() lays out.
WidthState == [widest : Int, run : Int]

LEMMA WidthStepIsState ==
  ASSUME NEW t \in WidthState, NEW c
  PROVE  /\ WidthStep(t, c) \in WidthState
         /\ c \in Controls => /\ WidthStep(t, c).widest = AtLeast(t.widest, t.run)
                              /\ WidthStep(t, c).run = 0
         /\ c \notin Controls => /\ WidthStep(t, c).widest = t.widest
                                 /\ WidthStep(t, c).run = t.run + CharWidth
BY CellSizes DEF WidthState, WidthStep, Controls, AtLeast

LEMMA WidthLoopRuns ==
  ASSUME NEW C, NEW b \in Seq(C), NEW t, t = WidthLoop(b)
  PROVE  /\ t \in [0..Len(b) -> WidthState] /\ t[0] = [widest |-> 0, run |-> 0]
         /\ \A i \in 1..Len(b) : t[i] = WidthStep(t[i - 1], b[i])
<1> DEFINE n == Len(b)
           first == [widest |-> 0, run |-> 0]
           next == [p \in WidthState \X (1..n) |-> WidthStep(p[1], b[p[2]])]
           Rule(f) == f = [i \in 0..n |-> IF i = 0 THEN first ELSE WidthStep(f[i - 1], b[i])]
<1>0. n \in Nat OBVIOUS
<1>1. first \in WidthState BY DEF WidthState
<1>2. next \in [WidthState \X (1..n) -> WidthState]
  <2>1. \A s \in WidthState, i \in 1..n : WidthStep(s, b[i]) \in WidthState
    BY WidthStepIsState
  <2> HIDE DEF n
  <2> QED BY <2>1
<1>3. PICK run \in [0..n -> WidthState] : Runs(run, n, first, next)
  <2> HIDE DEF first, next, n
  <2> QED BY <1>0, <1>1, <1>2, LoopRuns
<1>4. Rule(run)
  <2> HIDE DEF n, first
  <2>1. \A i \in 1..n : next[<<run[i - 1], i>>] = WidthStep(run[i - 1], b[i])
    <3> TAKE i \in 1..n
    <3>1. i - 1 \in 0..n BY <1>0
    <3>2. <<run[i - 1], i>> \in WidthState \X (1..n) BY <3>1, <1>3
    <3> QED BY <3>2
  <2> HIDE DEF next
  <2>2. \A i \in 0..n : i = 0 \/ i \in 1..n BY <1>0
  <2> QED BY <1>3, <2>1, <2>2 DEF Runs
<1>5. t = CHOOSE f : Rule(f) BY DEF WidthLoop
<1>6. Rule(t) BY <1>4, <1>5
<1> HIDE DEF first, n
<1>7. \A i \in 1..n : t[i] = WidthStep(t[i - 1], b[i])
  <2> TAKE i \in 1..n
  <2>1. i \in 0..n /\ i # 0 BY <1>0
  <2> QED BY <1>6, <2>1
<1>8. t[0] = first BY <1>0, <1>6
<1>9. \A i \in 0..n : t[i] \in WidthState
  <2> DEFINE P == {i \in 0..n : t[i] \in WidthState}
  <2>1. 0 \in P BY <1>0, <1>1, <1>8
  <2>2. ASSUME NEW i \in 1..n, i - 1 \in P PROVE i \in P
    <3>1. WidthStep(t[i - 1], b[i]) \in WidthState BY <2>2, WidthStepIsState
    <3>2. i \in 0..n BY <1>0
    <3> QED BY <1>7, <3>1, <3>2
  <2>3. 0..n \subseteq P
    <3> HIDE DEF P
    <3> QED BY <1>0, <2>1, <2>2, EveryRound
  <2> QED BY <2>3
<1>10. t = [i \in 0..n |-> t[i]] BY <1>6
<1> QED BY <1>7, <1>8, <1>9, <1>10 DEF first, n

\* The end of the cell of a character, from the start of its line.
EndOf(s, i) == CharWidth * (ColumnOf(s, i) + 1)

\* After n characters the run is where the cursor is, and no cell so far ends beyond the
\* wider of the run and the widest line.
Measures(t, s, n) ==
  /\ t.run = CharWidth * ColumnOf(s, n + 1)
  /\ \A i \in Printed(s) : i <= n => EndOf(s, i) <= AtLeast(t.widest, t.run)

LEMMA WidthStepMeasures ==
  ASSUME NEW s, s \in Seq(Chars(s)), NEW i \in 1..Limit(s), NEW t \in WidthState,
         Measures(t, s, i - 1), NEW u, u = WidthStep(t, s[i])
  PROVE  Measures(u, s, i)
<1>0. /\ Limit(s) \in Nat /\ Printed(s) = {j \in 1..Limit(s) : s[j] \notin Controls}
      /\ i \in Int /\ i - 1 + 1 = i
  <2>1. Limit(s) \in Nat /\ Printed(s) = {j \in 1..Limit(s) : s[j] \notin Controls}
    BY BoundedText
  <2> QED BY <2>1
<1>1. PICK col \in Nat : col = ColumnOf(s, i) BY ColumnsAdvance
<1>2. ColumnOf(s, i + 1) = IF s[i] \in Controls THEN 0 ELSE col + 1
  BY <1>1, ColumnsAdvance
<1>3. /\ t.run = CharWidth * col
      /\ \A j \in Printed(s) : j <= i - 1 => EndOf(s, j) <= AtLeast(t.widest, t.run)
  BY <1>0, <1>1 DEF Measures
<1>4. \A j \in Printed(s) : EndOf(s, j) \in Int
  <2> TAKE j \in Printed(s)
  <2> QED BY PlaceOfPrinted DEF EndOf
<1>5. \A j \in Printed(s) : j <= i <=> j <= i - 1 \/ j = i BY <1>0
<1>6. PICK w \in Int, r \in Int : w = t.widest /\ r = t.run BY DEF WidthState
<1>7. CASE s[i] \in Controls
  <2>1. u.run = 0 /\ u.widest = AtLeast(w, r) BY <1>6, <1>7, WidthStepIsState
  <2>2. CharWidth * 0 = 0 BY CellSizes
  <2>3. i \notin Printed(s) BY <1>0, <1>7
  <2>4. ASSUME NEW j \in Printed(s), j <= i PROVE EndOf(s, j) <= AtLeast(u.widest, u.run)
    <3>1. EndOf(s, j) <= AtLeast(w, r) BY <1>3, <1>5, <1>6, <2>3, <2>4
    <3> QED BY <3>1, <2>1, <1>4 DEF AtLeast
  <2> QED BY <1>2, <1>7, <2>1, <2>2, <2>4 DEF Measures
<1>8. CASE s[i] \notin Controls
  <2>1. u.run = r + CharWidth /\ u.widest = w BY <1>6, <1>8, WidthStepIsState
  <2>2. CharWidth * (col + 1) = CharWidth * col + CharWidth BY CellSizes
  <2>3. CharWidth * col \in Int BY CellSizes
  <2>4. u.run = CharWidth * (col + 1) BY <1>3, <1>6, <2>1, <2>2
  <2>5. ASSUME NEW j \in Printed(s), j <= i PROVE EndOf(s, j) <= AtLeast(u.widest, u.run)
    <3>1. CASE j = i
      <4>1. EndOf(s, j) = u.run BY <1>1, <2>4, <3>1 DEF EndOf
      <4> QED BY <4>1, <2>1, <1>4, <1>6, CellSizes DEF AtLeast
    <3>2. CASE j # i
      <4>1. EndOf(s, j) <= AtLeast(w, r) BY <1>3, <1>5, <1>6, <2>5, <3>2
      <4> QED BY <4>1, <2>1, <1>4, <1>6, CellSizes DEF AtLeast
    <3> QED BY <3>1, <3>2
  <2> QED BY <1>2, <1>8, <2>4, <2>5 DEF Measures
<1> QED BY <1>7, <1>8

LEMMA WidthIsEnough ==
  ASSUME NEW s, s \in Seq(Chars(s)), NEW i \in Printed(s)
  PROVE  TextWidth(s) \in Int /\ EndOf(s, i) <= TextWidth(s)
<1> DEFINE L == Limit(s)
<1>0. /\ L \in Nat /\ Len(Bounded(s)) = L /\ \A j \in 1..L : Bounded(s)[j] = s[j]
      /\ i \in 1..L
  BY BoundedText
<1>1. PICK t : t = WidthLoop(Bounded(s)) OBVIOUS
<1>2. /\ t \in [0..L -> WidthState] /\ t[0] = [widest |-> 0, run |-> 0]
      /\ \A j \in 1..L : t[j] = WidthStep(t[j - 1], s[j])
  <2>1. PICK b \in Seq(Chars(s)) : b = Bounded(s) BY BoundedText
  <2>2. Len(b) = L /\ \A j \in 1..L : b[j] = s[j] BY <1>0, <2>1
  <2> HIDE DEF L
  <2>3. /\ t \in [0..Len(b) -> WidthState] /\ t[0] = [widest |-> 0, run |-> 0]
        /\ \A j \in 1..Len(b) : t[j] = WidthStep(t[j - 1], b[j])
    BY <1>1, <2>1, WidthLoopRuns
  <2> QED BY <2>2, <2>3
<1> DEFINE P == {j \in 0..L : Measures(t[j], s, j)}
<1>3. 0 \in P
  <2>1. 1 \in 1..L BY <1>0
  <2>2. ColumnOf(s, 1) = 0 BY <2>1, ColumnsAdvance
  <2>3. t[0].run = 0 /\ 0 + 1 = 1 /\ 0 \in 0..L BY <1>0, <1>2
  <2>4. CharWidth * 0 = 0 BY CellSizes
  <2>5. \A j \in Printed(s) : ~(j <= 0) BY BoundedText, <1>0
  <2>6. Measures(t[0], s, 0) BY <2>2, <2>3, <2>4, <2>5 DEF Measures
  <2> QED BY <2>3, <2>6
<1>4. ASSUME NEW j \in 1..L, j - 1 \in P PROVE j \in P
  <2>1. PICK u \in WidthState : u = t[j - 1]
    <3>1. j - 1 \in 0..L BY <1>0
    <3> QED BY <1>2, <3>1
  <2>2. Measures(u, s, j - 1) /\ t[j] = WidthStep(u, s[j]) BY <1>2, <1>4, <2>1
  <2>3. Measures(t[j], s, j) BY <2>2, WidthStepMeasures
  <2>4. j \in 0..L BY <1>0
  <2> QED BY <2>3, <2>4
<1>5. L \in P
  <2> HIDE DEF P, L
  <2>1. L \in Nat BY <1>0
  <2>2. 0..L \subseteq P BY <2>1, <1>3, <1>4, EveryRound
  <2> QED BY <2>1, <2>2
<1>6. PICK w \in Int, r \in Int : w = t[L].widest /\ r = t[L].run
  <2>1. L \in 0..L BY <1>0
  <2>2. t[L] \in WidthState BY <1>2, <2>1
  <2> QED BY <2>2 DEF WidthState
<1>7. TextWidth(s) = AtMost(MaxInt16, AtLeast(w, r)) BY <1>0, <1>1, <1>6 DEF TextWidth
<1>8. EndOf(s, i) <= AtLeast(w, r)
  <2>1. i <= L BY <1>0
  <2> QED BY <1>5, <1>6, <2>1 DEF Measures
<1>9. EndOf(s, i) <= MaxInt16 /\ EndOf(s, i) \in Int BY PlaceOfPrinted DEF EndOf
<1> QED BY <1>7, <1>8, <1>9, Int16Limits DEF AtMost, AtLeast

-----------------------------------------------------------------------------
\* A line in two calls

LEMMA OwnChars ==
  ASSUME NEW C, NEW b \in Seq(C)
  PROVE  b \in Seq(Chars(b))
<1>1. Len(b) \in Nat /\ DOMAIN b = 1..Len(b) OBVIOUS
<1>2. \A i \in 1..Len(b) : b[i] \in Chars(b) BY <1>1 DEF Chars
<1>3. b = [i \in 1..Len(b) |-> b[i]] OBVIOUS
<1> QED BY <1>1, <1>2, <1>3

\* Where the cell of character i is on one line.
LineCell(x, y, s, i) == CharPixels(x + CharWidth * (i - 1), y, s[i])

LEMMA OneLineLaysOut ==
  ASSUME NEW s, s \in Seq(Chars(s)), OneLine(s), NEW x \in Int, NEW y \in Int
  PROVE  /\ LaidOut(x, y, s) = UNION {LineCell(x, y, s, i) : i \in 1..Len(s)}
         /\ TextRun(x, y, s).x = Saturated(x + CharWidth * Len(s))
<1>1. /\ Len(s) \in Nat /\ Limit(s) = Len(s) /\ Len(s) <= MaxChars
      /\ \A i \in 1..Len(s) : s[i] \notin Controls
      /\ Printed(s) = {i \in 1..Len(s) : s[i] \notin Controls}
  BY BoundedText DEF OneLine, Controls
<1>2. Printed(s) = 1..Len(s) BY <1>1
<1>3. ASSUME NEW i \in 1..(Len(s) + 1) PROVE ColumnOf(s, i) = i - 1 /\ LineOf(s, i) = 0
  <2>1. i \in Int /\ 1 <= i /\ i <= Len(s) + 1 BY <1>1
  <2>2. \A j \in 1..(i - 1) : j \in 1..Len(s) BY <1>1, <2>1
  <2>3. Rewinds(s, i) = {} /\ Feeds(s, i) = {}
    BY <1>1, <2>2 DEF Rewinds, Feeds, Controls
  <2>4. {j \in Printed(s) : j < i /\ \A k \in Rewinds(s, i) : k < j} = 1..(i - 1)
    BY <1>1, <1>2, <2>1, <2>2, <2>3
  <2>5. Cardinality(1..(i - 1)) = i - 1 BY <2>1, FS_Interval
  <2>6. ColumnOf(s, i) = i - 1 BY <2>4, <2>5 DEF ColumnOf
  <2>7. LineOf(s, i) = 0 BY <2>3, FS_EmptySet DEF LineOf
  <2> QED BY <2>6, <2>7
<1>4. \A i \in 1..Len(s) :
        CharPixels(x + CharWidth * ColumnOf(s, i), y + CharHeight * LineOf(s, i), s[i])
          = LineCell(x, y, s, i)
  <2> TAKE i \in 1..Len(s)
  <2>1. i \in 1..(Len(s) + 1) BY <1>1
  <2>2. ColumnOf(s, i) = i - 1 /\ LineOf(s, i) = 0 BY <1>3, <2>1
  <2>3. y + CharHeight * 0 = y BY CellSizes
  <2> QED BY <2>2, <2>3 DEF LineCell
<1>5. LaidOut(x, y, s) =
        UNION {CharPixels(x + CharWidth * ColumnOf(s, i), y + CharHeight * LineOf(s, i), s[i]) :
                 i \in 1..Len(s)}
  BY <1>2 DEF LaidOut, LineOf
<1>6. LaidOut(x, y, s) = UNION {LineCell(x, y, s, i) : i \in 1..Len(s)} BY <1>4, <1>5
<1>7. CellX(x, s, Limit(s) + 1) = x + CharWidth * Len(s)
  <2>1. Len(s) + 1 \in 1..(Len(s) + 1) /\ Len(s) + 1 - 1 = Len(s) BY <1>1
  <2>2. ColumnOf(s, Len(s) + 1) = Len(s) BY <1>3, <2>1
  <2> QED BY <1>1, <2>2 DEF CellX
<1> QED BY <1>6, <1>7, RunIsLayout

\* A cell after a saturated cursor shows what it shows after the true one.
LEMMA SaturationIsOffDisplay ==
  ASSUME NEW x \in Int, NEW y \in Int, NEW c, NEW j \in Nat, j < MaxChars
  PROVE  CharPixels(Saturated(x) + CharWidth * j, y, c) = CharPixels(x + CharWidth * j, y, c)
<1>1. PICK d \in Nat : d = CharWidth * j BY CellSizes, Product
<1>2. d + CharWidth <= MaxInt16
  <2>1. PICK m \in Nat : m = MaxChars /\ j + 1 <= m BY CellSizes
  <2>2. CharWidth * (m - (j + 1)) \in Nat BY <2>1, CellSizes, Product
  <2>3. CharWidth * (m - (j + 1)) = m * CharWidth - d - CharWidth BY <1>1, <2>1, CellSizes
  <2>4. m * CharWidth <= MaxInt16 /\ m * CharWidth \in Int BY <2>1, CellSizes
  <2> QED BY <2>2, <2>3, <2>4, CellSizes, Int16Limits
<1>3. CASE x > MaxInt16
  <2>1. Saturated(x) = MaxInt16 BY <1>3, Int16Limits DEF Saturated, AtLeast, AtMost
  <2>2. MaxInt16 + d >= Width /\ x + d >= Width BY <1>3, Int16Limits, Dimensions
  <2>3. MaxInt16 + d \in Int /\ x + d \in Int BY Int16Limits
  <2> QED BY <1>1, <2>1, <2>2, <2>3, CellOffDisplay
<1>4. CASE x < -(MaxInt16 + 1)
  <2>1. PICK low \in Int : low = -(MaxInt16 + 1) BY Int16Limits
  <2>2. Saturated(x) = low BY <1>4, <2>1, Int16Limits DEF Saturated, AtLeast, AtMost
  <2>3. low + d + CharWidth <= 0 /\ x + d + CharWidth <= 0
    BY <1>2, <1>4, <2>1, CellSizes, Int16Limits
  <2>4. low + d \in Int /\ x + d \in Int OBVIOUS
  <2> QED BY <1>1, <2>2, <2>3, <2>4, CellOffDisplay
<1>5. CASE ~(x > MaxInt16) /\ ~(x < -(MaxInt16 + 1))
  <2>1. Saturated(x) = x BY <1>5, Int16Limits DEF Saturated, AtLeast, AtMost
  <2> QED BY <2>1
<1> QED BY <1>3, <1>4, <1>5

LEMMA TwoCallsAreOne ==
  ASSUME NEW s, s \in Seq(Chars(s)), OneLine(s), NEW x \in Int, NEW y \in Int,
         NEW k \in 0..Len(s)
  PROVE  LaidOut(x, y, s) = InTwoCalls(x, y, s, k)
<1>1. PICK n \in Nat : n = Len(s) /\ n <= MaxChars /\ k \in 0..n
  BY DEF OneLine
<1>2. \A i \in 1..n : s[i] \in Chars(s) /\ s[i] \notin {"\n", "\r"} BY <1>1 DEF OneLine
<1>3. PICK first : first = SubSeq(s, 1, k) OBVIOUS
<1>4. /\ first \in Seq(Chars(s)) /\ Len(first) = k /\ \A i \in 1..k : first[i] = s[i]
  <2>1. \A i \in 1..k : s[i] \in Chars(s) BY <1>1, <1>2
  <2>2. /\ first \in Seq(Chars(s)) /\ Len(first) = IF 1 <= k THEN k - 1 + 1 ELSE 0
        /\ \A i \in 1..(k - 1 + 1) : first[i] = s[1 + i - 1]
    BY <1>1, <1>3, <2>1, SubSeqProperties
  <2>3. \A i \in 1..k : i \in 1..(k - 1 + 1) /\ 1 + i - 1 = i BY <1>1
  <2>4. Len(first) = k BY <1>1, <2>2
  <2> QED BY <2>2, <2>3, <2>4
<1>5. PICK second : second = SubSeq(s, k + 1, n) OBVIOUS
<1>6. /\ second \in Seq(Chars(s)) /\ Len(second) = n - k
      /\ \A i \in 1..(n - k) : second[i] = s[k + i]
  <2>1. \A i \in (k + 1)..n : s[i] \in Chars(s) BY <1>1, <1>2
  <2>2. /\ second \in Seq(Chars(s))
        /\ Len(second) = IF k + 1 <= n THEN n - (k + 1) + 1 ELSE 0
        /\ \A i \in 1..(n - (k + 1) + 1) : second[i] = s[k + 1 + i - 1]
    BY <1>1, <1>5, <2>1, SubSeqProperties
  <2>3. \A i \in 1..(n - k) : i \in 1..(n - (k + 1) + 1) /\ k + 1 + i - 1 = k + i BY <1>1
  <2>4. Len(second) = n - k BY <1>1, <2>2
  <2> QED BY <2>2, <2>3, <2>4
<1>7. OneLine(first) /\ first \in Seq(Chars(first))
  BY <1>1, <1>2, <1>4, CellSizes, OwnChars DEF OneLine
<1>8. OneLine(second) /\ second \in Seq(Chars(second))
  <2>1. \A i \in 1..(n - k) : k + i \in 1..n BY <1>1
  <2> QED BY <1>1, <1>2, <1>6, <2>1, CellSizes, OwnChars DEF OneLine
<1>9. PICK u : u = Saturated(x + CharWidth * k) OBVIOUS
<1>10. u \in Int /\ x + CharWidth * k \in Int
  <2>1. k \in Int BY <1>1
  <2> QED BY <1>9, <2>1, CellSizes, Int16Limits DEF Saturated, AtLeast, AtMost
<1>11. /\ LaidOut(x, y, first) = UNION {LineCell(x, y, first, i) : i \in 1..k}
       /\ TextRun(x, y, first).x = u
  BY <1>4, <1>7, <1>9, OneLineLaysOut
<1>12. LaidOut(u, y, second) = UNION {LineCell(u, y, second, i) : i \in 1..(n - k)}
  BY <1>6, <1>8, <1>10, OneLineLaysOut
<1>13. LaidOut(x, y, s) = UNION {LineCell(x, y, s, i) : i \in 1..n}
  BY <1>1, OneLineLaysOut
<1>14. \A i \in 1..k : LineCell(x, y, first, i) = LineCell(x, y, s, i)
  BY <1>4 DEF LineCell
<1>15. \A i \in 1..(n - k) : LineCell(u, y, second, i) = LineCell(x, y, s, k + i)
  <2> TAKE i \in 1..(n - k)
  <2>1. i \in Nat /\ i >= 1 /\ k \in Nat /\ i - 1 \in Nat /\ i - 1 < MaxChars
    BY <1>1, CellSizes
  <2>2. PICK z \in Int : z = x + CharWidth * k BY <1>10
  <2>3. CharPixels(u + CharWidth * (i - 1), y, s[k + i])
          = CharPixels(z + CharWidth * (i - 1), y, s[k + i])
    BY <1>9, <2>1, <2>2, SaturationIsOffDisplay
  <2>4. z + CharWidth * (i - 1) = x + CharWidth * (k + i - 1)
    <3>1. CharWidth * (k + i - 1) = CharWidth * k + CharWidth * (i - 1) BY <2>1, CellSizes
    <3>2. CharWidth * k \in Int /\ CharWidth * (i - 1) \in Int BY <2>1, CellSizes
    <3> QED BY <2>2, <3>1, <3>2
  <2> QED BY <1>6, <2>3, <2>4 DEF LineCell
<1>16. \A i : i \in 1..n <=> i \in 1..k \/ \E j \in 1..(n - k) : i = k + j
  <2>1. ASSUME NEW i \in 1..n, i \notin 1..k PROVE \E j \in 1..(n - k) : i = k + j
    <3>1. i - k \in 1..(n - k) /\ i = k + (i - k) BY <1>1, <2>1
    <3> QED BY <3>1
  <2> QED BY <1>1, <2>1
<1>17. InTwoCalls(x, y, s, k) = LaidOut(x, y, first) \cup LaidOut(u, y, second)
  BY <1>1, <1>3, <1>5, <1>11 DEF InTwoCalls
<1>18. ASSUME NEW p
       PROVE  p \in LaidOut(x, y, s) <=> p \in LaidOut(x, y, first) \cup LaidOut(u, y, second)
  <2>1. p \in LaidOut(x, y, s) <=> \E i \in 1..n : p \in LineCell(x, y, s, i) BY <1>13
  <2>2. p \in LaidOut(x, y, first) <=> \E i \in 1..k : p \in LineCell(x, y, s, i)
    BY <1>11, <1>14
  <2>3. p \in LaidOut(u, y, second) <=> \E i \in 1..(n - k) : p \in LineCell(x, y, s, k + i)
    BY <1>12, <1>15
  <2> QED BY <2>1, <2>2, <2>3, <1>16
<1> QED BY <1>17, <1>18

-----------------------------------------------------------------------------
\* Lines: the raster loop

LineState == [x : Int, y : Int, err : Int]

\* A round of the raster loop goes from integers to integers.
LEMMA LineStepIsState ==
  ASSUME NEW p \in Int \X Int, NEW q \in Int \X Int, NEW t \in LineState
  PROVE  LineStep(p, q, t) \in LineState
<1>1. p[1] \in Int /\ p[2] \in Int /\ q[1] \in Int /\ q[2] \in Int OBVIOUS
<1>2. Abs(q[1] - p[1]) \in Int /\ Abs(q[2] - p[2]) \in Int BY <1>1 DEF Abs
<1>3. t.x \in Int /\ t.y \in Int /\ t.err \in Int BY DEF LineState
<1>4. PICK dx \in Int, dy \in Int : dx = Abs(q[1] - p[1]) /\ dy = Abs(q[2] - p[2]) BY <1>2
<1>5. CASE <<t.x, t.y>> = q BY <1>5 DEF LineStep
<1>6. CASE <<t.x, t.y>> # q
  <2>1. LineStep(p, q, t) =
          [x |-> IF 2 * t.err > -dy THEN t.x + (IF p[1] < q[1] THEN 1 ELSE -1) ELSE t.x,
           y |-> IF 2 * t.err < dx THEN t.y + (IF p[2] < q[2] THEN 1 ELSE -1) ELSE t.y,
           err |-> t.err - (IF 2 * t.err > -dy THEN dy ELSE 0)
                     + (IF 2 * t.err < dx THEN dx ELSE 0)]
    BY <1>4, <1>6 DEF LineStep
  <2> QED BY <1>3, <1>4, <2>1 DEF LineState
<1> QED BY <1>5, <1>6

LineRun(t, p, q, dx, dy) ==
  /\ t \in [0..(dx + dy) -> LineState]
  /\ t[0] = [x |-> p[1], y |-> p[2], err |-> dx - dy]
  /\ \A i \in 1..(dx + dy) : t[i] = LineStep(p, q, t[i - 1])

\* The loop does what its recursive definition says.
LEMMA LineLoopRuns ==
  ASSUME NEW p \in Int \X Int, NEW q \in Int \X Int, NEW t, t = LineLoop(p, q),
         NEW dx \in Nat, NEW dy \in Nat, dx = Abs(q[1] - p[1]), dy = Abs(q[2] - p[2])
  PROVE  LineRun(t, p, q, dx, dy)
<1> DEFINE n == dx + dy
           first == [x |-> p[1], y |-> p[2], err |-> dx - dy]
           next == [z \in LineState \X (1..n) |-> LineStep(p, q, z[1])]
           Rule(f) == f = [i \in 0..n |-> IF i = 0 THEN first ELSE LineStep(p, q, f[i - 1])]
<1>1. first \in LineState BY DEF LineState
<1>2. next \in [LineState \X (1..n) -> LineState]
  <2>1. \A s \in LineState : LineStep(p, q, s) \in LineState BY LineStepIsState
  <2> QED BY <2>1
<1>3. PICK run \in [0..n -> LineState] : Runs(run, n, first, next)
  <2>1. n \in Nat OBVIOUS
  <2> HIDE DEF first, next, n
  <2> QED BY <1>1, <1>2, <2>1, LoopRuns
<1>4. n \in Nat OBVIOUS
<1>5. t = CHOOSE f : Rule(f) BY DEF LineLoop
<1> HIDE DEF n
<1>6. Rule(run)
  <2>1. \A i \in 1..n : next[<<run[i - 1], i>>] = LineStep(p, q, run[i - 1])
    <3> TAKE i \in 1..n
    <3>1. i - 1 \in 0..n BY <1>4
    <3>2. <<run[i - 1], i>> \in LineState \X (1..n) BY <3>1
    <3> QED BY <3>2
  <2> HIDE DEF first, next
  <2>2. \A i \in 0..n : i = 0 \/ i \in 1..n BY <1>4
  <2> QED BY <1>3, <2>1, <2>2 DEF Runs
<1>7. Rule(t) BY <1>5, <1>6
<1> HIDE DEF first
<1>8. \A i \in 1..n : t[i] = LineStep(p, q, t[i - 1])
  <2> TAKE i \in 1..n
  <2>1. i \in 0..n /\ i # 0 BY <1>4
  <2> QED BY <1>7, <2>1
<1>9. t[0] = first BY <1>4, <1>7
<1>10. \A i \in 0..n : t[i] \in LineState
  <2> DEFINE P == {i \in 0..n : t[i] \in LineState}
  <2>1. 0 \in P BY <1>1, <1>4, <1>9
  <2>2. ASSUME NEW i \in 1..n, i - 1 \in P PROVE i \in P
    <3>1. PICK s \in LineState : s = t[i - 1] BY <2>2
    <3>2. LineStep(p, q, s) \in LineState BY LineStepIsState
    <3>3. t[i] \in LineState BY <1>8, <3>1, <3>2
    <3>4. i \in 0..n BY <1>4
    <3> QED BY <3>3, <3>4
  <2>3. 0..n \subseteq P
    <3> HIDE DEF P
    <3> QED BY <1>4, <2>1, <2>2, EveryRound
  <2> QED BY <2>3
<1>11. t = [i \in 0..n |-> t[i]] BY <1>7
<1> QED BY <1>8, <1>9, <1>10, <1>11 DEF first, n, LineRun

\* Twice the lag along the minor direction, times m, i steps along the major direction m
\* and j along the minor direction n.
Lag(m, n, i, j) == 2 * (m * j - n * i)

\* The raster is at most half a pixel behind and less than half a pixel ahead.
Balanced(m, n, i, j) ==
  m >= n => Lag(m, n, i, j) >= -m /\ (m > 0 => Lag(m, n, i, j) < m)

\* At the end of the major direction the minor one is at its end, and a minor step that
\* keeps the balance is not beyond it.
LEMMA MajorEnds ==
  ASSUME NEW m \in Nat, m > 0, NEW n \in Nat, NEW j \in Int, NEW i \in 0..m
  PROVE  /\ i = m /\ Lag(m, n, i, j) >= -m => j >= n
         /\ Lag(m, n, i, j) < m => j <= n
<1>1. ASSUME Lag(m, n, m, j) >= -m, j <= n - 1 PROVE FALSE
  <2>1. m * j <= m * (n - 1) BY <1>1
  <2>2. m * (n - 1) = n * m - m OBVIOUS
  <2>3. m * j \in Int /\ n * m \in Int OBVIOUS
  <2> QED BY <1>1, <2>1, <2>2, <2>3 DEF Lag
<1>2. ASSUME Lag(m, n, i, j) < m, j >= n + 1 PROVE FALSE
  <2>1. m * j >= m * (n + 1) BY <1>2
  <2>2. m * (n + 1) = n * m + m OBVIOUS
  <2>3. n * i <= n * m OBVIOUS
  <2>4. m * j \in Int /\ n * m \in Int /\ n * i \in Int OBVIOUS
  <2> QED BY <1>2, <2>1, <2>2, <2>3, <2>4 DEF Lag
<1> QED BY <1>1, <1>2

\* A round moves on in the major direction, and in the minor one when that keeps the
\* balance.
LEMMA MajorStep ==
  ASSUME NEW m \in Nat, NEW n \in 0..m, NEW i \in 0..m, NEW j \in 0..n, ~(i = m /\ j = n),
         Balanced(m, n, i, j), Balanced(n, m, j, i),
         NEW e \in Int, e = (j + 1) * m - (i + 1) * n
  PROVE  /\ 2 * e > -n /\ i + 1 <= m
         /\ 2 * e < m => /\ j + 1 <= n
                         /\ Balanced(m, n, i + 1, j + 1) /\ Balanced(n, m, j + 1, i + 1)
                         /\ e - n + m = (j + 2) * m - (i + 2) * n
         /\ ~(2 * e < m) => /\ Balanced(m, n, i + 1, j) /\ Balanced(n, m, j, i + 1)
                            /\ e - n = (j + 1) * m - (i + 2) * n
<1>1. m > 0 OBVIOUS
<1>2. PICK d \in Int : d = m * j - n * i OBVIOUS
<1>3. e = d + m - n BY <1>2
<1>4. Lag(m, n, i, j) = 2 * d /\ Lag(n, m, j, i) = -(2 * d) BY <1>2 DEF Lag
<1>5. 2 * d >= -m /\ 2 * d < m BY <1>1, <1>4 DEF Balanced
<1>6. m = n => 2 * d > -m BY <1>1, <1>4 DEF Balanced
<1>7. 2 * e > -n BY <1>1, <1>3, <1>5, <1>6
<1>8. i + 1 <= m
  <2>1. j \in Int /\ n \in Nat /\ Lag(m, n, i, j) >= -m BY <1>4, <1>5
  <2>2. i = m => j >= n BY <1>1, <2>1, MajorEnds
  <2>3. i # m BY <2>2
  <2> QED BY <2>3
<1>9. /\ Lag(m, n, i + 1, j + 1) = 2 * d + 2 * m - 2 * n
      /\ Lag(n, m, j + 1, i + 1) = 2 * n - 2 * m - 2 * d
      /\ Lag(m, n, i + 1, j) = 2 * d - 2 * n
      /\ Lag(n, m, j, i + 1) = 2 * n - 2 * d
  BY <1>2 DEF Lag
<1>10. ASSUME 2 * e < m
       PROVE  /\ j + 1 <= n
              /\ Balanced(m, n, i + 1, j + 1) /\ Balanced(n, m, j + 1, i + 1)
              /\ e - n + m = (j + 2) * m - (i + 2) * n
  <2>1. Lag(m, n, i + 1, j + 1) < m BY <1>3, <1>9, <1>10
  <2>2. j + 1 <= n
    <3>1. j + 1 \in Int /\ n \in Nat /\ i + 1 \in 0..m BY <1>8
    <3> QED BY <1>1, <2>1, <3>1, MajorEnds
  <2>3. Balanced(m, n, i + 1, j + 1) BY <1>5, <1>9, <2>1 DEF Balanced
  <2>4. Balanced(n, m, j + 1, i + 1) BY <1>5, <1>6, <1>9 DEF Balanced
  <2>5. (j + 2) * m - (i + 2) * n = ((j + 1) * m - (i + 1) * n) + m - n OBVIOUS
  <2> QED BY <2>2, <2>3, <2>4, <2>5
<1>11. ASSUME ~(2 * e < m)
       PROVE  /\ Balanced(m, n, i + 1, j) /\ Balanced(n, m, j, i + 1)
              /\ e - n = (j + 1) * m - (i + 2) * n
  <2>1. Balanced(m, n, i + 1, j) BY <1>3, <1>5, <1>9, <1>11 DEF Balanced
  <2>2. m # n BY <1>3, <1>5, <1>11
  <2>3. Balanced(n, m, j, i + 1) BY <2>2 DEF Balanced
  <2>4. (j + 1) * m - (i + 2) * n = ((j + 1) * m - (i + 1) * n) - n OBVIOUS
  <2> QED BY <2>1, <2>3, <2>4
<1> QED BY <1>7, <1>8, <1>10, <1>11

\* The coordinate i steps from u towards v.
Steps(u, v, i) == IF u < v THEN u + i ELSE u - i

\* The loop is i columns and j rows from p.
OnRaster(p, q, dx, dy, t, i, j) ==
  /\ i \in 0..dx /\ j \in 0..dy
  /\ t = [x |-> Steps(p[1], q[1], i), y |-> Steps(p[2], q[2], j),
          err |-> (j + 1) * dx - (i + 1) * dy]
  /\ Balanced(dx, dy, i, j) /\ Balanced(dy, dx, j, i)

\* A round moves on in one or both directions and stays on the raster.
LEMMA RasterStep ==
  ASSUME NEW p \in Int \X Int, NEW q \in Int \X Int, NEW t \in LineState,
         NEW dx \in Nat, NEW dy \in Nat, dx = Abs(q[1] - p[1]), dy = Abs(q[2] - p[2]),
         NEW i \in 0..dx, NEW j \in 0..dy, OnRaster(p, q, dx, dy, t, i, j),
         ~(i = dx /\ j = dy)
  PROVE  \E i2 \in {i, i + 1}, j2 \in {j, j + 1} :
           i2 + j2 > i + j /\ OnRaster(p, q, dx, dy, LineStep(p, q, t), i2, j2)
<1>1. PICK px \in Int, py \in Int, qx \in Int, qy \in Int :
        p[1] = px /\ p[2] = py /\ q = <<qx, qy>> /\ q[1] = qx /\ q[2] = qy
  OBVIOUS
<1>2. PICK e \in Int : e = (j + 1) * dx - (i + 1) * dy OBVIOUS
<1>3. t = [x |-> Steps(px, qx, i), y |-> Steps(py, qy, j), err |-> e]
  BY <1>1, <1>2 DEF OnRaster
<1>4. <<t.x, t.y>> # q
  <2>1. i # dx => Steps(px, qx, i) # qx BY <1>1 DEF Steps, Abs
  <2>2. j # dy => Steps(py, qy, j) # qy BY <1>1 DEF Steps, Abs
  <2> QED BY <1>1, <1>3, <2>1, <2>2
<1>5. /\ Steps(px, qx, i + 1) = Steps(px, qx, i) + (IF px < qx THEN 1 ELSE -1)
      /\ Steps(py, qy, j + 1) = Steps(py, qy, j) + (IF py < qy THEN 1 ELSE -1)
  BY <1>1 DEF Steps
<1>6. PICK e2 \in Int : e2 = e - (IF 2 * e > -dy THEN dy ELSE 0) + (IF 2 * e < dx THEN dx ELSE 0)
  OBVIOUS
<1>7. LineStep(p, q, t) =
        [x |-> IF 2 * e > -dy THEN Steps(px, qx, i + 1) ELSE Steps(px, qx, i),
         y |-> IF 2 * e < dx THEN Steps(py, qy, j + 1) ELSE Steps(py, qy, j), err |-> e2]
  <2>1. t.err = e /\ t.x = Steps(px, qx, i) /\ t.y = Steps(py, qy, j) BY <1>3
  <2>2. LineStep(p, q, t) =
          [x |-> IF 2 * t.err > -dy THEN t.x + (IF px < qx THEN 1 ELSE -1) ELSE t.x,
           y |-> IF 2 * t.err < dx THEN t.y + (IF py < qy THEN 1 ELSE -1) ELSE t.y,
           err |-> t.err - (IF 2 * t.err > -dy THEN dy ELSE 0)
                     + (IF 2 * t.err < dx THEN dx ELSE 0)]
    BY <1>1, <1>4 DEF LineStep
  <2> QED BY <1>5, <1>6, <2>1, <2>2
<1>8. Balanced(dx, dy, i, j) /\ Balanced(dy, dx, j, i) BY DEF OnRaster
<1> DEFINE Moved(i2, j2) == /\ i2 \in 0..dx /\ j2 \in 0..dy
                            /\ LineStep(p, q, t) = [x |-> Steps(px, qx, i2),
                                                    y |-> Steps(py, qy, j2), err |-> e2]
                            /\ e2 = (j2 + 1) * dx - (i2 + 1) * dy
                            /\ Balanced(dx, dy, i2, j2) /\ Balanced(dy, dx, j2, i2)
<1>9. \A i2, j2 : Moved(i2, j2) => OnRaster(p, q, dx, dy, LineStep(p, q, t), i2, j2)
  BY <1>1 DEF OnRaster
<1>10. CASE dx >= dy
  <2>1. dy \in 0..dx BY <1>10
  <2>2. /\ 2 * e > -dy /\ i + 1 <= dx
        /\ 2 * e < dx => /\ j + 1 <= dy
                         /\ Balanced(dx, dy, i + 1, j + 1) /\ Balanced(dy, dx, j + 1, i + 1)
                         /\ e - dy + dx = (j + 2) * dx - (i + 2) * dy
        /\ ~(2 * e < dx) => /\ Balanced(dx, dy, i + 1, j) /\ Balanced(dy, dx, j, i + 1)
                            /\ e - dy = (j + 1) * dx - (i + 2) * dy
    <3>1. /\ dx \in Nat /\ dy \in 0..dx /\ i \in 0..dx /\ j \in 0..dy /\ ~(i = dx /\ j = dy)
          /\ e \in Int /\ e = (j + 1) * dx - (i + 1) * dy
      BY <1>2, <2>1
    <3> QED BY ONLY <1>8, <3>1, MajorStep
  <2>3. CASE 2 * e < dx
    <3>1. e2 = e - dy + dx BY <1>6, <2>2, <2>3
    <3>2. i + 1 + 1 = i + 2 /\ j + 1 + 1 = j + 2 /\ i + 1 \in 0..dx /\ j + 1 \in 0..dy
      BY <2>2, <2>3
    <3>3. Moved(i + 1, j + 1) BY <1>7, <2>2, <2>3, <3>1, <3>2
    <3> HIDE DEF Moved
    <3> QED BY <1>9, <3>3
  <2>4. CASE ~(2 * e < dx)
    <3>1. e2 = e - dy BY <1>6, <2>2, <2>4
    <3>2. i + 1 + 1 = i + 2 /\ i + 1 \in 0..dx BY <2>2
    <3>3. Moved(i + 1, j) BY <1>7, <2>2, <2>4, <3>1, <3>2
    <3> HIDE DEF Moved
    <3> QED BY <1>9, <3>3
  <2> QED BY <2>3, <2>4
<1>11. CASE dy > dx
  <2>1. PICK f \in Int : f = -e OBVIOUS
  <2>2. f = (i + 1) * dy - (j + 1) * dx BY <1>2, <2>1
  <2>3. dx \in 0..dy /\ ~(j = dy /\ i = dx) BY <1>11
  <2>4. /\ 2 * f > -dx /\ j + 1 <= dy
        /\ 2 * f < dy => /\ i + 1 <= dx
                         /\ Balanced(dy, dx, j + 1, i + 1) /\ Balanced(dx, dy, i + 1, j + 1)
                         /\ f - dx + dy = (i + 2) * dy - (j + 2) * dx
        /\ ~(2 * f < dy) => /\ Balanced(dy, dx, j + 1, i) /\ Balanced(dx, dy, i, j + 1)
                            /\ f - dx = (i + 1) * dy - (j + 2) * dx
    <3>1. /\ dy \in Nat /\ dx \in 0..dy /\ j \in 0..dy /\ i \in 0..dx /\ ~(j = dy /\ i = dx)
          /\ f \in Int /\ f = (i + 1) * dy - (j + 1) * dx
      BY <2>2, <2>3
    <3> QED BY ONLY <1>8, <3>1, MajorStep
  <2>5. /\ 2 * e < dx
        /\ 2 * f < dy <=> 2 * e > -dy
    BY <2>1, <2>4
  <2>6. CASE 2 * f < dy
    <3>1. e2 = -(f - dx + dy) BY <1>6, <2>1, <2>5, <2>6
    <3>2. i + 1 + 1 = i + 2 /\ j + 1 + 1 = j + 2 /\ i + 1 \in 0..dx /\ j + 1 \in 0..dy
      BY <2>4, <2>6
    <3>3. e2 = (j + 2) * dx - (i + 2) * dy BY <2>4, <2>6, <3>1
    <3>4. Moved(i + 1, j + 1) BY <1>7, <2>4, <2>5, <2>6, <3>2, <3>3
    <3> HIDE DEF Moved
    <3> QED BY <1>9, <3>4
  <2>7. CASE ~(2 * f < dy)
    <3>1. e2 = -(f - dx) BY <1>6, <2>1, <2>5, <2>7
    <3>2. j + 1 + 1 = j + 2 /\ j + 1 \in 0..dy BY <2>4
    <3>3. e2 = (j + 2) * dx - (i + 1) * dy BY <2>4, <2>7, <3>1
    <3>4. Moved(i, j + 1) BY <1>7, <2>4, <2>5, <2>7, <3>2, <3>3
    <3> HIDE DEF Moved
    <3> QED BY <1>9, <3>4
  <2> QED BY <2>6, <2>7
<1> QED BY <1>10, <1>11

\* The pixels that are i columns and j rows from p.
RasterAt(p, q, dx, dy, At) ==
  /\ dx = Abs(q[1] - p[1]) /\ dy = Abs(q[2] - p[2])
  /\ At = [z \in (0..dx) \X (0..dy) |-> <<Steps(p[1], q[1], z[1]), Steps(p[2], q[2], z[2])>>]

PassesOver(p, q, dx, dy, At) ==
  /\ \A s \in Bresenham(p, q) : \E i \in 0..dx, j \in 0..dy :
       s = At[<<i, j>>] /\ Balanced(dx, dy, i, j) /\ Balanced(dy, dx, j, i)
  /\ \A i \in 0..dx : \E j \in 0..dy : At[<<i, j>>] \in Bresenham(p, q)
  /\ \A j \in 0..dy : \E i \in 0..dx : At[<<i, j>>] \in Bresenham(p, q)

\* The loop reaches q within its rounds, over every column and row on the way, and is
\* balanced in each round.
LEMMA RasterReachesEnd ==
  ASSUME NEW p \in Int \X Int, NEW q \in Int \X Int, NEW dx \in Nat, NEW dy \in Nat, NEW At,
         RasterAt(p, q, dx, dy, At)
  PROVE  PassesOver(p, q, dx, dy, At) /\ q \in Bresenham(p, q)
<1> SUFFICES
      ASSUME dx = Abs(q[1] - p[1]), dy = Abs(q[2] - p[2]),
             At = [z \in (0..dx) \X (0..dy) |-> <<Steps(p[1], q[1], z[1]), Steps(p[2], q[2], z[2])>>]
      PROVE  /\ \A s \in Bresenham(p, q) : \E i \in 0..dx, j \in 0..dy :
                  s = At[<<i, j>>] /\ Balanced(dx, dy, i, j) /\ Balanced(dy, dx, j, i)
             /\ \A i \in 0..dx : \E j \in 0..dy : At[<<i, j>>] \in Bresenham(p, q)
             /\ \A j \in 0..dy : \E i \in 0..dx : At[<<i, j>>] \in Bresenham(p, q)
             /\ q \in Bresenham(p, q)
  BY DEF RasterAt, PassesOver
<1>1. PICK n \in Nat : n = dx + dy OBVIOUS
<1>2. PICK t : t = LineLoop(p, q) OBVIOUS
<1>3. /\ t \in [0..n -> LineState] /\ t[0] = [x |-> p[1], y |-> p[2], err |-> dx - dy]
      /\ \A k \in 1..n : t[k] = LineStep(p, q, t[k - 1])
  <2>1. LineRun(t, p, q, dx, dy) BY <1>2, LineLoopRuns
  <2> QED BY <1>1, <2>1 DEF LineRun
<1>4. Bresenham(p, q) = {<<t[k].x, t[k].y>> : k \in 0..n}
  <2>1. DOMAIN t = 0..n BY <1>3
  <2> QED BY <1>2, <2>1 DEF Bresenham
<1>5. Steps(p[1], q[1], dx) = q[1] /\ Steps(p[2], q[2], dy) = q[2] /\ q = <<q[1], q[2]>>
  <2>1. PICK px \in Int, py \in Int, qx \in Int, qy \in Int :
          p[1] = px /\ p[2] = py /\ q[1] = qx /\ q[2] = qy
    OBVIOUS
  <2>2. dx = Abs(qx - px) /\ dy = Abs(qy - py) BY <2>1
  <2>3. \A x, y \in Int : Steps(x, y, Abs(y - x)) = y BY DEF Steps, Abs
  <2>4. Steps(px, qx, dx) = qx /\ Steps(py, qy, dy) = qy BY <2>2, <2>3
  <2> QED BY <2>1, <2>4
<1> DEFINE Is(k, i, j) == OnRaster(p, q, dx, dy, t[k], i, j)
<1>6. ASSUME NEW k \in 0..n, NEW i \in 0..dx, NEW j \in 0..dy, Is(k, i, j)
      PROVE  At[<<i, j>>] = <<t[k].x, t[k].y>> /\ At[<<i, j>>] \in Bresenham(p, q)
  <2>1. <<i, j>> \in (0..dx) \X (0..dy) /\ <<i, j>>[1] = i /\ <<i, j>>[2] = j OBVIOUS
  <2>2. At[<<i, j>>] = <<Steps(p[1], q[1], i), Steps(p[2], q[2], j)>> BY <2>1
  <2>3. t[k].x = Steps(p[1], q[1], i) /\ t[k].y = Steps(p[2], q[2], j) BY <1>6 DEF OnRaster
  <2> QED BY <1>4, <2>2, <2>3
<1> DEFINE Passed(i, j) == /\ \A c \in 0..i : \E k \in 0..n : \E r \in 0..dy : Is(k, c, r)
                         /\ \A r \in 0..j : \E k \in 0..n : \E c \in 0..dx : Is(k, c, r)
           P == {k \in 0..n : \E i \in 0..dx, j \in 0..dy :
                    Is(k, i, j) /\ Passed(i, j) /\ (i + j >= k \/ (i = dx /\ j = dy))}
<1>7. 0 \in P
  <2>1. 0 \in 0..n BY <1>1
  <2>2. Steps(p[1], q[1], 0) = p[1] /\ Steps(p[2], q[2], 0) = p[2] BY DEF Steps
  <2>3. Balanced(dx, dy, 0, 0) /\ Balanced(dy, dx, 0, 0) BY DEF Balanced, Lag
  <2>4. (0 + 1) * dx - (0 + 1) * dy = dx - dy OBVIOUS
  <2>5. 0 \in 0..dx /\ 0 \in 0..dy OBVIOUS
  <2>6. Is(0, 0, 0) BY <1>3, <2>2, <2>3, <2>4, <2>5 DEF OnRaster
  <2> HIDE DEF Is
  <2>7. \A c \in 0..0 : c = 0 OBVIOUS
  <2>8. Passed(0, 0) BY <2>1, <2>5, <2>6, <2>7
  <2> HIDE DEF Passed
  <2>9. 0 + 0 >= 0 OBVIOUS
  <2> QED BY <2>1, <2>5, <2>6, <2>8, <2>9
<1>8. ASSUME NEW k \in 1..n, k - 1 \in P PROVE k \in P
  <2>1. PICK i \in 0..dx, j \in 0..dy :
          Is(k - 1, i, j) /\ Passed(i, j) /\ (i + j >= k - 1 \/ (i = dx /\ j = dy))
    BY <1>8
  <2>2. k \in 0..n /\ k - 1 \in 0..n BY <1>1
  <2>3. t[k] = LineStep(p, q, t[k - 1]) BY <1>3
  <2>4. CASE i = dx /\ j = dy
    <3>1. <<t[k - 1].x, t[k - 1].y>> = q BY <1>5, <2>1, <2>4 DEF OnRaster
    <3>2. t[k] = t[k - 1] BY <2>3, <3>1 DEF LineStep
    <3>3. Is(k, i, j) BY <2>1, <3>2
    <3> HIDE DEF Is, Passed
    <3> QED BY <2>1, <2>2, <2>4, <3>3
  <2>5. CASE ~(i = dx /\ j = dy)
    <3>1. t[k - 1] \in LineState BY <1>3, <2>2
    <3>2. PICK i2 \in {i, i + 1}, j2 \in {j, j + 1} : i2 + j2 > i + j /\ Is(k, i2, j2)
      <4>1. PICK e, f : e \in LineState /\ e = t[k - 1] /\ f = t[k] /\ f = LineStep(p, q, e)
        BY <2>3, <3>1
      <4>2. /\ p \in Int \X Int /\ q \in Int \X Int /\ e \in LineState
            /\ dx \in Nat /\ dy \in Nat /\ dx = Abs(q[1] - p[1]) /\ dy = Abs(q[2] - p[2])
            /\ i \in 0..dx /\ j \in 0..dy /\ OnRaster(p, q, dx, dy, e, i, j)
            /\ ~(i = dx /\ j = dy)
        BY <2>1, <2>5, <4>1
      <4>3. \E i2 \in {i, i + 1}, j2 \in {j, j + 1} :
              i2 + j2 > i + j /\ OnRaster(p, q, dx, dy, LineStep(p, q, e), i2, j2)
        BY ONLY <4>2, RasterStep
      <4> QED BY <4>1, <4>3
    <3>3. i2 \in 0..dx /\ j2 \in 0..dy BY <3>2 DEF OnRaster
    <3> HIDE DEF Is
    <3>4. \A c \in 0..i2 : c \in 0..i \/ c = i2 BY <3>2
    <3>5. \A r \in 0..j2 : r \in 0..j \/ r = j2 BY <3>2
    <3>6. Passed(i2, j2) BY <2>1, <2>2, <3>2, <3>3, <3>4, <3>5
    <3> HIDE DEF Passed
    <3>7. i2 + j2 >= k BY <2>1, <2>5, <3>2, <3>3
    <3> QED BY <2>2, <3>2, <3>3, <3>6, <3>7
  <2> QED BY <2>4, <2>5
<1>9. 0..n \subseteq P
  <2> HIDE DEF P
  <2> QED BY <1>1, <1>7, <1>8, EveryRound
<1>10. PICK i \in 0..dx, j \in 0..dy :
         Is(n, i, j) /\ Passed(i, j) /\ (i + j >= n \/ (i = dx /\ j = dy))
  <2> HIDE DEF Is, Passed
  <2>1. n \in P BY <1>1, <1>9
  <2> QED BY <2>1
<1>11. i = dx /\ j = dy
  <2> HIDE DEF Is, Passed
  <2>1. i + j >= n \/ (i = dx /\ j = dy) BY <1>10
  <2>2. n = dx + dy /\ dx \in Nat /\ dy \in Nat /\ i \in 0..dx /\ j \in 0..dy BY <1>1
  <2> QED BY ONLY <2>1, <2>2
<1>12. \A s \in Bresenham(p, q) : \E c \in 0..dx, r \in 0..dy :
         s = At[<<c, r>>] /\ Balanced(dx, dy, c, r) /\ Balanced(dy, dx, r, c)
  <2> TAKE s \in Bresenham(p, q)
  <2>1. PICK k \in 0..n : s = <<t[k].x, t[k].y>> BY <1>4
  <2>2. k \in P BY <1>9
  <2>3. PICK c \in 0..dx, r \in 0..dy : Is(k, c, r)
    <3> HIDE DEF Is, Passed
    <3> QED BY <2>2
  <2>4. s = At[<<c, r>>]
    <3> HIDE DEF Is
    <3>1. k \in 0..n /\ c \in 0..dx /\ r \in 0..dy /\ Is(k, c, r) BY <2>1, <2>3
    <3>2. At[<<c, r>>] = <<t[k].x, t[k].y>> BY ONLY <1>6, <3>1, Zenon
    <3> QED BY <2>1, <3>2
  <2> QED BY <2>3, <2>4 DEF OnRaster
<1>13. \A c \in 0..dx : \E r \in 0..dy : At[<<c, r>>] \in Bresenham(p, q)
  <2> TAKE c \in 0..dx
  <2> HIDE DEF Is
  <2>1. PICK k \in 0..n, r \in 0..dy : Is(k, c, r) BY <1>10, <1>11
  <2>2. At[<<c, r>>] \in Bresenham(p, q)
    <3>1. k \in 0..n /\ c \in 0..dx /\ r \in 0..dy /\ Is(k, c, r) BY <2>1
    <3> QED BY ONLY <1>6, <3>1, Zenon
  <2> QED BY <2>2
<1>14. \A r \in 0..dy : \E c \in 0..dx : At[<<c, r>>] \in Bresenham(p, q)
  <2> TAKE r \in 0..dy
  <2> HIDE DEF Is
  <2>1. PICK k \in 0..n, c \in 0..dx : Is(k, c, r) BY <1>10, <1>11
  <2>2. At[<<c, r>>] \in Bresenham(p, q)
    <3>1. k \in 0..n /\ c \in 0..dx /\ r \in 0..dy /\ Is(k, c, r) BY <2>1
    <3> QED BY ONLY <1>6, <3>1, Zenon
  <2> QED BY <2>2
<1>15. q \in Bresenham(p, q)
  <2>1. n \in 0..n BY <1>1
  <2>2. At[<<dx, dy>>] \in Bresenham(p, q)
    <3> HIDE DEF Is, Passed
    <3> QED BY <1>6, <1>10, <1>11, <2>1
  <2>3. <<dx, dy>> \in (0..dx) \X (0..dy) /\ <<dx, dy>>[1] = dx /\ <<dx, dy>>[2] = dy OBVIOUS
  <2>4. At[<<dx, dy>>] = <<Steps(p[1], q[1], dx), Steps(p[2], q[2], dy)>> BY <2>3
  <2> QED BY <1>5, <2>2, <2>4
<1> QED BY <1>12, <1>13, <1>14, <1>15

-----------------------------------------------------------------------------
\* Lines: distances.  Coordinates are counted from the first endpoint, in the direction of
\* the second, which is at <<w, h>>.

\* A pixel of column u whose row is that of the line, rounded to the nearest; halves away
\* from the first endpoint.  With the arguments swapped, of a row.
OnColumn(w, h, u, v) == w > 0 /\ 2 * (w * v - h * u) \in (1 - w)..w

\* A pixel that clipping may leave: in the box of the endpoints, and rounded in its column
\* or in its row.
Rounded(w, h, u, v) ==
  u \in 0..w /\ v \in 0..h /\ (OnColumn(w, h, u, v) \/ OnColumn(h, w, v, u))

\* Less than a pixel from the line along the minor direction.
Off(w, h, u, v) ==
  /\ w >= h => w * v - h * u \in (1 - w)..(w - 1)
  /\ h > w => w * v - h * u \in (1 - h)..(h - 1)

\* Half a pixel along the minor direction, in whichever direction it was rounded.
LEMMA RoundedIsNear ==
  ASSUME NEW w \in Nat, NEW h \in Nat, NEW u, NEW v, Rounded(w, h, u, v)
  PROVE  /\ w >= h => w > 0 /\ 2 * (w * v - h * u) \in (1 - w)..w
         /\ h > w => 2 * (w * v - h * u) \in (-h)..h
<1>1. u \in Nat /\ v \in Nat BY DEF Rounded
<1>2. PICK l \in Int : l = w * v - h * u BY <1>1
<1>3. CASE OnColumn(w, h, u, v)
  <2>1. w > 0 /\ 2 * l >= 1 - w /\ 2 * l <= w BY <1>2, <1>3 DEF OnColumn
  <2>2. w > 0 /\ 2 * l \in (1 - w)..w /\ (h > w => 2 * l \in (-h)..h) BY <2>1
  <2> QED BY <1>2, <2>2
<1>4. CASE OnColumn(h, w, v, u)
  <2>1. h * u - w * v = -l BY <1>1, <1>2
  <2>2. h > 0 /\ -(2 * l) >= 1 - h /\ -(2 * l) <= h BY <1>4, <2>1 DEF OnColumn
  <2>3. CASE w # h BY <1>2, <2>2, <2>3
  <2>4. CASE w = h
    <3>1. l = w * (v - u) BY <1>1, <1>2, <2>4
    <3>2. CASE v - u = 0
      <4>1. l = 0 BY <3>1, <3>2
      <4> QED BY <1>2, <2>2, <2>4, <4>1
    <3>3. CASE v - u > 0
      <4>1. w * (v - u) >= w * 1 BY <1>1, <3>3
      <4>2. l >= w BY <3>1, <4>1
      <4> QED BY <2>2, <2>4, <4>2
    <3>4. CASE v - u < 0
      <4>1. w * (v - u) <= w * (-1) BY <1>1, <3>4
      <4>2. l <= -w BY <3>1, <4>1
      <4> QED BY <2>2, <2>4, <4>2
    <3> QED BY <1>1, <3>2, <3>3, <3>4
  <2> QED BY <2>3, <2>4
<1> QED BY <1>3, <1>4 DEF Rounded

\* A mean of two numbers is between their bounds, and at the upper one only if both are.
LEMMA MeanIsBetween ==
  ASSUME NEW m \in Nat, NEW i \in 0..m, NEW lo \in Int, NEW hi \in Int,
         NEW a \in lo..hi, NEW b \in lo..hi
  PROVE  /\ (m - i) * a + i * b \in (m * lo)..(m * hi)
         /\ i > 0 /\ i < m /\ (m - i) * a + i * b = m * hi => a = hi /\ b = hi
<1> DEFINE k == m - i
<1>1. k \in Nat /\ m = k + i /\ i \in Nat OBVIOUS
<1>2. k * lo <= k * a /\ k * a <= k * hi BY <1>1
<1>3. i * lo <= i * b /\ i * b <= i * hi BY <1>1
<1>4. m * lo = k * lo + i * lo /\ m * hi = k * hi + i * hi BY <1>1
<1>5. /\ k * a \in Int /\ i * b \in Int /\ m * lo \in Int /\ m * hi \in Int
      /\ k * lo \in Int /\ k * hi \in Int /\ i * lo \in Int /\ i * hi \in Int
  BY <1>1
<1>6. ASSUME k > 0, i > 0, k * a + i * b = m * hi PROVE a = hi /\ b = hi
  <2>1. k * a = k * hi /\ i * b = i * hi BY <1>2, <1>3, <1>4, <1>5, <1>6
  <2>2. k * (hi - a) = 0 /\ i * (hi - b) = 0 BY <1>1, <2>1
  <2>3. hi - a = 0 BY <1>1, <1>6, <2>2
  <2>4. hi - b = 0 BY <1>1, <1>6, <2>2
  <2> QED BY <2>3, <2>4
<1>7. i < m <=> k > 0 BY <1>1
<1> HIDE DEF k
<1>8. k * a + i * b \in (m * lo)..(m * hi) BY <1>2, <1>3, <1>4, <1>5
<1> QED BY <1>6, <1>7, <1>8 DEF k

\* The height of a pixel of the raster above the line is a mean of the heights of the
\* ends, and the lag.
LEMMA HeightOnRaster ==
  ASSUME NEW w \in Int, NEW h \in Int, NEW u \in Int, NEW v \in Int,
         NEW m \in Int, NEW n \in Int, NEW i \in Int, NEW j \in Int,
         NEW ex \in {1, -1}, NEW ey \in {1, -1}, NEW l \in Int, NEW l2 \in Int,
         l = w * v - h * u, l2 = w * (v + ey * n) - h * (u + ex * m)
  PROVE  m * (w * (v + ey * j) - h * (u + ex * i))
           = (m - i) * l + i * l2 + ey * w * (m * j - n * i)
<1>1. CASE ex = 1 /\ ey = 1 BY <1>1
<1>2. CASE ex = 1 /\ ey = -1 BY <1>2
<1>3. CASE ex = -1 /\ ey = 1 BY <1>3
<1>4. CASE ex = -1 /\ ey = -1 BY <1>4
<1> QED BY <1>1, <1>2, <1>3, <1>4

\* The raster between two pixels that clipping may leave stays less than a pixel from the
\* line: half a pixel from the clipped line, which is half a pixel from the line.  Both
\* halves add up only where both ends and the raster are rounded to the same side, and
\* the raster is not if it goes on in the direction of the line.
LEMMA MajorIsNear ==
  ASSUME NEW w \in Nat, NEW h \in Nat, NEW u, NEW v, NEW u2, NEW v2,
         Rounded(w, h, u, v), Rounded(w, h, u2, v2),
         w >= h /\ 2 * (w * v - h * u) = w => u <= u2,
         NEW m \in Nat, NEW n \in 0..m, m > 0, NEW ex \in {1, -1}, NEW ey \in {1, -1},
         u2 = u + ex * m, v2 = v + ey * n,
         NEW i \in 0..m, NEW j \in 0..n, Balanced(m, n, i, j)
  PROVE  LET l == w * (v + ey * j) - h * (u + ex * i)
         IN  (w >= h => l \in (1 - w)..(w - 1)) /\ (h > w => l \in (1 - h)..(h - 1))
<1>1. u \in Nat /\ v \in Nat BY DEF Rounded
<1>2. PICK l \in Int, l2 \in Int, p \in Int, d \in Int, r \in Int :
        /\ l = w * v - h * u /\ l2 = w * v2 - h * u2
        /\ p = w * (v + ey * j) - h * (u + ex * i)
        /\ d = m * j - n * i /\ r = (m - i) * l + i * l2
  BY <1>1
<1>3. m * p = r + ey * w * d
  <2>1. l2 = w * (v + ey * n) - h * (u + ex * m) BY <1>2
  <2>2. i \in Int /\ j \in Int /\ m \in Int /\ n \in Int OBVIOUS
  <2> QED BY <1>1, <1>2, <2>1, <2>2, HeightOnRaster
<1>4. 2 * d >= -m /\ 2 * d < m BY <1>2 DEF Balanced, Lag
<1>5. 2 * r = (m - i) * (2 * l) + i * (2 * l2)
  <2>1. \A a, b \in Int : a * (2 * b) = 2 * (a * b) OBVIOUS
  <2>2. (m - i) * (2 * l) = 2 * ((m - i) * l) /\ i * (2 * l2) = 2 * (i * l2) BY <2>1
  <2>3. (m - i) * l \in Int /\ i * l2 \in Int OBVIOUS
  <2> QED BY <1>2, <2>2, <2>3
<1>6. CASE h > w
  <2>1. 2 * l \in (-h)..h /\ 2 * l2 \in (-h)..h BY <1>2, <1>6, RoundedIsNear
  <2>2. 2 * r \in (m * (-h))..(m * h) BY <1>5, <2>1, MeanIsBetween
  <2>3. PICK x \in Int : x = m * h OBVIOUS
  <2>4. m * (-h) = -x BY <2>3
  <2>5. m * w + m <= x
    <3>1. m * (w + 1) <= m * h BY <1>6
    <3> QED BY <2>3, <3>1
  <2>6. 2 * (w * d) <= m * w /\ 2 * (w * d) >= -(m * w)
    <3>1. w * (2 * d) <= w * m /\ w * (2 * d) >= w * (-m) BY <1>4
    <3> QED BY <3>1
  <2>7. 2 * (m * p) < 2 * x /\ 2 * (m * p) > -(2 * x)
    <3>1. PICK y \in Int, z \in Int : y = w * d /\ z = m * w OBVIOUS
    <3>2. 2 * y <= z /\ 2 * y >= -z /\ z + m <= x BY <2>5, <2>6, <3>1
    <3>3. m * p = r + y \/ m * p = r - y
      <4>1. ey = 1 => ey * w * d = w * d OBVIOUS
      <4>2. ey = -1 => ey * w * d = -(w * d) OBVIOUS
      <4> QED BY <1>3, <3>1, <4>1, <4>2
    <3> QED BY <2>2, <2>3, <2>4, <3>2, <3>3
  <2>8. m * p < m * h /\ m * p > m * (-h) BY <2>3, <2>4, <2>7
  <2>9. p < h /\ p > -h
    <3>1. ASSUME p >= h PROVE FALSE
      <4>1. m * p >= m * h BY <3>1
      <4> QED BY <2>8, <4>1
    <3>2. ASSUME p <= -h PROVE FALSE
      <4>1. m * p <= m * (-h) BY <3>2
      <4> QED BY <2>8, <4>1
    <3> QED BY <3>1, <3>2
  <2> QED BY <1>2, <1>6, <2>9
<1>7. CASE w >= h
  <2>1. w > 0 /\ 2 * l \in (1 - w)..w /\ 2 * l2 \in (1 - w)..w BY <1>2, <1>7, RoundedIsNear
  <2>2. /\ 2 * r \in (m * (1 - w))..(m * w)
        /\ i > 0 /\ i < m /\ 2 * r = m * w => 2 * l = w /\ 2 * l2 = w
    BY <1>5, <2>1, MeanIsBetween
  <2>3. PICK x \in Int, y \in Int : x = m * w /\ y = w * d OBVIOUS
  <2>4. m * (1 - w) = m - x BY <2>3
  <2>5. 2 * y <= x - w /\ 2 * y >= -x
    <3>1. w * (2 * d) <= w * (m - 1) /\ w * (2 * d) >= w * (-m) BY <1>4
    <3>2. w * (m - 1) = m * w - w /\ w * (-m) = -(m * w) OBVIOUS
    <3> QED BY <2>3, <3>1, <3>2
  <2>6. 2 * y = -x => 2 * d = -m
    <3>1. 2 * y = w * (2 * d) /\ -x = w * (-m) BY <2>3
    <3>2. 2 * d > -m => w * (2 * d) > w * (-m) BY <2>1
    <3> QED BY <1>4, <3>1, <3>2
  <2>7. ~(ey = -1 /\ 2 * r = x /\ 2 * y = -x)
    <3> SUFFICES ASSUME ey = -1, 2 * r = x, 2 * y = -x PROVE FALSE OBVIOUS
    <3>1. 2 * d = -m BY <2>6
    <3>2. n > 0
      <4>1. n = 0 => j = 0 /\ d = 0 BY <1>2
      <4> QED BY <3>1, <4>1
    <3>3. i > 0
      <4>1. i = 0 => d = m * j BY <1>2
      <4>2. m * j >= 0 OBVIOUS
      <4> QED BY <3>1, <4>1, <4>2
    <3>4. i < m
      <4>1. i = m => d = m * (j - n) BY <1>2
      <4>2. j - n = 0 \/ j - n <= -1 OBVIOUS
      <4>3. j - n <= -1 => m * (j - n) <= -m
        <5>1. j - n <= -1 => m * (j - n) <= m * (-1) OBVIOUS
        <5> QED BY <5>1
      <4>4. j - n = 0 => m * (j - n) = 0 OBVIOUS
      <4> QED BY <3>1, <4>1, <4>2, <4>3, <4>4
    <3>5. 2 * l = w /\ 2 * l2 = w BY <2>2, <2>3, <3>3, <3>4
    <3>6. l2 = l - w * n - h * (ex * m)
      <4>1. v2 = v - n
        <5>1. ey * n = -n OBVIOUS
        <5> QED BY <1>1, <5>1
      <4>2. w * v2 = w * v - w * n BY <1>1, <4>1
      <4>3. h * u2 = h * u + h * (ex * m) BY <1>1
      <4>4. w * v \in Int /\ w * n \in Int /\ h * u \in Int /\ h * (ex * m) \in Int BY <1>1
      <4> QED BY <1>2, <4>2, <4>3, <4>4
    <3>7. w * n > 0 BY <2>1, <3>2
    <3>8. ex = 1 BY <1>1, <1>2, <1>7, <3>5
    <3>9. h * (ex * m) >= 0 BY <3>8
    <3> QED BY <3>5, <3>6, <3>7, <3>9
  <2>8. 2 * (m * p) < 2 * x /\ 2 * (m * p) > -(2 * x)
    <3>1. CASE ey = 1
      <4>1. m * p = r + y BY <1>3, <2>3, <3>1
      <4> QED BY <2>1, <2>2, <2>3, <2>4, <2>5, <4>1
    <3>2. CASE ey = -1
      <4>1. m * p = r - y BY <1>3, <2>3, <3>2
      <4>2. 2 * r <= x /\ 2 * r >= m - x BY <2>2, <2>3, <2>4
      <4> QED BY <2>1, <2>5, <2>7, <3>2, <4>1, <4>2
    <3> QED BY <3>1, <3>2
  <2>9. m * p < m * w /\ m * p > m * (-w) BY <2>3, <2>8
  <2>10. p < w /\ p > -w
    <3>1. ASSUME p >= w PROVE FALSE
      <4>1. m * p >= m * w BY <3>1
      <4> QED BY <2>9, <4>1
    <3>2. ASSUME p <= -w PROVE FALSE
      <4>1. m * p <= m * (-w) BY <3>2
      <4> QED BY <2>9, <4>1
    <3> QED BY <3>1, <3>2
  <2> QED BY <1>2, <1>7, <2>10
<1> QED BY <1>6, <1>7

Signs == {1, -1}

\* A pixel that is rounded up by a half has its line ahead of it.
Onward(w, h, u, v, u2, v2) ==
  /\ w >= h /\ 2 * (w * v - h * u) = w => u <= u2
  /\ h >= w /\ 2 * (h * u - w * v) = h => v <= v2

\* i columns and j rows from one pixel, on the raster to another.
Between(u, v, u2, v2, m, n, ex, ey, i, j) ==
  u2 = u + ex * m /\ v2 = v + ey * n /\ Balanced(m, n, i, j) /\ Balanced(n, m, j, i)

\* The same whichever direction of the clipped line is the longer one.
LEMMA RasterIsNear ==
  ASSUME NEW w \in Nat, NEW h \in Nat, NEW u, NEW v, NEW u2, NEW v2,
         Rounded(w, h, u, v), Rounded(w, h, u2, v2),
         Onward(w, h, u, v, u2, v2),
         NEW m \in Nat, NEW n \in Nat, NEW ex \in Signs, NEW ey \in Signs,
         NEW i \in 0..m, NEW j \in 0..n, Between(u, v, u2, v2, m, n, ex, ey, i, j)
  PROVE  Off(w, h, u + ex * i, v + ey * j)
<1> USE DEF Signs
<1> SUFFICES
      ASSUME w >= h /\ 2 * (w * v - h * u) = w => u <= u2,
             h >= w /\ 2 * (h * u - w * v) = h => v <= v2,
             u2 = u + ex * m, v2 = v + ey * n, Balanced(m, n, i, j), Balanced(n, m, j, i)
      PROVE  LET l == w * (v + ey * j) - h * (u + ex * i)
             IN  (w >= h => l \in (1 - w)..(w - 1)) /\ (h > w => l \in (1 - h)..(h - 1))
  BY DEF Between, Onward, Off
<1>1. u \in Nat /\ v \in Nat /\ u2 \in Nat /\ v2 \in Nat BY DEF Rounded
<1>2. PICK l \in Int : l = w * (v + ey * j) - h * (u + ex * i) BY <1>1
<1>3. CASE m = 0 /\ n = 0
  <2>1. i = 0 /\ j = 0 BY <1>3
  <2>2. l = w * v - h * u BY <1>1, <1>2, <2>1
  <2> QED BY <1>2, <2>2, RoundedIsNear
<1>4. CASE m >= n /\ m > 0
  <2>1. n \in 0..m BY <1>4
  <2> QED BY <1>4, <2>1, MajorIsNear, Zenon
<1>5. CASE n > m
  <2>1. m \in 0..n /\ n > 0 BY <1>5
  <2>2. Rounded(h, w, v, u) /\ Rounded(h, w, v2, u2) BY DEF Rounded
  <2>3. PICK k \in Int : k = h * (u + ex * i) - w * (v + ey * j) BY <1>1
  <2>4. k = -l BY <1>1, <1>2, <2>3
  <2>5. (h >= w => k \in (1 - h)..(h - 1)) /\ (w > h => k \in (1 - w)..(w - 1))
    BY <2>1, <2>2, <2>3, MajorIsNear, Zenon
  <2>6. w = h => l \in (1 - w)..(w - 1) BY <2>4, <2>5
  <2> QED BY <1>2, <2>4, <2>5, <2>6
<1> QED BY <1>3, <1>4, <1>5

-----------------------------------------------------------------------------
\* Lines: clipping

\* A distance n, counted in the direction of d.
Along(d, n) == IF d >= 0 THEN n ELSE -n

\* The division of C++, which rounds towards zero, by the signs of its operands.
LEMMA QuotientOf ==
  ASSUME NEW n \in Nat, NEW w \in Nat, w > 0
  PROVE  /\ Quotient(n, w) = n \div w /\ Quotient(-n, -w) = (IF n = 0 THEN -(n \div w) ELSE n \div w)
         /\ Quotient(n, -w) = -(n \div w)
         /\ Quotient(-n, w) = (IF n = 0 THEN n \div w ELSE -(n \div w))
<1>1. Abs(n) = n /\ Abs(-n) = n /\ Abs(w) = w /\ Abs(-w) = w BY DEF Abs
<1>2. n \div w \in Int BY DivMod
<1>3. ~(n < 0) /\ ~(w < 0) /\ -w < 0 /\ (-n < 0 <=> n # 0) OBVIOUS
<1> HIDE DEF Quotient
<1>4. Quotient(n, w) = n \div w BY <1>1, <1>3 DEF Quotient
<1>5. Quotient(n, -w) = -(n \div w) BY <1>1, <1>3 DEF Quotient
<1>6. Quotient(-n, w) = (IF n = 0 THEN n \div w ELSE -(n \div w)) BY <1>1, <1>3 DEF Quotient
<1>7. Quotient(-n, -w) = (IF n = 0 THEN -(n \div w) ELSE n \div w) BY <1>1, <1>3 DEF Quotient
<1> QED BY <1>4, <1>5, <1>6, <1>7

\* divideRoundNearest(): a half is added to the distance, whatever its direction.
LEMMA RoundsDistance ==
  ASSUME NEW n \in Nat, NEW w \in Nat, w > 0
  PROVE  /\ DivideRoundNearest(n, w) = (n + w \div 2) \div w
         /\ DivideRoundNearest(-n, w) = -((n + w \div 2) \div w)
         /\ DivideRoundNearest(n, -w) = -((n + w \div 2) \div w)
         /\ DivideRoundNearest(-n, -w) = (n + w \div 2) \div w
<1>1. PICK c \in Nat : c = w \div 2 OBVIOUS
<1>2. Quotient(w, 2) = c BY <1>1, QuotientOf
<1>3. Quotient(-w, 2) = -c
  <2>1. 2 \in Nat /\ 2 > 0 /\ w \in Nat /\ w # 0 OBVIOUS
  <2>2. Quotient(-w, 2) = -(w \div 2) BY ONLY <2>1, QuotientOf
  <2> QED BY <1>1, <2>2
<1>4. c < w BY <1>1
<1>5. PICK z \in Int, r \in 0..(w - 1) : z = (n + c) \div w /\ n + c = w * z + r BY DivMod
<1>6. n + c \in Nat /\ -(n + c) = -n - c OBVIOUS
<1>7. n = 0 => z = 0
  <2> SUFFICES ASSUME n = 0 PROVE z = 0 OBVIOUS
  <2>1. w * z < w /\ w * z > -w BY <1>4, <1>5
  <2> QED BY <2>1, NoMultiple
<1>8. /\ Quotient(n + c, w) = z /\ Quotient(n + c, -w) = -z
      /\ n + c # 0 => Quotient(-n - c, w) = -z /\ Quotient(-n - c, -w) = z
  BY <1>5, <1>6, QuotientOf
<1>9. DivideRoundNearest(n, w) = z
  <2>1. (n < 0) = (w < 0) OBVIOUS
  <2> QED BY <1>2, <1>8, <2>1 DEF DivideRoundNearest
<1>10. DivideRoundNearest(-n, w) = -z
  <2>1. CASE n = 0
    <3>1. -n = n
      <4>1. n \in Nat /\ n <= 0 BY <2>1
      <4> QED BY ONLY <4>1
    <3>2. DivideRoundNearest(-n, w) = z BY <1>9, <3>1
    <3> QED BY <1>7, <2>1, <3>2
  <2>2. CASE n # 0
    <3>1. ~((-n < 0) = (w < 0)) BY <2>2
    <3>2. DivideRoundNearest(-n, w) = Quotient(-n - c, w) BY <1>2, <3>1 DEF DivideRoundNearest
    <3> QED BY <1>8, <2>2, <3>2
  <2> QED BY <2>1, <2>2
<1>11. DivideRoundNearest(n, -w) = -z
  <2>1. ~((n < 0) = (-w < 0)) OBVIOUS
  <2>2. DivideRoundNearest(n, -w) = Quotient(n - (-c), -w) BY <1>3, <2>1 DEF DivideRoundNearest
  <2>3. n - (-c) = n + c OBVIOUS
  <2> QED BY <1>8, <2>2, <2>3
<1>12. DivideRoundNearest(-n, -w) = z
  <2>1. CASE n = 0
    <3>1. -n = n
      <4>1. n \in Nat /\ n <= 0 BY <2>1
      <4> QED BY ONLY <4>1
    <3>2. DivideRoundNearest(-n, -w) = -z BY <1>11, <3>1
    <3> QED BY <1>7, <2>1, <3>2
  <2>2. CASE n # 0
    <3>1. (-n < 0) = (-w < 0) BY <2>2
    <3>2. DivideRoundNearest(-n, -w) = Quotient(-n + (-c), -w)
      BY <1>3, <3>1 DEF DivideRoundNearest
    <3>3. -n + (-c) = -n - c OBVIOUS
    <3> QED BY <1>8, <2>2, <3>2, <3>3
  <2> QED BY <2>1, <2>2
<1> QED BY <1>1, <1>5, <1>9, <1>10, <1>11, <1>12

\* The crossing of a column k columns from the first endpoint is rounded in its column.
LEMMA CrossingRounds ==
  ASSUME NEW d \in Int, NEW g \in Int, NEW k \in Int, d # 0, Along(d, k) >= 0
  PROVE  /\ DivideRoundNearest(g * k, d) \in Int
         /\ OnColumn(Abs(d), Abs(g), Along(d, k), Along(g, DivideRoundNearest(g * k, d)))
<1>1. PICK w \in Nat, h \in Nat, e \in Nat : w = Abs(d) /\ h = Abs(g) /\ e = Along(d, k)
  BY DEF Abs, Along
<1>2. w > 0 /\ (d = w \/ d = -w) /\ (d = w <=> d >= 0) BY <1>1 DEF Abs
<1>3. (g >= 0 => g = h) /\ (g < 0 => g = -h) BY <1>1 DEF Abs
<1>4. h * e \in Nat OBVIOUS
<1>5. PICK c \in Nat : c = w \div 2 /\ 2 * c <= w /\ 2 * c >= w - 1 OBVIOUS
<1>6. PICK z \in Int, r \in 0..(w - 1) : z = (h * e + c) \div w /\ h * e + c = w * z + r
  BY <1>2, <1>4, DivMod
<1>7. OnColumn(w, h, e, z)
  <2>1. PICK x \in Int : x = w * z - h * e OBVIOUS
  <2>2. x = c - r BY <1>6, <2>1
  <2>3. 2 * x <= w /\ 2 * x > -w BY <1>5, <2>2
  <2> QED BY <1>2, <2>1, <2>3 DEF OnColumn
<1>8. /\ DivideRoundNearest(h * e, w) = z /\ DivideRoundNearest(-(h * e), w) = -z
      /\ DivideRoundNearest(h * e, -w) = -z /\ DivideRoundNearest(-(h * e), -w) = z
  BY <1>2, <1>4, <1>5, <1>6, RoundsDistance
<1>9. CASE d >= 0 /\ g >= 0
  <2>1. k = e /\ g * k = h * e /\ d = w BY <1>1, <1>2, <1>3, <1>9 DEF Along
  <2> QED BY <1>1, <1>7, <1>8, <1>9, <2>1 DEF Along
<1>10. CASE d >= 0 /\ g < 0
  <2>1. k = e /\ d = w BY <1>1, <1>2, <1>10 DEF Along
  <2>2. g * k = -(h * e) BY <1>3, <1>10, <2>1
  <2>3. -(-z) = z OBVIOUS
  <2> QED BY <1>1, <1>7, <1>8, <1>10, <2>1, <2>2, <2>3 DEF Along
<1>11. CASE d < 0 /\ g >= 0
  <2>1. k = -e /\ d = -w BY <1>1, <1>2, <1>11 DEF Along
  <2>2. g * k = -(h * e) BY <1>3, <1>11, <2>1
  <2> QED BY <1>1, <1>7, <1>8, <1>11, <2>1, <2>2 DEF Along
<1>12. CASE d < 0 /\ g < 0
  <2>1. k = -e /\ d = -w BY <1>1, <1>2, <1>12 DEF Along
  <2>2. g * k = h * e BY <1>3, <1>12, <2>1
  <2>3. -(-z) = z OBVIOUS
  <2> QED BY <1>1, <1>7, <1>8, <1>12, <2>1, <2>2, <2>3 DEF Along
<1> QED BY <1>9, <1>10, <1>11, <1>12

\* The first and the last coordinate of the display along an axis of n pixels, counted from
\* o in the direction of d.
Low(d, o, n) == IF d >= 0 THEN -o ELSE o - (n - 1)
High(d, o, n) == Low(d, o, n) + n - 1

\* Counting in the direction of the line swaps the sides of the display when it goes back.
LEMMA SidesAlong ==
  ASSUME NEW d \in Int, NEW o \in Int, NEW n \in Nat, NEW x \in Int
  PROVE  /\ Low(d, o, n) \in Int /\ High(d, o, n) \in Int /\ Along(d, x - o) \in Int
         /\ d >= 0 => /\ x < 0 <=> Along(d, x - o) < Low(d, o, n)
                      /\ x > n - 1 <=> Along(d, x - o) > High(d, o, n)
                      /\ Along(d, 0 - o) = Low(d, o, n) /\ Along(d, n - 1 - o) = High(d, o, n)
         /\ d < 0 => /\ x < 0 <=> Along(d, x - o) > High(d, o, n)
                     /\ x > n - 1 <=> Along(d, x - o) < Low(d, o, n)
                     /\ Along(d, 0 - o) = High(d, o, n) /\ Along(d, n - 1 - o) = Low(d, o, n)
BY DEF Low, High, Along

\* An endpoint that moves along an axis to the border c, which the other endpoint is not
\* beyond.
LEMMA AxisCrossing ==
  ASSUME NEW d \in Int, NEW g \in Int, NEW o \in Int, NEW n \in Nat, NEW w \in Nat, w = Abs(d),
         NEW x \in Int, NEW z \in Int, Along(d, x - o) \in 0..w, Along(d, z - o) \in 0..w,
         NEW c \in Int,
         (x < 0 /\ ~(z < 0) /\ c = 0) \/ (x > n - 1 /\ ~(z > n - 1) /\ c = n - 1)
  PROVE  /\ DivideRoundNearest(g * (c - o), d) \in Int
         /\ Along(d, c - o) \in 0..w
         /\ OnColumn(w, Abs(g), Along(d, c - o), Along(g, DivideRoundNearest(g * (c - o), d)))
<1>1. PICK u \in Int, s \in Int, e \in Int, k \in Int :
        u = Along(d, x - o) /\ s = Along(d, z - o) /\ k = c - o /\ e = Along(d, k)
  <2>1. Along(d, x - o) \in Int /\ Along(d, z - o) \in Int /\ Along(d, c - o) \in Int
    BY DEF Along
  <2> QED BY <2>1
<1>2. u \in 0..w /\ s \in 0..w BY <1>1
<1>3. d # 0
  <2> SUFFICES ASSUME d = 0 PROVE FALSE OBVIOUS
  <2>1. w = 0 BY DEF Abs
  <2>2. x - o = 0 /\ z - o = 0 BY <1>1, <1>2, <2>1 DEF Along
  <2> QED BY <2>2
<1>4. e \in 0..w
  <2>1. CASE d >= 0 BY <1>1, <1>2, <2>1 DEF Along
  <2>2. CASE d < 0 BY <1>1, <1>2, <2>2 DEF Along
  <2> QED BY <2>1, <2>2
<1>5. /\ DivideRoundNearest(g * k, d) \in Int
      /\ OnColumn(Abs(d), Abs(g), Along(d, k), Along(g, DivideRoundNearest(g * k, d)))
  <2>1. Along(d, k) >= 0 BY <1>1, <1>4
  <2> QED BY <1>3, <2>1, CrossingRounds
<1> QED BY <1>1, <1>4, <1>5

\* Out codes, one border at a time.
LEMMA OutCodes ==
  ASSUME NEW p \in Int \X Int
  PROVE  /\ OutCode(p) \subseteq {"LEFT", "RIGHT", "TOP", "BOTTOM"}
         /\ "LEFT" \in OutCode(p) <=> p[1] < 0
         /\ "RIGHT" \in OutCode(p) <=> p[1] > Width - 1
         /\ "TOP" \in OutCode(p) <=> p[2] < 0
         /\ "BOTTOM" \in OutCode(p) <=> p[2] > Height - 1
         /\ OutCode(p) = {} <=> p \in Screen
<1>1. PICK x \in Int, y \in Int : p = <<x, y>> /\ p[1] = x /\ p[2] = y OBVIOUS
<1>2. PICK m \in Nat, n \in Nat : m = Width /\ n = Height /\ m > 0 BY Dimensions
<1>3. n > 0
  <2>1. n = TotalPages * ByteBits BY <1>2 DEF Height
  <2> QED BY <2>1, Dimensions, Product
<1>4. ~(x < 0 /\ x > m - 1) /\ ~(y < 0 /\ y > n - 1) BY <1>2, <1>3
<1>5. OutCode(p) = (IF x < 0 THEN {"LEFT"} ELSE IF x > m - 1 THEN {"RIGHT"} ELSE {})
                     \cup (IF y < 0 THEN {"TOP"} ELSE IF y > n - 1 THEN {"BOTTOM"} ELSE {})
  BY <1>1, <1>2 DEF OutCode
<1>6. p \in Screen <=> ~(x < 0) /\ ~(x > m - 1) /\ ~(y < 0) /\ ~(y > n - 1)
  BY <1>1, <1>2 DEF Screen
<1>7. /\ "LEFT" \in OutCode(p) <=> x < 0
      /\ "RIGHT" \in OutCode(p) <=> x > m - 1
      /\ "TOP" \in OutCode(p) <=> y < 0
      /\ "BOTTOM" \in OutCode(p) <=> y > n - 1
  BY <1>4, <1>5
<1>8. OutCode(p) = {} <=> ~(x < 0) /\ ~(x > m - 1) /\ ~(y < 0) /\ ~(y > n - 1) BY <1>5
<1>9. OutCode(p) \subseteq {"LEFT", "RIGHT", "TOP", "BOTTOM"} BY <1>5
<1> QED BY <1>1, <1>2, <1>6, <1>7, <1>8, <1>9

\* Columns and rows from a to p, counted in the direction of b.
Columns(a, b, p) == Along(b[1] - a[1], p[1] - a[1])
Rows(a, b, p) == Along(b[2] - a[2], p[2] - a[2])

\* The line is w columns and h rows long; the display is the columns from x0 to x1 and
\* the rows from y0 to y1, as the line counts them.
Frame(a, b, w, h, x0, x1, y0, y1) ==
  /\ w = Abs(b[1] - a[1]) /\ h = Abs(b[2] - a[2])
  /\ x0 = Low(b[1] - a[1], a[1], Width) /\ x1 = High(b[1] - a[1], a[1], Width)
  /\ y0 = Low(b[2] - a[2], a[2], Height) /\ y1 = High(b[2] - a[2], a[2], Height)

InBox(a, b, w, h, p) ==
  p \in Int \X Int /\ Columns(a, b, p) \in 0..w /\ Rows(a, b, p) \in 0..h

\* A clip: to the border that the endpoint is beyond, rounded in its column or row.
Moves(w, h, x0, x1, y0, y1, u, v, u2, v2) ==
  \/ ((u < x0 /\ u2 = x0) \/ (u > x1 /\ u2 = x1)) /\ OnColumn(w, h, u2, v2)
  \/ ((v < y0 /\ v2 = y0) \/ (v > y1 /\ v2 = y1)) /\ OnColumn(h, w, v2, u2)

\* The rounded row of one of the line's columns is one of the line's rows.
LEMMA ColumnInBox ==
  ASSUME NEW w \in Nat, NEW h \in Nat, NEW u \in 0..w, NEW v \in Int, OnColumn(w, h, u, v)
  PROVE  v \in 0..h
<1>1. PICK l \in Int, k \in Int, x \in Int : l = w * v /\ k = h * u /\ x = w * h OBVIOUS
<1>2. w > 0 /\ 2 * (l - k) >= 1 - w /\ 2 * (l - k) <= w BY <1>1 DEF OnColumn
<1>3. k >= 0 /\ k <= x
  <2>1. h * u <= h * w /\ h * u >= h * 0 OBVIOUS
  <2> QED BY <1>1, <2>1
<1>4. ASSUME v <= -1 PROVE FALSE
  <2>1. w * v <= w * (-1) BY <1>4
  <2>2. l <= -w BY <1>1, <2>1
  <2> QED BY <1>2, <1>3, <2>2
<1>5. ASSUME v >= h + 1 PROVE FALSE
  <2>1. w * v >= w * (h + 1) BY <1>5
  <2>2. l >= x + w BY <1>1, <2>1
  <2> QED BY <1>2, <1>3, <2>2
<1> QED BY <1>4, <1>5

\* The crossing that the code computes is, counted along the line, a clip.
LEMMA CrossingMoves ==
  ASSUME NEW a \in Int \X Int, NEW b \in Int \X Int,
         NEW w \in Nat, NEW h \in Nat,
         NEW x0 \in Int, NEW x1 \in Int, NEW y0 \in Int, NEW y1 \in Int,
         Frame(a, b, w, h, x0, x1, y0, y1),
         NEW p, NEW q, InBox(a, b, w, h, p), InBox(a, b, w, h, q),
         OutCode(p) # {}, OutCode(p) \cap OutCode(q) = {},
         NEW r, r = Crossing(a, b, OutCode(p))
  PROVE  /\ InBox(a, b, w, h, r)
         /\ Moves(w, h, x0, x1, y0, y1, Columns(a, b, p), Rows(a, b, p),
                  Columns(a, b, r), Rows(a, b, r))
<1>1. PICK a1 \in Int, a2 \in Int, d1 \in Int, d2 \in Int :
        a[1] = a1 /\ a[2] = a2 /\ b[1] - a[1] = d1 /\ b[2] - a[2] = d2
  OBVIOUS
<1>2. PICK p1 \in Int, p2 \in Int, q1 \in Int, q2 \in Int :
        p = <<p1, p2>> /\ p[1] = p1 /\ p[2] = p2 /\ q[1] = q1 /\ q[2] = q2
  BY DEF InBox
<1>3. w = Abs(d1) /\ h = Abs(d2) BY <1>1 DEF Frame
<1>4. PICK m \in Nat, n \in Nat : m = Width /\ n = Height BY Dimensions
<1>5. /\ x0 = Low(d1, a1, m) /\ x1 = High(d1, a1, m)
      /\ y0 = Low(d2, a2, n) /\ y1 = High(d2, a2, n)
  BY <1>1, <1>4 DEF Frame
<1>6. /\ Along(d1, p1 - a1) \in 0..w /\ Along(d1, q1 - a1) \in 0..w
      /\ Along(d2, p2 - a2) \in 0..h /\ Along(d2, q2 - a2) \in 0..h
  BY <1>1, <1>2 DEF InBox, Columns, Rows
<1>7. /\ OutCode(p) \subseteq {"LEFT", "RIGHT", "TOP", "BOTTOM"}
      /\ "LEFT" \in OutCode(p) <=> p1 < 0
      /\ "RIGHT" \in OutCode(p) <=> p1 > m - 1
      /\ "TOP" \in OutCode(p) <=> p2 < 0
      /\ "BOTTOM" \in OutCode(p) <=> p2 > n - 1
      /\ "LEFT" \in OutCode(q) <=> q1 < 0
      /\ "RIGHT" \in OutCode(q) <=> q1 > m - 1
      /\ "TOP" \in OutCode(q) <=> q2 < 0
      /\ "BOTTOM" \in OutCode(q) <=> q2 > n - 1
  <2>1. p \in Int \X Int /\ q \in Int \X Int BY DEF InBox
  <2> QED BY <1>2, <1>4, <2>1, OutCodes
<1> DEFINE Goal(z) == /\ InBox(a, b, w, h, z)
                      /\ Moves(w, h, x0, x1, y0, y1, Columns(a, b, p), Rows(a, b, p),
                               Columns(a, b, z), Rows(a, b, z))
<1>8. ASSUME NEW c \in Int,
             (p1 < 0 /\ ~(q1 < 0) /\ c = 0) \/ (p1 > m - 1 /\ ~(q1 > m - 1) /\ c = m - 1)
      PROVE  Goal(<<c, a2 + DivideRoundNearest(d2 * (c - a1), d1)>>)
  <2>1. PICK k \in Int : k = DivideRoundNearest(d2 * (c - a1), d1)
    BY <1>3, <1>5, <1>6, <1>8, AxisCrossing
  <2>2. PICK u \in Int, u2 \in Int, v2 \in Int :
          u = Along(d1, p1 - a1) /\ u2 = Along(d1, c - a1) /\ v2 = Along(d2, k)
    <3>1. \A d, z \in Int : Along(d, z) \in Int BY DEF Along
    <3>2. p1 - a1 \in Int /\ c - a1 \in Int OBVIOUS
    <3> QED BY <3>1, <3>2
  <2>3. /\ u2 \in 0..w /\ OnColumn(w, h, u2, v2)
        /\ (u < x0 /\ u2 = x0) \/ (u > x1 /\ u2 = x1)
    <3>1. /\ Along(d1, c - a1) \in 0..w
          /\ OnColumn(w, Abs(d2), Along(d1, c - a1), Along(d2, DivideRoundNearest(d2 * (c - a1), d1)))
          /\ \/ Along(d1, p1 - a1) < x0 /\ Along(d1, c - a1) = x0
             \/ Along(d1, p1 - a1) > x1 /\ Along(d1, c - a1) = x1
      <4>1. /\ d1 \in Int /\ d2 \in Int /\ a1 \in Int /\ m \in Nat /\ w \in Nat /\ w = Abs(d1)
            /\ p1 \in Int /\ q1 \in Int /\ c \in Int
            /\ Along(d1, p1 - a1) \in 0..w /\ Along(d1, q1 - a1) \in 0..w
            /\ \/ p1 < 0 /\ ~(q1 < 0) /\ c = 0
               \/ p1 > m - 1 /\ ~(q1 > m - 1) /\ c = m - 1
        BY <1>3, <1>6, <1>8
      <4>2. /\ Along(d1, c - a1) \in 0..w
            /\ OnColumn(w, Abs(d2), Along(d1, c - a1), Along(d2, DivideRoundNearest(d2 * (c - a1), d1)))
        BY ONLY <4>1, AxisCrossing
      <4>3. \/ Along(d1, p1 - a1) < x0 /\ Along(d1, c - a1) = x0
            \/ Along(d1, p1 - a1) > x1 /\ Along(d1, c - a1) = x1
        <5>1. /\ d1 \in Int /\ a1 \in Int /\ m \in Nat /\ p1 \in Int /\ c \in Int
              /\ x0 \in Int /\ x1 \in Int /\ x0 = Low(d1, a1, m) /\ x1 = High(d1, a1, m)
              /\ (p1 < 0 /\ c = 0) \/ (p1 > m - 1 /\ c = m - 1)
          BY <1>5, <1>8
        <5> QED BY ONLY <5>1 DEF Along, Low, High
      <4> QED BY <4>2, <4>3
    <3> QED BY <1>3, <1>5, <2>1, <2>2, <3>1
  <2>4. v2 \in 0..h BY <2>3, ColumnInBox
  <2>5. PICK z : z = <<c, a2 + k>> OBVIOUS
  <2>6. z \in Int \X Int /\ z[1] = c /\ z[2] = a2 + k /\ z[2] - a2 = k BY <2>5
  <2>7. Columns(a, b, z) = u2 /\ Rows(a, b, z) = v2 /\ Columns(a, b, p) = u
    BY <1>1, <1>2, <2>2, <2>6 DEF Columns, Rows
  <2>8. InBox(a, b, w, h, z) BY <2>3, <2>4, <2>6, <2>7 DEF InBox
  <2>9. Moves(w, h, x0, x1, y0, y1, u, Rows(a, b, p), u2, v2) BY <2>3 DEF Moves
  <2> QED BY <2>1, <2>5, <2>7, <2>8, <2>9
<1>9. ASSUME NEW c \in Int,
             (p2 < 0 /\ ~(q2 < 0) /\ c = 0) \/ (p2 > n - 1 /\ ~(q2 > n - 1) /\ c = n - 1)
      PROVE  Goal(<<a1 + DivideRoundNearest(d1 * (c - a2), d2), c>>)
  <2>1. PICK k \in Int : k = DivideRoundNearest(d1 * (c - a2), d2)
    BY <1>3, <1>5, <1>6, <1>9, AxisCrossing
  <2>2. PICK v \in Int, v2 \in Int, u2 \in Int :
          v = Along(d2, p2 - a2) /\ v2 = Along(d2, c - a2) /\ u2 = Along(d1, k)
    <3>1. \A d, z \in Int : Along(d, z) \in Int BY DEF Along
    <3>2. p2 - a2 \in Int /\ c - a2 \in Int OBVIOUS
    <3> QED BY <3>1, <3>2
  <2>3. /\ v2 \in 0..h /\ OnColumn(h, w, v2, u2)
        /\ (v < y0 /\ v2 = y0) \/ (v > y1 /\ v2 = y1)
    <3>1. /\ Along(d2, c - a2) \in 0..h
          /\ OnColumn(h, Abs(d1), Along(d2, c - a2), Along(d1, DivideRoundNearest(d1 * (c - a2), d2)))
          /\ \/ Along(d2, p2 - a2) < y0 /\ Along(d2, c - a2) = y0
             \/ Along(d2, p2 - a2) > y1 /\ Along(d2, c - a2) = y1
      <4>1. /\ d2 \in Int /\ d1 \in Int /\ a2 \in Int /\ n \in Nat /\ h \in Nat /\ h = Abs(d2)
            /\ p2 \in Int /\ q2 \in Int /\ c \in Int
            /\ Along(d2, p2 - a2) \in 0..h /\ Along(d2, q2 - a2) \in 0..h
            /\ \/ p2 < 0 /\ ~(q2 < 0) /\ c = 0
               \/ p2 > n - 1 /\ ~(q2 > n - 1) /\ c = n - 1
        BY <1>3, <1>6, <1>9
      <4>2. /\ Along(d2, c - a2) \in 0..h
            /\ OnColumn(h, Abs(d1), Along(d2, c - a2), Along(d1, DivideRoundNearest(d1 * (c - a2), d2)))
        BY ONLY <4>1, AxisCrossing
      <4>3. \/ Along(d2, p2 - a2) < y0 /\ Along(d2, c - a2) = y0
            \/ Along(d2, p2 - a2) > y1 /\ Along(d2, c - a2) = y1
        <5>1. /\ d2 \in Int /\ a2 \in Int /\ n \in Nat /\ p2 \in Int /\ c \in Int
              /\ y0 \in Int /\ y1 \in Int /\ y0 = Low(d2, a2, n) /\ y1 = High(d2, a2, n)
              /\ (p2 < 0 /\ c = 0) \/ (p2 > n - 1 /\ c = n - 1)
          BY <1>5, <1>9
        <5> QED BY ONLY <5>1 DEF Along, Low, High
      <4> QED BY <4>2, <4>3
    <3> QED BY <1>3, <1>5, <2>1, <2>2, <3>1
  <2>4. u2 \in 0..w BY <2>3, ColumnInBox
  <2>5. PICK z : z = <<a1 + k, c>> OBVIOUS
  <2>6. z \in Int \X Int /\ z[2] = c /\ z[1] = a1 + k /\ z[1] - a1 = k BY <2>5
  <2>7. Columns(a, b, z) = u2 /\ Rows(a, b, z) = v2 /\ Rows(a, b, p) = v
    BY <1>1, <1>2, <2>2, <2>6 DEF Columns, Rows
  <2>8. InBox(a, b, w, h, z) BY <2>3, <2>4, <2>6, <2>7 DEF InBox
  <2>9. Moves(w, h, x0, x1, y0, y1, Columns(a, b, p), v, u2, v2) BY <2>3 DEF Moves
  <2> QED BY <2>1, <2>5, <2>7, <2>8, <2>9
<1> HIDE DEF Goal
<1>10. 0 \in Int /\ m - 1 \in Int /\ n - 1 \in Int OBVIOUS
<1>11. CASE "TOP" \in OutCode(p)
  <2>1. p2 < 0 /\ ~(q2 < 0) BY <1>7, <1>11
  <2>2. r = <<a1 + DivideRoundNearest(d1 * (0 - a2), d2), 0>>
    <3>1. "BOTTOM" \notin OutCode(p) BY <1>2, <1>11 DEF OutCode
    <3> QED BY <1>1, <1>11, <3>1 DEF Crossing
  <2>3. Goal(r) BY <1>9, <1>10, <2>1, <2>2
  <2> QED BY <2>3 DEF Goal
<1>12. CASE "BOTTOM" \in OutCode(p)
  <2>1. p2 > n - 1 /\ ~(q2 > n - 1) BY <1>7, <1>12
  <2>2. r = <<a1 + DivideRoundNearest(d1 * (n - 1 - a2), d2), n - 1>>
    <3>1. "TOP" \notin OutCode(p) BY <1>2, <1>12 DEF OutCode
    <3> QED BY <1>1, <1>4, <1>12, <3>1 DEF Crossing
  <2>3. Goal(r) BY <1>9, <1>10, <2>1, <2>2
  <2> QED BY <2>3 DEF Goal
<1>13. CASE OutCode(p) = {"RIGHT"}
  <2>1. p1 > m - 1 /\ ~(q1 > m - 1) BY <1>7, <1>13
  <2>2. r = <<m - 1, a2 + DivideRoundNearest(d2 * (m - 1 - a1), d1)>>
    BY <1>1, <1>4, <1>13 DEF Crossing
  <2>3. Goal(r) BY <1>8, <1>10, <2>1, <2>2
  <2> QED BY <2>3 DEF Goal
<1>14. CASE OutCode(p) = {"LEFT"}
  <2>1. p1 < 0 /\ ~(q1 < 0) BY <1>7, <1>14
  <2>2. r = <<0, a2 + DivideRoundNearest(d2 * (0 - a1), d1)>> BY <1>1, <1>14 DEF Crossing
  <2>3. Goal(r) BY <1>8, <1>10, <2>1, <2>2
  <2> QED BY <2>3 DEF Goal
<1>15. \/ "TOP" \in OutCode(p) \/ "BOTTOM" \in OutCode(p)
       \/ OutCode(p) = {"RIGHT"} \/ OutCode(p) = {"LEFT"}
  <2>1. ~("LEFT" \in OutCode(p) /\ "RIGHT" \in OutCode(p)) BY <1>2 DEF OutCode
  <2> QED BY <1>7, <2>1
<1> QED BY <1>11, <1>12, <1>13, <1>14, <1>15

\* The out codes, counted along the line.
LEMMA CodesAlong ==
  ASSUME NEW a \in Int \X Int, NEW b \in Int \X Int,
         NEW w \in Nat, NEW h \in Nat,
         NEW x0 \in Int, NEW x1 \in Int, NEW y0 \in Int, NEW y1 \in Int,
         Frame(a, b, w, h, x0, x1, y0, y1),
         NEW p \in Int \X Int, NEW q \in Int \X Int,
         NEW u, NEW v, NEW s, NEW t,
         u = Columns(a, b, p), v = Rows(a, b, p), s = Columns(a, b, q), t = Rows(a, b, q)
  PROVE  /\ u \in Int /\ v \in Int
         /\ OutCode(p) = {} <=> u \in x0..x1 /\ v \in y0..y1
         /\ OutCode(p) \cap OutCode(q) # {} <=>
              \/ (u < x0 /\ s < x0) \/ (u > x1 /\ s > x1)
              \/ (v < y0 /\ t < y0) \/ (v > y1 /\ t > y1)
<1>1. PICK a1 \in Int, a2 \in Int, d1 \in Int, d2 \in Int :
        a[1] = a1 /\ a[2] = a2 /\ b[1] - a[1] = d1 /\ b[2] - a[2] = d2
  OBVIOUS
<1>2. PICK p1 \in Int, p2 \in Int, q1 \in Int, q2 \in Int :
        p[1] = p1 /\ p[2] = p2 /\ q[1] = q1 /\ q[2] = q2
  OBVIOUS
<1>3. PICK m \in Nat, n \in Nat : m = Width /\ n = Height BY Dimensions
<1>4. /\ x0 = Low(d1, a1, m) /\ x1 = High(d1, a1, m)
      /\ y0 = Low(d2, a2, n) /\ y1 = High(d2, a2, n)
  BY <1>1, <1>3 DEF Frame
<1>5. /\ u = Along(d1, p1 - a1) /\ v = Along(d2, p2 - a2)
      /\ s = Along(d1, q1 - a1) /\ t = Along(d2, q2 - a2)
  BY <1>1, <1>2 DEF Columns, Rows
<1>6. /\ OutCode(p) \subseteq {"LEFT", "RIGHT", "TOP", "BOTTOM"}
      /\ "LEFT" \in OutCode(p) <=> p1 < 0
      /\ "RIGHT" \in OutCode(p) <=> p1 > m - 1
      /\ "TOP" \in OutCode(p) <=> p2 < 0
      /\ "BOTTOM" \in OutCode(p) <=> p2 > n - 1
  BY <1>2, <1>3, OutCodes
<1>7. /\ "LEFT" \in OutCode(q) <=> q1 < 0
      /\ "RIGHT" \in OutCode(q) <=> q1 > m - 1
      /\ "TOP" \in OutCode(q) <=> q2 < 0
      /\ "BOTTOM" \in OutCode(q) <=> q2 > n - 1
  BY <1>2, <1>3, OutCodes
<1>8. /\ u \in Int /\ v \in Int
      /\ p1 < 0 \/ p1 > m - 1 <=> u < x0 \/ u > x1
      /\ p2 < 0 \/ p2 > n - 1 <=> v < y0 \/ v > y1
      /\ (p1 < 0 /\ q1 < 0) \/ (p1 > m - 1 /\ q1 > m - 1) <=> (u < x0 /\ s < x0) \/ (u > x1 /\ s > x1)
      /\ (p2 < 0 /\ q2 < 0) \/ (p2 > n - 1 /\ q2 > n - 1) <=> (v < y0 /\ t < y0) \/ (v > y1 /\ t > y1)
  <2>1. /\ u \in Int
        /\ p1 < 0 \/ p1 > m - 1 <=> u < x0 \/ u > x1
        /\ (p1 < 0 /\ q1 < 0) \/ (p1 > m - 1 /\ q1 > m - 1)
             <=> (u < x0 /\ s < x0) \/ (u > x1 /\ s > x1)
    BY <1>4, <1>5 DEF Along, Low, High
  <2>2. /\ v \in Int
        /\ p2 < 0 \/ p2 > n - 1 <=> v < y0 \/ v > y1
        /\ (p2 < 0 /\ q2 < 0) \/ (p2 > n - 1 /\ q2 > n - 1)
             <=> (v < y0 /\ t < y0) \/ (v > y1 /\ t > y1)
    BY <1>4, <1>5 DEF Along, Low, High
  <2> QED BY <2>1, <2>2
<1>9. OutCode(p) = {} <=> ~(p1 < 0 \/ p1 > m - 1) /\ ~(p2 < 0 \/ p2 > n - 1) BY <1>6
<1>10. OutCode(p) \cap OutCode(q) # {} <=>
         \/ (p1 < 0 /\ q1 < 0) \/ (p1 > m - 1 /\ q1 > m - 1)
         \/ (p2 < 0 /\ q2 < 0) \/ (p2 > n - 1 /\ q2 > n - 1)
  BY <1>6, <1>7
<1>11. OutCode(p) = {} <=> u \in x0..x1 /\ v \in y0..y1 BY <1>8, <1>9
<1> QED BY <1>8, <1>10, <1>11

ClipEnds(a, b, w, h) ==
  {t \in [p : Int \X Int, q : Int \X Int] : InBox(a, b, w, h, t.p) /\ InBox(a, b, w, h, t.q)}

\* A round of the clipping loop moves one endpoint, while neither both are on the display
\* nor both beyond the same border.
ClipRound(a, b, w, h, x0, x1, y0, y1, t, s) ==
  \/ /\ s = t
     /\ OutCode(t.p) \cup OutCode(t.q) = {} \/ OutCode(t.p) \cap OutCode(t.q) # {}
  \/ /\ s.q = t.q /\ OutCode(t.p) # {} /\ OutCode(t.p) \cap OutCode(t.q) = {}
     /\ Moves(w, h, x0, x1, y0, y1, Columns(a, b, t.p), Rows(a, b, t.p),
              Columns(a, b, s.p), Rows(a, b, s.p))
  \/ /\ s.p = t.p /\ OutCode(t.p) = {} /\ OutCode(t.q) # {}
     /\ Moves(w, h, x0, x1, y0, y1, Columns(a, b, t.q), Rows(a, b, t.q),
              Columns(a, b, s.q), Rows(a, b, s.q))

\* What one iteration of the clipping loop does to the ends.
LEMMA ClipStepMoves ==
  ASSUME NEW a \in Int \X Int, NEW b \in Int \X Int,
         NEW w \in Nat, NEW h \in Nat,
         NEW x0 \in Int, NEW x1 \in Int, NEW y0 \in Int, NEW y1 \in Int,
         Frame(a, b, w, h, x0, x1, y0, y1), NEW t \in ClipEnds(a, b, w, h)
  PROVE  /\ ClipStep(a, b, t) \in ClipEnds(a, b, w, h)
         /\ ClipRound(a, b, w, h, x0, x1, y0, y1, t, ClipStep(a, b, t))
<1>1. /\ t \in [p : Int \X Int, q : Int \X Int]
      /\ InBox(a, b, w, h, t.p) /\ InBox(a, b, w, h, t.q)
  BY DEF ClipEnds
<1>2. PICK p \in Int \X Int, q \in Int \X Int : t = [p |-> p, q |-> q] /\ t.p = p /\ t.q = q
  BY <1>1
<1>3. CASE OutCode(p) \cup OutCode(q) = {} \/ OutCode(p) \cap OutCode(q) # {}
  <2>1. ClipStep(a, b, t) = t BY <1>2, <1>3 DEF ClipStep
  <2> QED BY <1>2, <1>3, <2>1 DEF ClipRound
<1>4. CASE OutCode(p) # {} /\ OutCode(p) \cap OutCode(q) = {}
  <2>1. PICK r : r = Crossing(a, b, OutCode(p)) OBVIOUS
  <2>2. ClipStep(a, b, t) = [p |-> r, q |-> q] BY <1>2, <1>4, <2>1 DEF ClipStep
  <2>3. /\ InBox(a, b, w, h, r)
        /\ Moves(w, h, x0, x1, y0, y1, Columns(a, b, p), Rows(a, b, p),
                 Columns(a, b, r), Rows(a, b, r))
    <3>1. InBox(a, b, w, h, p) /\ InBox(a, b, w, h, q) BY <1>1, <1>2
    <3> QED BY <1>4, <2>1, <3>1, CrossingMoves
  <2>4. r \in Int \X Int BY <2>3 DEF InBox
  <2>5. [p |-> r, q |-> q] \in ClipEnds(a, b, w, h) BY <1>1, <1>2, <2>3, <2>4 DEF ClipEnds
  <2> QED BY <1>2, <1>4, <2>2, <2>3, <2>5 DEF ClipRound
<1>5. CASE OutCode(p) = {} /\ OutCode(q) # {}
  <2>1. PICK r : r = Crossing(a, b, OutCode(q)) OBVIOUS
  <2>2. ClipStep(a, b, t) = [p |-> p, q |-> r] BY <1>2, <1>5, <2>1 DEF ClipStep
  <2>3. /\ InBox(a, b, w, h, r)
        /\ Moves(w, h, x0, x1, y0, y1, Columns(a, b, q), Rows(a, b, q),
                 Columns(a, b, r), Rows(a, b, r))
    <3>1. InBox(a, b, w, h, p) /\ InBox(a, b, w, h, q) BY <1>1, <1>2
    <3>2. OutCode(q) \cap OutCode(p) = {} BY <1>5
    <3> QED BY <1>5, <2>1, <3>1, <3>2, CrossingMoves
  <2>4. r \in Int \X Int BY <2>3 DEF InBox
  <2>5. [p |-> p, q |-> r] \in ClipEnds(a, b, w, h) BY <1>1, <1>2, <2>3, <2>4 DEF ClipEnds
  <2> QED BY <1>2, <1>5, <2>2, <2>3, <2>5 DEF ClipRound
<1> QED BY <1>3, <1>4, <1>5

ClipRun(t, a, b, w, h) ==
  /\ t \in [0..MaxClips -> ClipEnds(a, b, w, h)] /\ t[0] = [p |-> a, q |-> b]
  /\ \A i \in 1..MaxClips : t[i] = ClipStep(a, b, t[i - 1])

\* The endpoints as the line counts them.
LEMMA EndsInBox ==
  ASSUME NEW a \in Int \X Int, NEW b \in Int \X Int,
         NEW w \in Nat, NEW h \in Nat,
         NEW x0 \in Int, NEW x1 \in Int, NEW y0 \in Int, NEW y1 \in Int,
         Frame(a, b, w, h, x0, x1, y0, y1)
  PROVE  /\ Columns(a, b, a) = 0 /\ Rows(a, b, a) = 0
         /\ Columns(a, b, b) = w /\ Rows(a, b, b) = h
         /\ [p |-> a, q |-> b] \in ClipEnds(a, b, w, h)
<1>1. PICK a1 \in Int, a2 \in Int, d1 \in Int, d2 \in Int :
        /\ a[1] = a1 /\ a[2] = a2 /\ b[1] - a[1] = d1 /\ b[2] - a[2] = d2
        /\ w = Abs(d1) /\ h = Abs(d2)
  BY DEF Frame
<1>2. \A d \in Int, c \in Int : Along(d, c - c) = 0
  <2> TAKE d \in Int, c \in Int
  <2>1. PICK z \in Int : z = c - c /\ z <= 0 /\ z >= 0 OBVIOUS
  <2>2. -z = 0 /\ z = 0
    <3>1. z \in Int /\ z <= 0 /\ z >= 0 BY <2>1
    <3> QED BY ONLY <3>1
  <2>3. Along(d, z) = 0 BY <2>2 DEF Along
  <2> QED BY <2>1, <2>3
<1>3. Columns(a, b, a) = 0 /\ Rows(a, b, a) = 0 BY <1>1, <1>2 DEF Columns, Rows
<1>4. Columns(a, b, b) = w /\ Rows(a, b, b) = h
  <2>1. \A d \in Int : Along(d, d) = Abs(d) BY DEF Along, Abs
  <2> QED BY <1>1, <2>1 DEF Columns, Rows
<1>5. 0 \in 0..w /\ w \in 0..w /\ 0 \in 0..h /\ h \in 0..h OBVIOUS
<1>6. InBox(a, b, w, h, a) /\ InBox(a, b, w, h, b) BY <1>3, <1>4, <1>5 DEF InBox
<1> QED BY <1>3, <1>4, <1>6 DEF ClipEnds

\* The loop does what its recursive definition says.
LEMMA ClipLoopRuns ==
  ASSUME NEW a \in Int \X Int, NEW b \in Int \X Int,
         NEW w \in Nat, NEW h \in Nat,
         NEW x0 \in Int, NEW x1 \in Int, NEW y0 \in Int, NEW y1 \in Int,
         Frame(a, b, w, h, x0, x1, y0, y1), NEW t, t = ClipLoop(a, b)
  PROVE  ClipRun(t, a, b, w, h)
<1> DEFINE S == ClipEnds(a, b, w, h)
           first == [p |-> a, q |-> b]
           next == [z \in S \X (1..MaxClips) |-> ClipStep(a, b, z[1])]
           Rule(f) == f = [i \in 0..MaxClips |-> IF i = 0 THEN first ELSE ClipStep(a, b, f[i - 1])]
<1>1. first \in S BY EndsInBox
<1>2. \A s \in S : ClipStep(a, b, s) \in S BY ClipStepMoves
<1>3. next \in [S \X (1..MaxClips) -> S] BY <1>2
<1>4. MaxClips \in Nat BY DEF MaxClips
<1>5. PICK run \in [0..MaxClips -> S] : Runs(run, MaxClips, first, next)
  <2> HIDE DEF first, next, S
  <2> QED BY <1>1, <1>3, <1>4, LoopRuns
<1>6. t = CHOOSE f : Rule(f) BY DEF ClipLoop
<1>7. Rule(run)
  <2>1. \A i \in 1..MaxClips : next[<<run[i - 1], i>>] = ClipStep(a, b, run[i - 1])
    <3> TAKE i \in 1..MaxClips
    <3>1. i - 1 \in 0..MaxClips BY <1>4
    <3>2. <<run[i - 1], i>> \in S \X (1..MaxClips) BY <3>1
    <3> HIDE DEF S
    <3> QED BY <3>2
  <2> HIDE DEF first, next, S
  <2>2. \A i \in 0..MaxClips : i = 0 \/ i \in 1..MaxClips BY <1>4
  <2> QED BY <1>5, <2>1, <2>2 DEF Runs
<1> HIDE DEF S, first
<1>8. Rule(t) BY <1>6, <1>7
<1>9. \A i \in 1..MaxClips : t[i] = ClipStep(a, b, t[i - 1])
  <2> TAKE i \in 1..MaxClips
  <2>1. i \in 0..MaxClips /\ i # 0 BY <1>4
  <2> QED BY <1>8, <2>1
<1>10. t[0] = first BY <1>4, <1>8
<1>11. \A i \in 0..MaxClips : t[i] \in S
  <2> DEFINE P == {i \in 0..MaxClips : t[i] \in S}
  <2>1. 0 \in P BY <1>1, <1>4, <1>10
  <2>2. ASSUME NEW i \in 1..MaxClips, i - 1 \in P PROVE i \in P
    <3>1. t[i] \in S BY <1>2, <1>9, <2>2
    <3>2. i \in 0..MaxClips BY <1>4
    <3> QED BY <3>1, <3>2
  <2>3. 0..MaxClips \subseteq P
    <3> HIDE DEF P
    <3> QED BY <1>4, <2>1, <2>2, EveryRound
  <2> QED BY <2>3
<1>12. t = [i \in 0..MaxClips |-> t[i]] BY <1>8
<1>13. t \in [0..MaxClips -> S] BY <1>11, <1>12
<1> QED BY <1>9, <1>10, <1>13 DEF first, S, ClipRun

-----------------------------------------------------------------------------
\* Lines: what clipping keeps

\* Both endpoints are rounded, the second one moves after the first one, and the first
\* one is rounded up by a half only on the border that the line enters the display by.
Settled(w, h, x0, x1, y0, y1, u, v, s, t) ==
  /\ Rounded(w, h, u, v) /\ Rounded(w, h, s, t)
  /\ (s = w /\ t = h) \/ (u \in x0..x1 /\ v \in y0..y1)
  /\ w >= h /\ 2 * (w * v - h * u) = w => u = x0
  /\ h >= w /\ 2 * (h * u - w * v) = h => v = y0

\* The line's own endpoints are settled.
LEMMA SettledAtFirst ==
  ASSUME NEW w \in Nat, NEW h \in Nat, w > 0 \/ h > 0,
         NEW x0 \in Int, NEW x1 \in Int, NEW y0 \in Int, NEW y1 \in Int
  PROVE  Settled(w, h, x0, x1, y0, y1, 0, 0, w, h)
<1>1. /\ 2 * (w * 0 - h * 0) = 0 /\ 2 * (h * 0 - w * 0) = 0
      /\ 2 * (w * h - h * w) = 0 /\ 2 * (h * w - w * h) = 0
  OBVIOUS
<1>2. w > 0 => OnColumn(w, h, 0, 0) /\ OnColumn(w, h, w, h) BY <1>1 DEF OnColumn
<1>3. h > 0 => OnColumn(h, w, 0, 0) /\ OnColumn(h, w, h, w) BY <1>1 DEF OnColumn
<1>4. Rounded(w, h, 0, 0) /\ Rounded(w, h, w, h) BY <1>2, <1>3 DEF Rounded
<1>5. (w >= h => w # 0) /\ (h >= w => h # 0) OBVIOUS
<1> QED BY <1>1, <1>4, <1>5 DEF Settled

\* A clip leaves a rounded endpoint.
LEMMA RoundedBySides ==
  ASSUME NEW w \in Nat, NEW h \in Nat,
         NEW x0 \in Int, NEW x1 \in Int, NEW y0 \in Int, NEW y1 \in Int,
         NEW u \in Int, NEW v \in Int, NEW u2 \in 0..w, NEW v2 \in 0..h,
         Moves(w, h, x0, x1, y0, y1, u, v, u2, v2)
  PROVE  Rounded(w, h, u2, v2)
BY DEF Moves, Rounded

\* The first endpoint moves while the second is at its end, so that no border it may be
\* beyond is one that the line leaves the display by.
LEMMA SettledByFirst ==
  ASSUME NEW w \in Nat, NEW h \in Nat,
         NEW x0 \in Int, NEW x1 \in Int, NEW y0 \in Int, NEW y1 \in Int,
         NEW u \in 0..w, NEW v \in 0..h, NEW s, NEW t,
         Settled(w, h, x0, x1, y0, y1, u, v, s, t),
         ~(u \in x0..x1 /\ v \in y0..y1), ~(u > x1 /\ s > x1), ~(v > y1 /\ t > y1),
         NEW u2 \in 0..w, NEW v2 \in 0..h, Moves(w, h, x0, x1, y0, y1, u, v, u2, v2)
  PROVE  Settled(w, h, x0, x1, y0, y1, u2, v2, s, t)
<1>1. s = w /\ t = h BY DEF Settled
<1>2. ~(u > x1) /\ ~(v > y1) BY <1>1
<1>3. Rounded(w, h, u2, v2) /\ Rounded(w, h, s, t)
  <2>1. u \in Int /\ v \in Int OBVIOUS
  <2> QED BY <2>1, RoundedBySides DEF Settled
<1>4. PICK l \in Int, k \in Int : l = w * v2 - h * u2 /\ k = h * u2 - w * v2 OBVIOUS
<1>5. k = -l BY <1>4
<1>6. \/ u2 = x0 /\ w > 0 /\ 2 * l >= 1 - w /\ 2 * l <= w
      \/ v2 = y0 /\ h > 0 /\ 2 * k >= 1 - h /\ 2 * k <= h
  BY <1>2, <1>4 DEF Moves, OnColumn
<1>7. w >= h /\ 2 * l = w => u2 = x0 BY <1>5, <1>6
<1>8. h >= w /\ 2 * k = h => v2 = y0 BY <1>5, <1>6
<1> QED BY <1>1, <1>3, <1>4, <1>7, <1>8 DEF Settled

\* The second endpoint moves only when the first one is on the display.
LEMMA SettledBySecond ==
  ASSUME NEW w \in Nat, NEW h \in Nat,
         NEW x0 \in Int, NEW x1 \in Int, NEW y0 \in Int, NEW y1 \in Int,
         NEW u, NEW v, NEW s \in 0..w, NEW t \in 0..h,
         Settled(w, h, x0, x1, y0, y1, u, v, s, t), u \in x0..x1, v \in y0..y1,
         NEW s2 \in 0..w, NEW t2 \in 0..h, Moves(w, h, x0, x1, y0, y1, s, t, s2, t2)
  PROVE  Settled(w, h, x0, x1, y0, y1, u, v, s2, t2)
<1>1. s \in Int /\ t \in Int OBVIOUS
<1>2. Rounded(w, h, s2, t2) BY <1>1, RoundedBySides
<1> QED BY <1>2 DEF Settled

-----------------------------------------------------------------------------
\* A pixel at most half a pixel from the line in its column.
NearLine(w, h, u, v) == w > 0 /\ 2 * (w * v - h * u) \in (-w)..w

\* The pixel is near the line, and not further along it than its point i of m.
Behind(w, h, m, i, u, v) ==
  \/ NearLine(w, h, u, v) /\ m * u <= w * i
  \/ NearLine(h, w, v, u) /\ m * v <= h * i

\* Not beyond a column or a row that the point is not beyond.
LEMMA RowBehind ==
  ASSUME NEW w \in Nat, NEW h \in Nat, NEW m \in Nat, m > 0, NEW i \in Nat,
         NEW u \in Int, NEW v \in Int, NearLine(w, h, u, v), m * u <= w * i,
         NEW y \in Int, h * i <= m * y
  PROVE  v <= y
<1>1. w > 0 /\ 2 * (w * v - h * u) <= w BY DEF NearLine
<1>2. PICK p \in Int, q \in Int, r \in Int, z \in Int :
        p = w * v /\ q = h * u /\ r = h * (w * i) /\ z = w * (m * y)
  OBVIOUS
<1>3. 2 * p - 2 * q <= w BY <1>1, <1>2
<1>4. m * q <= r
  <2>1. h * (m * u) <= h * (w * i) OBVIOUS
  <2>2. h * (m * u) = m * (h * u) OBVIOUS
  <2> QED BY <1>2, <2>1, <2>2
<1>5. r <= z
  <2>1. w * (h * i) <= w * (m * y) OBVIOUS
  <2>2. w * (h * i) = h * (w * i) OBVIOUS
  <2> QED BY <1>2, <2>1, <2>2
<1>6. SUFFICES ASSUME v >= y + 1 PROVE FALSE OBVIOUS
<1>7. m * p >= z + w * m
  <2>1. PICK g \in Nat : g = m * w OBVIOUS
  <2>2. g * v >= g * (y + 1) BY <1>6, <2>1
  <2>3. g * v = m * (w * v) /\ g * (y + 1) = w * (m * y) + w * m BY <2>1
  <2> QED BY <1>2, <2>2, <2>3
<1>8. m * (2 * p - 2 * q) <= m * w BY <1>3
<1>9. m * (2 * p - 2 * q) = 2 * (m * p) - 2 * (m * q) OBVIOUS
<1>10. m * w > 0 BY <1>1
<1>11. m * p \in Int /\ m * q \in Int /\ m * w \in Int /\ w * m = m * w OBVIOUS
<1> QED BY <1>2, <1>4, <1>5, <1>7, <1>8, <1>9, <1>10, <1>11

LEMMA NotBeyond ==
  ASSUME NEW w \in Nat, NEW h \in Nat, NEW m \in Nat, m > 0, NEW i \in Nat,
         NEW u \in Int, NEW v \in Int, Behind(w, h, m, i, u, v),
         NEW x \in Int, NEW y \in Int, w * i <= m * x, h * i <= m * y
  PROVE  u <= x /\ v <= y
<1>1. \A k, z \in Int : m * k <= m * z => k <= z
  <2> TAKE k, z \in Int
  <2>1. k >= z + 1 => m * k >= m * (z + 1) OBVIOUS
  <2>2. m * (z + 1) = m * z + m OBVIOUS
  <2>3. m * k \in Int /\ m * z \in Int OBVIOUS
  <2> QED BY <2>1, <2>2, <2>3
<1>2. PICK p \in Int, q \in Int, c \in Int, r \in Int :
        p = m * u /\ q = m * v /\ c = w * i /\ r = h * i
  OBVIOUS
<1>3. CASE NearLine(w, h, u, v) /\ m * u <= w * i
  <2>1. v <= y BY <1>3, RowBehind
  <2>2. m * u <= m * x BY <1>2, <1>3
  <2> QED BY <1>1, <2>1, <2>2
<1>4. CASE NearLine(h, w, v, u) /\ m * v <= h * i
  <2>1. u <= x BY <1>4, RowBehind
  <2>2. m * v <= m * y BY <1>2, <1>4
  <2> QED BY <1>1, <2>1, <2>2
<1> QED BY <1>3, <1>4 DEF Behind

\* From one such pixel to one further along in its columns, the rows do not go back.
LEMMA RowGoesOn ==
  ASSUME NEW w \in Nat, NEW h \in Nat, NEW u \in Int, NEW v \in Int, NEW u2 \in Int, NEW v2 \in Int,
         NearLine(w, h, u, v) \/ NearLine(h, w, v, u), NearLine(w, h, u2, v2), u2 > u
  PROVE  v2 >= v
<1>1. PICK p \in Int, q \in Int, p2 \in Int, q2 \in Int :
        p = w * v /\ q = h * u /\ p2 = w * v2 /\ q2 = h * u2
  OBVIOUS
<1>2. w > 0 /\ 2 * (p2 - q2) >= -w BY <1>1 DEF NearLine
<1>3. q2 >= q + h
  <2>1. h * u2 >= h * (u + 1) OBVIOUS
  <2> QED BY <1>1, <2>1
<1>4. SUFFICES ASSUME v >= v2 + 1 PROVE FALSE OBVIOUS
<1>5. p >= p2 + w
  <2>1. w * v >= w * (v2 + 1) BY <1>4
  <2> QED BY <1>1, <2>1
<1>6. CASE NearLine(w, h, u, v)
  <2>1. 2 * (p - q) <= w BY <1>1, <1>6 DEF NearLine
  <2>2. h = 0 BY <1>2, <1>3, <1>5, <2>1
  <2>3. q = 0 /\ q2 = 0 BY <1>1, <2>2
  <2>4. ASSUME v >= 1 PROVE FALSE
    <3>1. w * v >= w * 1 BY <2>4
    <3> QED BY <1>1, <1>2, <2>1, <2>3, <3>1
  <2>5. ASSUME v2 <= -1 PROVE FALSE
    <3>1. w * v2 <= w * (-1) BY <2>5
    <3> QED BY <1>1, <1>2, <2>3, <3>1
  <2> QED BY <1>4, <2>4, <2>5
<1>7. CASE NearLine(h, w, v, u)
  <2>1. h > 0 /\ 2 * (q - p) >= -h BY <1>1, <1>7 DEF NearLine
  <2> QED BY <1>2, <1>3, <1>5, <2>1
<1> QED BY <1>6, <1>7

\* The borders that an endpoint is still to be moved to.
Todo(x0, y0, u, v) == (IF u < x0 THEN 1 ELSE 0) + (IF v < y0 THEN 1 ELSE 0)

\* The same clip, seen from either end of the line.
MovesNear(w, h, x0, x1, y0, y1, u, v, u2, v2) ==
  \/ ((u < x0 /\ u2 = x0) \/ (u > x1 /\ u2 = x1)) /\ NearLine(w, h, u2, v2)
  \/ ((v < y0 /\ v2 = y0) \/ (v > y1 /\ v2 = y1)) /\ NearLine(h, w, v2, u2)

\* The point i of m of the line is on the display.
OnDisplay(w, h, x0, x1, y0, y1, m, i) ==
  m * x0 <= w * i /\ w * i <= m * x1 /\ m * y0 <= h * i /\ h * i <= m * y1

\* A clip takes the first endpoint on towards the point, never beyond it.
LEMMA ClipApproaches ==
  ASSUME NEW w \in Nat, NEW h \in Nat,
         NEW x0 \in Int, NEW x1 \in Int, NEW y0 \in Int, NEW y1 \in Int,
         NEW m \in Nat, m > 0, NEW i \in Nat, OnDisplay(w, h, x0, x1, y0, y1, m, i),
         NEW u \in Int, NEW v \in Int, Behind(w, h, m, i, u, v),
         NEW u2 \in Int, NEW v2 \in Int, MovesNear(w, h, x0, x1, y0, y1, u, v, u2, v2)
  PROVE  Behind(w, h, m, i, u2, v2) /\ Todo(x0, y0, u2, v2) < Todo(x0, y0, u, v)
<1>1. u <= x1 /\ v <= y1
  <2>1. w * i <= m * x1 /\ h * i <= m * y1 BY DEF OnDisplay
  <2> QED BY <2>1, NotBeyond
<1>2. NearLine(w, h, u, v) \/ NearLine(h, w, v, u) BY DEF Behind
<1>3. CASE u < x0 /\ u2 = x0 /\ NearLine(w, h, u2, v2)
  <2>1. v2 >= v BY <1>2, <1>3, RowGoesOn
  <2>2. Behind(w, h, m, i, u2, v2) BY <1>3 DEF Behind, OnDisplay
  <2> QED BY <1>3, <2>1, <2>2 DEF Todo
<1>4. CASE v < y0 /\ v2 = y0 /\ NearLine(h, w, v2, u2)
  <2>1. u2 >= u BY <1>2, <1>4, RowGoesOn
  <2>2. Behind(w, h, m, i, u2, v2) BY <1>4 DEF Behind, OnDisplay
  <2> QED BY <1>4, <2>1, <2>2 DEF Todo
<1> QED BY <1>1, <1>3, <1>4 DEF MovesNear

\* The line counted from its other end.
LEMMA FromOtherEnd ==
  ASSUME NEW w \in Nat, NEW h \in Nat,
         NEW x0 \in Int, NEW x1 \in Int, NEW y0 \in Int, NEW y1 \in Int,
         NEW m \in Nat, NEW i \in 0..m, OnDisplay(w, h, x0, x1, y0, y1, m, i)
  PROVE  OnDisplay(w, h, w - x1, w - x0, h - y1, h - y0, m, m - i)
<1>1. PICK a \in Int, b \in Int, c \in Int, d \in Int, p \in Int, q \in Int, k \in Int, l \in Int :
        /\ a = m * x0 /\ b = m * x1 /\ c = m * y0 /\ d = m * y1
        /\ p = w * i /\ q = h * i /\ k = w * m /\ l = h * m
  OBVIOUS
<1>2. a <= p /\ p <= b /\ c <= q /\ q <= d BY <1>1 DEF OnDisplay
<1>3. /\ m * (w - x1) = k - b /\ m * (w - x0) = k - a
      /\ m * (h - y1) = l - d /\ m * (h - y0) = l - c
      /\ w * (m - i) = k - p /\ h * (m - i) = l - q
  BY <1>1
<1> QED BY <1>2, <1>3 DEF OnDisplay

\* A clip, seen from the first endpoint and from the second one.
LEMMA ClipFromFirst ==
  ASSUME NEW w \in Nat, NEW h \in Nat,
         NEW x0 \in Int, NEW x1 \in Int, NEW y0 \in Int, NEW y1 \in Int,
         NEW u \in Int, NEW v \in Int, NEW u2 \in Int, NEW v2 \in Int,
         Moves(w, h, x0, x1, y0, y1, u, v, u2, v2)
  PROVE  /\ MovesNear(w, h, x0, x1, y0, y1, u, v, u2, v2)
         /\ MovesNear(w, h, w - x1, w - x0, h - y1, h - y0, w - u, h - v, w - u2, h - v2)
<1>1. ASSUME OnColumn(w, h, u2, v2) PROVE NearLine(w, h, u2, v2) /\ NearLine(w, h, w - u2, h - v2)
  <2>1. PICK l \in Int : l = w * v2 - h * u2 OBVIOUS
  <2>2. w * (h - v2) - h * (w - u2) = -l BY <2>1
  <2> QED BY <1>1, <2>1, <2>2 DEF OnColumn, NearLine
<1>2. ASSUME OnColumn(h, w, v2, u2) PROVE NearLine(h, w, v2, u2) /\ NearLine(h, w, h - v2, w - u2)
  <2>1. PICK l \in Int : l = h * u2 - w * v2 OBVIOUS
  <2>2. h * (w - u2) - w * (h - v2) = -l BY <2>1
  <2> QED BY <1>2, <2>1, <2>2 DEF OnColumn, NearLine
<1> QED BY <1>1, <1>2 DEF Moves, MovesNear

\* Both ends, at most n clips before they are on the display.
Encloses(w, h, x0, x1, y0, y1, m, i, u, v, s, t, n) ==
  /\ Behind(w, h, m, i, u, v) /\ Behind(w, h, m, m - i, w - s, h - t)
  /\ Todo(x0, y0, u, v) + Todo(w - x1, h - y1, w - s, h - t) <= n

\* The line's own endpoints enclose each of its points, with four borders at most to clip.
LEMMA EnclosesAtFirst ==
  ASSUME NEW w \in Nat, NEW h \in Nat, w > 0 \/ h > 0,
         NEW x0 \in Int, NEW x1 \in Int, NEW y0 \in Int, NEW y1 \in Int,
         NEW m \in Nat, NEW i \in 0..m
  PROVE  Encloses(w, h, x0, x1, y0, y1, m, i, 0, 0, w, h, 4)
<1>1. w - w = 0 /\ h - h = 0 OBVIOUS
<1>2. \A k \in Nat : Behind(w, h, m, k, 0, 0)
  <2> TAKE k \in Nat
  <2>1. w * k >= 0 /\ h * k >= 0 /\ m * 0 = 0 OBVIOUS
  <2>2. w > 0 => NearLine(w, h, 0, 0) BY DEF NearLine
  <2>3. h > 0 => NearLine(h, w, 0, 0) BY DEF NearLine
  <2> QED BY <2>1, <2>2, <2>3 DEF Behind
<1>3. i \in Nat /\ m - i \in Nat OBVIOUS
<1>4. Todo(x0, y0, 0, 0) + Todo(w - x1, h - y1, 0, 0) <= 4 BY DEF Todo
<1> QED BY <1>1, <1>2, <1>3, <1>4 DEF Encloses

\* Ends that enclose a point of the display are never beyond the same border.
LEMMA EnclosesIsOn ==
  ASSUME NEW w \in Nat, NEW h \in Nat,
         NEW x0 \in Int, NEW x1 \in Int, NEW y0 \in Int, NEW y1 \in Int,
         NEW m \in Nat, m > 0, NEW i \in 0..m, OnDisplay(w, h, x0, x1, y0, y1, m, i),
         NEW u \in Int, NEW v \in Int, NEW s \in Int, NEW t \in Int, NEW n \in Int,
         Encloses(w, h, x0, x1, y0, y1, m, i, u, v, s, t, n)
  PROVE  u <= x1 /\ v <= y1 /\ s >= x0 /\ t >= y0
<1>1. OnDisplay(w, h, w - x1, w - x0, h - y1, h - y0, m, m - i) BY FromOtherEnd
<1>2. u <= x1 /\ v <= y1
  <2>1. i \in Nat /\ w * i <= m * x1 /\ h * i <= m * y1 BY DEF OnDisplay
  <2>2. Behind(w, h, m, i, u, v) BY DEF Encloses
  <2> QED BY <2>1, <2>2, NotBeyond
<1>3. w - s <= w - x0 /\ h - t <= h - y0
  <2>1. m - i \in Nat /\ w - s \in Int /\ h - t \in Int /\ w - x0 \in Int /\ h - y0 \in Int OBVIOUS
  <2>2. Behind(w, h, m, m - i, w - s, h - t) BY DEF Encloses
  <2>3. w * (m - i) <= m * (w - x0) /\ h * (m - i) <= m * (h - y0) BY <1>1 DEF OnDisplay
  <2> QED BY <2>1, <2>2, <2>3, NotBeyond
<1> QED BY <1>2, <1>3

\* With no clip left to do, both ends are on the display.
EndsOn(x0, x1, y0, y1, u, v, s, t) ==
  u \in x0..x1 /\ v \in y0..y1 /\ s \in x0..x1 /\ t \in y0..y1

LEMMA EnclosesOn ==
  ASSUME NEW w \in Nat, NEW h \in Nat,
         NEW x0 \in Int, NEW x1 \in Int, NEW y0 \in Int, NEW y1 \in Int,
         NEW m \in Nat, m > 0, NEW i \in 0..m, OnDisplay(w, h, x0, x1, y0, y1, m, i),
         NEW u \in Int, NEW v \in Int, NEW s \in Int, NEW t \in Int, NEW n \in Int,
         Encloses(w, h, x0, x1, y0, y1, m, i, u, v, s, t, n), n <= 0
  PROVE  EndsOn(x0, x1, y0, y1, u, v, s, t)
<1>1. u <= x1 /\ v <= y1 BY EnclosesIsOn
<1>2. s >= x0 /\ t >= y0 BY EnclosesIsOn
<1>3. u >= x0 /\ v >= y0 /\ w - s >= w - x1 /\ h - t >= h - y1 BY DEF Encloses, Todo
<1> QED BY <1>1, <1>2, <1>3 DEF EndsOn

\* A clip of the first endpoint leaves one border less; likewise one of the second.
LEMMA EnclosesByFirst ==
  ASSUME NEW w \in Nat, NEW h \in Nat,
         NEW x0 \in Int, NEW x1 \in Int, NEW y0 \in Int, NEW y1 \in Int,
         NEW m \in Nat, m > 0, NEW i \in 0..m, OnDisplay(w, h, x0, x1, y0, y1, m, i),
         NEW u \in Int, NEW v \in Int, NEW s \in Int, NEW t \in Int, NEW n \in Int,
         Encloses(w, h, x0, x1, y0, y1, m, i, u, v, s, t, n),
         NEW u2 \in Int, NEW v2 \in Int, Moves(w, h, x0, x1, y0, y1, u, v, u2, v2)
  PROVE  Encloses(w, h, x0, x1, y0, y1, m, i, u2, v2, s, t, n - 1)
<1>1. MovesNear(w, h, x0, x1, y0, y1, u, v, u2, v2) BY ClipFromFirst
<1>2. Behind(w, h, m, i, u, v) /\ i \in Nat BY DEF Encloses
<1>3. Behind(w, h, m, i, u2, v2) /\ Todo(x0, y0, u2, v2) < Todo(x0, y0, u, v)
  BY <1>1, <1>2, ClipApproaches
<1>4. /\ Todo(x0, y0, u, v) \in Int /\ Todo(x0, y0, u2, v2) \in Int
      /\ Todo(w - x1, h - y1, w - s, h - t) \in Int
  BY DEF Todo
<1> QED BY <1>3, <1>4 DEF Encloses

LEMMA EnclosesBySecond ==
  ASSUME NEW w \in Nat, NEW h \in Nat,
         NEW x0 \in Int, NEW x1 \in Int, NEW y0 \in Int, NEW y1 \in Int,
         NEW m \in Nat, m > 0, NEW i \in 0..m, OnDisplay(w, h, x0, x1, y0, y1, m, i),
         NEW u \in Int, NEW v \in Int, NEW s \in Int, NEW t \in Int, NEW n \in Int,
         Encloses(w, h, x0, x1, y0, y1, m, i, u, v, s, t, n),
         NEW s2 \in Int, NEW t2 \in Int, Moves(w, h, x0, x1, y0, y1, s, t, s2, t2)
  PROVE  Encloses(w, h, x0, x1, y0, y1, m, i, u, v, s2, t2, n - 1)
<1>1. MovesNear(w, h, w - x1, w - x0, h - y1, h - y0, w - s, h - t, w - s2, h - t2)
  BY ClipFromFirst
<1>2. OnDisplay(w, h, w - x1, w - x0, h - y1, h - y0, m, m - i) BY FromOtherEnd
<1>3. Behind(w, h, m, m - i, w - s, h - t) BY DEF Encloses
<1>4. /\ m - i \in Nat /\ w - s \in Int /\ h - t \in Int /\ w - s2 \in Int /\ h - t2 \in Int
      /\ w - x1 \in Int /\ w - x0 \in Int /\ h - y1 \in Int /\ h - y0 \in Int
  OBVIOUS
<1>5. /\ Behind(w, h, m, m - i, w - s2, h - t2)
      /\ Todo(w - x1, h - y1, w - s2, h - t2) < Todo(w - x1, h - y1, w - s, h - t)
  BY <1>1, <1>2, <1>3, <1>4, ClipApproaches
<1>6. /\ Todo(x0, y0, u, v) \in Int /\ Todo(w - x1, h - y1, w - s, h - t) \in Int
      /\ Todo(w - x1, h - y1, w - s2, h - t2) \in Int
  BY DEF Todo
<1> QED BY <1>5, <1>6 DEF Encloses

-----------------------------------------------------------------------------
\* Lines: the clipping loop

\* The endpoints of a round, as the line counts them.
EndsAre(a, b, t, u, v, s, r) ==
  /\ u = Columns(a, b, t.p) /\ v = Rows(a, b, t.p)
  /\ s = Columns(a, b, t.q) /\ r = Rows(a, b, t.q)

EndsSeen(a, b, x0, x1, y0, y1, t, u, v, s, r) ==
  /\ EndsAre(a, b, t, u, v, s, r)
  /\ OutCode(t.p) = {} <=> u \in x0..x1 /\ v \in y0..y1
  /\ OutCode(t.q) = {} <=> s \in x0..x1 /\ r \in y0..y1
  /\ OutCode(t.p) \cap OutCode(t.q) # {} <=>
       \/ (u < x0 /\ s < x0) \/ (u > x1 /\ s > x1)
       \/ (v < y0 /\ r < y0) \/ (v > y1 /\ r > y1)

\* The endpoints of a round are columns and rows of the line, and their codes say where.
LEMMA EndsOf ==
  ASSUME NEW a \in Int \X Int, NEW b \in Int \X Int,
         NEW w \in Nat, NEW h \in Nat,
         NEW x0 \in Int, NEW x1 \in Int, NEW y0 \in Int, NEW y1 \in Int,
         Frame(a, b, w, h, x0, x1, y0, y1), NEW t \in ClipEnds(a, b, w, h)
  PROVE  \E u \in 0..w, v \in 0..h, s \in 0..w, r \in 0..h :
           EndsSeen(a, b, x0, x1, y0, y1, t, u, v, s, r)
<1>1. InBox(a, b, w, h, t.p) /\ InBox(a, b, w, h, t.q) BY DEF ClipEnds
<1>2. PICK p \in Int \X Int, q \in Int \X Int : t.p = p /\ t.q = q BY <1>1 DEF InBox
<1>3. PICK u \in 0..w, v \in 0..h, s \in 0..w, r \in 0..h :
        u = Columns(a, b, p) /\ v = Rows(a, b, p) /\ s = Columns(a, b, q) /\ r = Rows(a, b, q)
  BY <1>1, <1>2 DEF InBox
<1>4. /\ OutCode(p) = {} <=> u \in x0..x1 /\ v \in y0..y1
      /\ OutCode(p) \cap OutCode(q) # {} <=>
           \/ (u < x0 /\ s < x0) \/ (u > x1 /\ s > x1)
           \/ (v < y0 /\ r < y0) \/ (v > y1 /\ r > y1)
  BY <1>3, CodesAlong
<1>5. OutCode(q) = {} <=> s \in x0..x1 /\ r \in y0..y1 BY <1>3, CodesAlong
<1>6. EndsAre(a, b, t, u, v, s, r) BY <1>2, <1>3 DEF EndsAre
<1>7. EndsSeen(a, b, x0, x1, y0, y1, t, u, v, s, r) BY <1>2, <1>4, <1>5, <1>6 DEF EndsSeen
<1> QED BY <1>7

\* Whatever the loop has done so far, its endpoints are settled.
LEMMA ClippedIsSettled ==
  ASSUME NEW a \in Int \X Int, NEW b \in Int \X Int,
         NEW w \in Nat, NEW h \in Nat,
         NEW x0 \in Int, NEW x1 \in Int, NEW y0 \in Int, NEW y1 \in Int,
         Frame(a, b, w, h, x0, x1, y0, y1), w > 0 \/ h > 0, NEW t, ClipRun(t, a, b, w, h)
  PROVE  \A u, v, s, r : EndsAre(a, b, t[MaxClips], u, v, s, r) =>
           Settled(w, h, x0, x1, y0, y1, u, v, s, r)
<1> DEFINE Good(e) == \A u, v, s, r : EndsAre(a, b, e, u, v, s, r) =>
                        Settled(w, h, x0, x1, y0, y1, u, v, s, r)
           P == {k \in 0..MaxClips : Good(t[k])}
<1>1. MaxClips \in Nat BY DEF MaxClips
<1>2. 0 \in P
  <2>1. t[0] = [p |-> a, q |-> b] BY DEF ClipRun
  <2>2. /\ Columns(a, b, a) = 0 /\ Rows(a, b, a) = 0
        /\ Columns(a, b, b) = w /\ Rows(a, b, b) = h
    BY EndsInBox
  <2>3. Settled(w, h, x0, x1, y0, y1, 0, 0, w, h) BY SettledAtFirst
  <2>4. Good(t[0]) BY <2>1, <2>2, <2>3 DEF EndsAre
  <2> QED BY <1>1, <2>4
<1>3. ASSUME NEW k \in 1..MaxClips, k - 1 \in P PROVE k \in P
  <2>1. k \in 0..MaxClips /\ k - 1 \in 0..MaxClips BY <1>1
  <2>2. PICK e \in ClipEnds(a, b, w, h), f \in ClipEnds(a, b, w, h) :
          /\ e = t[k - 1] /\ f = t[k] /\ f = ClipStep(a, b, e)
          /\ ClipRound(a, b, w, h, x0, x1, y0, y1, e, f)
    <3>1. t[k - 1] \in ClipEnds(a, b, w, h) /\ t[k] = ClipStep(a, b, t[k - 1])
      BY <2>1 DEF ClipRun
    <3> QED BY <3>1, ClipStepMoves
  <2>3. Good(e) BY <1>3, <2>2
  <2>4. PICK u \in 0..w, v \in 0..h, s \in 0..w, r \in 0..h :
          EndsSeen(a, b, x0, x1, y0, y1, e, u, v, s, r)
    BY EndsOf
  <2>5. PICK u2 \in 0..w, v2 \in 0..h, s2 \in 0..w, r2 \in 0..h :
          EndsAre(a, b, f, u2, v2, s2, r2)
    <3>1. \E u2 \in 0..w, v2 \in 0..h, s2 \in 0..w, r2 \in 0..h :
            EndsSeen(a, b, x0, x1, y0, y1, f, u2, v2, s2, r2)
      BY EndsOf
    <3> QED BY <3>1 DEF EndsSeen
  <2>6. /\ EndsAre(a, b, e, u, v, s, r)
        /\ OutCode(e.p) = {} <=> u \in x0..x1 /\ v \in y0..y1
        /\ OutCode(e.q) = {} <=> s \in x0..x1 /\ r \in y0..y1
        /\ OutCode(e.p) \cap OutCode(e.q) # {} <=>
             \/ (u < x0 /\ s < x0) \/ (u > x1 /\ s > x1)
             \/ (v < y0 /\ r < y0) \/ (v > y1 /\ r > y1)
    BY <2>4 DEF EndsSeen
  <2>7. Settled(w, h, x0, x1, y0, y1, u, v, s, r) BY <2>3, <2>6
  <2>8. Settled(w, h, x0, x1, y0, y1, u2, v2, s2, r2)
    <3>1. CASE f = e
      <4>1. u2 = u /\ v2 = v /\ s2 = s /\ r2 = r BY <2>6, <2>5, <3>1 DEF EndsAre
      <4> QED BY <2>7, <4>1
    <3>2. CASE /\ f.q = e.q /\ OutCode(e.p) # {} /\ OutCode(e.p) \cap OutCode(e.q) = {}
               /\ Moves(w, h, x0, x1, y0, y1, Columns(a, b, e.p), Rows(a, b, e.p),
                        Columns(a, b, f.p), Rows(a, b, f.p))
      <4>1. s2 = s /\ r2 = r BY <2>6, <2>5, <3>2 DEF EndsAre
      <4>2. Moves(w, h, x0, x1, y0, y1, u, v, u2, v2) BY <2>6, <2>5, <3>2 DEF EndsAre
      <4>3. ~(u \in x0..x1 /\ v \in y0..y1) /\ ~(u > x1 /\ s > x1) /\ ~(v > y1 /\ r > y1)
        BY <2>6, <3>2
      <4> QED BY <2>7, <4>1, <4>2, <4>3, SettledByFirst
    <3>3. CASE /\ f.p = e.p /\ OutCode(e.p) = {} /\ OutCode(e.q) # {}
               /\ Moves(w, h, x0, x1, y0, y1, Columns(a, b, e.q), Rows(a, b, e.q),
                        Columns(a, b, f.q), Rows(a, b, f.q))
      <4>1. u2 = u /\ v2 = v BY <2>6, <2>5, <3>3 DEF EndsAre
      <4>2. Moves(w, h, x0, x1, y0, y1, s, r, s2, r2) BY <2>6, <2>5, <3>3 DEF EndsAre
      <4>3. u \in x0..x1 /\ v \in y0..y1 BY <2>6, <3>3
      <4> QED BY <2>7, <4>1, <4>2, <4>3, SettledBySecond
    <3> QED BY <2>2, <3>1, <3>2, <3>3 DEF ClipRound
  <2>9. Good(f) BY <2>5, <2>8 DEF EndsAre
  <2> QED BY <2>1, <2>2, <2>9
<1>4. 0..MaxClips \subseteq P
  <2> HIDE DEF P
  <2> QED BY <1>1, <1>2, <1>3, EveryRound
<1>5. MaxClips \in 0..MaxClips BY <1>1
<1> QED BY <1>4, <1>5

\* When a point of the line is on the display, the loop ends with both endpoints on the
\* display, and the point between them.
LEMMA ClippedEncloses ==
  ASSUME NEW a \in Int \X Int, NEW b \in Int \X Int,
         NEW w \in Nat, NEW h \in Nat,
         NEW x0 \in Int, NEW x1 \in Int, NEW y0 \in Int, NEW y1 \in Int,
         Frame(a, b, w, h, x0, x1, y0, y1), w > 0 \/ h > 0, NEW t, ClipRun(t, a, b, w, h),
         NEW m \in Nat, m > 0, NEW i \in 0..m, OnDisplay(w, h, x0, x1, y0, y1, m, i)
  PROVE  \A u, v, s, r : EndsAre(a, b, t[MaxClips], u, v, s, r) =>
           Encloses(w, h, x0, x1, y0, y1, m, i, u, v, s, r, 0)
<1> DEFINE Good(k) == \A u, v, s, r : EndsAre(a, b, t[k], u, v, s, r) =>
                        Encloses(w, h, x0, x1, y0, y1, m, i, u, v, s, r, MaxClips - k)
           P == {k \in 0..MaxClips : Good(k)}
<1>1. MaxClips \in Nat /\ MaxClips - 0 = 4 /\ MaxClips - MaxClips = 0 BY DEF MaxClips
<1>2. 0 \in P
  <2>1. t[0] = [p |-> a, q |-> b] BY DEF ClipRun
  <2>2. /\ Columns(a, b, a) = 0 /\ Rows(a, b, a) = 0
        /\ Columns(a, b, b) = w /\ Rows(a, b, b) = h
    BY EndsInBox
  <2>3. Encloses(w, h, x0, x1, y0, y1, m, i, 0, 0, w, h, MaxClips - 0)
    <3>1. Encloses(w, h, x0, x1, y0, y1, m, i, 0, 0, w, h, 4) BY EnclosesAtFirst
    <3> QED BY <1>1, <3>1
  <2>4. Good(0) BY <2>1, <2>2, <2>3 DEF EndsAre
  <2> QED BY <1>1, <2>4
<1>3. ASSUME NEW k \in 1..MaxClips, k - 1 \in P PROVE k \in P
  <2>1. k \in 0..MaxClips /\ k - 1 \in 0..MaxClips BY <1>1
  <2>2. PICK e \in ClipEnds(a, b, w, h), f \in ClipEnds(a, b, w, h) :
          /\ e = t[k - 1] /\ f = t[k] /\ f = ClipStep(a, b, e)
          /\ ClipRound(a, b, w, h, x0, x1, y0, y1, e, f)
    <3>1. t[k - 1] \in ClipEnds(a, b, w, h) /\ t[k] = ClipStep(a, b, t[k - 1])
      BY <2>1 DEF ClipRun
    <3> QED BY <3>1, ClipStepMoves
  <2>3. PICK n \in Int, n2 \in Nat : n = MaxClips - (k - 1) /\ n2 = MaxClips - k /\ n - 1 = n2
    BY <1>1
  <2>4. PICK u \in 0..w, v \in 0..h, s \in 0..w, r \in 0..h :
          EndsSeen(a, b, x0, x1, y0, y1, e, u, v, s, r)
    BY EndsOf
  <2>5. PICK u2 \in 0..w, v2 \in 0..h, s2 \in 0..w, r2 \in 0..h :
          EndsAre(a, b, f, u2, v2, s2, r2)
    <3>1. \E u2 \in 0..w, v2 \in 0..h, s2 \in 0..w, r2 \in 0..h :
            EndsSeen(a, b, x0, x1, y0, y1, f, u2, v2, s2, r2)
      BY EndsOf
    <3> QED BY <3>1 DEF EndsSeen
  <2>6. EndsAre(a, b, e, u, v, s, r) BY <2>4 DEF EndsSeen
  <2>7. /\ OutCode(e.p) = {} <=> u \in x0..x1 /\ v \in y0..y1
        /\ OutCode(e.q) = {} <=> s \in x0..x1 /\ r \in y0..y1
        /\ OutCode(e.p) \cap OutCode(e.q) # {} <=>
             \/ (u < x0 /\ s < x0) \/ (u > x1 /\ s > x1)
             \/ (v < y0 /\ r < y0) \/ (v > y1 /\ r > y1)
    BY <2>4 DEF EndsSeen
  <2>8. Encloses(w, h, x0, x1, y0, y1, m, i, u, v, s, r, n) BY <1>3, <2>2, <2>3, <2>6
  <2>9. u \in Int /\ v \in Int /\ s \in Int /\ r \in Int /\ u2 \in Int /\ v2 \in Int
        /\ s2 \in Int /\ r2 \in Int
    OBVIOUS
  <2>10. u <= x1 /\ v <= y1 /\ s >= x0 /\ r >= y0
    <3>1. u <= x1 /\ v <= y1 BY <2>8, <2>9, EnclosesIsOn
    <3>2. s >= x0 /\ r >= y0 BY <2>8, <2>9, EnclosesIsOn
    <3> QED BY <3>1, <3>2
  <2>11. OutCode(e.p) \cap OutCode(e.q) = {} BY <2>7, <2>10
  <2>12. Encloses(w, h, x0, x1, y0, y1, m, i, u2, v2, s2, r2, n - 1)
    <3>1. CASE f = e /\ OutCode(e.p) = {} /\ OutCode(e.q) = {}
      <4>1. u2 = u /\ v2 = v /\ s2 = s /\ r2 = r BY <2>5, <2>6, <3>1 DEF EndsAre
      <4>2. u >= x0 /\ v >= y0 /\ s <= x1 /\ r <= y1 BY <2>7, <3>1
      <4>3. Todo(x0, y0, u, v) = 0 /\ Todo(w - x1, h - y1, w - s, h - r) = 0 BY <4>2 DEF Todo
      <4>4. Encloses(w, h, x0, x1, y0, y1, m, i, u, v, s, r, n2)
        BY <2>8, <4>3 DEF Encloses
      <4> QED BY <2>3, <4>1, <4>4
    <3>2. CASE /\ f.q = e.q /\ OutCode(e.p) # {} /\ OutCode(e.p) \cap OutCode(e.q) = {}
               /\ Moves(w, h, x0, x1, y0, y1, Columns(a, b, e.p), Rows(a, b, e.p),
                        Columns(a, b, f.p), Rows(a, b, f.p))
      <4>1. s2 = s /\ r2 = r BY <2>5, <2>6, <3>2 DEF EndsAre
      <4>2. Moves(w, h, x0, x1, y0, y1, u, v, u2, v2) BY <2>5, <2>6, <3>2 DEF EndsAre
      <4> QED BY <2>8, <2>9, <4>1, <4>2, EnclosesByFirst
    <3>3. CASE /\ f.p = e.p /\ OutCode(e.p) = {} /\ OutCode(e.q) # {}
               /\ Moves(w, h, x0, x1, y0, y1, Columns(a, b, e.q), Rows(a, b, e.q),
                        Columns(a, b, f.q), Rows(a, b, f.q))
      <4>1. u2 = u /\ v2 = v BY <2>5, <2>6, <3>3 DEF EndsAre
      <4>2. Moves(w, h, x0, x1, y0, y1, s, r, s2, r2) BY <2>5, <2>6, <3>3 DEF EndsAre
      <4> QED BY <2>8, <2>9, <4>1, <4>2, EnclosesBySecond
    <3> QED BY <2>2, <2>11, <3>1, <3>2, <3>3 DEF ClipRound
  <2>13. Good(k) BY <2>2, <2>3, <2>5, <2>12 DEF EndsAre
  <2> QED BY <2>1, <2>13
<1>4. 0..MaxClips \subseteq P
  <2> HIDE DEF P
  <2> QED BY <1>1, <1>2, <1>3, EveryRound
<1>5. MaxClips \in 0..MaxClips BY <1>1
<1> QED BY <1>1, <1>4, <1>5

-----------------------------------------------------------------------------
\* Lines: the pixels

\* The raster goes the way of the line or back along an axis, and visits what is between.
Axis(d, o, x, y, n, u, s) == n = Abs(y - x) /\ u = Along(d, x - o) /\ s = Along(d, y - o)

Visits(d, o, x, y, n, u, s, e) ==
  /\ s = u + e * n
  /\ \A i \in 0..n : Along(d, Steps(x, y, i) - o) = u + e * i
  /\ \A c \in u..s : c - u \in 0..n /\ u + e * (c - u) = c

\* The steps of the raster along an axis, counted along the line.
LEMMA StepsAlong ==
  ASSUME NEW d \in Int, NEW o \in Int, NEW x \in Int, NEW y \in Int, NEW n \in Nat,
         NEW u \in Int, NEW s \in Int, Axis(d, o, x, y, n, u, s)
  PROVE  \E e \in Signs : Visits(d, o, x, y, n, u, s, e)
<1> USE DEF Signs
<1> SUFFICES \E e \in {1, -1} :
               /\ s = u + e * n
               /\ \A i \in 0..n : Along(d, Steps(x, y, i) - o) = u + e * i
               /\ \A c \in u..s : c - u \in 0..n /\ u + e * (c - u) = c
  BY DEF Visits
<1>1. n = Abs(y - x) /\ u = Along(d, x - o) /\ s = Along(d, y - o) BY DEF Axis
<1>2. Steps(x, y, n) = y BY <1>1 DEF Steps, Abs
<1>3. n \in 0..n OBVIOUS
<1>4. CASE (x < y) <=> (d >= 0)
  <2>1. \A i \in 0..n : Along(d, Steps(x, y, i) - o) = u + i BY <1>4, <1>1 DEF Along, Steps
  <2>2. s = u + n BY <1>2, <1>3, <1>1, <2>1
  <2>3. \A i \in Int : 1 * i = i OBVIOUS
  <2>4. \A c \in u..s : c - u \in 0..n /\ u + (c - u) = c BY <2>2
  <2> QED BY <2>1, <2>2, <2>3, <2>4
<1>5. CASE ~((x < y) <=> (d >= 0))
  <2>1. \A i \in 0..n : Along(d, Steps(x, y, i) - o) = u - i BY <1>5, <1>1 DEF Along, Steps
  <2>2. s = u - n BY <1>2, <1>3, <1>1, <2>1
  <2>3. -1 \in {1, -1} /\ \A i \in Int : u + (-1) * i = u - i OBVIOUS
  <2>4. \A c \in u..s : c = u /\ c - u = 0 /\ u - (c - u) = c BY <2>2
  <2>5. n \in Int /\ \A i \in 0..n : i \in Int OBVIOUS
  <2>6. \A c \in u..s : c - u \in 0..n /\ c - u \in Int BY <2>4
  <2>7. \A i \in 0..n : Along(d, Steps(x, y, i) - o) = u + (-1) * i BY <2>1, <2>3, <2>5
  <2>8. \A c \in u..s : c - u \in 0..n /\ u + (-1) * (c - u) = c BY <2>3, <2>4, <2>6
  <2>9. s = u + (-1) * n BY <2>2, <2>3, <2>5
  <2> QED BY <2>3, <2>7, <2>8, <2>9
<1> QED BY <1>4, <1>5

EndsAt(a, b, p, q, u, v, s, r) ==
  u = Columns(a, b, p) /\ v = Rows(a, b, p) /\ s = Columns(a, b, q) /\ r = Rows(a, b, q)

Segment(a, b, w, h, p, q, u, v, s, r) ==
  /\ \A z \in Bresenham(p, q) : Off(w, h, Columns(a, b, z), Rows(a, b, z))
  /\ \A c \in u..s : \E z \in Bresenham(p, q) : Columns(a, b, z) = c
  /\ \A c \in v..r : \E z \in Bresenham(p, q) : Rows(a, b, z) = c

\* The pixels between two settled endpoints are near the line, and in every column and
\* every row on the way.
LEMMA SegmentPixels ==
  ASSUME NEW a \in Int \X Int, NEW b \in Int \X Int,
         NEW w \in Nat, NEW h \in Nat,
         NEW x0 \in Int, NEW x1 \in Int, NEW y0 \in Int, NEW y1 \in Int,
         NEW p \in Int \X Int, NEW q \in Int \X Int,
         NEW u \in 0..w, NEW v \in 0..h, NEW s \in 0..w, NEW r \in 0..h,
         EndsAt(a, b, p, q, u, v, s, r), s \in x0..x1, r \in y0..y1,
         Settled(w, h, x0, x1, y0, y1, u, v, s, r)
  PROVE  Segment(a, b, w, h, p, q, u, v, s, r)
<1>1. PICK a1 \in Int, a2 \in Int, d1 \in Int, d2 \in Int :
        a[1] = a1 /\ a[2] = a2 /\ b[1] - a[1] = d1 /\ b[2] - a[2] = d2
  OBVIOUS
<1>2. PICK p1 \in Int, p2 \in Int, q1 \in Int, q2 \in Int :
        p[1] = p1 /\ p[2] = p2 /\ q[1] = q1 /\ q[2] = q2
  OBVIOUS
<1>3. PICK dx \in Nat, dy \in Nat : dx = Abs(q1 - p1) /\ dy = Abs(q2 - p2)
  <2>1. Abs(q1 - p1) \in Nat /\ Abs(q2 - p2) \in Nat BY DEF Abs
  <2> QED BY <2>1
<1>4. PICK At : At = [z \in (0..dx) \X (0..dy) |-> <<Steps(p1, q1, z[1]), Steps(p2, q2, z[2])>>]
  OBVIOUS
<1>5. /\ \A z \in Bresenham(p, q) : \E i \in 0..dx, j \in 0..dy :
           z = At[<<i, j>>] /\ Balanced(dx, dy, i, j) /\ Balanced(dy, dx, j, i)
      /\ \A i \in 0..dx : \E j \in 0..dy : At[<<i, j>>] \in Bresenham(p, q)
      /\ \A j \in 0..dy : \E i \in 0..dx : At[<<i, j>>] \in Bresenham(p, q)
  <2>1. RasterAt(p, q, dx, dy, At) BY <1>2, <1>3, <1>4 DEF RasterAt
  <2>2. PassesOver(p, q, dx, dy, At) BY <2>1, RasterReachesEnd
  <2> QED BY <2>2 DEF PassesOver
<1>6. PICK e \in Signs :
        /\ s = u + e * dx
        /\ \A i \in 0..dx : Along(d1, Steps(p1, q1, i) - a1) = u + e * i
        /\ \A c \in u..s : c - u \in 0..dx /\ u + e * (c - u) = c
  <2>1. /\ d1 \in Int /\ a1 \in Int /\ p1 \in Int /\ q1 \in Int /\ dx \in Nat
        /\ u \in Int /\ s \in Int /\ Axis(d1, a1, p1, q1, dx, u, s)
    BY <1>1, <1>2, <1>3 DEF EndsAt, Columns, Axis
  <2>2. \E z \in Signs : Visits(d1, a1, p1, q1, dx, u, s, z)
    BY ONLY <2>1, StepsAlong
  <2> QED BY <2>2 DEF Visits
<1>7. PICK f \in Signs :
        /\ r = v + f * dy
        /\ \A j \in 0..dy : Along(d2, Steps(p2, q2, j) - a2) = v + f * j
        /\ \A c \in v..r : c - v \in 0..dy /\ v + f * (c - v) = c
  <2>1. /\ d2 \in Int /\ a2 \in Int /\ p2 \in Int /\ q2 \in Int /\ dy \in Nat
        /\ v \in Int /\ r \in Int /\ Axis(d2, a2, p2, q2, dy, v, r)
    BY <1>1, <1>2, <1>3 DEF EndsAt, Rows, Axis
  <2>2. \E z \in Signs : Visits(d2, a2, p2, q2, dy, v, r, z)
    BY ONLY <2>1, StepsAlong
  <2> QED BY <2>2 DEF Visits
<1>8. ASSUME NEW i \in 0..dx, NEW j \in 0..dy
      PROVE  /\ At[<<i, j>>] \in Int \X Int
             /\ Columns(a, b, At[<<i, j>>]) = u + e * i /\ Rows(a, b, At[<<i, j>>]) = v + f * j
  <2>1. <<i, j>> \in (0..dx) \X (0..dy) /\ <<i, j>>[1] = i /\ <<i, j>>[2] = j OBVIOUS
  <2>2. At[<<i, j>>] = <<Steps(p1, q1, i), Steps(p2, q2, j)>> BY <1>4, <2>1
  <2>3. PICK k \in Int, l \in Int : k = Steps(p1, q1, i) /\ l = Steps(p2, q2, j)
    <3>1. Steps(p1, q1, i) \in Int /\ Steps(p2, q2, j) \in Int BY DEF Steps
    <3> QED BY <3>1
  <2>4. PICK z \in Int \X Int : z = <<k, l>> /\ z[1] = k /\ z[2] = l
    <3>1. <<k, l>> \in Int \X Int /\ <<k, l>>[1] = k /\ <<k, l>>[2] = l OBVIOUS
    <3> QED BY ONLY <3>1
  <2>5. Columns(a, b, z) = Along(d1, k - a1) /\ Rows(a, b, z) = Along(d2, l - a2)
    BY <1>1, <2>4 DEF Columns, Rows
  <2>6. Along(d1, k - a1) = u + e * i /\ Along(d2, l - a2) = v + f * j BY <1>6, <1>7, <2>3
  <2> QED BY <2>2, <2>3, <2>4, <2>5, <2>6
<1>9. ASSUME NEW z \in Bresenham(p, q)
      PROVE  z \in Int \X Int /\ Off(w, h, Columns(a, b, z), Rows(a, b, z))
  <2>1. PICK i \in 0..dx, j \in 0..dy :
          z = At[<<i, j>>] /\ Balanced(dx, dy, i, j) /\ Balanced(dy, dx, j, i)
    BY <1>5
  <2>2. Onward(w, h, u, v, s, r) BY DEF Onward, Settled
  <2>3. Between(u, v, s, r, dx, dy, e, f, i, j) BY <1>6, <1>7, <2>1 DEF Between
  <2>4. Rounded(w, h, u, v) /\ Rounded(w, h, s, r) BY DEF Settled
  <2>5. Off(w, h, u + e * i, v + f * j)
    <3>1. /\ w \in Nat /\ h \in Nat /\ dx \in Nat /\ dy \in Nat
          /\ e \in Signs /\ f \in Signs /\ i \in 0..dx /\ j \in 0..dy
      OBVIOUS
    <3> QED BY ONLY <2>2, <2>3, <2>4, <3>1, RasterIsNear
  <2> QED BY <1>8, <2>1, <2>5
<1>10. ASSUME NEW c \in u..s PROVE \E z \in Bresenham(p, q) : Columns(a, b, z) = c
  <2>1. PICK i \in 0..dx : u + e * i = c BY <1>6
  <2>2. PICK j \in 0..dy : At[<<i, j>>] \in Bresenham(p, q) BY <1>5
  <2> QED BY <1>8, <2>1, <2>2
<1>11. ASSUME NEW c \in v..r PROVE \E z \in Bresenham(p, q) : Rows(a, b, z) = c
  <2>1. PICK j \in 0..dy : v + f * j = c BY <1>7
  <2>2. PICK i \in 0..dx : At[<<i, j>>] \in Bresenham(p, q) BY <1>5
  <2> QED BY <1>8, <2>1, <2>2
<1> QED BY <1>9, <1>10, <1>11 DEF Segment

\* Every line has its frame.
LEMMA FrameOf ==
  ASSUME NEW a \in Int \X Int, NEW b \in Int \X Int
  PROVE  \E w \in Nat, h \in Nat, x0 \in Int, x1 \in Int, y0 \in Int, y1 \in Int :
           Frame(a, b, w, h, x0, x1, y0, y1)
<1>1. PICK a1 \in Int, a2 \in Int, d1 \in Int, d2 \in Int :
        a[1] = a1 /\ a[2] = a2 /\ b[1] - a[1] = d1 /\ b[2] - a[2] = d2
  OBVIOUS
<1>2. PICK m \in Nat, n \in Nat : m = Width /\ n = Height BY Dimensions
<1>3. /\ Abs(d1) \in Nat /\ Abs(d2) \in Nat
      /\ Low(d1, a1, m) \in Int /\ High(d1, a1, m) \in Int
      /\ Low(d2, a2, n) \in Int /\ High(d2, a2, n) \in Int
  BY DEF Abs, Low, High
<1>4. Frame(a, b, Abs(d1), Abs(d2), Low(d1, a1, m), High(d1, a1, m), Low(d2, a2, n), High(d2, a2, n))
  BY <1>1, <1>2 DEF Frame
<1> QED BY <1>3, <1>4

\* The pixels of a line are those between its clipped endpoints.
LEMMA ClippedPixels ==
  ASSUME NEW a, NEW b, NEW t, t = ClipLoop(a, b)
  PROVE  LinePixels(a, b) =
           IF OutCode(t[MaxClips].p) = {} /\ OutCode(t[MaxClips].q) = {}
           THEN Bresenham(t[MaxClips].p, t[MaxClips].q) ELSE {}
<1>1. PICK e : e = t[MaxClips] OBVIOUS
<1>2. PICK p, q : p = e.p /\ q = e.q OBVIOUS
<1>3. OutCode(p) \cup OutCode(q) = {} <=> OutCode(p) = {} /\ OutCode(q) = {} OBVIOUS
<1>4. ClipLine(a, b) = IF OutCode(p) \cup OutCode(q) = {} THEN {<<p, q>>} ELSE {}
  BY <1>1, <1>2 DEF ClipLine
<1>5. CASE OutCode(p) = {} /\ OutCode(q) = {}
  <2>1. ClipLine(a, b) = {<<p, q>>} BY <1>3, <1>4, <1>5
  <2>2. <<p, q>>[1] = p /\ <<p, q>>[2] = q OBVIOUS
  <2>3. LinePixels(a, b) = Bresenham(p, q) BY <2>1, <2>2 DEF LinePixels
  <2> QED BY <1>1, <1>2, <1>5, <2>3
<1>6. CASE ~(OutCode(p) = {} /\ OutCode(q) = {})
  <2>1. ClipLine(a, b) = {} BY <1>3, <1>4, <1>6
  <2>2. LinePixels(a, b) = {} BY <2>1 DEF LinePixels
  <2> QED BY <1>1, <1>2, <1>6, <2>2
<1> QED BY <1>5, <1>6

\* Distances of the property, counted along the line.
LEMMA OffsetAlong ==
  ASSUME NEW a \in Int \X Int, NEW b \in Int \X Int,
         NEW w \in Nat, NEW h \in Nat,
         NEW x0 \in Int, NEW x1 \in Int, NEW y0 \in Int, NEW y1 \in Int,
         Frame(a, b, w, h, x0, x1, y0, y1), NEW z \in Int \X Int
  PROVE  Offset(z, a, b) = Abs(w * Rows(a, b, z) - h * Columns(a, b, z))
<1>1. PICK d1 \in Int, d2 \in Int, k \in Int, l \in Int :
        b[1] - a[1] = d1 /\ b[2] - a[2] = d2 /\ z[1] - a[1] = k /\ z[2] - a[2] = l
  OBVIOUS
<1>2. w = Abs(d1) /\ h = Abs(d2) BY <1>1 DEF Frame
<1>3. Columns(a, b, z) = Along(d1, k) /\ Rows(a, b, z) = Along(d2, l)
  BY <1>1 DEF Columns, Rows
<1>4. Offset(z, a, b) = Abs(d1 * l - d2 * k) BY <1>1 DEF Offset
<1>5. \A x \in Int : Abs(-x) = Abs(x) BY DEF Abs
<1>6. PICK x \in Int : x = d1 * l - d2 * k OBVIOUS
<1>7. CASE d1 >= 0 /\ d2 >= 0
  <2>1. w = d1 /\ h = d2 /\ Along(d1, k) = k /\ Along(d2, l) = l BY <1>2, <1>7 DEF Abs, Along
  <2> QED BY <1>3, <1>4, <2>1
<1>8. CASE d1 >= 0 /\ d2 < 0
  <2>1. w = d1 /\ h = -d2 /\ Along(d1, k) = k /\ Along(d2, l) = -l BY <1>2, <1>8 DEF Abs, Along
  <2>2. w * (-l) - h * k = -x BY <1>6, <2>1
  <2> QED BY <1>3, <1>4, <1>5, <1>6, <2>1, <2>2
<1>9. CASE d1 < 0 /\ d2 >= 0
  <2>1. w = -d1 /\ h = d2 /\ Along(d1, k) = -k /\ Along(d2, l) = l BY <1>2, <1>9 DEF Abs, Along
  <2>2. w * l - h * (-k) = -x BY <1>6, <2>1
  <2> QED BY <1>3, <1>4, <1>5, <1>6, <2>1, <2>2
<1>10. CASE d1 < 0 /\ d2 < 0
  <2>1. w = -d1 /\ h = -d2 /\ Along(d1, k) = -k /\ Along(d2, l) = -l
    BY <1>2, <1>10 DEF Abs, Along
  <2>2. w * (-l) - h * (-k) = x BY <1>6, <2>1
  <2> QED BY <1>3, <1>4, <1>6, <2>1, <2>2
<1> QED BY <1>7, <1>8, <1>9, <1>10

\* A segment is divided in as many parts as its longer axis has pixels, at least one.
LEMMA SpanIs ==
  ASSUME NEW a \in Int \X Int, NEW b \in Int \X Int,
         NEW w \in Nat, NEW h \in Nat,
         NEW x0 \in Int, NEW x1 \in Int, NEW y0 \in Int, NEW y1 \in Int,
         Frame(a, b, w, h, x0, x1, y0, y1), NEW m, m = AtLeast(1, Span(a, b))
  PROVE  /\ m \in Nat /\ m >= 1
         /\ w >= h /\ w > 0 => m = w
         /\ h > w => m = h
         /\ w = 0 /\ h = 0 => m = 1
<1>1. Span(a, b) = AtLeast(w, h) BY DEF Span, Frame
<1>2. m = AtLeast(1, AtLeast(w, h)) BY <1>1
<1> QED BY <1>2 DEF AtLeast

\* A point i of m of the line in one axis.
LEMMA PointAlong ==
  ASSUME NEW d \in Int, NEW o \in Int, NEW n \in Nat, NEW m \in Nat, NEW i \in Nat,
         NEW w \in Nat, w = Abs(d), o * m + d * i \in 0..((n - 1) * m)
  PROVE  m * Low(d, o, n) <= w * i /\ w * i <= m * High(d, o, n)
<1>1. PICK p \in Int, c \in Int, k \in Int :
        p = d * i /\ c = o * m /\ k = n * m /\ (n - 1) * m = k - m
  OBVIOUS
<1>2. CASE d >= 0
  <2>1. w = d /\ Low(d, o, n) = -o /\ High(d, o, n) = n - 1 - o BY <1>2 DEF Abs, Low, High
  <2>2. m * (-o) = -c /\ m * (n - 1 - o) = k - m - c BY <1>1
  <2> QED BY <1>1, <2>1, <2>2
<1>3. CASE d < 0
  <2>1. w = -d /\ Low(d, o, n) = o - (n - 1) /\ High(d, o, n) = o BY <1>3 DEF Abs, Low, High
  <2>2. m * (o - (n - 1)) = c - k + m /\ m * o = c /\ w * i = -p BY <1>1, <2>1
  <2> QED BY <1>1, <2>1, <2>2
<1> QED BY <1>2, <1>3

\* How far a column is from a point of the line, counted from either end of the axis.
Apart(d, o, m, i, x) == Abs((o * m + d * i) - x * m) = Abs(Abs(d) * i - m * Along(d, x - o))

LEMMA PointApart ==
  ASSUME NEW d \in Int, NEW o \in Int, NEW m \in Nat, NEW i \in Nat, NEW x \in Int
  PROVE  Apart(d, o, m, i, x)
<1>1. PICK p \in Int, c \in Int, y \in Int : p = d * i /\ c = o * m /\ y = x * m OBVIOUS
<1>2. \A z \in Int : Abs(-z) = Abs(z) BY DEF Abs
<1>3. CASE d >= 0
  <2>1. Along(d, x - o) = x - o /\ Abs(d) = d BY <1>3 DEF Along, Abs
  <2>2. m * (x - o) = y - c BY <1>1
  <2>3. (c + p) - y = p - (y - c) BY <1>1
  <2> QED BY <1>1, <2>1, <2>2, <2>3 DEF Apart
<1>4. CASE d < 0
  <2>1. Along(d, x - o) = -(x - o) /\ Abs(d) = -d BY <1>4 DEF Along, Abs
  <2>2. m * (-(x - o)) = c - y /\ (-d) * i = -p BY <1>1
  <2>3. PICK z \in Int : z = (c + p) - y BY <1>1
  <2>4. -p - (c - y) = -z BY <1>1, <2>3
  <2> QED BY <1>1, <1>2, <2>1, <2>2, <2>3, <2>4 DEF Apart
<1> QED BY <1>3, <1>4

\* A raster consists of points, and its last one is among them.
LEMMA RasterPixels ==
  ASSUME NEW p \in Int \X Int, NEW q \in Int \X Int
  PROVE  Bresenham(p, q) \subseteq Int \X Int /\ q \in Bresenham(p, q)
<1>1. PICK dx \in Nat, dy \in Nat : dx = Abs(q[1] - p[1]) /\ dy = Abs(q[2] - p[2])
  <2>1. Abs(q[1] - p[1]) \in Nat /\ Abs(q[2] - p[2]) \in Nat
    <3>1. \A x \in Int : Abs(x) \in Nat BY DEF Abs
    <3>2. q[1] - p[1] \in Int /\ q[2] - p[2] \in Int OBVIOUS
    <3> QED BY <3>1, <3>2
  <2> QED BY <2>1
<1>2. PICK At : RasterAt(p, q, dx, dy, At) BY <1>1 DEF RasterAt
<1>3. q \in Bresenham(p, q) BY <1>2, RasterReachesEnd
<1>4. PICK t : t = LineLoop(p, q) OBVIOUS
<1>5. PICK n \in Nat : n = dx + dy OBVIOUS
<1>6. t \in [0..n -> LineState]
  <2>1. LineRun(t, p, q, dx, dy) BY <1>1, <1>4, LineLoopRuns
  <2> QED BY <1>5, <2>1 DEF LineRun
<1>7. Bresenham(p, q) = {<<t[k].x, t[k].y>> : k \in 0..n}
  <2>1. DOMAIN t = 0..n BY <1>6
  <2> QED BY <1>4, <2>1 DEF Bresenham
<1>8. \A k \in 0..n : t[k].x \in Int /\ t[k].y \in Int BY <1>6 DEF LineState
<1> QED BY <1>3, <1>7, <1>8

\* No pixel of a line is a whole pixel away from the segment.
LEMMA LineFollows ==
  ASSUME NEW a \in Int \X Int, NEW b \in Int \X Int, NEW z \in LinePixels(a, b)
  PROVE  Offset(z, a, b) < AtLeast(1, Span(a, b))
<1>1. PICK w \in Nat, h \in Nat, x0 \in Int, x1 \in Int, y0 \in Int, y1 \in Int :
        Frame(a, b, w, h, x0, x1, y0, y1)
  BY FrameOf
<1>2. PICK t : t = ClipLoop(a, b) OBVIOUS
<1>3. ClipRun(t, a, b, w, h) BY <1>1, <1>2, ClipLoopRuns
<1>4. PICK e \in ClipEnds(a, b, w, h) : e = t[MaxClips]
  <2>1. MaxClips \in 0..MaxClips BY DEF MaxClips
  <2> QED BY <1>3, <2>1 DEF ClipRun
<1>5. PICK p \in Int \X Int, q \in Int \X Int : p = e.p /\ q = e.q BY DEF ClipEnds
<1>6. OutCode(p) = {} /\ OutCode(q) = {} /\ z \in Bresenham(p, q)
  BY <1>2, <1>4, <1>5, ClippedPixels
<1>7. z \in Int \X Int BY <1>6, RasterPixels
<1>8. Offset(z, a, b) = Abs(w * Rows(a, b, z) - h * Columns(a, b, z)) BY <1>1, <1>7, OffsetAlong
<1>9. PICK m : m = AtLeast(1, Span(a, b)) OBVIOUS
<1>10. /\ m \in Nat /\ m >= 1
       /\ w >= h /\ w > 0 => m = w
       /\ h > w => m = h
       /\ w = 0 /\ h = 0 => m = 1
  BY <1>1, <1>9, SpanIs
<1>11. PICK k \in Int, l \in Int : k = Columns(a, b, z) /\ l = Rows(a, b, z)
  <2>1. \A x, y \in Int : Along(x, y) \in Int BY DEF Along
  <2>2. b[1] - a[1] \in Int /\ b[2] - a[2] \in Int /\ z[1] - a[1] \in Int /\ z[2] - a[2] \in Int
    BY <1>7
  <2> QED BY <2>1, <2>2 DEF Columns, Rows
<1>12. CASE w > 0 \/ h > 0
  <2>1. PICK u \in 0..w, v \in 0..h, s \in 0..w, r \in 0..h :
          EndsSeen(a, b, x0, x1, y0, y1, e, u, v, s, r)
    BY <1>1, EndsOf
  <2>2. EndsAre(a, b, e, u, v, s, r) /\ s \in x0..x1 /\ r \in y0..y1
    BY <1>5, <1>6, <2>1 DEF EndsSeen
  <2>3. Settled(w, h, x0, x1, y0, y1, u, v, s, r)
    BY <1>1, <1>3, <1>4, <1>12, <2>2, ClippedIsSettled
  <2>4. EndsAt(a, b, p, q, u, v, s, r) BY <1>5, <2>2 DEF EndsAre, EndsAt
  <2>5. Off(w, h, k, l)
    <3>1. /\ a \in Int \X Int /\ b \in Int \X Int /\ p \in Int \X Int /\ q \in Int \X Int
          /\ w \in Nat /\ h \in Nat /\ x0 \in Int /\ x1 \in Int /\ y0 \in Int /\ y1 \in Int
          /\ u \in 0..w /\ v \in 0..h /\ s \in 0..w /\ r \in 0..h
      OBVIOUS
    <3>2. Segment(a, b, w, h, p, q, u, v, s, r)
      BY ONLY <2>2, <2>3, <2>4, <3>1, SegmentPixels
    <3> QED BY <1>6, <1>11, <3>2 DEF Segment
  <2>6. PICK d \in Int : d = w * l - h * k OBVIOUS
  <2>7. Abs(d) < m
    <3>1. CASE w >= h
      <4>1. m = w BY <1>10, <1>12, <3>1
      <4>2. d \in (1 - w)..(w - 1) BY <2>5, <2>6, <3>1 DEF Off
      <4> QED BY <4>1, <4>2 DEF Abs
    <3>2. CASE h > w
      <4>1. m = h BY <1>10, <3>2
      <4>2. d \in (1 - h)..(h - 1) BY <2>5, <2>6, <3>2 DEF Off
      <4> QED BY <4>1, <4>2 DEF Abs
    <3> QED BY <3>1, <3>2
  <2> QED BY <1>8, <1>9, <1>11, <2>6, <2>7
<1>13. CASE w = 0 /\ h = 0
  <2>1. w * l - h * k = 0 BY <1>13
  <2>2. Abs(0) = 0 BY DEF Abs
  <2> QED BY <1>8, <1>9, <1>10, <1>11, <1>13, <2>1, <2>2
<1> QED BY <1>12, <1>13

\* The endpoint that is behind a point of the line is not beyond it along the longer axis.
LEMMA MajorBehind ==
  ASSUME NEW w \in Nat, NEW h \in Nat, w >= h, w > 0, NEW i \in Nat,
         NEW u \in Int, NEW v \in Int, Behind(w, h, w, i, u, v)
  PROVE  u <= i
<1>1. w * i <= w * i /\ h * i <= w * i
  <2>1. (w - h) * i >= 0 OBVIOUS
  <2>2. (w - h) * i = w * i - h * i OBVIOUS
  <2>3. w * i \in Int /\ h * i \in Int OBVIOUS
  <2> QED BY <2>1, <2>2, <2>3
<1>2. i \in Int OBVIOUS
<1> QED BY <1>1, <1>2, NotBeyond

\* Between two endpoints that enclose it.
LEMMA MajorBetween ==
  ASSUME NEW w \in Nat, NEW h \in Nat,
         NEW x0 \in Int, NEW x1 \in Int, NEW y0 \in Int, NEW y1 \in Int,
         NEW m \in Nat, m > 0, NEW i \in 0..m,
         NEW u \in Int, NEW v \in Int, NEW s \in Int, NEW r \in Int,
         Encloses(w, h, x0, x1, y0, y1, m, i, u, v, s, r, 0)
  PROVE  /\ w >= h /\ m = w => i \in u..s
         /\ h > w /\ m = h => i \in v..r
<1>1. Behind(w, h, m, i, u, v) /\ Behind(w, h, m, m - i, w - s, h - r) BY DEF Encloses
<1>2. i \in Nat /\ m - i \in Nat OBVIOUS
<1>3. ASSUME w >= h, m = w PROVE i \in u..s
  <2>1. u <= i
    <3>1. Behind(w, h, w, i, u, v) BY <1>1, <1>3
    <3> QED BY <1>2, <1>3, <3>1, MajorBehind
  <2>2. w - s <= w - i
    <3>1. Behind(w, h, w, w - i, w - s, h - r) BY <1>1, <1>3
    <3>2. w - i \in Nat /\ w - s \in Int /\ h - r \in Int BY <1>2, <1>3
    <3> QED BY <1>3, <3>1, <3>2, MajorBehind
  <2> QED BY <2>1, <2>2
<1>4. ASSUME h > w, m = h PROVE i \in v..r
  <2>1. v <= i
    <3>1. Behind(h, w, h, i, v, u) BY <1>1, <1>4 DEF Behind
    <3>2. h >= w /\ h > 0 /\ i \in Nat BY <1>2, <1>4
    <3>3. w \in Nat /\ h \in Nat /\ u \in Int /\ v \in Int OBVIOUS
    <3> QED BY ONLY <3>1, <3>2, <3>3, MajorBehind
  <2>2. h - r <= h - i
    <3>1. Behind(h, w, h, h - i, h - r, w - s) BY <1>1, <1>4 DEF Behind
    <3>2. h >= w /\ h > 0 /\ h - i \in Nat BY <1>2, <1>4
    <3>3. w \in Nat /\ h \in Nat /\ w - s \in Int /\ h - r \in Int OBVIOUS
    <3> QED BY ONLY <3>1, <3>2, <3>3, MajorBehind
  <2> QED BY <2>1, <2>2
<1> QED BY <1>3, <1>4

\* The pixel of the line in the column, or the row, of the point.
LEMMA PixelOfPoint ==
  ASSUME NEW w \in Nat, NEW h \in Nat, NEW m \in Nat, NEW i \in Nat, NEW k \in Int, NEW l \in Int,
         Off(w, h, k, l), (w >= h /\ w > 0 /\ m = w /\ k = i) \/ (h > w /\ m = h /\ l = i)
  PROVE  Abs(w * i - m * k) < m /\ Abs(h * i - m * l) < m
<1>1. CASE w >= h /\ w > 0 /\ m = w /\ k = i
  <2>1. PICK d \in Int : d = w * l - h * k OBVIOUS
  <2>2. d \in (1 - w)..(w - 1) BY <1>1, <2>1 DEF Off
  <2>3. w * i - m * k = 0 BY <1>1
  <2>4. h * i - m * l = -d BY <1>1, <2>1
  <2>5. Abs(0) < m /\ Abs(-d) < m BY <1>1, <2>2 DEF Abs
  <2> QED BY <2>3, <2>4, <2>5
<1>2. CASE h > w /\ m = h /\ l = i
  <2>1. PICK d \in Int : d = w * l - h * k OBVIOUS
  <2>2. d \in (1 - h)..(h - 1) BY <1>2, <2>1 DEF Off
  <2>3. h * i - m * l = 0 BY <1>2
  <2>4. w * i - m * k = d BY <1>2, <2>1
  <2>5. Abs(0) < m /\ Abs(d) < m BY <1>2, <2>2 DEF Abs
  <2> QED BY <2>3, <2>4, <2>5
<1> QED BY <1>1, <1>2

\* Every point of the segment on the display has a pixel of the line less than a pixel
\* from it.
LEMMA LineCovers ==
  ASSUME NEW a \in Int \X Int, NEW b \in Int \X Int, NEW m, m = AtLeast(1, Span(a, b)),
         NEW i \in 0..m, NEW k, NEW l,
         k = a[1] * m + (b[1] - a[1]) * i, l = a[2] * m + (b[2] - a[2]) * i,
         k \in 0..((Width - 1) * m), l \in 0..((Height - 1) * m)
  PROVE  \E z \in LinePixels(a, b) : Abs(k - z[1] * m) < m /\ Abs(l - z[2] * m) < m
<1>1. PICK w \in Nat, h \in Nat, x0 \in Int, x1 \in Int, y0 \in Int, y1 \in Int :
        Frame(a, b, w, h, x0, x1, y0, y1)
  BY FrameOf
<1>2. PICK t : t = ClipLoop(a, b) OBVIOUS
<1>3. ClipRun(t, a, b, w, h) BY <1>1, <1>2, ClipLoopRuns
<1>4. PICK e \in ClipEnds(a, b, w, h) : e = t[MaxClips]
  <2>1. MaxClips \in 0..MaxClips BY DEF MaxClips
  <2> QED BY <1>3, <2>1 DEF ClipRun
<1>5. PICK p \in Int \X Int, q \in Int \X Int : p = e.p /\ q = e.q BY DEF ClipEnds
<1>6. OutCode(p) = {} /\ OutCode(q) = {} => LinePixels(a, b) = Bresenham(p, q)
  BY <1>2, <1>4, <1>5, ClippedPixels
<1>7. /\ m \in Nat /\ m >= 1
      /\ w >= h /\ w > 0 => m = w
      /\ h > w => m = h
      /\ w = 0 /\ h = 0 => m = 1
  BY <1>1, SpanIs
<1>8. i \in Nat BY <1>7
<1>9. PICK a1 \in Int, a2 \in Int, d1 \in Int, d2 \in Int :
        a[1] = a1 /\ a[2] = a2 /\ b[1] - a[1] = d1 /\ b[2] - a[2] = d2
  OBVIOUS
<1>10. PICK x \in Nat, y \in Nat : x = Width /\ y = Height BY Dimensions
<1>11. w = Abs(d1) /\ h = Abs(d2) BY <1>1, <1>9 DEF Frame
<1>12. k = a1 * m + d1 * i /\ l = a2 * m + d2 * i BY <1>9
<1>13. CASE w > 0 \/ h > 0
  <2>1. OnDisplay(w, h, x0, x1, y0, y1, m, i)
    <3>1. m * Low(d1, a1, x) <= w * i /\ w * i <= m * High(d1, a1, x)
      <4>1. a1 * m + d1 * i \in 0..((x - 1) * m) BY <1>10, <1>12
      <4> QED BY <1>7, <1>8, <1>11, <4>1, PointAlong
    <3>2. m * Low(d2, a2, y) <= h * i /\ h * i <= m * High(d2, a2, y)
      <4>1. a2 * m + d2 * i \in 0..((y - 1) * m) BY <1>10, <1>12
      <4> QED BY <1>7, <1>8, <1>11, <4>1, PointAlong
    <3>3. /\ x0 = Low(d1, a1, x) /\ x1 = High(d1, a1, x)
          /\ y0 = Low(d2, a2, y) /\ y1 = High(d2, a2, y)
      BY <1>1, <1>9, <1>10 DEF Frame
    <3> QED BY <3>1, <3>2, <3>3 DEF OnDisplay
  <2>2. PICK u \in 0..w, v \in 0..h, s \in 0..w, r \in 0..h :
          EndsSeen(a, b, x0, x1, y0, y1, e, u, v, s, r)
    BY <1>1, EndsOf
  <2>3. EndsAre(a, b, e, u, v, s, r) BY <2>2 DEF EndsSeen
  <2>4. Settled(w, h, x0, x1, y0, y1, u, v, s, r)
    BY <1>1, <1>3, <1>4, <1>13, <2>3, ClippedIsSettled
  <2>5. Encloses(w, h, x0, x1, y0, y1, m, i, u, v, s, r, 0)
    <3>1. m > 0 BY <1>7
    <3> QED BY <1>1, <1>3, <1>4, <1>7, <1>13, <2>1, <2>3, <3>1, ClippedEncloses
  <2>6. u \in Int /\ v \in Int /\ s \in Int /\ r \in Int /\ m > 0 /\ 0 \in Int BY <1>7
  <2>7. u \in x0..x1 /\ v \in y0..y1 /\ s \in x0..x1 /\ r \in y0..y1
    <3>1. i \in 0..m /\ m \in Nat BY <1>7
    <3>2. /\ w \in Nat /\ h \in Nat /\ x0 \in Int /\ x1 \in Int /\ y0 \in Int /\ y1 \in Int
      OBVIOUS
    <3>3. PICK n \in Int : n <= 0 /\ Encloses(w, h, x0, x1, y0, y1, m, i, u, v, s, r, n)
      BY <2>5, <2>6
    <3>4. EndsOn(x0, x1, y0, y1, u, v, s, r)
      BY ONLY <2>1, <2>6, <3>1, <3>2, <3>3, EnclosesOn
    <3> QED BY <3>4 DEF EndsOn
  <2>8. OutCode(p) = {} /\ OutCode(q) = {} BY <1>5, <2>2, <2>7 DEF EndsSeen
  <2>9. EndsAt(a, b, p, q, u, v, s, r) BY <1>5, <2>3 DEF EndsAre, EndsAt
  <2>10. Segment(a, b, w, h, p, q, u, v, s, r)
    <3>1. /\ a \in Int \X Int /\ b \in Int \X Int /\ p \in Int \X Int /\ q \in Int \X Int
          /\ w \in Nat /\ h \in Nat /\ x0 \in Int /\ x1 \in Int /\ y0 \in Int /\ y1 \in Int
          /\ u \in 0..w /\ v \in 0..h /\ s \in 0..w /\ r \in 0..h
      OBVIOUS
    <3> QED BY ONLY <2>4, <2>7, <2>9, <3>1, SegmentPixels
  <2>11. /\ w >= h /\ m = w => i \in u..s
         /\ h > w /\ m = h => i \in v..r
    BY <1>7, <2>5, <2>6, MajorBetween
  <2>12. PICK z \in Bresenham(p, q) :
           \/ w >= h /\ w > 0 /\ m = w /\ Columns(a, b, z) = i
           \/ h > w /\ m = h /\ Rows(a, b, z) = i
    <3>1. CASE w >= h
      <4>1. w > 0 /\ m = w BY <1>7, <1>13, <3>1
      <4> QED BY <2>10, <2>11, <3>1, <4>1 DEF Segment
    <3>2. CASE h > w BY <1>7, <2>10, <2>11, <3>2 DEF Segment
    <3> QED BY <3>1, <3>2
  <2>13. z \in Int \X Int BY <2>12, RasterPixels
  <2>14. PICK z1 \in Int, z2 \in Int, c \in Int, f \in Int :
           /\ z[1] = z1 /\ z[2] = z2 /\ c = Along(d1, z1 - a1) /\ f = Along(d2, z2 - a2)
           /\ c = Columns(a, b, z) /\ f = Rows(a, b, z)
    <3>1. PICK z1 \in Int, z2 \in Int : z[1] = z1 /\ z[2] = z2 BY <2>13
    <3>2. Along(d1, z1 - a1) \in Int /\ Along(d2, z2 - a2) \in Int BY DEF Along
    <3> QED BY <1>9, <3>1, <3>2 DEF Columns, Rows
  <2>15. Off(w, h, c, f) BY <2>10, <2>12, <2>14 DEF Segment
  <2>16. Abs(w * i - m * c) < m /\ Abs(h * i - m * f) < m
    BY <1>7, <1>8, <2>12, <2>14, <2>15, PixelOfPoint
  <2>17. Abs(k - z1 * m) = Abs(w * i - m * c)
    <3>1. d1 \in Int /\ a1 \in Int /\ m \in Nat /\ i \in Nat /\ z1 \in Int BY <1>7, <1>8
    <3>2. Apart(d1, a1, m, i, z1) BY ONLY <3>1, PointApart
    <3> QED BY <1>11, <1>12, <2>14, <3>2 DEF Apart
  <2>18. Abs(l - z2 * m) = Abs(h * i - m * f)
    <3>1. d2 \in Int /\ a2 \in Int /\ m \in Nat /\ i \in Nat /\ z2 \in Int BY <1>7, <1>8
    <3>2. Apart(d2, a2, m, i, z2) BY ONLY <3>1, PointApart
    <3> QED BY <1>11, <1>12, <2>14, <3>2 DEF Apart
  <2> QED BY <1>6, <2>8, <2>12, <2>14, <2>16, <2>17, <2>18
<1>14. CASE w = 0 /\ h = 0
  <2>1. m = 1 /\ d1 = 0 /\ d2 = 0 BY <1>7, <1>11, <1>14 DEF Abs
  <2>2. k = a1 /\ l = a2 BY <1>8, <1>12, <2>1
  <2>3. \A c \in Int \X Int : InBox(a, b, w, h, c) => c = a
    <3> TAKE c \in Int \X Int
    <3> HAVE InBox(a, b, w, h, c)
    <3>1. PICK c1 \in Int, c2 \in Int : c = <<c1, c2>> /\ c[1] = c1 /\ c[2] = c2 OBVIOUS
    <3>2. Columns(a, b, c) = 0 /\ Rows(a, b, c) = 0 BY <1>14 DEF InBox
    <3>3. Columns(a, b, c) = c1 - a1 /\ Rows(a, b, c) = c2 - a2
      BY <1>9, <2>1, <3>1 DEF Columns, Rows, Along
    <3>4. c1 = a1 /\ c2 = a2 BY <3>2, <3>3
    <3>5. a = <<a1, a2>> BY <1>9
    <3> QED BY <3>1, <3>4, <3>5
  <2>4. p = a /\ q = a BY <1>5, <2>3 DEF ClipEnds
  <2>5. OutCode(a) = {}
    <3>1. a1 \in 0..(x - 1) /\ a2 \in 0..(y - 1) BY <1>10, <2>1, <2>2
    <3>2. a = <<a1, a2>> BY <1>9
    <3>3. a \in Screen BY <1>10, <3>1, <3>2 DEF Screen
    <3> QED BY <3>3, OutCodes
  <2>6. a \in LinePixels(a, b) BY <1>6, <2>4, <2>5, RasterPixels
  <2>7. Abs(k - a[1] * m) < m /\ Abs(l - a[2] * m) < m
    <3>1. k - a[1] * m = 0 /\ l - a[2] * m = 0 BY <1>9, <2>1, <2>2
    <3>2. Abs(0) = 0 BY DEF Abs
    <3> QED BY <2>1, <3>1, <3>2
  <2> QED BY <2>6, <2>7
<1> QED BY <1>13, <1>14

-----------------------------------------------------------------------------
\* The calls

LEMMA InputFacts ==
  /\ \A x \in Xs : x \in Int
  /\ \A y \in Ys : y \in Int
  /\ \A n \in Sizes : n \in Int
  /\ \A e \in Ends : e \in Int \X Int
  /\ \A r \in Radii : r \in Int
  /\ \A c \in Centres : c \in Int \X Int
  /\ \A c \in Starts : c \in Int \X Int /\ c[1] \in Int /\ c[2] \in Int
  /\ \A s \in Texts : s \in Seq(Chars(s))
BY InputAssumption DEF Chars

\* One rectangle painted, marked and asked for.
LEMMA RectIsSound ==
  ASSUME Placed, NEW x \in Int, NEW y \in Int, NEW w \in Int, NEW h \in Int,
         NEW on \in BOOLEAN, NEW kind, NEW args,
         Paint(on, RectPixels(x, y, w, h), MarkRects({ClipRect(x, y, w, h)}),
               Asked(kind, on, InRect(x, y, w, h), args))
  PROVE  Sound
<1>1. PICK r \in Rects : r = ClipRect(x, y, w, h) BY ClipIsRect
<1>2. PICK pixels : pixels = RectPixels(x, y, w, h) OBVIOUS
<1>3. pixels = InRect(x, y, w, h) /\ pixels = Covered(r)
  BY <1>1, <1>2, RectIsAsked, ClipKeepsPixels
<1>4. Paint(on, pixels, MarkRects({r}), Asked(kind, on, pixels, args))
  BY <1>1, <1>2, <1>3
<1>5. {r} \in SUBSET Rects /\ \A p \in Seen : p \in pixels => \E q \in {r} : p \in Covered(q)
  BY <1>3
<1> QED BY <1>4, <1>5, PaintInRects

\* Pixels painted and marked one by one.
LEMMA PixelsAreSound ==
  ASSUME Placed, NEW pixels, NEW asked, NEW on \in BOOLEAN, NEW kind, NEW args,
         pixels \cap Screen = asked \cap Screen,
         Paint(on, pixels, MarkPixels(pixels), Asked(kind, on, asked, args))
  PROVE  Sound
<1>1. PICK rects : rects = {ClipRect(p[1], p[2], 1, 1) : p \in pixels \cap Screen} OBVIOUS
<1>2. \A p \in Screen : p[1] \in Int /\ p[2] \in Int BY Dimensions DEF Screen
<1>3. rects \in SUBSET Rects BY <1>1, <1>2, ClipIsRect
<1>4. Paint(on, pixels, MarkRects(rects), Asked(kind, on, asked, args))
  BY <1>1 DEF MarkPixels
<1>5. Seen \subseteq Screen BY DEF Seen
<1>6. ASSUME NEW p \in Seen, p \in pixels PROVE \E r \in rects : p \in Covered(r)
  <2>1. p \in Screen /\ p[1] \in Int /\ p[2] \in Int BY <1>2, <1>5
  <2>2. p \in InRect(p[1], p[2], 1, 1) BY <2>1 DEF InRect
  <2>3. p \in Covered(ClipRect(p[1], p[2], 1, 1)) BY <2>1, <2>2, ClipKeepsPixels
  <2> QED BY <1>1, <1>6, <2>1, <2>3
<1>7. \A p \in Seen : p \in pixels <=> p \in asked BY <1>5
<1> QED BY <1>3, <1>4, <1>6, <1>7, PaintInRects

LEMMA SetPixelIsSound ==
  ASSUME Placed, NEW x \in Xs, NEW y \in Ys, NEW on \in BOOLEAN, SetPixel(x, y, on)
  PROVE  Sound
<1>1. x \in Int /\ y \in Int BY InputFacts
<1>2. {<<x, y>>} \cap Screen = InRect(x, y, 1, 1) \cap Screen
  <2>1. ASSUME NEW p \in Screen PROVE p = <<x, y>> <=> p \in InRect(x, y, 1, 1)
    <3>1. p = <<p[1], p[2]>> /\ p[1] \in Int /\ p[2] \in Int
      BY PixelShape, Dimensions DEF Cols
    <3>2. p = <<x, y>> <=> p[1] = x /\ p[2] = y BY <3>1
    <3> QED BY <1>1, <3>1, <3>2 DEF InRect
  <2> QED BY <2>1
<1> QED BY <1>2, PixelsAreSound DEF SetPixel

LEMMA DrawRectIsSound ==
  ASSUME Placed, NEW x \in Xs, NEW y \in Ys, NEW w \in Sizes, NEW h \in Sizes,
         NEW on \in BOOLEAN, DrawRect(x, y, w, h, on)
  PROVE  Sound
<1>1. x \in Int /\ y \in Int /\ w \in Int /\ h \in Int BY InputFacts
<1>2. PICK edges : edges = IF w <= 0 \/ h <= 0 THEN {} ELSE OutlineRects(x, y, w, h)
  OBVIOUS
<1>3. PICK pixels, rects :
        /\ pixels = UNION {RectPixels(e[1], e[2], e[3], e[4]) : e \in edges}
        /\ rects = {ClipRect(e[1], e[2], e[3], e[4]) : e \in edges}
  OBVIOUS
<1>4. Paint(on, pixels, MarkRects(rects), Asked("outline", on, OnBorder(x, y, w, h), <<>>))
  BY <1>2, <1>3 DEF DrawRect
<1>5. edges \subseteq Int \X Int \X Int \X Int
  <2>1. CASE w <= 0 \/ h <= 0 BY <1>2, <2>1
  <2>2. CASE ~(w <= 0 \/ h <= 0)
    <3>1. OutlineRects(x, y, w, h) \subseteq Int \X Int \X Int \X Int
      BY <1>1 DEF OutlineRects
    <3> QED BY <1>2, <2>2, <3>1
  <2> QED BY <2>1, <2>2
<1>6. \A e \in edges : e[1] \in Int /\ e[2] \in Int /\ e[3] \in Int /\ e[4] \in Int
  BY <1>5
<1>7. rects \in SUBSET Rects BY <1>3, <1>6, ClipIsRect
<1>8. ASSUME NEW p \in Seen
      PROVE  /\ p \in pixels <=> \E e \in edges : p \in InRect(e[1], e[2], e[3], e[4])
             /\ p \in pixels => \E r \in rects : p \in Covered(r)
  <2>1. \A e \in edges :
          /\ RectPixels(e[1], e[2], e[3], e[4]) = InRect(e[1], e[2], e[3], e[4])
          /\ Covered(ClipRect(e[1], e[2], e[3], e[4])) = InRect(e[1], e[2], e[3], e[4])
    BY <1>6, RectIsAsked, ClipKeepsPixels
  <2> QED BY <1>3, <2>1
<1>9. ASSUME NEW p \in Seen PROVE p \in pixels <=> p \in OnBorder(x, y, w, h)
  <2>1. p \in Screen /\ p[1] \in Int /\ p[2] \in Int BY Dimensions DEF Seen, Screen
  <2>2. CASE w <= 0 \/ h <= 0
    <3>1. p \notin InRect(x, y, w, h) BY <1>1, <2>1, <2>2 DEF InRect
    <3> QED BY <1>2, <1>3, <2>2, <3>1 DEF OnBorder
  <2>3. CASE ~(w <= 0 \/ h <= 0)
    <3>1. w > 0 /\ h > 0 /\ edges = OutlineRects(x, y, w, h) BY <1>1, <1>2, <2>3
    <3>2. (\E e \in edges : p \in InRect(e[1], e[2], e[3], e[4])) <=> p \in OnBorder(x, y, w, h)
      BY <1>1, <2>1, <3>1, EdgesAreBorder
    <3> QED BY <1>8, <3>2
  <2> QED BY <2>2, <2>3
<1> QED BY <1>4, <1>7, <1>8, <1>9, PaintInRects

LEMMA LineIsSound ==
  ASSUME Placed, NEW a, NEW b, NEW on \in BOOLEAN, DrawLine(a, b, on)
  PROVE  Sound
<1>1. PICK line : line = LinePixels(a, b) OBVIOUS
<1>2. Paint(on, line, MarkPixels(line), Asked("line", on, line, [from |-> a, to |-> b]))
  BY <1>1 DEF DrawLine
<1> QED BY <1>2, PixelsAreSound

LEMMA CircleIsSound ==
  ASSUME Placed, NEW c \in Centres, NEW r \in Radii, NEW on \in BOOLEAN, DrawCircle(c, r, on)
  PROVE  Sound
<1>1. c \in Int \X Int /\ r \in Int BY InputFacts
<1>2. PICK circle : circle = OutlinePixels(c, r) OBVIOUS
<1>3. circle = CirclePixels(c, r) \cap Screen BY <1>1, <1>2, OutlineIsAsked
<1>4. Paint(on, circle, MarkPixels(circle),
            Asked("circle", on, circle, [centre |-> c, radius |-> r]))
  BY <1>2, <1>3 DEF DrawCircle
<1> QED BY <1>4, PixelsAreSound

LEMMA DiscIsSound ==
  ASSUME Placed, NEW c, NEW r, NEW on \in BOOLEAN, FillCircle(c, r, on)
  PROVE  Sound
<1>1. PICK disc : disc = DiscPixels(c, r) OBVIOUS
<1>2. Paint(on, disc, MarkPixels(disc), Asked("disc", on, disc, [centre |-> c, radius |-> r]))
  BY <1>1 DEF FillCircle
<1> QED BY <1>2, PixelsAreSound

LEMMA TextIsSound ==
  ASSUME Placed, NEW x \in Int, NEW y \in Int, NEW s \in Texts, NEW on \in BOOLEAN,
         DrawText(x, y, s, on)
  PROVE  Sound
<1>1. s \in Seq(Chars(s)) BY InputFacts
<1>2. PICK cells, pixels, rects :
        /\ cells = TextRun(x, y, s).cells
        /\ pixels = UNION {CharPixels(c[1], c[2], c[3]) : c \in cells}
        /\ rects = {ClipRect(c[1], c[2], GlyphWidth, GlyphHeight) : c \in cells}
  OBVIOUS
<1>3. Paint(on, pixels, MarkRects(rects),
            Asked("text", on, LaidOut(x, y, s), [x |-> x, y |-> y, text |-> s]))
  BY <1>2 DEF DrawText
<1>4. pixels = LaidOut(x, y, s) BY <1>1, <1>2, RunIsLayout
<1>5. \A c \in cells : c[1] \in Int /\ c[2] \in Int
  <2>1. cells = CellsTo(x, y, s, Limit(s)) BY <1>1, <1>2, RunIsLayout
  <2>2. \A i \in Printed(s) : CellX(x, s, i) \in Int /\ CellY(y, s, i) \in Int
    BY <1>1, PlaceOfPrinted
  <2> QED BY <2>1, <2>2 DEF CellsTo
<1>6. rects \in SUBSET Rects BY <1>2, <1>5, ClipIsRect, CellSizes
<1>7. ASSUME NEW p \in Seen, p \in pixels PROVE \E r \in rects : p \in Covered(r)
  <2>1. PICK c \in cells : p \in CharPixels(c[1], c[2], c[3]) BY <1>2, <1>7
  <2>2. p \in InRect(c[1], c[2], GlyphWidth, GlyphHeight) BY <1>5, <2>1, CharInCell
  <2>3. p \in Covered(ClipRect(c[1], c[2], GlyphWidth, GlyphHeight))
    BY <1>5, <2>2, CellSizes, ClipKeepsPixels
  <2> QED BY <1>2, <2>3
<1> QED BY <1>3, <1>4, <1>6, <1>7, PaintInRects

LEMMA MarkAllCovers ==
  ASSUME Placed
  PROVE  /\ MarkAll \in [Pages -> SUBSET Cols]
         /\ \A page \in Pages : dirty[page] \subseteq MarkAll[page]
         /\ \A p \in Seen : p[1] \in MarkAll[p[2] \div ByteBits]
<1>1. \A p \in Seen : p[1] \in Cols /\ p[2] \div ByteBits \in WindowPages
  BY PixelShape DEF Seen
<1>2. WindowPages \subseteq Pages BY DEF WindowPages
<1> QED BY <1>1, <1>2 DEF Placed, MarkAll

LEMMA BufferIsSound ==
  ASSUME Placed, NEW on \in BOOLEAN, FillBuffer(on)
  PROVE  Sound
<1>1. /\ buffer' = (IF on THEN AllAddresses ELSE {}) /\ dirty' = MarkAll /\ window' = window
      /\ call'.set = (IF on THEN Screen ELSE {}) /\ call'.clear = (IF on THEN {} ELSE Screen)
  BY DEF FillBuffer, Asked
<1>2. \A p \in Seen : p \in Screen /\ p[2] \div ByteBits \in Pages
  BY DEF Seen, WindowPages
<1>3. \A p \in Seen : SentBit(p) \in AllAddresses BY SentIsInBuffer
<1>4. StepDraws BY <1>1, <1>2, <1>3 DEF StepDraws, Lit
<1>5. StepMarks BY <1>1, <1>2, MarkAllCovers DEF StepMarks
<1>6. Placed' BY <1>1, MarkAllCovers DEF Placed
<1> QED BY <1>4, <1>5, <1>6 DEF Sound

LEMMA PatternIsSound ==
  ASSUME Placed, NEW kind, NEW size, FillPattern(kind, size)
  PROVE  Sound
<1>1. PICK on : on = PatternPixels(kind, size) OBVIOUS
<1>2. /\ buffer' = (buffer \ Addresses(window, Screen)) \cup Addresses(window, on)
      /\ dirty' = MarkAll /\ window' = window
      /\ call'.set = on /\ call'.clear = Screen \ on
  BY <1>1 DEF FillPattern
<1>3. ASSUME NEW p \in Seen PROVE Lit(p)' <=> p \in on
  <2>1. SentBit(p) \in Addresses(window, on) <=> p \in on BY BitIsPainted DEF Placed
  <2>2. SentBit(p) \in Addresses(window, Screen) <=> p \in Screen
    BY BitIsPainted DEF Placed
  <2>3. p \in Screen BY DEF Seen
  <2> QED BY <1>2, <2>1, <2>2, <2>3 DEF Lit
<1>4. StepDraws
  <2>1. \A p \in Seen : p \in Screen BY DEF Seen
  <2> QED BY <1>2, <1>3, <2>1 DEF StepDraws
<1>5. StepMarks
  <2>1. \A p \in Seen : p[2] \div ByteBits \in Pages BY DEF Seen, WindowPages
  <2> QED BY <1>2, <2>1, MarkAllCovers DEF StepMarks
<1>6. Placed' BY <1>2, MarkAllCovers DEF Placed
<1> QED BY <1>4, <1>5, <1>6 DEF Sound

\* The place of a bit in a bitmap, by its byte as the code finds it and by its row.
LEMMA BitOfBitmap ==
  ASSUME NEW w \in Int, NEW col \in Int, NEW row \in Int
  PROVE  BitmapByte(w, col, row) * ByteBits + (col % ByteBits) = row * Stride(w) + col
<1>1. PICK st \in Int : st = (w + ByteBits - 1) \div ByteBits BY Dimensions, DivMod
<1>2. PICK q \in Int, b \in Int : /\ q = col \div ByteBits /\ b = col % ByteBits
                                  /\ col = ByteBits * q + b
  BY Dimensions, DivMod
<1>3. BitmapByte(w, col, row) = row * st + q BY <1>1, <1>2 DEF BitmapByte
<1>4. Stride(w) = st * ByteBits BY <1>1 DEF Stride
<1>5. (row * st + q) * ByteBits + b = row * (st * ByteBits) + (ByteBits * q + b)
  BY Dimensions
<1> QED BY <1>2, <1>3, <1>4, <1>5

LEMMA BitmapDraws ==
  ASSUME NEW x \in Int, NEW y \in Int, NEW w \in Int, NEW h \in Int, NEW size, NEW bits,
         NEW on, DrawBitmap(x, y, w, h, size, bits, on),
         NEW area, area = RectPixels(x, y, w, h),
         NEW ones, ones = {p \in area : BitmapByte(w, p[1] - x, p[2] - y) * ByteBits
                                          + ((p[1] - x) % ByteBits) \in bits},
         NEW read, read = {BitmapByte(w, p[1] - x, p[2] - y) :
                             p \in {q \in area : InWindow(window, q[2])}}
  PROVE  \/ Paint(on, {}, dirty, Asked("refused", on, {}, <<>>))
         \/ /\ w > 0 /\ h > 0 => ~(size < RequiredBytes(w, h))
            /\ Paint(on, ones, MarkRects(IF area = {} THEN {} ELSE {ClipRect(x, y, w, h)}),
                     Asked("bitmap", on, InBitmap(x, y, w, h, bits),
                           [size |-> size, read |-> read]))
BY DEF DrawBitmap

LEMMA BitmapIsSound ==
  ASSUME Placed, NEW x \in Xs, NEW y \in Ys, NEW w \in Sizes, NEW h \in Sizes, NEW size,
         NEW bits, NEW on \in BOOLEAN, DrawBitmap(x, y, w, h, size, bits, on)
  PROVE  Sound
<1>1. x \in Int /\ y \in Int /\ w \in Int /\ h \in Int BY InputFacts
<1>2. PICK area, ones, read, rects :
        /\ area = RectPixels(x, y, w, h)
        /\ ones = {p \in area : BitmapByte(w, p[1] - x, p[2] - y) * ByteBits
                                  + ((p[1] - x) % ByteBits) \in bits}
        /\ read = {BitmapByte(w, p[1] - x, p[2] - y) :
                     p \in {q \in area : InWindow(window, q[2])}}
        /\ rects = IF area = {} THEN {} ELSE {ClipRect(x, y, w, h)}
  OBVIOUS
<1>3. CASE Paint(on, {}, dirty, Asked("refused", on, {}, <<>>))
  <2>1. PICK marks : marks = dirty OBVIOUS
  <2>2. Paint(on, {}, marks, Asked("refused", on, {}, <<>>)) BY <1>3, <2>1
  <2>3. marks \in [Pages -> SUBSET Cols] BY <2>1 DEF Placed
  <2> QED BY <2>1, <2>2, <2>3, PaintIsSound
<1>4. CASE Paint(on, ones, MarkRects(rects),
                 Asked("bitmap", on, InBitmap(x, y, w, h, bits), [size |-> size, read |-> read]))
  <2>1. area = Covered(ClipRect(x, y, w, h))
    BY <1>1, <1>2, RectIsAsked, ClipKeepsPixels
  <2>2. rects \in SUBSET Rects BY <1>1, <1>2, ClipIsRect
  <2>3. ASSUME NEW p \in Seen PROVE p \in ones <=> p \in InBitmap(x, y, w, h, bits)
    <3>1. p[1] \in Int /\ p[2] \in Int BY Dimensions DEF Seen, Screen
    <3>2. BitmapByte(w, p[1] - x, p[2] - y) * ByteBits + ((p[1] - x) % ByteBits)
            = (p[2] - y) * Stride(w) + (p[1] - x)
      BY <1>1, <3>1, BitOfBitmap
    <3>3. area = InRect(x, y, w, h) BY <1>1, <1>2, RectIsAsked
    <3> QED BY <1>2, <3>2, <3>3 DEF InBitmap
  <2>4. ASSUME NEW p \in Seen, p \in ones PROVE \E r \in rects : p \in Covered(r)
    <3>1. p \in area BY <1>2, <2>4
    <3>2. rects = {ClipRect(x, y, w, h)} BY <1>2, <3>1
    <3>3. p \in Covered(ClipRect(x, y, w, h)) BY <2>1, <3>1
    <3> QED BY <3>2, <3>3
  <2> QED BY <1>4, <2>2, <2>3, <2>4, PaintInRects
<1> QED BY <1>1, <1>2, <1>3, <1>4, BitmapDraws

\* drawBitmap() reads within the size that it has accepted.
LEMMA BitmapIsRead ==
  ASSUME NEW x \in Int, NEW y \in Int, NEW w \in Int, NEW h \in Int, NEW size \in Int,
         w > 0 /\ h > 0 => ~(size < RequiredBytes(w, h)), NEW p \in RectPixels(x, y, w, h)
  PROVE  BitmapByte(w, p[1] - x, p[2] - y) \in 0..(size - 1)
<1>1. p \in InRect(x, y, w, h) BY RectIsAsked
<1>2. /\ p[1] \in Int /\ p[2] \in Int
      /\ x <= p[1] /\ p[1] < x + w /\ y <= p[2] /\ p[2] < y + h
  BY <1>1, Dimensions DEF InRect, Screen
<1>3. PICK col \in Int, row \in Int : /\ col = p[1] - x /\ row = p[2] - y
                                      /\ 0 <= col /\ col <= w - 1 /\ 0 <= row /\ row <= h - 1
  BY <1>2
<1>4. w > 0 /\ h > 0 BY <1>3
<1>5. PICK st \in Int : st = (w + ByteBits - 1) \div ByteBits BY Dimensions, DivMod
<1>6. PICK q \in Int : q = col \div ByteBits BY Dimensions, DivMod
<1>7. q >= 0
  <2>1. 0 = ByteBits * 0 + 0 /\ 0 \in 0..(ByteBits - 1) BY Dimensions
  <2>2. 0 \div ByteBits = 0 BY <2>1, Dimensions, Division
  <2>3. 0 \div ByteBits <= q BY <1>3, <1>6, Dimensions, QuotientGrows
  <2> QED BY <2>2, <2>3
<1>8. q + 1 <= st
  <2>1. PICK b \in 0..(ByteBits - 1) : col = ByteBits * q + b BY <1>6, Dimensions, DivMod
  <2>2. PICK up \in Int : up = ByteBits * (q + 1) + b BY <2>1, Dimensions
  <2>3. up = col + ByteBits BY <2>1, <2>2, Dimensions
  <2>4. up \div ByteBits = q + 1 BY <2>1, <2>2, Dimensions, Division
  <2>5. up <= w + ByteBits - 1 BY <1>3, <2>3, Dimensions
  <2>6. w + ByteBits - 1 \in Int BY Dimensions
  <2>7. up \div ByteBits <= (w + ByteBits - 1) \div ByteBits
    BY <2>5, <2>6, Dimensions, QuotientGrows
  <2> QED BY <1>5, <2>4, <2>7
<1>9. BitmapByte(w, col, row) = row * st + q BY <1>5, <1>6 DEF BitmapByte
<1>10. ~(size < st * h) BY <1>4, <1>5 DEF RequiredBytes
<1>11. row * st + q >= 0 /\ row * st + q < st * h
  <2>1. st \in Nat /\ row \in Nat /\ h - 1 - row \in Nat BY <1>3, <1>7, <1>8
  <2>2. row * st \in Nat /\ (h - 1 - row) * st \in Nat BY <2>1, Product
  <2>3. (h - 1 - row) * st = st * h - st - row * st BY <2>1
  <2>4. st * h \in Int BY <2>1
  <2> QED BY <1>7, <1>8, <2>2, <2>3, <2>4
<1>12. row * st + q \in Int BY <1>3, <1>5, <1>6
<1>13. st * h \in Int BY <1>5
<1> QED BY <1>3, <1>9, <1>10, <1>11, <1>12, <1>13

-----------------------------------------------------------------------------
\* What a call leaves behind

\* The kinds of calls of which no invariant speaks.
PlainKinds == {"pixel", "hline", "vline", "rect", "outline", "refused", "pattern", "all"}

CallInv == LineIsTheSegment /\ CirclesAreRound /\ TextIsCoherent /\ BitmapReadInBounds

LEMMA PlainCall ==
  ASSUME call'.kind \in PlainKinds
  PROVE  CallInv'
BY DEF CallInv, PlainKinds, LineIsTheSegment, CirclesAreRound, TextIsCoherent,
       BitmapReadInBounds

LEMMA PaintIsPlain ==
  ASSUME NEW on \in BOOLEAN, NEW pixels, NEW marks, NEW kind \in PlainKinds, NEW asked,
         NEW args, Paint(on, pixels, marks, Asked(kind, on, asked, args))
  PROVE  CallInv'
<1>1. call'.kind = kind BY PaintRecords DEF Records
<1> QED BY <1>1, PlainCall

LEMMA LineCall ==
  ASSUME NEW a \in Ends, NEW b \in Ends, NEW on \in BOOLEAN, DrawLine(a, b, on)
  PROVE  CallInv'
<1>1. a \in Int \X Int /\ b \in Int \X Int BY InputFacts
<1>2. PICK args : args = [from |-> a, to |-> b] OBVIOUS
<1>3. Records("line", on, LinePixels(a, b), args) BY <1>2, PaintRecords DEF DrawLine
<1>4. /\ call'.kind = "line" /\ call'.args.from = a /\ call'.args.to = b
      /\ Drawn' = LinePixels(a, b)
  BY <1>2, <1>3 DEF Records, Drawn
<1>5. FollowsSegment(a, b)' BY <1>1, <1>4, LineFollows DEF FollowsSegment
<1>6. CoversSegment(a, b)'
  <2>1. PICK m : m = AtLeast(1, Span(a, b)) OBVIOUS
  <2>2. ASSUME NEW i \in 0..m, NEW k, NEW l,
               k = a[1] * m + (b[1] - a[1]) * i, l = a[2] * m + (b[2] - a[2]) * i,
               k \in 0..((Width - 1) * m), l \in 0..((Height - 1) * m)
        PROVE  \E z \in Drawn' : Abs(k - z[1] * m) < m /\ Abs(l - z[2] * m) < m
    BY <1>1, <1>4, <2>1, <2>2, LineCovers
  <2> QED BY <2>1, <2>2 DEF CoversSegment
<1>7. LineIsTheSegment' BY <1>4, <1>5, <1>6 DEF LineIsTheSegment, FollowsSegment, CoversSegment
<1> QED BY <1>4, <1>7 DEF CallInv, CirclesAreRound, TextIsCoherent, BitmapReadInBounds

LEMMA CircleCall ==
  ASSUME NEW c \in Centres, NEW r \in Radii, NEW on \in BOOLEAN, DrawCircle(c, r, on)
  PROVE  CallInv'
<1>1. c \in Int \X Int /\ r \in Int BY InputFacts
<1>2. PICK args : args = [centre |-> c, radius |-> r] OBVIOUS
<1>3. Records("circle", on, CirclePixels(c, r) \cap Screen, args)
  BY <1>2, PaintRecords DEF DrawCircle
<1>4. /\ call'.kind = "circle" /\ call'.args.centre = c /\ call'.args.radius = r
      /\ Drawn' \subseteq CirclePixels(c, r)
  BY <1>2, <1>3 DEF Records, Drawn
<1>5. r > 1 => Round(c, r)' BY <1>1, <1>4, CircleIsRound DEF Round
<1>6. Round(call.args.centre, call.args.radius)' <=> Round(c, r)' BY <1>4 DEF Round
<1>7. CirclesAreRound' BY <1>4, <1>5, <1>6 DEF CirclesAreRound
<1> QED BY <1>4, <1>7 DEF CallInv, LineIsTheSegment, TextIsCoherent, BitmapReadInBounds

LEMMA DiscCall ==
  ASSUME NEW c \in Centres, NEW r \in Radii, NEW on \in BOOLEAN, FillCircle(c, r, on)
  PROVE  CallInv'
<1>1. c \in Int \X Int /\ r \in Int BY InputFacts
<1>2. PICK args : args = [centre |-> c, radius |-> r] OBVIOUS
<1>3. Records("disc", on, DiscPixels(c, r), args) BY <1>2, PaintRecords DEF FillCircle
<1>4. /\ call'.kind = "disc" /\ call'.args.centre = c /\ call'.args.radius = r
      /\ Drawn' = DiscPixels(c, r)
  BY <1>2, <1>3 DEF Records, Drawn
<1>5. Drawn' = Enclosed(c, r) \ LeftOut(c, r) BY <1>1, <1>4, DiscIsFilled
<1>6. CirclesAreRound' BY <1>4, <1>5 DEF CirclesAreRound
<1> QED BY <1>4, <1>6 DEF CallInv, LineIsTheSegment, TextIsCoherent, BitmapReadInBounds

LEMMA TextCall ==
  ASSUME NEW x \in Int, NEW y \in Int, NEW s \in Texts, NEW on \in BOOLEAN,
         DrawText(x, y, s, on)
  PROVE  CallInv'
<1>1. s \in Seq(Chars(s)) BY InputFacts
<1>2. PICK args : args = [x |-> x, y |-> y, text |-> s] OBVIOUS
<1>3. Records("text", on, LaidOut(x, y, s), args) BY <1>2, PaintRecords DEF DrawText
<1>4. /\ call'.kind = "text" /\ call'.args.x = x /\ call'.args.y = y /\ call'.args.text = s
      /\ Drawn' = LaidOut(x, y, s)
  BY <1>2, <1>3 DEF Records, Drawn
<1>5. ASSUME NEW p \in LaidOut(x, y, s) PROVE x <= p[1] /\ p[1] < x + TextWidth(s)
  <2>1. PICK i \in Printed(s) : p \in CharPixels(CellX(x, s, i), CellY(y, s, i), s[i])
    BY DEF LaidOut, CellX, CellY, LineOf
  <2>2. PICK cx \in Int, cy \in Int : cx = CellX(x, s, i) /\ cy = CellY(y, s, i)
    BY <1>1, PlaceOfPrinted
  <2>3. p \in InRect(cx, cy, GlyphWidth, GlyphHeight) BY <2>1, <2>2, CharInCell
  <2>4. p[1] \in Int /\ cx <= p[1] /\ p[1] < cx + GlyphWidth
    BY <2>3, Dimensions DEF InRect, Screen
  <2>5. PICK d \in Nat : d = CharWidth * ColumnOf(s, i) BY <1>1, PlaceOfPrinted
  <2>6. cx = x + d BY <2>2, <2>5 DEF CellX
  <2>7. EndOf(s, i) = d + CharWidth BY <1>1, <2>5, PlaceOfPrinted DEF EndOf
  <2>8. TextWidth(s) \in Int /\ EndOf(s, i) <= TextWidth(s) BY <1>1, WidthIsEnough
  <2> QED BY <2>4, <2>6, <2>7, <2>8, CellSizes
<1>6. InItsWidth(call.args.x, call.args.text)' BY <1>4, <1>5 DEF InItsWidth
<1>7. ASSUME OneLine(s), NEW k \in 0..Len(s) PROVE Drawn' = InTwoCalls(x, y, s, k)
  BY <1>1, <1>4, <1>7, TwoCallsAreOne
<1>8. TextIsCoherent' BY <1>4, <1>6, <1>7 DEF TextIsCoherent
<1> QED BY <1>4, <1>8 DEF CallInv, LineIsTheSegment, CirclesAreRound, BitmapReadInBounds

LEMMA BitmapIsCall ==
  ASSUME NEW x \in Xs, NEW y \in Ys, NEW w \in Sizes, NEW h \in Sizes, NEW size \in Int,
         NEW bits, NEW on \in BOOLEAN, DrawBitmap(x, y, w, h, size, bits, on)
  PROVE  CallInv'
<1>1. x \in Int /\ y \in Int /\ w \in Int /\ h \in Int BY InputFacts
<1>2. PICK area, ones, read, rects :
        /\ area = RectPixels(x, y, w, h)
        /\ ones = {p \in area : BitmapByte(w, p[1] - x, p[2] - y) * ByteBits
                                  + ((p[1] - x) % ByteBits) \in bits}
        /\ read = {BitmapByte(w, p[1] - x, p[2] - y) :
                     p \in {q \in area : InWindow(window, q[2])}}
        /\ rects = IF area = {} THEN {} ELSE {ClipRect(x, y, w, h)}
  OBVIOUS
<1>3. CASE Paint(on, {}, dirty, Asked("refused", on, {}, <<>>))
  <2>1. PICK marks : marks = dirty OBVIOUS
  <2>2. Paint(on, {}, marks, Asked("refused", on, {}, <<>>)) BY <1>3, <2>1
  <2> QED BY <2>2, PaintIsPlain DEF PlainKinds
<1>4. CASE /\ w > 0 /\ h > 0 => ~(size < RequiredBytes(w, h))
           /\ Paint(on, ones, MarkRects(rects),
                    Asked("bitmap", on, InBitmap(x, y, w, h, bits),
                          [size |-> size, read |-> read]))
  <2>1. PICK args, marks : args = [size |-> size, read |-> read] /\ marks = MarkRects(rects)
    OBVIOUS
  <2>2. Records("bitmap", on, InBitmap(x, y, w, h, bits), args)
    BY <1>4, <2>1, PaintRecords
  <2>3. call'.kind = "bitmap" /\ call'.args.size = size /\ call'.args.read = read
    BY <2>1, <2>2 DEF Records
  <2>4. ASSUME NEW byte \in read PROVE byte \in 0..(size - 1)
    <3>1. PICK p \in area : byte = BitmapByte(w, p[1] - x, p[2] - y) BY <1>2
    <3>2. p \in RectPixels(x, y, w, h) BY <1>2
    <3>3. BitmapByte(w, p[1] - x, p[2] - y) \in 0..(size - 1)
      BY <1>1, <1>4, <3>2, BitmapIsRead
    <3> QED BY <3>1, <3>3
  <2>5. BitmapReadInBounds' BY <2>3, <2>4 DEF BitmapReadInBounds
  <2> QED BY <2>3, <2>5 DEF CallInv, LineIsTheSegment, CirclesAreRound, TextIsCoherent
<1> QED BY <1>1, <1>2, <1>3, <1>4, BitmapDraws

\* Every call.
LEMMA CallIsSound ==
  ASSUME Placed, AnyCall
  PROVE  Sound /\ CallInv'
<1>1. ASSUME NEW on \in BOOLEAN, FillBuffer(on) PROVE Sound /\ CallInv'
  <2>1. CallInv' BY <1>1, PlainCall DEF FillBuffer, Asked, PlainKinds
  <2> QED BY <1>1, <2>1, BufferIsSound
<1>2. ASSUME NEW x \in Xs, NEW y \in Ys, NEW on \in BOOLEAN, SetPixel(x, y, on)
      PROVE  Sound /\ CallInv'
  <2>1. CallInv' BY <1>2, PaintIsPlain DEF SetPixel, PlainKinds
  <2> QED BY <1>2, <2>1, SetPixelIsSound
<1>3. ASSUME NEW x \in Xs, NEW y \in Ys, NEW n \in Sizes, NEW on \in BOOLEAN,
             DrawHLine(x, y, n, on)
      PROVE  Sound /\ CallInv'
  <2>1. CallInv' BY <1>3, PaintIsPlain DEF DrawHLine, PlainKinds
  <2>2. x \in Int /\ y \in Int /\ n \in Int BY InputFacts
  <2>3. Sound BY <1>3, <2>2, RectIsSound DEF DrawHLine
  <2> QED BY <2>1, <2>3
<1>4. ASSUME NEW x \in Xs, NEW y \in Ys, NEW n \in Sizes, NEW on \in BOOLEAN,
             DrawVLine(x, y, n, on)
      PROVE  Sound /\ CallInv'
  <2>1. CallInv' BY <1>4, PaintIsPlain DEF DrawVLine, PlainKinds
  <2>2. x \in Int /\ y \in Int /\ n \in Int BY InputFacts
  <2>3. Sound BY <1>4, <2>2, RectIsSound DEF DrawVLine
  <2> QED BY <2>1, <2>3
<1>5. ASSUME NEW x \in Xs, NEW y \in Ys, NEW w \in Sizes, NEW h \in Sizes,
             NEW on \in BOOLEAN, FillRect(x, y, w, h, on)
      PROVE  Sound /\ CallInv'
  <2>1. CallInv' BY <1>5, PaintIsPlain DEF FillRect, PlainKinds
  <2>2. x \in Int /\ y \in Int /\ w \in Int /\ h \in Int BY InputFacts
  <2>3. Sound BY <1>5, <2>2, RectIsSound DEF FillRect
  <2> QED BY <2>1, <2>3
<1>6. ASSUME NEW x \in Xs, NEW y \in Ys, NEW w \in Sizes, NEW h \in Sizes,
             NEW on \in BOOLEAN, DrawRect(x, y, w, h, on)
      PROVE  Sound /\ CallInv'
  <2>1. CallInv' BY <1>6, PaintIsPlain DEF DrawRect, PlainKinds
  <2> QED BY <1>6, <2>1, DrawRectIsSound
<1>7. ASSUME NEW a \in Ends, NEW b \in Ends, NEW on \in BOOLEAN, DrawLine(a, b, on)
      PROVE  Sound /\ CallInv'
  BY <1>7, LineIsSound, LineCall
<1>8. ASSUME NEW c \in Centres, NEW r \in Radii, NEW on \in BOOLEAN, DrawCircle(c, r, on)
      PROVE  Sound /\ CallInv'
  BY <1>8, CircleIsSound, CircleCall
<1>9. ASSUME NEW c \in Centres, NEW r \in Radii, NEW on \in BOOLEAN, FillCircle(c, r, on)
      PROVE  Sound /\ CallInv'
  BY <1>9, DiscIsSound, DiscCall
<1>10. ASSUME NEW p \in Starts, NEW s \in Texts, NEW on \in BOOLEAN,
              DrawText(p[1], p[2], s, on)
       PROVE  Sound /\ CallInv'
  <2>1. PICK x \in Int, y \in Int : x = p[1] /\ y = p[2] BY InputFacts
  <2>2. DrawText(x, y, s, on) BY <1>10, <2>1
  <2> QED BY <2>2, TextIsSound, TextCall
<1>11. ASSUME BitmapCall PROVE Sound /\ CallInv'
  <2>1. PICK x \in Xs, y \in Ys, w \in Sizes, h \in Sizes, on \in BOOLEAN :
          \E size \in Int : \E bits : DrawBitmap(x, y, w, h, size, bits, on)
    <3>1. PICK x \in Xs, y \in Ys, w \in Sizes, h \in Sizes, on \in BOOLEAN :
            \E size \in {(Stride(w) \div ByteBits) * h - 1, (Stride(w) \div ByteBits) * h} \cap Nat :
              \E bits \in Sources(size) : DrawBitmap(x, y, w, h, size, bits, on)
      BY <1>11 DEF BitmapCall
    <3> QED BY <3>1
  <2>2. PICK size \in Int : \E bits : DrawBitmap(x, y, w, h, size, bits, on) BY <2>1
  <2>3. PICK bits : DrawBitmap(x, y, w, h, size, bits, on) BY <2>2
  <2> QED BY <2>3, BitmapIsSound, BitmapIsCall
<1>12. ASSUME NEW kind, NEW size, FillPattern(kind, size) PROVE Sound /\ CallInv'
  <2>1. call'.kind = "pattern" BY <1>12 DEF FillPattern
  <2>2. CallInv' BY <2>1, PlainCall DEF PlainKinds
  <2> QED BY <1>12, <2>2, PatternIsSound
<1> QED
  BY <1>1, <1>2, <1>3, <1>4, <1>5, <1>6, <1>7, <1>8, <1>9, <1>10, <1>11, <1>12 DEF AnyCall

LEMMA DrawingInit == Init => Placed /\ CallInv
<1> SUFFICES ASSUME Init PROVE Placed /\ CallInv OBVIOUS
<1>1. Placed
  <2>1. PICK marked \in {{}, {0}} :
          dirty = [p \in Pages |-> IF p \in WindowPages THEN marked ELSE {}]
    BY DEF Init
  <2>2. marked \in SUBSET Cols BY Dimensions DEF Cols
  <2> QED BY <2>1, <2>2 DEF Init, Placed
<1>2. call.kind = "nothing" BY DEF Init, Nothing
<1>3. CallInv
  BY <1>2 DEF CallInv, LineIsTheSegment, CirclesAreRound, TextIsCoherent, BitmapReadInBounds
<1> QED BY <1>1, <1>3

LEMMA DrawingStep ==
  Placed /\ CallInv /\ [Next]_vars => Placed' /\ CallInv' /\ [StepDraws /\ StepMarks]_vars
<1> SUFFICES ASSUME Placed, CallInv, [Next]_vars
             PROVE  Placed' /\ CallInv' /\ [StepDraws /\ StepMarks]_vars
  OBVIOUS
<1>1. CASE Next BY <1>1, CallIsSound DEF Next, Sound
<1>2. CASE UNCHANGED vars
  <2>1. Placed' BY <1>2 DEF vars, Placed
  <2>2. CallInv'
    <3>1. call' = call BY <1>2 DEF vars
    <3>2. LineIsTheSegment'
      BY <3>1 DEF CallInv, LineIsTheSegment, FollowsSegment, CoversSegment, Drawn
    <3>3. CirclesAreRound' BY <3>1 DEF CallInv, CirclesAreRound, Round, Drawn
    <3>4. TextIsCoherent' BY <3>1 DEF CallInv, TextIsCoherent, InItsWidth, Drawn
    <3>5. BitmapReadInBounds' BY <3>1 DEF CallInv, BitmapReadInBounds
    <3> QED BY <3>2, <3>3, <3>4, <3>5 DEF CallInv
  <2> QED BY <1>2, <2>1, <2>2
<1> QED BY <1>1, <1>2

LEMMA DrawingInvariant == Spec => [](Placed /\ CallInv)
<1>1. Placed /\ CallInv /\ [Next]_vars => (Placed /\ CallInv)' BY DrawingStep
<1> QED BY <1>1, DrawingInit, PTL DEF Spec

-----------------------------------------------------------------------------
\* For every display, window and argument, a call sets and clears in the window exactly the
\* pixels that its arguments mean, and no other pixel: windows drawn one after the other
\* compose the frame that a full framebuffer holds.
THEOREM CallsDrawWhatTheyMean == Spec => DrawsWhatWasAsked
<1>1. Placed /\ CallInv /\ [Next]_vars =>
        [\A p \in Seen : Lit(p)' <=> p \in call'.set \/ (Lit(p) /\ p \notin call'.clear)]_vars
  BY DrawingStep DEF StepDraws
<1> QED BY <1>1, DrawingInvariant, PTL DEF Spec, DrawsWhatWasAsked

\* Every pixel that a call changes is in a recorded column range of its page, and a call
\* takes nothing out of a range: a flush that sends the ranges sends every change.
THEOREM CallsMarkWhatTheyChange == Spec => ChangesAreDirty
<1>1. Placed /\ CallInv /\ [Next]_vars =>
        [\A p \in Seen :
           /\ Lit(p)' # Lit(p) => p[1] \in dirty'[p[2] \div ByteBits]
           /\ dirty[p[2] \div ByteBits] \subseteq dirty'[p[2] \div ByteBits]]_vars
  BY DrawingStep DEF StepMarks
<1> QED BY <1>1, DrawingInvariant, PTL DEF Spec, ChangesAreDirty

\* A line between any two points, on the display or off it, is drawn less than a pixel from
\* the segment, and every point of the segment on the display has a pixel of the line less
\* than a pixel away: clipping neither bends a line nor drops a visible part of it.
THEOREM LinesAreTheirSegments == Spec => []LineIsTheSegment
<1>1. CallInv => LineIsTheSegment BY DEF CallInv
<1> QED BY <1>1, DrawingInvariant, PTL

\* Circles of every radius stay within a pixel and a half of the true circle, whatever the
\* loop has accumulated, and a disc is all that its circle encloses.
THEOREM CirclesStayRound == Spec => []CirclesAreRound
<1>1. CallInv => CirclesAreRound BY DEF CallInv
<1> QED BY <1>1, DrawingInvariant, PTL

\* A text of any length stays in its width, and in two calls draws what one call draws,
\* also where the cursor saturates.
THEOREM TextsFitTogether == Spec => []TextIsCoherent
<1>1. CallInv => TextIsCoherent BY DEF CallInv
<1> QED BY <1>1, DrawingInvariant, PTL

\* A bitmap of any size and place is read within the bytes that the caller has declared.
THEOREM BitmapsAreReadInBounds == Spec => []BitmapReadInBounds
<1>1. CallInv => BitmapReadInBounds BY DEF CallInv
<1> QED BY <1>1, DrawingInvariant, PTL
=============================================================================
