-------------------------- MODULE CompositorProofs --------------------------
(***************************************************************************)
(* The window system keeps its windows in order for every screen, window   *)
(* size and number of windows that satisfy the assumptions of Compositor.  *)
(***************************************************************************)
EXTENDS Compositor, SequenceTheorems, TLAPS

(* The places a window can float at. *)
FloatX == 0 .. SCREEN_W - KEEP_X
FloatY == TOPBAR_HEIGHT .. SCREEN_H - KEEP_Y

ClampX(v) == Smaller(Larger(v, 0), SatSub(SCREEN_W, KEEP_X))
ClampY(v) == Smaller(Larger(v, TOPBAR_HEIGHT), SatSub(SCREEN_H, KEEP_Y))

(* Well-formed windows with different ids, all below the next one. *)
Formed(ws, next) ==
    /\ ws \in Seq(Window)
    /\ \A i \in DOMAIN ws :
          ws[i].id < next /\ ws[i].float_x \in FloatX /\ ws[i].float_y \in FloatY
    /\ \A i, j \in DOMAIN ws : ws[i].id = ws[j].id => i = j

(* Each window is where the layout wants it; a tile is somewhere on the    *)
(* screen, since raising a window does not lay the tiles out again.        *)
Placed(ws, tile) ==
    \A i \in DOMAIN ws :
        IF tile THEN ws[i].x < SCREEN_W /\ ws[i].y \in TOPBAR_HEIGHT .. SCREEN_H - 1
                ELSE ws[i].x = ws[i].float_x /\ ws[i].y = ws[i].float_y

(* The width of a column when n windows are tiled. *)
Cell(n) == SatSub(SCREEN_W, 2 * PAD) \div n

(* Tiles lie in columns of their own, in whatever order. *)
Spaced(ws, tile) ==
    tile => \A i, j \in DOMAIN ws :
        i = j \/ ws[i].x + Cell(Len(ws)) <= ws[j].x \/ ws[j].x + Cell(Len(ws)) <= ws[i].x

(* The window that is dragged floats where the pointer has taken it, also  *)
(* while the windows are tiled: this is what a change back to floating     *)
(* windows finds.                                                          *)
Gripped(ws, d, m) ==
    d.active => \A i \in DOMAIN ws :
        ws[i].id = d.window_id =>
            ws[i].float_x = ClampX(m.x - d.offset_x) /\ ws[i].float_y = ClampY(m.y - d.offset_y)

DragState == [ active : BOOLEAN, window_id : 0 .. MaxWindowId,
               offset_x : 0 .. total_width - 1, offset_y : 0 .. total_height - 1 ]

(* The inductive invariant. *)
IInv ==
    /\ Formed(windows, next_window_id)
    /\ Placed(windows, tile_mode)
    /\ Spaced(windows, tile_mode)
    /\ Gripped(windows, drag, mouse)
    /\ next_window_id \in 1 .. MaxWindowId + 1
    /\ drag \in DragState /\ drag.window_id < next_window_id
    /\ mouse \in [x : 0 .. SCREEN_W - 1, y : 0 .. SCREEN_H - 1]
    /\ mouse_buttons \in Buttons
    /\ tile_mode \in BOOLEAN /\ dirty \in BOOLEAN /\ powered \in BOOLEAN

-----------------------------------------------------------------------------
(* Arithmetic. *)

(* The constants, one by one. *)
LEMMA Constants ==
    /\ SCREEN_W \in Nat /\ SCREEN_H \in Nat /\ TOPBAR_HEIGHT \in Nat /\ BORDER_WIDTH \in Nat
    /\ TITLE_BAR_HEIGHT \in Nat /\ WIN_W \in Nat /\ WIN_H \in Nat /\ PAD \in Nat
    /\ STEP \in Nat /\ EDGE \in Nat /\ KEEP_X \in Nat /\ KEEP_Y \in Nat /\ MaxWindowId \in Nat
    /\ total_width \in Nat /\ total_width > 0 /\ total_height \in Nat /\ total_height > 0
    /\ SCREEN_W > 0 /\ SCREEN_H > 0
  <1>1. /\ SCREEN_W \in Nat /\ SCREEN_H \in Nat /\ TOPBAR_HEIGHT \in Nat /\ BORDER_WIDTH \in Nat
        /\ TITLE_BAR_HEIGHT \in Nat /\ WIN_W \in Nat /\ WIN_H \in Nat /\ PAD \in Nat
        /\ STEP \in Nat /\ EDGE \in Nat /\ KEEP_X \in Nat /\ KEEP_Y \in Nat /\ MaxWindowId \in Nat
    BY GeometryAssumption
  <1>2. /\ total_width \in Nat /\ total_width > 0 /\ total_height \in Nat /\ total_height > 0
    BY <1>1, ScreenAssumption DEF total_width, total_height
  <1>3. SCREEN_W > 0 /\ SCREEN_H > 0
    BY <1>1, ScreenAssumption
  <1> QED BY <1>1, <1>2, <1>3

(* min() and max() of two numbers. *)
LEMMA SmallerLarger ==
    ASSUME NEW a \in Int, NEW b \in Int
    PROVE  /\ Smaller(a, b) = IF a <= b THEN a ELSE b
           /\ Larger(a, b) = IF a >= b THEN a ELSE b
  <1>1. Smaller(a, b) \in {a, b} /\ Smaller(a, b) <= a /\ Smaller(a, b) <= b
    <2>1. \E x \in {a, b} : \A y \in {a, b} : x =< y
      OBVIOUS
    <2> QED BY <2>1 DEF Smaller, Min
  <1>2. Larger(a, b) \in {a, b} /\ Larger(a, b) >= a /\ Larger(a, b) >= b
    <2>1. \E x \in {a, b} : \A y \in {a, b} : x >= y
      OBVIOUS
    <2> QED BY <2>1 DEF Larger, Max
  <1> QED BY <1>1, <1>2

(* The clamping of a drag ends at a place a window can float at, and       *)
(* leaves such a place alone.                                              *)
LEMMA Clamped ==
    ASSUME NEW v \in Int
    PROVE  /\ ClampX(v) \in FloatX /\ (v \in FloatX => ClampX(v) = v)
           /\ ClampY(v) \in FloatY /\ (v \in FloatY => ClampY(v) = v)
  <1>1. SatSub(SCREEN_W, KEEP_X) = SCREEN_W - KEEP_X /\ SCREEN_W - KEEP_X \in Nat
    BY Constants, ScreenAssumption DEF SatSub
  <1>2. SatSub(SCREEN_H, KEEP_Y) = SCREEN_H - KEEP_Y /\ SCREEN_H - KEEP_Y \in Nat
    BY Constants, ScreenAssumption DEF SatSub
  <1>3. Larger(v, 0) = (IF v >= 0 THEN v ELSE 0)
    BY SmallerLarger
  <1>4. Larger(v, TOPBAR_HEIGHT) = (IF v >= TOPBAR_HEIGHT THEN v ELSE TOPBAR_HEIGHT)
    BY SmallerLarger, Constants
  <1>5. ClampX(v) = IF Larger(v, 0) <= SCREEN_W - KEEP_X THEN Larger(v, 0) ELSE SCREEN_W - KEEP_X
    BY <1>1, <1>3, SmallerLarger, Constants DEF ClampX
  <1>6. ClampY(v) = IF Larger(v, TOPBAR_HEIGHT) <= SCREEN_H - KEEP_Y
                      THEN Larger(v, TOPBAR_HEIGHT) ELSE SCREEN_H - KEEP_Y
    BY <1>2, <1>4, SmallerLarger, Constants DEF ClampY
  <1>7. ClampX(v) \in FloatX /\ (v \in FloatX => ClampX(v) = v)
    BY <1>1, <1>3, <1>5, Constants DEF FloatX
  <1>8. ClampY(v) \in FloatY /\ (v \in FloatY => ClampY(v) = v)
    BY <1>2, <1>4, <1>6, Constants, ScreenAssumption DEF FloatY
  <1> QED BY <1>7, <1>8

(* Columns: n of them fit into what is divided among them. *)
LEMMA Columns ==
    ASSUME NEW a \in Nat, NEW n \in Nat, n > 0
    PROVE  LET c == a \div n IN
           /\ c \in Nat
           /\ \A i \in 1 .. n : (i - 1) * c \in Nat /\ (i - 1) * c + c <= a
           /\ \A i, j \in 1 .. n : i < j => (i - 1) * c + c <= (j - 1) * c
  <1> DEFINE c == a \div n
  <1>1. c \in Nat /\ n * c <= a
    BY Z3
  <1>2. ASSUME NEW i \in 1 .. n, NEW j \in 1 .. n, i < j
        PROVE  (i - 1) * c + c <= (j - 1) * c
    <2> HIDE DEF c
    <2>1. (i - 1) * c + c = i * c
      BY <1>1
    <2>2. i * c <= (j - 1) * c
      BY <1>1, <1>2
    <2> QED BY <2>1, <2>2, <1>1
  <1>3. ASSUME NEW i \in 1 .. n
        PROVE  (i - 1) * c \in Nat /\ (i - 1) * c + c <= a
    <2> HIDE DEF c
    <2>1. (i - 1) * c + c = i * c /\ (i - 1) * c \in Nat
      BY <1>1
    <2>2. i * c <= n * c
      BY <1>1
    <2> QED BY <2>1, <2>2, <1>1
  <1> QED BY <1>1, <1>2, <1>3

-----------------------------------------------------------------------------
(* Sequences of windows. *)

(* Removing an entry moves the ones above it down by one. *)
LEMMA RemoveAtFacts ==
    ASSUME NEW S, NEW ws \in Seq(S), NEW i \in DOMAIN ws
    PROVE  /\ RemoveAt(ws, i) \in Seq(S)
           /\ Len(RemoveAt(ws, i)) = Len(ws) - 1
           /\ DOMAIN RemoveAt(ws, i) = 1 .. Len(ws) - 1
           /\ \A k \in 1 .. Len(ws) - 1 :
                 RemoveAt(ws, i)[k] = ws[IF k < i THEN k ELSE k + 1]
  <1>1. Len(ws) \in Nat /\ i \in 1 .. Len(ws)
    OBVIOUS
  <1> DEFINE a == SubSeq(ws, 1, i - 1)
             b == SubSeq(ws, i + 1, Len(ws))
  <1>2. a \in Seq(S) /\ Len(a) = i - 1 /\ \A k \in 1 .. i - 1 : a[k] = ws[k]
    BY <1>1
  <1>3. b \in Seq(S) /\ Len(b) = Len(ws) - i /\ \A k \in 1 .. Len(ws) - i : b[k] = ws[i + k]
    BY <1>1
  <1> DEFINE c == a \o b
  <1>4. RemoveAt(ws, i) = c
    BY DEF RemoveAt
  <1> HIDE DEF a, b
  <1>5. /\ c \in Seq(S) /\ Len(c) = Len(a) + Len(b)
        /\ \A k \in 1 .. Len(a) + Len(b) : c[k] = IF k <= Len(a) THEN a[k] ELSE b[k - Len(a)]
    BY <1>2, <1>3, ConcatProperties
  <1> HIDE DEF c
  <1>6. Len(c) = Len(ws) - 1 /\ DOMAIN c = 1 .. Len(ws) - 1
    BY <1>1, <1>2, <1>3, <1>5
  <1>7. ASSUME NEW k \in 1 .. Len(ws) - 1
        PROVE  c[k] = ws[IF k < i THEN k ELSE k + 1]
    <2>a. Len(a) + Len(b) = Len(ws) - 1 /\ Len(a) = i - 1
      BY <1>1, <1>2, <1>3
    <2>b. c[k] = IF k <= i - 1 THEN a[k] ELSE b[k - (i - 1)]
      BY <1>5, <2>a
    <2>1. CASE k < i
      BY <1>1, <1>2, <2>b, <2>1
    <2>2. CASE ~ (k < i)
      <3>1. c[k] = b[k - (i - 1)]
        BY <1>1, <2>b, <2>2
      <3>2. k - (i - 1) \in 1 .. Len(ws) - i /\ i + (k - (i - 1)) = k + 1
        BY <1>1, <2>2
      <3> QED BY <3>1, <3>2, <1>3, <2>2
    <2> QED BY <2>1, <2>2
  <1> QED BY <1>4, <1>5, <1>6, <1>7

(* Raising a window permutes the windows. *)
LEMMA RaisedFacts ==
    ASSUME NEW S, NEW ws \in Seq(S), NEW i \in DOMAIN ws
    PROVE  /\ Raised(ws, i) \in Seq(S)
           /\ Len(Raised(ws, i)) = Len(ws) /\ DOMAIN Raised(ws, i) = DOMAIN ws
           /\ \A k \in DOMAIN ws :
                 Raised(ws, i)[k] = ws[IF k < i THEN k ELSE IF k < Len(ws) THEN k + 1 ELSE i]
  <1>1. Len(ws) \in Nat /\ i \in 1 .. Len(ws) /\ DOMAIN ws = 1 .. Len(ws) /\ ws[i] \in S
    OBVIOUS
  <1> DEFINE r == RemoveAt(ws, i)
             e == ws[i]
             q == Append(r, e)
  <1>2. /\ r \in Seq(S) /\ Len(r) = Len(ws) - 1
        /\ \A k \in 1 .. Len(ws) - 1 : r[k] = ws[IF k < i THEN k ELSE k + 1]
    BY RemoveAtFacts
  <1>3. Raised(ws, i) = q /\ e = ws[i] /\ e \in S
    BY <1>1 DEF Raised
  <1> HIDE DEF r, e
  <1>4. /\ q \in Seq(S) /\ Len(q) = Len(r) + 1
        /\ \A k \in 1 .. Len(r) : q[k] = r[k]
        /\ q[Len(r) + 1] = e
    BY <1>2, <1>3, AppendProperties
  <1> HIDE DEF q
  <1>5. Len(r) + 1 = Len(ws) /\ Len(q) = Len(ws) /\ DOMAIN q = DOMAIN ws
    BY <1>1, <1>2, <1>4
  <1>6. ASSUME NEW k \in DOMAIN ws
        PROVE  q[k] = ws[IF k < i THEN k ELSE IF k < Len(ws) THEN k + 1 ELSE i]
    BY <1>1, <1>2, <1>3, <1>4, <1>5
  <1> QED BY <1>3, <1>4, <1>5, <1>6

(* v has some of the windows of ws, each once. *)
Picks(v, ws) ==
    \E f \in [DOMAIN v -> DOMAIN ws] :
        /\ \A j, k \in DOMAIN v : f[j] = f[k] => j = k
        /\ \A k \in DOMAIN v : v[k] = ws[f[k]]

(* Closing a window leaves the others, each once. *)
LEMMA RemoveAtPicks ==
    ASSUME NEW ws \in Seq(Window), NEW i \in DOMAIN ws
    PROVE  RemoveAt(ws, i) \in Seq(Window) /\ Picks(RemoveAt(ws, i), ws)
  <1>1. Len(ws) \in Nat /\ i \in 1 .. Len(ws) /\ DOMAIN ws = 1 .. Len(ws)
    OBVIOUS
  <1>2. /\ RemoveAt(ws, i) \in Seq(Window)
        /\ DOMAIN RemoveAt(ws, i) = 1 .. Len(ws) - 1
        /\ \A k \in 1 .. Len(ws) - 1 : RemoveAt(ws, i)[k] = ws[IF k < i THEN k ELSE k + 1]
    BY RemoveAtFacts
  <1> DEFINE f == [k \in 1 .. Len(ws) - 1 |-> IF k < i THEN k ELSE k + 1]
  <1>3. f \in [1 .. Len(ws) - 1 -> 1 .. Len(ws)]
    BY <1>1
  <1>4. \A j, k \in 1 .. Len(ws) - 1 : f[j] = f[k] => j = k
    BY <1>1
  <1>5. \A k \in 1 .. Len(ws) - 1 : RemoveAt(ws, i)[k] = ws[f[k]]
    BY <1>2
  <1> QED BY <1>1, <1>2, <1>3, <1>4, <1>5 DEF Picks

(* Raising a window keeps each window once. *)
LEMMA RaisedPicks ==
    ASSUME NEW ws \in Seq(Window), NEW i \in DOMAIN ws
    PROVE  Raised(ws, i) \in Seq(Window) /\ Picks(Raised(ws, i), ws)
  <1>1. Len(ws) \in Nat /\ i \in 1 .. Len(ws) /\ DOMAIN ws = 1 .. Len(ws)
    OBVIOUS
  <1>2. /\ Raised(ws, i) \in Seq(Window)
        /\ DOMAIN Raised(ws, i) = DOMAIN ws
        /\ \A k \in DOMAIN ws :
              Raised(ws, i)[k] = ws[IF k < i THEN k ELSE IF k < Len(ws) THEN k + 1 ELSE i]
    BY RaisedFacts
  <1> DEFINE f == [k \in 1 .. Len(ws) |-> IF k < i THEN k ELSE IF k < Len(ws) THEN k + 1 ELSE i]
  <1>3. f \in [1 .. Len(ws) -> 1 .. Len(ws)]
    BY <1>1
  <1>4. \A k \in 1 .. Len(ws) :
           f[k] = IF k < i THEN k ELSE IF k < Len(ws) THEN k + 1 ELSE i
    OBVIOUS
  <1> HIDE DEF f
  <1>5. ASSUME NEW j \in 1 .. Len(ws), NEW k \in 1 .. Len(ws), f[j] = f[k]
        PROVE  j = k
    BY <1>1, <1>4, <1>5
  <1>6. \A k \in DOMAIN ws : Raised(ws, i)[k] = ws[f[k]]
    BY <1>1, <1>2, <1>4
  <1> QED BY <1>1, <1>2, <1>3, <1>5, <1>6 DEF Picks

(* What is said of each window, or of each two, is kept when windows go or *)
(* change places.                                                          *)
LEMMA PicksKeep ==
    ASSUME NEW ws, NEW v \in Seq(Window), Picks(v, ws),
           NEW next, NEW tile, NEW d, NEW m
    PROVE  /\ Formed(ws, next) => Formed(v, next)
           /\ Placed(ws, tile) => Placed(v, tile)
           /\ Gripped(ws, d, m) => Gripped(v, d, m)
           /\ Len(v) = Len(ws) /\ Spaced(ws, tile) => Spaced(v, tile)
  <1> PICK f \in [DOMAIN v -> DOMAIN ws] :
        /\ \A j, k \in DOMAIN v : f[j] = f[k] => j = k
        /\ \A k \in DOMAIN v : v[k] = ws[f[k]]
    BY DEF Picks
  <1>1. Formed(ws, next) => Formed(v, next)
    BY DEF Formed
  <1>2. Placed(ws, tile) => Placed(v, tile)
    BY DEF Placed
  <1>3. Gripped(ws, d, m) => Gripped(v, d, m)
    BY DEF Gripped
  <1>4. Len(v) = Len(ws) /\ Spaced(ws, tile) => Spaced(v, tile)
    BY DEF Spaced
  <1> QED BY <1>1, <1>2, <1>3, <1>4

(* The screen in columns. *)
LEMMA LayoutFacts ==
    ASSUME NEW next, NEW ws, Formed(ws, next), NEW tile \in BOOLEAN
    PROVE  /\ Formed(Layout(ws, tile), next)
           /\ Placed(Layout(ws, tile), tile)
           /\ Spaced(Layout(ws, tile), tile)
           /\ \A d, m : Gripped(ws, d, m) => Gripped(Layout(ws, tile), d, m)
           /\ DOMAIN Layout(ws, tile) = DOMAIN ws
           /\ \A i \in DOMAIN ws : Layout(ws, tile)[i].id = ws[i].id
  <1> DEFINE a == SatSub(SCREEN_W, 2 * PAD)
             h == SatSub(SCREEN_H, TOPBAR_HEIGHT + 2 * PAD)
             c == Cell(Len(ws))
             in == SatSub(c, total_width) \div 2
             down == SatSub(h, total_height) \div 2
             L == Layout(ws, tile)
  <1>1. ws \in Seq(Window) /\ Len(ws) \in Nat /\ DOMAIN ws = 1 .. Len(ws)
    BY DEF Formed
  <1>2. a \in Nat /\ (a > 0 => PAD + a <= SCREEN_W) /\ PAD < SCREEN_W
    BY Constants, ScreenAssumption DEF SatSub
  <1>3. /\ down \in Nat /\ TOPBAR_HEIGHT + PAD + down < SCREEN_H
    <2>1. h \in Nat /\ (h > 0 => TOPBAR_HEIGHT + PAD + h <= SCREEN_H)
      BY Constants DEF SatSub
    <2> HIDE DEF h
    <2>2. down \in Nat /\ (h > 0 => down < h) /\ (h = 0 => down = 0)
      BY <2>1, Constants DEF SatSub
    <2> QED BY <2>1, <2>2, Constants, ScreenAssumption
  <1>4. L = [i \in DOMAIN ws |->
               IF tile THEN [ws[i] EXCEPT !.x = PAD + (i - 1) * c + in,
                                          !.y = TOPBAR_HEIGHT + PAD + down]
                       ELSE [ws[i] EXCEPT !.x = ws[i].float_x, !.y = ws[i].float_y]]
    BY DEF Layout, Cell
  <1>5. ASSUME NEW i \in DOMAIN ws
        PROVE  /\ c \in Nat /\ in \in Nat
               /\ (i - 1) * c \in Nat
               /\ PAD + (i - 1) * c + in \in 0 .. SCREEN_W - 1
               /\ \A j \in DOMAIN ws : i < j => (i - 1) * c + c <= (j - 1) * c
    <2>a. Len(ws) > 0 /\ c = a \div Len(ws)
      BY <1>1 DEF Cell
    <2>1. /\ c \in Nat
          /\ \A k \in 1 .. Len(ws) : (k - 1) * c \in Nat /\ (k - 1) * c + c <= a
          /\ \A k, j \in 1 .. Len(ws) : k < j => (k - 1) * c + c <= (j - 1) * c
      <3> HIDE DEF a, c
      <3> QED BY <1>1, <1>2, <2>a, Columns
    <2>2. in \in Nat /\ (c > 0 => in < c) /\ (c = 0 => in = 0)
      <3> HIDE DEF c
      <3> QED BY <2>1, Constants DEF SatSub
    <2> HIDE DEF a, c, in
    <2>3. (i - 1) * c \in Nat /\ (i - 1) * c + c <= a
      BY <1>1, <2>1
    <2>4. PAD + (i - 1) * c + in \in 0 .. SCREEN_W - 1
      <3> DEFINE p == (i - 1) * c
      <3>1. p \in Nat /\ p + c <= a /\ (c = 0 => p = 0)
        BY <1>1, <2>3
      <3> HIDE DEF p
      <3>2. PAD + p + in \in 0 .. SCREEN_W - 1
        BY <3>1, <2>1, <2>2, <1>2, Constants
      <3> QED BY <3>2 DEF p
    <2> QED BY <1>1, <2>1, <2>2, <2>3, <2>4
  <1>6. DOMAIN L = DOMAIN ws
    BY <1>4
  <1>7. ASSUME NEW i \in DOMAIN ws
        PROVE  /\ L[i] \in Window /\ L[i].id = ws[i].id
               /\ L[i].float_x = ws[i].float_x /\ L[i].float_y = ws[i].float_y
               /\ tile => /\ L[i].x = PAD + (i - 1) * c + in
                          /\ L[i].x \in 0 .. SCREEN_W - 1
                          /\ L[i].y \in TOPBAR_HEIGHT .. SCREEN_H - 1
               /\ ~ tile => L[i].x = ws[i].float_x /\ L[i].y = ws[i].float_y
    <2> DEFINE nx == PAD + (i - 1) * c + in
               ny == TOPBAR_HEIGHT + PAD + down
    <2>1. /\ nx \in 0 .. SCREEN_W - 1 /\ nx \in 0 .. SCREEN_W
          /\ ny \in TOPBAR_HEIGHT .. SCREEN_H - 1 /\ ny \in 0 .. SCREEN_H
      <3>1. nx \in 0 .. SCREEN_W - 1
        BY <1>5
      <3> HIDE DEF nx, down
      <3> QED BY <3>1, <1>3, Constants
    <2>2. ws[i] \in Window
      BY <1>1
    <2>3. L[i] = IF tile THEN [ws[i] EXCEPT !.x = nx, !.y = ny]
                         ELSE [ws[i] EXCEPT !.x = ws[i].float_x, !.y = ws[i].float_y]
      BY <1>4
    <2> HIDE DEF nx, ny, L
    <2>4. /\ L[i] \in Window /\ L[i].id = ws[i].id
          /\ L[i].float_x = ws[i].float_x /\ L[i].float_y = ws[i].float_y
          /\ tile => L[i].x = nx /\ L[i].y = ny
          /\ ~ tile => L[i].x = ws[i].float_x /\ L[i].y = ws[i].float_y
      BY <2>1, <2>2, <2>3 DEF Window
    <2> QED BY <2>1, <2>4 DEF nx
  <1>8. L \in Seq(Window) /\ Len(L) = Len(ws)
    <2>1. \A i \in 1 .. Len(ws) : L[i] \in Window
      BY <1>1, <1>7
    <2>2. L \in [1 .. Len(ws) -> Window]
      BY <1>1, <1>4, <2>1
    <2> QED BY <1>1, <2>2
  <1>9. ASSUME NEW i \in DOMAIN ws, NEW j \in DOMAIN ws, i < j, tile
        PROVE  L[i].x + c <= L[j].x
    <2> DEFINE p == (i - 1) * c
               q == (j - 1) * c
    <2>1. p \in Nat /\ q \in Nat /\ p + c <= q /\ c \in Nat /\ in \in Nat
      BY <1>5, <1>9
    <2>2. L[i].x = PAD + p + in /\ L[j].x = PAD + q + in
      BY <1>7, <1>9
    <2> HIDE DEF p, q, c, in, L
    <2> QED BY <2>1, <2>2, Constants
  <1> HIDE DEF L, c, in, down, a, h
  <1>10. Formed(L, next)
    BY <1>6, <1>7, <1>8 DEF Formed
  <1>11. Placed(L, tile)
    BY <1>6, <1>7, Constants DEF Placed
  <1>12. Spaced(L, tile)
    <2> SUFFICES ASSUME tile, NEW i \in DOMAIN ws, NEW j \in DOMAIN ws, i # j
                 PROVE  L[i].x + Cell(Len(L)) <= L[j].x \/ L[j].x + Cell(Len(L)) <= L[i].x
      BY <1>6 DEF Spaced
    <2>1. i < j \/ j < i
      BY <1>1
    <2> QED BY <2>1, <1>8, <1>9 DEF c
  <1>13. \A d, m : Gripped(ws, d, m) => Gripped(L, d, m)
    BY <1>6, <1>7 DEF Gripped
  <1> QED BY <1>6, <1>7, <1>10, <1>11, <1>12, <1>13 DEF L

(* A new window floats on the screen, below the top bar. *)
LEMMA NewWindowFacts ==
    ASSUME NEW owner \in Owners, windows \in Seq(Window), next_window_id \in 1 .. MaxWindowId
    PROVE  LET w == NewWindow(owner) IN
           /\ w \in Window /\ w.id = next_window_id
           /\ w.float_x \in FloatX /\ w.float_y \in FloatY
           /\ w.x = w.float_x /\ w.y = w.float_y
  <1> DEFINE n == Len(windows) * STEP
             center_x == SatSub(SCREEN_W, total_width) \div 2
             center_y == TOPBAR_HEIGHT
                           + SatSub(SatSub(SCREEN_H, TOPBAR_HEIGHT), total_height) \div 2
             fx == Smaller(center_x + n, SatSub(SCREEN_W, total_width + EDGE))
             fy == Smaller(center_y + n, SatSub(SCREEN_H, total_height + EDGE))
             w == NewWindow(owner)
  <1>1. n \in Nat
    BY Constants
  <1>2. center_x \in Nat
    BY Constants DEF SatSub
  <1>3. center_y \in Nat /\ center_y >= TOPBAR_HEIGHT
    BY Constants DEF SatSub
  <1>4. w = [ id |-> next_window_id, owner |-> owner, x |-> fx, y |-> fy,
              float_x |-> fx, float_y |-> fy ]
    BY DEF NewWindow
  <1> HIDE DEF n, center_x, center_y
  <1>5. fx \in FloatX
    <2>1. /\ SatSub(SCREEN_W, total_width + EDGE) \in Nat
          /\ SatSub(SCREEN_W, total_width + EDGE) <= SCREEN_W - KEEP_X
      BY Constants, ScreenAssumption DEF SatSub
    <2>2. fx = IF center_x + n <= SatSub(SCREEN_W, total_width + EDGE)
                 THEN center_x + n ELSE SatSub(SCREEN_W, total_width + EDGE)
      BY <1>1, <1>2, <2>1, SmallerLarger
    <2> QED BY <1>1, <1>2, <2>1, <2>2, Constants DEF FloatX
  <1>6. fy \in FloatY
    <2>1. /\ SatSub(SCREEN_H, total_height + EDGE) \in Nat
          /\ SatSub(SCREEN_H, total_height + EDGE) <= SCREEN_H - KEEP_Y
          /\ SatSub(SCREEN_H, total_height + EDGE) >= TOPBAR_HEIGHT
      BY Constants, ScreenAssumption DEF SatSub
    <2>2. fy = IF center_y + n <= SatSub(SCREEN_H, total_height + EDGE)
                 THEN center_y + n ELSE SatSub(SCREEN_H, total_height + EDGE)
      BY <1>1, <1>3, <2>1, SmallerLarger
    <2> QED BY <1>1, <1>3, <2>1, <2>2, Constants DEF FloatY
  <1> HIDE DEF fx, fy
  <1>7. fx \in 0 .. SCREEN_W /\ fy \in 0 .. SCREEN_H
    BY <1>5, <1>6, Constants DEF FloatX, FloatY
  <1> QED BY <1>4, <1>5, <1>6, <1>7 DEF Window

(* The windows with one more on top. *)
LEMMA AppendKeeps ==
    ASSUME NEW ws, NEW next \in 1 .. MaxWindowId, Formed(ws, next),
           NEW w \in Window, w.id = next, w.float_x \in FloatX, w.float_y \in FloatY,
           NEW d, d.window_id < next, NEW m, Gripped(ws, d, m)
    PROVE  /\ Formed(Append(ws, w), next + 1)
           /\ Gripped(Append(ws, w), d, m)
           /\ w.x = w.float_x /\ w.y = w.float_y /\ Placed(ws, FALSE) => Placed(Append(ws, w), FALSE)
  <1> DEFINE q == Append(ws, w)
  <1>1. ws \in Seq(Window) /\ Len(ws) \in Nat /\ DOMAIN ws = 1 .. Len(ws)
    BY DEF Formed
  <1>2. /\ q \in Seq(Window) /\ Len(q) = Len(ws) + 1
        /\ \A i \in 1 .. Len(ws) : q[i] = ws[i]
        /\ q[Len(ws) + 1] = w
    BY <1>1, AppendProperties
  <1> HIDE DEF q
  <1>3. DOMAIN q = 1 .. Len(ws) + 1
    BY <1>1, <1>2
  <1>4. \A i \in DOMAIN q : (i \in DOMAIN ws /\ q[i] = ws[i]) \/ (i = Len(ws) + 1 /\ q[i] = w)
    <2> SUFFICES ASSUME NEW i \in 1 .. Len(ws) + 1
                 PROVE  (i \in DOMAIN ws /\ q[i] = ws[i]) \/ (i = Len(ws) + 1 /\ q[i] = w)
      BY <1>3
    <2>1. i \in 1 .. Len(ws) \/ i = Len(ws) + 1
      BY <1>1
    <2>2. CASE i \in 1 .. Len(ws)
      BY <1>1, <1>2, <2>2
    <2>3. CASE i = Len(ws) + 1
      BY <1>2, <2>3
    <2> QED BY <2>1, <2>2, <2>3
  <1>5. ASSUME NEW i \in DOMAIN ws
        PROVE  ws[i].id \in Nat /\ ws[i].id < next
    <2>1. ws[i] \in Window
      BY <1>1
    <2>2. ws[i].id < next
      BY DEF Formed
    <2> QED BY <2>1, <2>2, Constants DEF Window
  <1>6. \A i \in DOMAIN q : q[i].id < next + 1 /\ q[i].float_x \in FloatX /\ q[i].float_y \in FloatY
    BY <1>4, <1>5 DEF Formed
  <1>7. ASSUME NEW i \in DOMAIN q, NEW j \in DOMAIN q, q[i].id = q[j].id
        PROVE  i = j
    <2>1. CASE i \in DOMAIN ws /\ j \in DOMAIN ws /\ q[i] = ws[i] /\ q[j] = ws[j]
      BY <1>7, <2>1 DEF Formed
    <2>2. CASE q[i] = w \/ q[j] = w
      BY <1>4, <1>5, <1>7, <2>2, Constants
    <2> QED BY <1>4, <2>1, <2>2
  <1>8. Formed(q, next + 1)
    BY <1>2, <1>6, <1>7 DEF Formed
  <1>9. Gripped(q, d, m)
    BY <1>4 DEF Gripped
  <1>10. w.x = w.float_x /\ w.y = w.float_y /\ Placed(ws, FALSE) => Placed(q, FALSE)
    BY <1>4 DEF Placed
  <1> QED BY <1>8, <1>9, <1>10 DEF q

(* A step of a drag. *)
LEMMA DraggedFacts ==
    ASSUME NEW px \in 0 .. SCREEN_W - 1, NEW py \in 0 .. SCREEN_H - 1,
           NEW next, Formed(windows, next), drag \in DragState
    PROVE  LET q == DraggedTo(px, py) IN
           /\ Formed(q, next)
           /\ Placed(windows, FALSE) => Placed(q, FALSE)
           /\ Gripped(q, drag, [x |-> px, y |-> py])
           /\ DOMAIN q = DOMAIN windows
           /\ \A i \in DOMAIN windows : q[i].id = windows[i].id
  <1> DEFINE q == DraggedTo(px, py)
             nx == DragX(px)
             ny == DragY(py)
             ox == px - drag.offset_x
             oy == py - drag.offset_y
  <1>1. windows \in Seq(Window) /\ Len(windows) \in Nat /\ DOMAIN windows = 1 .. Len(windows)
    BY DEF Formed
  <1>2. ox \in Int /\ oy \in Int
    BY Constants DEF DragState
  <1>3. nx = ClampX(ox) /\ ny = ClampY(oy)
    BY DEF DragX, DragY, ClampX, ClampY
  <1>4. nx \in FloatX /\ ny \in FloatY
    BY <1>2, <1>3, Clamped
  <1>5. nx \in 0 .. SCREEN_W /\ ny \in 0 .. SCREEN_H
    BY <1>4, Constants DEF FloatX, FloatY
  <1>6. q = [i \in DOMAIN windows |->
              IF windows[i].id = drag.window_id
                THEN [windows[i] EXCEPT !.x = nx, !.y = ny, !.float_x = nx, !.float_y = ny]
                ELSE windows[i]]
    BY DEF DraggedTo
  <1> HIDE DEF nx, ny, q
  <1>7. ASSUME NEW i \in DOMAIN windows
        PROVE  /\ q[i] \in Window /\ q[i].id = windows[i].id
               /\ windows[i].id = drag.window_id =>
                    q[i].x = nx /\ q[i].y = ny /\ q[i].float_x = nx /\ q[i].float_y = ny
               /\ windows[i].id # drag.window_id => q[i] = windows[i]
    <2>1. windows[i] \in Window
      BY <1>1
    <2> QED BY <1>5, <1>6, <2>1 DEF Window
  <1>8. q \in Seq(Window) /\ DOMAIN q = DOMAIN windows
    <2>1. q \in [1 .. Len(windows) -> Window]
      BY <1>1, <1>6, <1>7
    <2> QED BY <1>1, <2>1
  <1>9. Formed(q, next)
    <2>1. \A i \in DOMAIN q :
             q[i].id < next /\ q[i].float_x \in FloatX /\ q[i].float_y \in FloatY
      BY <1>4, <1>7, <1>8 DEF Formed
    <2>2. \A i, j \in DOMAIN q : q[i].id = q[j].id => i = j
      BY <1>7, <1>8 DEF Formed
    <2> QED BY <1>8, <2>1, <2>2 DEF Formed
  <1>10. Placed(windows, FALSE) => Placed(q, FALSE)
    BY <1>7, <1>8 DEF Placed
  <1>11. Gripped(q, drag, [x |-> px, y |-> py])
    BY <1>3, <1>7, <1>8 DEF Gripped
  <1> QED BY <1>7, <1>8, <1>9, <1>10, <1>11 DEF q

-----------------------------------------------------------------------------
(* The inductive invariant. *)

(* The desktop starts empty. *)
LEMMA InitIInv == Init => IInv
  <1> SUFFICES ASSUME Init PROVE IInv
    OBVIOUS
  <1>1. windows \in Seq(Window) /\ DOMAIN windows = {}
    BY DEF Init
  <1>2. /\ Formed(windows, next_window_id) /\ Placed(windows, tile_mode)
        /\ Spaced(windows, tile_mode) /\ Gripped(windows, drag, mouse)
    BY <1>1 DEF Formed, Placed, Spaced, Gripped
  <1>3. drag \in DragState /\ drag.window_id < next_window_id
    <2>1. 0 \in 0 .. MaxWindowId /\ 0 \in 0 .. total_width - 1 /\ 0 \in 0 .. total_height - 1
      BY Constants
    <2> QED BY <2>1 DEF Init, NoDrag, DragState
  <1>4. mouse \in [x : 0 .. SCREEN_W - 1, y : 0 .. SCREEN_H - 1]
    <2>1. SCREEN_W \div 2 \in 0 .. SCREEN_W - 1 /\ SCREEN_H \div 2 \in 0 .. SCREEN_H - 1
      BY Constants
    <2> QED BY <2>1 DEF Init
  <1>5. next_window_id \in 1 .. MaxWindowId + 1
    BY Constants DEF Init
  <1> QED BY <1>2, <1>3, <1>4, <1>5, GeometryAssumption DEF Init, IInv

(* A move takes the dragged window along. *)
LEMMA MouseMoveIInv ==
    ASSUME IInv, NEW at \in Points, NEW b \in Buttons, MouseMove(at.x, at.y, b)
    PROVE  IInv'
  <1>1. at.x \in 0 .. SCREEN_W - 1 /\ at.y \in 0 .. SCREEN_H - 1
    BY GeometryAssumption
  <1>2. mouse' = [x |-> at.x, y |-> at.y]
    BY DEF MouseMove
  <1>3. /\ drag' \in DragState /\ drag'.window_id = drag.window_id
        /\ Drags(b) => drag' = drag
        /\ ~ Drags(b) => ~ drag'.active
    BY DEF MouseMove, DragAfterMove, IInv, DragState
  <1>4. /\ Formed(windows', next_window_id) /\ Placed(windows', tile_mode)
        /\ Spaced(windows', tile_mode) /\ Gripped(windows', drag', mouse')
    <2>1. CASE Drags(b)
      <3>1. ~ tile_mode /\ windows' = DraggedTo(at.x, at.y)
        BY <2>1 DEF Drags, MouseMove
      <3>2. Formed(windows, next_window_id) /\ Placed(windows, FALSE) /\ drag \in DragState
        BY <3>1 DEF IInv
      <3>3. /\ Formed(windows', next_window_id) /\ Placed(windows', FALSE)
            /\ Gripped(windows', drag, [x |-> at.x, y |-> at.y])
        BY <1>1, <3>1, <3>2, DraggedFacts
      <3> QED BY <1>2, <1>3, <2>1, <3>1, <3>3 DEF Spaced, IInv
    <2>2. CASE ~ Drags(b)
      <3>1. windows' = windows
        BY <2>2 DEF MouseMove
      <3> QED BY <1>3, <2>2, <3>1 DEF IInv, Gripped
    <2> QED BY <2>1, <2>2
  <1>5. UNCHANGED << next_window_id, tile_mode, powered >> /\ mouse_buttons' = b /\ dirty' = TRUE
    BY DEF MouseMove
  <1>6. mouse' \in [x : 0 .. SCREEN_W - 1, y : 0 .. SCREEN_H - 1]
    BY <1>1, <1>2
  <1> QED BY <1>3, <1>4, <1>5, <1>6 DEF IInv

(* The windows change, the drag, the pointer and the mode do not. *)
LEMMA OnlyWindows ==
    ASSUME IInv, UNCHANGED << next_window_id, drag, mouse, tile_mode >>,
           mouse_buttons' \in Buttons, powered' \in BOOLEAN, dirty' = TRUE,
           Formed(windows', next_window_id), Placed(windows', tile_mode),
           Spaced(windows', tile_mode), Gripped(windows', drag, mouse)
    PROVE  IInv'
  BY DEF IInv

(* The button that tiles the windows or lets them float again. *)
LEMMA PressModeIInv ==
    ASSUME IInv, NEW b \in Buttons, PressMode(b)
    PROVE  IInv'
  <1>1. /\ tile_mode' = ~ tile_mode /\ tile_mode' \in BOOLEAN
        /\ windows' = Layout(windows, tile_mode')
        /\ UNCHANGED << next_window_id, drag, mouse, powered >> /\ dirty' = TRUE
        /\ mouse_buttons' \in Buttons
    BY DEF PressMode, Press, IInv
  <1>2. Formed(windows, next_window_id) /\ Gripped(windows, drag, mouse)
    BY DEF IInv
  <1>3. /\ Formed(windows', next_window_id) /\ Placed(windows', tile_mode')
        /\ Spaced(windows', tile_mode') /\ Gripped(windows', drag, mouse)
    BY <1>1, <1>2, LayoutFacts
  <1> QED BY <1>1, <1>3 DEF IInv

(* Laying out again where the windows are tiled. *)
LEMMA RetiledKeeps ==
    ASSUME NEW ws, NEW next, Formed(ws, next), Gripped(ws, drag, mouse), tile_mode \in BOOLEAN,
           ~ tile_mode => Placed(ws, FALSE)
    PROVE  /\ Formed(Retiled(ws), next) /\ Placed(Retiled(ws), tile_mode)
           /\ Spaced(Retiled(ws), tile_mode) /\ Gripped(Retiled(ws), drag, mouse)
           /\ DOMAIN Retiled(ws) = DOMAIN ws
           /\ \A i \in DOMAIN ws : Retiled(ws)[i].id = ws[i].id
  <1>1. CASE tile_mode
    BY <1>1, LayoutFacts DEF Retiled
  <1>2. CASE ~ tile_mode
    BY <1>2 DEF Retiled, Spaced
  <1> QED BY <1>1, <1>2

(* A window is closed at its button, also the one that is dragged. *)
LEMMA PressCloseIInv ==
    ASSUME IInv, NEW b \in Buttons, NEW i \in DOMAIN windows, PressClose(b, i)
    PROVE  IInv'
  <1> DEFINE ws == RemoveAt(windows, i)
  <1>1. windows \in Seq(Window)
    BY DEF IInv, Formed
  <1>2. ws \in Seq(Window) /\ Picks(ws, windows)
    BY <1>1, RemoveAtPicks
  <1>3. /\ windows' = Retiled(ws) /\ dirty' = TRUE
        /\ UNCHANGED << next_window_id, drag, mouse, tile_mode, powered >>
        /\ mouse_buttons' \in Buttons
    BY DEF PressClose, Press
  <1> HIDE DEF ws
  <1>4. /\ Formed(ws, next_window_id) /\ Gripped(ws, drag, mouse)
        /\ ~ tile_mode => Placed(ws, FALSE)
    BY <1>2, PicksKeep DEF IInv
  <1>5. /\ Formed(windows', next_window_id) /\ Placed(windows', tile_mode)
        /\ Spaced(windows', tile_mode) /\ Gripped(windows', drag, mouse)
    BY <1>3, <1>4, RetiledKeeps DEF IInv
  <1> QED BY <1>3, <1>5, OnlyWindows DEF IInv

(* Raising permutes the windows and moves none. *)
LEMMA RaisedKeeps ==
    ASSUME IInv, NEW i \in DOMAIN windows
    PROVE  /\ Formed(Raised(windows, i), next_window_id) /\ Placed(Raised(windows, i), tile_mode)
           /\ Spaced(Raised(windows, i), tile_mode)
           /\ \A d, m : Gripped(windows, d, m) => Gripped(Raised(windows, i), d, m)
  <1>1. windows \in Seq(Window)
    BY DEF IInv, Formed
  <1>2. Raised(windows, i) \in Seq(Window) /\ Picks(Raised(windows, i), windows)
    BY <1>1, RaisedPicks
  <1>3. Len(Raised(windows, i)) = Len(windows)
    BY <1>1, RaisedFacts
  <1> QED BY <1>2, <1>3, PicksKeep DEF IInv

(* A click into a window raises it. *)
LEMMA PressBodyIInv ==
    ASSUME IInv, NEW b \in Buttons, NEW i \in DOMAIN windows, PressBody(b, i)
    PROVE  IInv'
  <1>1. /\ windows' = Raised(windows, i) /\ dirty' = TRUE
        /\ UNCHANGED << next_window_id, drag, mouse, tile_mode, powered >>
        /\ mouse_buttons' \in Buttons
    BY DEF PressBody, Press
  <1>2. /\ Formed(windows', next_window_id) /\ Placed(windows', tile_mode)
        /\ Spaced(windows', tile_mode) /\ Gripped(windows', drag, mouse)
    BY <1>1, RaisedKeeps DEF IInv
  <1> QED BY <1>1, <1>2, OnlyWindows DEF IInv

(* A press on a title bar raises the window and begins a drag. *)
LEMMA PressTitleIInv ==
    ASSUME IInv, NEW b \in Buttons, NEW i \in DOMAIN windows, PressTitle(b, i)
    PROVE  IInv'
  <1>1. /\ windows' = Raised(windows, i) /\ dirty' = TRUE
        /\ UNCHANGED << next_window_id, mouse, tile_mode, powered >>
        /\ mouse_buttons' \in Buttons
    BY DEF PressTitle, Press
  <1>2. /\ Formed(windows', next_window_id) /\ Placed(windows', tile_mode)
        /\ Spaced(windows', tile_mode)
        /\ \A d, m : Gripped(windows, d, m) => Gripped(windows', d, m)
    BY <1>1, RaisedKeeps
  <1>3. drag' \in DragState /\ drag'.window_id < next_window_id /\ Gripped(windows, drag', mouse)
    <2>1. CASE tile_mode
      BY <2>1 DEF PressTitle, IInv
    <2>2. CASE ~ tile_mode
      <3> DEFINE w == windows[i]
      <3>1. w \in Window /\ w.id < next_window_id /\ w.x = w.float_x /\ w.y = w.float_y
            /\ w.float_x \in FloatX /\ w.float_y \in FloatY
            /\ \A j \in DOMAIN windows : windows[j].id = w.id => windows[j] = w
        BY <2>2 DEF IInv, Formed, Placed
      <3>2. hit_anywhere(w, mouse)
        BY DEF PressTitle, IsTarget
      <3>3. drag' = [ active |-> TRUE, window_id |-> w.id,
                      offset_x |-> mouse.x - w.x, offset_y |-> mouse.y - w.y ]
        BY <2>2 DEF PressTitle
      <3> HIDE DEF w
      <3>4. mouse.x \in Int /\ mouse.y \in Int /\ w.x \in Int /\ w.y \in Int
            /\ w.id \in 0 .. MaxWindowId
        BY <3>1, Constants DEF IInv, Window
      <3>5. /\ mouse.x - w.x \in 0 .. total_width - 1
            /\ mouse.y - w.y \in 0 .. total_height - 1
        BY <3>2, <3>4, Constants DEF hit_anywhere
      <3>6. drag' \in DragState /\ drag'.window_id < next_window_id
        BY <3>1, <3>3, <3>4, <3>5 DEF DragState
      <3>7. mouse.x - drag'.offset_x = w.x /\ mouse.y - drag'.offset_y = w.y
        BY <3>3, <3>4
      <3>8. ClampX(w.x) = w.x /\ ClampY(w.y) = w.y
        BY <3>1, <3>4, Clamped
      <3>9. Gripped(windows, drag', mouse)
        BY <3>1, <3>3, <3>7, <3>8 DEF Gripped
      <3> QED BY <3>6, <3>9
    <2> QED BY <2>1, <2>2
  <1> QED BY <1>1, <1>2, <1>3 DEF IInv

(* A new window gets the next id and a place on the screen. *)
LEMMA WindowCreateIInv ==
    ASSUME IInv, NEW owner \in Owners, WindowCreate(owner)
    PROVE  IInv'
  <1> DEFINE w == NewWindow(owner)
             ws == Append(windows, w)
  <1>1. /\ windows' = Retiled(ws) /\ dirty' = TRUE
        /\ next_window_id \in 1 .. MaxWindowId /\ next_window_id' = next_window_id + 1
        /\ UNCHANGED << drag, mouse, mouse_buttons, tile_mode, powered >>
    BY Constants DEF WindowCreate, IInv
  <1>2. windows \in Seq(Window)
    BY DEF IInv, Formed
  <1>3. /\ w \in Window /\ w.id = next_window_id
        /\ w.float_x \in FloatX /\ w.float_y \in FloatY
        /\ w.x = w.float_x /\ w.y = w.float_y
    BY <1>1, <1>2, NewWindowFacts
  <1> HIDE DEF w
  <1>4. /\ Formed(ws, next_window_id + 1) /\ Gripped(ws, drag, mouse)
        /\ Placed(windows, FALSE) => Placed(ws, FALSE)
    <2>1. Formed(windows, next_window_id) /\ Gripped(windows, drag, mouse)
          /\ drag.window_id < next_window_id
      BY DEF IInv
    <2> QED BY <1>1, <1>3, <2>1, AppendKeeps
  <1> HIDE DEF ws
  <1>5. /\ Formed(windows', next_window_id + 1) /\ Placed(windows', tile_mode)
        /\ Spaced(windows', tile_mode) /\ Gripped(windows', drag, mouse)
    <2>1. ~ tile_mode => Placed(ws, FALSE)
      BY <1>4 DEF IInv
    <2> QED BY <1>1, <1>4, <2>1, RetiledKeeps DEF IInv
  <1>6. next_window_id' \in 1 .. MaxWindowId + 1 /\ drag'.window_id < next_window_id'
    <2>1. drag.window_id \in Int /\ drag.window_id < next_window_id
      BY DEF IInv, DragState
    <2> QED BY <1>1, <2>1, Constants
  <1> QED BY <1>1, <1>5, <1>6 DEF IInv

(* Every message and every turn of the main loop keeps the invariant. *)
LEMMA StepIInv ==
    IInv /\ [Next]_vars => IInv'
  <1> SUFFICES ASSUME IInv, [Next]_vars PROVE IInv'
    OBVIOUS
  <1>1. ASSUME NEW at \in Points, NEW b \in Buttons, MouseMove(at.x, at.y, b) PROVE IInv'
    BY <1>1, MouseMoveIInv
  <1>2. ASSUME NEW b \in Buttons, Click(b) PROVE IInv'
    <2>1. CASE ClickIgnored(b) \/ PressPower(b) \/ PressElsewhere(b)
      <3>1. /\ UNCHANGED << windows, next_window_id, drag, mouse, tile_mode >> /\ dirty' = TRUE
            /\ mouse_buttons' \in Buttons /\ powered' \in BOOLEAN
        BY <2>1 DEF ClickIgnored, PressPower, PressElsewhere, Press, IInv
      <3> QED BY <3>1 DEF IInv
    <2>2. CASE PressMode(b)
      BY <2>2, PressModeIInv
    <2>3. CASE \E i \in DOMAIN windows : PressClose(b, i) \/ PressTitle(b, i) \/ PressBody(b, i)
      BY <2>3, PressCloseIInv, PressTitleIInv, PressBodyIInv
    <2> QED BY <1>2, <2>1, <2>2, <2>3 DEF Click
  <1>3. ASSUME NEW owner \in Owners, WindowCreate(owner) PROVE IInv'
    BY <1>3, WindowCreateIInv
  <1>4. CASE WindowDamage
    BY <1>4 DEF WindowDamage, IInv
  <1>5. CASE Render
    BY <1>5 DEF Render, IInv
  <1>6. CASE Off \/ UNCHANGED vars
    BY <1>6 DEF Off, vars, IInv
  <1>7. CASE SwitchedOff
    BY <1>7 DEF SwitchedOff, IInv
  <1> QED BY <1>1, <1>2, <1>3, <1>4, <1>5, <1>6, <1>7 DEF Next

(* The invariant holds at all times. *)
LEMMA Invariant == Spec => []IInv
  BY InitIInv, StepIInv, PTL DEF Spec

-----------------------------------------------------------------------------
(* What follows from it. *)

(* Every variable has its type, window ids are unique and a drag grips a   *)
(* point inside its window.                                                *)
THEOREM CompositorTypeOK == Spec => []TypeOK
  <1>1. IInv => TypeOK
    <2> SUFFICES ASSUME IInv PROVE TypeOK
      OBVIOUS
    <2>1. IsInjective([i \in DOMAIN windows |-> windows[i].id])
      BY DEF IInv, Formed, IsInjective
    <2> QED BY <2>1 DEF IInv, Formed, DragState, TypeOK
  <1> QED BY <1>1, Invariant, PTL

(* Floating windows are where they float, so that tiling the desktop and   *)
(* going back loses no place.                                              *)
THEOREM FloatsKept == Spec => []FloatingInPlace
  <1>1. IInv => FloatingInPlace
    BY DEF IInv, Placed, FloatingInPlace
  <1> QED BY <1>1, Invariant, PTL

(* Tiles for which there is room side by side do not overlap, in whatever  *)
(* order raising has put them.                                             *)
THEOREM TilesApart == Spec => []TilesDisjoint
  <1>1. IInv => TilesDisjoint
    <2> SUFFICES ASSUME IInv, tile_mode,
                        Len(windows) * total_width <= SatSub(SCREEN_W, 2 * PAD),
                        NEW i \in DOMAIN windows, NEW j \in DOMAIN windows, i # j
                 PROVE  \/ windows[i].x + total_width <= windows[j].x
                        \/ windows[j].x + total_width <= windows[i].x
      BY DEF TilesDisjoint
    <2> DEFINE a == SatSub(SCREEN_W, 2 * PAD)
               n == Len(windows)
               c == Cell(n)
    <2>1. windows \in Seq(Window) /\ n \in Nat /\ n > 0
      BY DEF IInv, Formed
    <2>2. a \in Nat
      BY Constants DEF SatSub
    <2>3. c \in Nat /\ total_width <= c
      <3>1. c = a \div n /\ n * total_width <= a
        BY DEF Cell
      <3> HIDE DEF a, n, c
      <3> QED BY <2>1, <2>2, <3>1, Constants
    <2>4. windows[i].x + c <= windows[j].x \/ windows[j].x + c <= windows[i].x
      BY DEF IInv, Spaced
    <2>5. windows[i].x \in Nat /\ windows[j].x \in Nat
      <3>1. windows[i] \in Window /\ windows[j] \in Window
        BY <2>1
      <3> QED BY <3>1 DEF Window
    <2> HIDE DEF c
    <2> QED BY <2>3, <2>4, <2>5, Constants
  <1> QED BY <1>1, Invariant, PTL

(* Whatever is dragged, tiled or created, a title bar stays on the screen  *)
(* below the top bar.                                                      *)
THEOREM TitlesReachable == Spec => []TitleReachable
  <1>1. IInv => TitleReachable
    <2> SUFFICES ASSUME IInv, NEW i \in DOMAIN windows
                 PROVE  /\ windows[i].x < SCREEN_W
                        /\ TOPBAR_HEIGHT <= windows[i].y /\ windows[i].y < SCREEN_H
      BY DEF TitleReachable
    <2>1. windows[i].float_x \in FloatX /\ windows[i].float_y \in FloatY
      BY DEF IInv, Formed
    <2>2. IF tile_mode THEN /\ windows[i].x < SCREEN_W
                            /\ windows[i].y \in TOPBAR_HEIGHT .. SCREEN_H - 1
          ELSE windows[i].x = windows[i].float_x /\ windows[i].y = windows[i].float_y
      BY DEF IInv, Placed
    <2> QED BY <2>1, <2>2, Constants, ScreenAssumption DEF FloatX, FloatY
  <1> QED BY <1>1, Invariant, PTL

(* A dragged window is where the pointer has taken it: no stale drag makes *)
(* a window jump.                                                          *)
THEOREM DragsGlued == Spec => []DragGlued
  <1>1. IInv => DragGlued
    BY DEF IInv, Gripped, Placed, DragGlued, DragX, DragY, ClampX, ClampY
  <1> QED BY <1>1, Invariant, PTL

-----------------------------------------------------------------------------
(* Z-order. *)

(* The order depends on the ids only. *)
LEMMA SameOrder ==
    ASSUME NEW ws, NEW v, DOMAIN v = DOMAIN ws, \A i \in DOMAIN ws : v[i].id = ws[i].id,
           NEW a, NEW b
    PROVE  UpTo(ws, a, b) <=> UpTo(v, a, b)
  BY DEF UpTo

(* The windows that stay keep their order when one of them is raised... *)
LEMMA RaisedOrder ==
    ASSUME NEW ws \in Seq(Window), NEW i \in DOMAIN ws, NEW a, NEW b,
           a # ws[i].id, b # ws[i].id
    PROVE  UpTo(ws, a, b) <=> UpTo(Raised(ws, i), a, b)
  <1> DEFINE v == Raised(ws, i)
  <1>1. Len(ws) \in Nat /\ i \in 1 .. Len(ws) /\ DOMAIN ws = 1 .. Len(ws)
    OBVIOUS
  <1>2. /\ DOMAIN v = 1 .. Len(ws)
        /\ \A k \in 1 .. Len(ws) : v[k] = ws[IF k < i THEN k ELSE IF k < Len(ws) THEN k + 1 ELSE i]
    BY <1>1, RaisedFacts
  <1> HIDE DEF v
  <1>3. ASSUME UpTo(ws, a, b) PROVE UpTo(v, a, b)
    <2>1. PICK j \in DOMAIN ws, k \in DOMAIN ws : j <= k /\ ws[j].id = a /\ ws[k].id = b
      BY <1>3 DEF UpTo
    <2>2. j # i /\ k # i
      BY <2>1
    <2> DEFINE p == IF j < i THEN j ELSE j - 1
               q == IF k < i THEN k ELSE k - 1
    <2>3. p \in 1 .. Len(ws) /\ q \in 1 .. Len(ws) /\ p <= q
      BY <1>1, <2>1, <2>2
    <2>4. v[p] = ws[j] /\ v[q] = ws[k]
      BY <1>1, <1>2, <2>1, <2>2, <2>3
    <2> QED BY <1>2, <2>1, <2>3, <2>4 DEF UpTo
  <1>4. ASSUME UpTo(v, a, b) PROVE UpTo(ws, a, b)
    <2>1. PICK j \in 1 .. Len(ws), k \in 1 .. Len(ws) : j <= k /\ v[j].id = a /\ v[k].id = b
      BY <1>2, <1>4 DEF UpTo
    <2>2. v[Len(ws)] = ws[i]
      BY <1>1, <1>2
    <2>3. j # Len(ws) /\ k # Len(ws)
      BY <2>1, <2>2
    <2>a. j \in 1 .. Len(ws) - 1 /\ k \in 1 .. Len(ws) - 1 /\ j <= k
      <3>1. ASSUME NEW n \in Nat, NEW e \in 1 .. n, e # n PROVE e \in 1 .. n - 1
        BY <3>1
      <3> QED BY <1>1, <2>1, <2>3, <3>1
    <2> DEFINE p == IF j < i THEN j ELSE j + 1
               q == IF k < i THEN k ELSE k + 1
    <2>4. p \in 1 .. Len(ws) /\ q \in 1 .. Len(ws) /\ p <= q
      BY <1>1, <2>a
    <2>5. v[j] = ws[p] /\ v[k] = ws[q]
      BY <1>1, <1>2, <2>1, <2>3
    <2> QED BY <1>1, <2>1, <2>4, <2>5 DEF UpTo
  <1> QED BY <1>3, <1>4 DEF v

(* ... and when one is closed. *)
LEMMA RemovedOrder ==
    ASSUME NEW ws \in Seq(Window), NEW i \in DOMAIN ws, NEW a, NEW b,
           a # ws[i].id, b # ws[i].id
    PROVE  UpTo(ws, a, b) <=> UpTo(RemoveAt(ws, i), a, b)
  <1> DEFINE v == RemoveAt(ws, i)
  <1>1. Len(ws) \in Nat /\ i \in 1 .. Len(ws) /\ DOMAIN ws = 1 .. Len(ws)
    OBVIOUS
  <1>2. /\ DOMAIN v = 1 .. Len(ws) - 1
        /\ \A k \in 1 .. Len(ws) - 1 : v[k] = ws[IF k < i THEN k ELSE k + 1]
    BY RemoveAtFacts
  <1> HIDE DEF v
  <1>3. ASSUME UpTo(ws, a, b) PROVE UpTo(v, a, b)
    <2>1. PICK j \in DOMAIN ws, k \in DOMAIN ws : j <= k /\ ws[j].id = a /\ ws[k].id = b
      BY <1>3 DEF UpTo
    <2>2. j # i /\ k # i
      BY <2>1
    <2> DEFINE p == IF j < i THEN j ELSE j - 1
               q == IF k < i THEN k ELSE k - 1
    <2>3. p \in 1 .. Len(ws) - 1 /\ q \in 1 .. Len(ws) - 1 /\ p <= q
      BY <1>1, <2>1, <2>2
    <2>4. v[p] = ws[j] /\ v[q] = ws[k]
      BY <1>1, <1>2, <2>1, <2>2, <2>3
    <2> QED BY <1>2, <2>1, <2>3, <2>4 DEF UpTo
  <1>4. ASSUME UpTo(v, a, b) PROVE UpTo(ws, a, b)
    <2>1. PICK j \in 1 .. Len(ws) - 1, k \in 1 .. Len(ws) - 1 :
                  j <= k /\ v[j].id = a /\ v[k].id = b
      BY <1>2, <1>4 DEF UpTo
    <2> DEFINE p == IF j < i THEN j ELSE j + 1
               q == IF k < i THEN k ELSE k + 1
    <2>2. p \in 1 .. Len(ws) /\ q \in 1 .. Len(ws) /\ p <= q
      BY <1>1, <2>1
    <2>3. v[j] = ws[p] /\ v[k] = ws[q]
      BY <1>2
    <2> QED BY <1>1, <2>1, <2>2, <2>3 DEF UpTo
  <1> QED BY <1>3, <1>4 DEF v

(* A new window comes on top of all others. *)
LEMMA AppendedOrder ==
    ASSUME NEW ws \in Seq(Window), NEW w \in Window, NEW a, NEW b, a # w.id, b # w.id
    PROVE  UpTo(ws, a, b) <=> UpTo(Append(ws, w), a, b)
  <1> DEFINE v == Append(ws, w)
  <1>1. Len(ws) \in Nat /\ DOMAIN ws = 1 .. Len(ws)
    OBVIOUS
  <1>2. /\ v \in Seq(Window) /\ Len(v) = Len(ws) + 1
        /\ \A k \in 1 .. Len(ws) : v[k] = ws[k]
        /\ v[Len(ws) + 1] = w
    BY <1>1, AppendProperties
  <1> HIDE DEF v
  <1>3. DOMAIN v = 1 .. Len(ws) + 1
    BY <1>1, <1>2
  <1>4. \A k \in DOMAIN v : k # Len(ws) + 1 => k \in 1 .. Len(ws)
    BY <1>1, <1>3
  <1>5. \A k \in 1 .. Len(ws) : k \in DOMAIN v
    BY <1>1, <1>3
  <1>6. ASSUME UpTo(ws, a, b) PROVE UpTo(v, a, b)
    BY <1>1, <1>2, <1>5, <1>6 DEF UpTo
  <1>7. ASSUME UpTo(v, a, b) PROVE UpTo(ws, a, b)
    BY <1>1, <1>2, <1>4, <1>7 DEF UpTo
  <1> QED BY <1>6, <1>7 DEF v

(* No message changes the Z-order of two windows it is not about: the      *)
(* window it is about goes to the top or off the desktop.                  *)
THEOREM ZOrderKept == Spec => ZOrderStable
  <1> DEFINE Moves(r) ==
        /\ \A a, b \in (1 .. MaxWindowId) \ {r} : UpTo(windows, a, b) <=> UpTo(windows', a, b)
        /\ \A i \in DOMAIN windows' : windows'[i].id = r => i = Len(windows')
  <1>1. ASSUME IInv, IInv', [Next]_vars
        PROVE  [\E r \in 0 .. MaxWindowId : Moves(r)]_vars
    <2> SUFFICES ASSUME Next PROVE \E r \in 0 .. MaxWindowId : Moves(r)
      BY <1>1
    <2>1. windows \in Seq(Window) /\ windows' \in Seq(Window)
      BY <1>1 DEF IInv, Formed
    <2>2. \A j, k \in DOMAIN windows' : windows'[j].id = windows'[k].id => j = k
      BY <1>1 DEF IInv, Formed
    <2>3. ASSUME DOMAIN windows' = DOMAIN windows,
                 \A j \in DOMAIN windows : windows'[j].id = windows[j].id
          PROVE  \E r \in 0 .. MaxWindowId : Moves(r)
      <3>1. \A a, b : UpTo(windows, a, b) <=> UpTo(windows', a, b)
        BY <2>3, SameOrder
      <3>2. ASSUME NEW j \in DOMAIN windows' PROVE windows'[j].id # 0
        <4>1. windows'[j] \in Window
          BY <2>1
        <4> QED BY <4>1 DEF Window
      <3>3. 0 \in 0 .. MaxWindowId
        BY Constants
      <3>4. Moves(0)
        BY <3>1, <3>2
      <3> QED BY <3>3, <3>4
    <2>4. ASSUME NEW i \in DOMAIN windows PROVE windows[i].id \in 0 .. MaxWindowId
      <3>1. windows[i] \in Window
        BY <2>1
      <3> QED BY <3>1, Constants DEF Window
    <2>5. ASSUME NEW at \in Points, NEW b \in Buttons, MouseMove(at.x, at.y, b)
          PROVE  \E r \in 0 .. MaxWindowId : Moves(r)
      <3>1. at.x \in 0 .. SCREEN_W - 1 /\ at.y \in 0 .. SCREEN_H - 1
        BY GeometryAssumption
      <3>2. Formed(windows, next_window_id) /\ drag \in DragState
        BY <1>1 DEF IInv
      <3>3. /\ DOMAIN DraggedTo(at.x, at.y) = DOMAIN windows
            /\ \A j \in DOMAIN windows : DraggedTo(at.x, at.y)[j].id = windows[j].id
        BY <3>1, <3>2, DraggedFacts
      <3> QED BY <2>3, <2>5, <3>3 DEF MouseMove
    <2>6. ASSUME NEW b \in Buttons, PressMode(b)
          PROVE  \E r \in 0 .. MaxWindowId : Moves(r)
      <3>1. Formed(windows, next_window_id) /\ tile_mode' \in BOOLEAN
        BY <1>1 DEF IInv
      <3>2. windows' = Layout(windows, tile_mode')
        BY <2>6 DEF PressMode
      <3>3. /\ DOMAIN windows' = DOMAIN windows
            /\ \A j \in DOMAIN windows : windows'[j].id = windows[j].id
        BY <3>1, <3>2, LayoutFacts
      <3> QED BY <2>3, <3>3
    <2>7. ASSUME NEW i \in DOMAIN windows, windows' = Raised(windows, i)
          PROVE  \E r \in 0 .. MaxWindowId : Moves(r)
      <3> DEFINE r == windows[i].id
      <3>1. \A a, b : a # r /\ b # r => (UpTo(windows, a, b) <=> UpTo(windows', a, b))
        BY <2>1, <2>7, RaisedOrder
      <3>2. /\ Len(windows') = Len(windows) /\ DOMAIN windows' = DOMAIN windows
            /\ \A k \in DOMAIN windows :
                 windows'[k] = windows[IF k < i THEN k ELSE IF k < Len(windows) THEN k + 1 ELSE i]
        BY <2>1, <2>7, RaisedFacts
      <3>3. Len(windows) \in DOMAIN windows /\ Len(windows) \in Int /\ i \in Int /\ i <= Len(windows)
        BY <2>1
      <3>4. windows'[Len(windows)] = windows[i]
        BY <3>2, <3>3
      <3>5. \A k \in DOMAIN windows' : windows'[k].id = r => k = Len(windows')
        BY <2>2, <3>2, <3>3, <3>4
      <3>6. Moves(r)
        BY <3>1, <3>5
      <3> QED BY <2>4, <3>6
    <2>8. ASSUME NEW b \in Buttons, NEW i \in DOMAIN windows, PressClose(b, i)
          PROVE  \E r \in 0 .. MaxWindowId : Moves(r)
      <3> DEFINE r == windows[i].id
                 ws == RemoveAt(windows, i)
      <3>1. windows' = Retiled(ws)
        BY <2>8 DEF PressClose
      <3>2. \A a, c : a # r /\ c # r => (UpTo(windows, a, c) <=> UpTo(ws, a, c))
        BY <2>1, RemovedOrder
      <3>3. ws \in Seq(Window) /\ Picks(ws, windows)
        BY <2>1, RemoveAtPicks
      <3>4. /\ DOMAIN ws = 1 .. Len(windows) - 1
            /\ \A k \in 1 .. Len(windows) - 1 : ws[k] = windows[IF k < i THEN k ELSE k + 1]
        BY <2>1, RemoveAtFacts
      <3> HIDE DEF ws
      <3>5. /\ Formed(ws, next_window_id) /\ Gripped(ws, drag, mouse)
            /\ tile_mode \in BOOLEAN /\ (~ tile_mode => Placed(ws, FALSE))
        BY <1>1, <3>3, PicksKeep DEF IInv
      <3>6. /\ DOMAIN windows' = DOMAIN ws
            /\ \A k \in DOMAIN ws : windows'[k].id = ws[k].id
        BY <3>1, <3>5, RetiledKeeps
      <3>7. \A a, c : UpTo(ws, a, c) <=> UpTo(windows', a, c)
        BY <3>6, SameOrder
      <3>8. ASSUME NEW k \in DOMAIN windows' PROVE windows'[k].id # r
        <4> DEFINE p == IF k < i THEN k ELSE k + 1
        <4>1. k \in 1 .. Len(windows) - 1 /\ Len(windows) \in Nat /\ i \in 1 .. Len(windows)
          BY <2>1, <3>4, <3>6
        <4>2. p \in 1 .. Len(windows) /\ p # i
          BY <4>1
        <4>3. windows'[k].id = windows[p].id
          BY <3>4, <3>6, <4>1
        <4>4. p \in DOMAIN windows
          BY <2>1, <4>2
        <4> QED BY <1>1, <4>2, <4>3, <4>4 DEF IInv, Formed
      <3>9. Moves(r)
        BY <3>2, <3>7, <3>8
      <3> QED BY <2>4, <3>9
    <2>9. ASSUME NEW owner \in Owners, WindowCreate(owner)
          PROVE  \E r \in 0 .. MaxWindowId : Moves(r)
      <3> DEFINE w == NewWindow(owner)
                 ws == Append(windows, w)
                 r == next_window_id
      <3>1. r \in 1 .. MaxWindowId /\ windows' = Retiled(ws)
        BY <1>1, <2>9, Constants DEF WindowCreate, IInv
      <3>2. /\ w \in Window /\ w.id = r /\ w.float_x \in FloatX /\ w.float_y \in FloatY
            /\ w.x = w.float_x /\ w.y = w.float_y
        BY <2>1, <3>1, NewWindowFacts
      <3> HIDE DEF w
      <3>3. \A a, c : a # r /\ c # r => (UpTo(windows, a, c) <=> UpTo(ws, a, c))
        BY <2>1, <3>2, AppendedOrder
      <3>4. /\ Formed(ws, r + 1) /\ Gripped(ws, drag, mouse)
            /\ Placed(windows, FALSE) => Placed(ws, FALSE)
        <4>1. /\ Formed(windows, r) /\ Gripped(windows, drag, mouse)
              /\ drag.window_id < r
          BY <1>1 DEF IInv
        <4> QED BY <3>1, <3>2, <4>1, AppendKeeps
      <3>5. /\ ws \in Seq(Window) /\ Len(ws) = Len(windows) + 1
            /\ ws[Len(windows) + 1] = w
        BY <2>1, <3>2, AppendProperties
      <3> HIDE DEF ws
      <3>6. tile_mode \in BOOLEAN /\ (~ tile_mode => Placed(ws, FALSE))
        BY <1>1, <3>4 DEF IInv
      <3>7. /\ DOMAIN windows' = DOMAIN ws
            /\ \A k \in DOMAIN ws : windows'[k].id = ws[k].id
        BY <3>1, <3>4, <3>6, RetiledKeeps
      <3>8. \A a, c : UpTo(ws, a, c) <=> UpTo(windows', a, c)
        BY <3>7, SameOrder
      <3>9. Len(windows') = Len(ws) /\ Len(ws) \in DOMAIN ws /\ ws[Len(ws)] = w
        BY <2>1, <3>5, <3>7
      <3>10. \A k \in DOMAIN windows' : windows'[k].id = r => k = Len(windows')
        BY <2>2, <3>2, <3>7, <3>9
      <3>11. Moves(r)
        BY <3>3, <3>8, <3>10
      <3> QED BY <3>1, <3>11, Constants
    <2>10. ASSUME NEW b \in Buttons, Click(b)
           PROVE  \E r \in 0 .. MaxWindowId : Moves(r)
      <3>1. CASE ClickIgnored(b) \/ PressPower(b) \/ PressElsewhere(b)
        <4>1. windows' = windows
          BY <3>1 DEF ClickIgnored, PressPower, PressElsewhere
        <4> QED BY <2>3, <4>1
      <3>2. CASE PressMode(b)
        BY <2>6, <3>2
      <3>3. ASSUME NEW i \in DOMAIN windows, PressClose(b, i)
            PROVE  \E r \in 0 .. MaxWindowId : Moves(r)
        BY <2>8, <3>3
      <3>4. ASSUME NEW i \in DOMAIN windows, PressTitle(b, i) \/ PressBody(b, i)
            PROVE  \E r \in 0 .. MaxWindowId : Moves(r)
        BY <2>7, <3>4 DEF PressTitle, PressBody
      <3> HIDE DEF Moves
      <3> QED BY <2>10, <3>1, <3>2, <3>3, <3>4 DEF Click
    <2>11. CASE WindowDamage \/ Render \/ SwitchedOff \/ Off
      <3>1. windows' = windows
        BY <2>11 DEF WindowDamage, Render, SwitchedOff, Off, vars
      <3> QED BY <2>3, <3>1
    <2> HIDE DEF Moves
    <2> QED BY <2>5, <2>9, <2>10, <2>11 DEF Next
  <1>2. IInv /\ IInv' /\ [Next]_vars => [\E r \in 0 .. MaxWindowId : Moves(r)]_vars
    BY <1>1
  <1>3. Spec => [][\E r \in 0 .. MaxWindowId : Moves(r)]_vars
    BY <1>2, Invariant, PTL DEF Spec
  <1> QED BY <1>3 DEF ZOrderStable
=============================================================================
