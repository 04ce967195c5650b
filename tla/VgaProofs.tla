----------------------------- MODULE VgaProofs -----------------------------
(***************************************************************************)
(* Proofs about the text screen, for every size of the window and of the   *)
(* video memory: the displayed window is the written one, and what it      *)
(* shows is the grid of TextGrid.                                          *)
(***************************************************************************)
EXTENDS VgaScreen, TLAPS

Rows == 0 .. Height - 1
Columns == 0 .. Width - 1
Bases == 0 .. BaseRowMax

(* The address of a place of the window at a base row. *)
At(base, r, c) == (base + r) * Width + c

-----------------------------------------------------------------------------
(* Addresses.                                                              *)

LEMMA Products ==
  ASSUME NEW i \in Nat, NEW j \in Nat, NEW n \in Nat
  PROVE  /\ i * n \in Nat
         /\ (i + j) * n = i * n + j * n
         /\ (i + 1) * n = i * n + n
         /\ i <= j => i * n <= j * n
         /\ i < j => i * n + n <= j * n
<1>1. /\ i * n \in Nat /\ (i + j) * n = i * n + j * n /\ (i + 1) * n = i * n + n
      /\ i <= j => i * n <= j * n
  OBVIOUS
<1>2. ASSUME i < j PROVE i * n + n <= j * n
  <2>1. i + 1 <= j /\ i + 1 \in Nat
    BY <1>2
  <2>2. (i + 1) * n <= j * n
    BY <2>1
  <2>. QED BY <1>1, <2>2
<1>. QED BY <1>1, <1>2

(* Every place of a window lies in the memory that some window shows. *)
LEMMA Addresses ==
  ASSUME NEW base \in Nat, NEW r \in Nat, NEW c \in Columns, base + r < BaseRowMax + Height
  PROVE  /\ At(base, r, c) \in Cells
         /\ At(base, r, c) \in Nat
         /\ (base + r) * Width <= At(base, r, c)
         /\ At(base, r, c) < (base + r) * Width + Width
         /\ At(base, r, c) = base * Width + r * Width + c
<1>1. Width \in Nat /\ c \in Nat /\ c < Width /\ BaseRowMax + Height \in Nat
      /\ base + r \in Nat
  BY GeometryAssumption DEF Columns
<1>2. /\ (base + r) * Width \in Nat
      /\ (base + r) * Width + Width <= (BaseRowMax + Height) * Width
      /\ (base + r) * Width = base * Width + r * Width
      /\ (BaseRowMax + Height) * Width \in Nat
      /\ base * Width \in Nat /\ r * Width \in Nat
  BY <1>1, Products
<1>. QED BY <1>1, <1>2 DEF At, Cells

(* Different places have different addresses. *)
LEMMA AddressesDiffer ==
  ASSUME NEW base \in Nat, NEW r \in Nat, NEW c \in Columns,
         NEW q \in Nat, NEW d \in Columns, At(base, r, c) = At(base, q, d)
  PROVE  r = q /\ c = d
<1>1. Width \in Nat /\ c \in Nat /\ c < Width /\ d \in Nat /\ d < Width
  BY GeometryAssumption DEF Columns
<1>2. base + r \in Nat /\ base + q \in Nat
  OBVIOUS
<1>3. /\ (base + r) * Width \in Nat /\ (base + q) * Width \in Nat
      /\ base + r < base + q => (base + r) * Width + Width <= (base + q) * Width
      /\ base + q < base + r => (base + q) * Width + Width <= (base + r) * Width
  BY <1>1, <1>2, Products
<1>4. (base + r) * Width + c = (base + q) * Width + d
  BY DEF At
<1>5. ~(base + r < base + q) /\ ~(base + q < base + r)
  BY <1>1, <1>3, <1>4
<1>6. r = q
  BY <1>5
<1>. QED BY <1>1, <1>3, <1>4, <1>6

(* The place a row further down is the same place a window further down. *)
LEMMA AddressBelow ==
  ASSUME NEW base \in Nat, NEW r \in Nat, NEW c
  PROVE  At(base, r + 1, c) = At(base + 1, r, c)
<1>1. base + (r + 1) = base + 1 + r
  OBVIOUS
<1>. QED BY <1>1 DEF At

-----------------------------------------------------------------------------
(* Screens whose display start is their base row.                          *)

Fits(s) ==
  /\ s \in Screens(Chars) /\ s.base_row <= BaseRowMax
  /\ s.display_start = s.base_row * Width

Shown(s) == [w \in Window |-> s.cells[At(s.base_row, w[1], w[2])]]

Screen(b, r, c, m, d, k) ==
  [base_row |-> b, row |-> r, column |-> c, cells |-> m,
   display_start |-> d, cursor_position |-> k]

(* A screen is its fields. *)
LEMMA ScreenFields ==
  ASSUME NEW b, NEW r, NEW c, NEW m, NEW d, NEW k, NEW s, s = Screen(b, r, c, m, d, k)
  PROVE  /\ s.base_row = b /\ s.row = r /\ s.column = c /\ s.cells = m
         /\ s.display_start = d /\ s.cursor_position = k
         /\ GetPosition(s) = At(b, r, c)
<1>1. /\ s.base_row = b /\ s.row = r /\ s.column = c /\ s.cells = m
      /\ s.display_start = d /\ s.cursor_position = k
  BY DEF Screen
<1>2. GetPosition(s) = At(b, r, c)
  BY <1>1, Zenon DEF GetPosition, At
<1>. QED BY <1>1, <1>2

LEMMA FitsFields ==
  ASSUME NEW b, NEW r, NEW c, NEW m, NEW d, NEW k
  PROVE  Fits(Screen(b, r, c, m, d, k)) <=>
           /\ b \in Bases /\ r \in Rows /\ c \in Columns /\ m \in [Cells -> Chars]
           /\ d = b * Width /\ k \in Nat
<1>. DEFINE M == [Cells -> Chars]
<1>1. Screen(b, r, c, m, d, k) \in Screens(Chars) <=>
        /\ b \in 0 .. 255 /\ r \in Rows /\ c \in Columns /\ m \in M
        /\ d \in Nat /\ k \in Nat
  BY DEF Screen, Screens, Rows, Columns
<1>2. b \in 0 .. 255 /\ b <= BaseRowMax <=> b \in Bases
  BY GeometryAssumption DEF Bases
<1>3. b \in Bases => b * Width \in Nat
  BY GeometryAssumption, Products DEF Bases
<1>4. Screen(b, r, c, m, d, k).base_row = b /\ Screen(b, r, c, m, d, k).display_start = d
  BY DEF Screen
<1>. HIDE DEF M
<1>5. Fits(Screen(b, r, c, m, d, k)) <=>
        /\ Screen(b, r, c, m, d, k) \in Screens(Chars) /\ b <= BaseRowMax
        /\ d = b * Width
  BY <1>4, Zenon DEF Fits
<1>6. Fits(Screen(b, r, c, m, d, k)) <=>
        /\ b \in Bases /\ r \in Rows /\ c \in Columns /\ m \in M
        /\ d = b * Width /\ k \in Nat
  BY <1>1, <1>2, <1>3, <1>5
<1>. QED BY <1>6 DEF M

LEMMA FitsScreen ==
  ASSUME NEW s, Fits(s)
  PROVE  \E b \in Bases, r \in Rows, c \in Columns, m \in [Cells -> Chars], k \in Nat :
           s = Screen(b, r, c, m, b * Width, k)
<1>. DEFINE M == [Cells -> Chars]
<1>. HIDE DEF M
<1>1. s \in [base_row : 0 .. 255, row : Rows, column : Columns,
             cells : M, display_start : Nat, cursor_position : Nat]
  BY DEF Fits, Screens, M, Rows, Columns
<1>2. s = Screen(s.base_row, s.row, s.column, s.cells, s.display_start, s.cursor_position)
  BY <1>1 DEF Screen
<1>3. s = Screen(s.base_row, s.row, s.column, s.cells, s.base_row * Width, s.cursor_position)
  BY <1>2, Zenon DEF Fits
<1>4. /\ s.base_row \in 0 .. 255 /\ s.row \in Rows /\ s.column \in Columns
      /\ s.cells \in M /\ s.cursor_position \in Nat
  BY <1>1
<1>5. s.base_row \in Bases
  BY <1>4 DEF Fits, Bases
<1>. QED BY <1>3, <1>4, <1>5, Zenon DEF M

LEMMA Fields ==
  ASSUME NEW s, Fits(s)
  PROVE  /\ s.base_row \in Bases /\ s.base_row \in Nat
         /\ s.row \in Rows /\ s.row \in Nat /\ s.row <= Height - 1
         /\ s.column \in Columns /\ s.column \in Nat /\ s.column <= Width - 1
         /\ s.cells \in [Cells -> Chars] /\ s.cursor_position \in Nat
         /\ s.display_start = s.base_row * Width
         /\ s.base_row + s.row < BaseRowMax + Height
         /\ GetPosition(s) = At(s.base_row, s.row, s.column)
         /\ GetPosition(s) \in Cells
<1>1. /\ s.base_row \in Bases /\ s.base_row \in Nat
      /\ s.row \in Rows /\ s.row \in Nat /\ s.row <= Height - 1
      /\ s.column \in Columns /\ s.column \in Nat /\ s.column <= Width - 1
      /\ s.cells \in [Cells -> Chars] /\ s.cursor_position \in Nat
      /\ s.display_start = s.base_row * Width
  BY GeometryAssumption DEF Fits, Screens, Bases, Rows, Columns
<1>2. s.base_row + s.row < BaseRowMax + Height
  BY <1>1, GeometryAssumption DEF Bases
<1>. QED BY <1>1, <1>2, Addresses DEF GetPosition, At

LEMMA InWindow ==
  /\ \A w \in Window : w[1] \in Rows /\ w[2] \in Columns /\ w = <<w[1], w[2]>>
  /\ \A r \in Rows, c \in Columns : <<r, c>> \in Window
  /\ Rows \subseteq Nat /\ Columns \subseteq Nat
  BY GeometryAssumption DEF Window, Rows, Columns

(* What the display shows is read from the memory. *)
LEMMA PictureShown ==
  ASSUME NEW s, Fits(s)
  PROVE  Picture(s) = Shown(s)
<1>. SUFFICES ASSUME NEW w \in Window
              PROVE  ReadCell(s, s.display_start + w[1] * Width + w[2])
                       = s.cells[At(s.base_row, w[1], w[2])]
  BY DEF Picture, Shown
<1>1. w[1] \in Nat /\ w[2] \in Columns /\ s.base_row + w[1] < BaseRowMax + Height
      /\ s.base_row \in Nat
  BY InWindow, Fields, GeometryAssumption DEF Bases, Rows
<1>2. /\ At(s.base_row, w[1], w[2]) \in Cells
      /\ At(s.base_row, w[1], w[2]) = s.base_row * Width + w[1] * Width + w[2]
  BY <1>1, Addresses
<1>. QED BY <1>2, Fields DEF ReadCell

-----------------------------------------------------------------------------
(* Scrolling.                                                              *)

(* A screen that is displayed from its base row, at a place and with the   *)
(* text of a grid whose last row may just have been left.                  *)
Arrived(t, g, r, c) ==
  /\ Fits(t) /\ t.column = c
  /\ IF r = Height THEN Shown(t) = Grid!ShiftUp(g) /\ t.row = Height - 1
                    ELSE Shown(t) = g /\ t.row = r

(* The window after a scroll, at the same place in the memory or back at   *)
(* its top: its last row is blank, the others are the rows that followed.  *)
LEMMA ShiftedUp ==
  ASSUME NEW s, Fits(s), NEW t, Fits(t),
         \A c \in Columns : t.cells[At(t.base_row, Height - 1, c)] = Blank,
         \A r \in 0 .. Height - 2, c \in Columns :
           t.cells[At(t.base_row, r, c)] = s.cells[At(s.base_row, r + 1, c)]
  PROVE  Shown(t) = Grid!ShiftUp(Shown(s))
<1>. SUFFICES ASSUME NEW w \in Window
              PROVE  t.cells[At(t.base_row, w[1], w[2])] =
                       IF w[1] = Height - 1 THEN Blank ELSE Shown(s)[<<w[1] + 1, w[2]>>]
  BY DEF Shown, Grid!ShiftUp, Grid!Places, Window
<1>1. w[1] \in Rows /\ w[2] \in Columns /\ Height \in Nat
  BY InWindow, GeometryAssumption
<1>2. CASE w[1] = Height - 1
  BY <1>1, <1>2
<1>3. CASE w[1] # Height - 1
  <2>1. w[1] \in 0 .. Height - 2 /\ w[1] + 1 \in Rows
    BY <1>1, <1>3 DEF Rows
  <2>2. <<w[1] + 1, w[2]>> \in Window
    BY <1>1, <2>1, InWindow
  <2>3. Shown(s)[<<w[1] + 1, w[2]>>] = s.cells[At(s.base_row, w[1] + 1, w[2])]
    BY <2>2 DEF Shown
  <2>. QED BY <1>1, <1>3, <2>1, <2>3
<1>. QED BY <1>2, <1>3
-----------------------------------------------------------------------------
(* What the operations of VgaText make of the fields.                      *)

Filled(m, from, n) ==
  [p \in Cells |-> IF from <= p /\ p < from + n THEN Blank ELSE m[p]]
Copied(m, source) ==
  [p \in Cells |-> IF Width <= p /\ p < Height * Width
                     THEN IF source + p - Width \in Cells THEN m[source + p - Width] ELSE Blank
                     ELSE m[p]]

(* Several fields change at a time. *)
Rebased(s, v, w) == [s EXCEPT !.base_row = v, !.row = w]
Placed(s, v, w) == [s EXCEPT !.row = v, !.column = w]
Wrapped(s, v, w, x) == [s EXCEPT !.base_row = v, !.row = w, !.column = x]
Written(s, p, v) == [s EXCEPT !.cells[p] = v]

LEMMA Updates ==
  ASSUME NEW b, NEW r, NEW c, NEW m, NEW d, NEW k, NEW s, s = Screen(b, r, c, m, d, k),
         NEW v, NEW w
  PROVE  /\ Rebased(s, v, w) = Screen(v, w, c, m, d, k)
         /\ Placed(s, v, w) = Screen(b, v, w, m, d, k)
<1>1. Rebased(s, v, w) = Screen(v, w, c, m, d, k)
  <2>. DEFINE t == [s EXCEPT !.base_row = v]
  <2>1. Rebased(s, v, w) = [t EXCEPT !.row = w]
    BY DEF Rebased
  <2>2. t = Screen(v, r, c, m, d, k)
    BY DEF Screen
  <2>. HIDE DEF t
  <2>3. [t EXCEPT !.row = w] = Screen(v, w, c, m, d, k)
    BY <2>2 DEF Screen
  <2>. QED BY <2>1, <2>3
<1>2. Placed(s, v, w) = Screen(b, v, w, m, d, k)
  <2>. DEFINE t == [s EXCEPT !.row = v]
  <2>1. Placed(s, v, w) = [t EXCEPT !.column = w]
    BY DEF Placed
  <2>2. t = Screen(b, v, c, m, d, k)
    BY DEF Screen
  <2>. HIDE DEF t
  <2>3. [t EXCEPT !.column = w] = Screen(b, v, w, m, d, k)
    BY <2>2 DEF Screen
  <2>. QED BY <2>1, <2>3
<1>. QED BY <1>1, <1>2

LEMMA WrapUnfolds ==
  ASSUME NEW b, NEW r, NEW c, NEW m, NEW d, NEW k, NEW s, s = Screen(b, r, c, m, d, k),
         NEW v, NEW w, NEW x
  PROVE  Wrapped(s, v, w, x) = Screen(v, w, x, m, d, k)
<1>. DEFINE t == Rebased(s, v, w)
<1>1. Wrapped(s, v, w, x) = [t EXCEPT !.column = x]
  BY DEF Wrapped, Rebased
<1>2. t = Screen(v, w, c, m, d, k)
  BY Updates
<1>. HIDE DEF t
<1>3. [t EXCEPT !.column = x] = Screen(v, w, x, m, d, k)
  BY <1>2 DEF Screen
<1>. QED BY <1>1, <1>3

Changed(m, p, v) == [m EXCEPT ![p] = v]

LEMMA WriteUnfolds ==
  ASSUME NEW b, NEW r, NEW c, NEW m, NEW d, NEW k, NEW s, s = Screen(b, r, c, m, d, k),
         NEW p, NEW v
  PROVE  Written(s, p, v) = Screen(b, r, c, Changed(m, p, v), d, k)
<1>1. Written(s, p, v) = [s EXCEPT !.cells = [s.cells EXCEPT ![p] = v]]
  BY DEF Written
<1>2. s.cells = m
  BY DEF Screen
<1>3. [s EXCEPT !.cells = [m EXCEPT ![p] = v]]
        = Screen(b, r, c, [m EXCEPT ![p] = v], d, k)
  BY DEF Screen
<1>. QED BY <1>1, <1>2, <1>3 DEF Changed

LEMMA FillUnfolds ==
  ASSUME NEW b, NEW r, NEW c, NEW m, NEW d, NEW k, NEW s, s = Screen(b, r, c, m, d, k),
         NEW from, NEW n
  PROVE  /\ Fill(s, from, n) = Screen(b, r, c, Filled(m, from, n), d, k)
         /\ CopyRows(s, from) = Screen(b, r, c, Copied(m, from), d, k)
<1>1. s.cells = m
  BY ScreenFields
<1>2. [p \in Cells |-> IF from <= p /\ p < from + n THEN Blank ELSE s.cells[p]]
        = Filled(m, from, n)
  BY <1>1 DEF Filled
<1>3. [p \in Cells |-> IF Width <= p /\ p < Height * Width
                         THEN ReadCell(s, from + p - Width) ELSE s.cells[p]]
        = Copied(m, from)
  BY <1>1 DEF Copied, ReadCell
<1>4. Fill(s, from, n) = [s EXCEPT !.cells = Filled(m, from, n)]
  BY <1>2 DEF Fill
<1>5. CopyRows(s, from) = [s EXCEPT !.cells = Copied(m, from)]
  BY <1>3 DEF CopyRows
<1>6. /\ [s EXCEPT !.cells = Filled(m, from, n)] = Screen(b, r, c, Filled(m, from, n), d, k)
      /\ [s EXCEPT !.cells = Copied(m, from)] = Screen(b, r, c, Copied(m, from), d, k)
  BY DEF Screen
<1>. QED BY <1>4, <1>5, <1>6

LEMMA DisplayUnfolds ==
  ASSUME NEW b, NEW r, NEW c, NEW m, NEW d, NEW k, NEW s, s = Screen(b, r, c, m, d, k),
         NEW n
  PROVE  SetDisplayStart(s, n) = Screen(b, r, c, m, n, k)
  BY DEF SetDisplayStart, Screen

LEMMA ScrolledUnfolds ==
  ASSUME NEW b, NEW r, NEW c, NEW m, NEW d, NEW k, NEW s, s = Screen(b, r, c, m, d, k),
         NEW n, n = Byte(b + 1)
  PROVE  Scrolled(s) =
           IF n > BaseRowMax
             THEN Screen(1, Height - 1, c,
                         Filled(Copied(m, n * Width), Height * Width, Width), 1 * Width, k)
             ELSE Screen(n, Height - 1, c,
                         Filled(m, At(n, Height - 1, c), Width), n * Width, k)
<1>. DEFINE t == Screen(n, Height - 1, c, m, d, k)
            u == IF t.base_row > BaseRowMax THEN ResetScreen(t) ELSE ClearRow(t)
<1>1. s.base_row = b /\ t.base_row = n /\ GetPosition(t) = At(n, Height - 1, c)
  BY ScreenFields
<1>2. [s EXCEPT !.base_row = Byte(s.base_row + 1), !.row = Height - 1] = t
  <2>1. Rebased(s, n, Height - 1) = t
    BY Updates
  <2>. QED BY <1>1, <2>1 DEF Rebased
<1>3. Scrolled(s) = SetDisplayStart(u, u.base_row * Width)
  BY <1>2 DEF Scrolled
<1>4. CASE n > BaseRowMax
  <2>. DEFINE copied == Copied(m, n * Width)
              cells == Filled(copied, Height * Width, Width)
  <2>1. CopyRows(t, t.base_row * Width) = Screen(n, Height - 1, c, copied, d, k)
    BY <1>1, FillUnfolds
  <2>2. Fill(CopyRows(t, t.base_row * Width), Height * Width, Width)
          = Screen(n, Height - 1, c, cells, d, k)
    BY <2>1, FillUnfolds
  <2>3. ResetScreen(t) = Screen(1, Height - 1, c, cells, d, k)
    <3>. DEFINE x == Screen(n, Height - 1, c, cells, d, k)
    <3>1. ResetScreen(t) = Rebased(x, 1, Height - 1)
      BY <2>2 DEF ResetScreen, Rebased
    <3>. QED BY <3>1, Updates
  <2>4. u = Screen(1, Height - 1, c, cells, d, k) /\ u.base_row = 1
    <3>1. u = ResetScreen(t)
      BY <1>1, <1>4
    <3>. QED BY <2>3, <3>1, ScreenFields
  <2>5. Scrolled(s) = Screen(1, Height - 1, c, cells, 1 * Width, k)
    BY <1>3, <2>4, DisplayUnfolds
  <2>. QED BY <1>4, <2>5
<1>5. CASE ~(n > BaseRowMax)
  <2>. DEFINE cells == Filled(m, At(n, Height - 1, c), Width)
  <2>1. ClearRow(t) = Screen(n, Height - 1, c, cells, d, k)
    BY <1>1, FillUnfolds DEF ClearRow
  <2>2. u = Screen(n, Height - 1, c, cells, d, k) /\ u.base_row = n
    <3>1. u = ClearRow(t)
      BY <1>1, <1>5
    <3>. QED BY <2>1, <3>1, ScreenFields
  <2>3. Scrolled(s) = Screen(n, Height - 1, c, cells, n * Width, k)
    BY <1>3, <2>2, DisplayUnfolds
  <2>. QED BY <1>5, <2>3
<1>. QED BY <1>4, <1>5

-----------------------------------------------------------------------------
(* Scrolling shifts the picture up.                                        *)

LEMMA FilledTyped ==
  ASSUME NEW m \in [Cells -> Chars], NEW from, NEW n, NEW source
  PROVE  Filled(m, from, n) \in [Cells -> Chars] /\ Copied(m, source) \in [Cells -> Chars]
  BY CharsAssumption DEF Filled, Copied

(* The window moves down a row in the memory. *)
LEMMA ScrolledInMemory ==
  ASSUME NEW b \in Nat, b < BaseRowMax, NEW m \in [Cells -> Chars], NEW k \in Nat,
         NEW s, s = Screen(b, Height - 1, 0, m, b * Width, k)
  PROVE  Arrived(Scrolled(s), Shown(s), Height, 0)
<1>. DEFINE bottom == At(b + 1, Height - 1, 0)
            cells == Filled(m, bottom, Width)
            t == Screen(b + 1, Height - 1, 0, cells, (b + 1) * Width, k)
<1>1. /\ b + 1 \in Nat /\ b \in Bases /\ b + 1 \in Bases /\ Byte(b + 1) = b + 1
      /\ ~(b + 1 > BaseRowMax)
      /\ Height \in Nat /\ Height > 1 /\ Width \in Nat /\ 0 \in Columns /\ Height - 1 \in Rows
  BY GeometryAssumption DEF Byte, Columns, Rows, Bases
<1>2. Scrolled(s) = t
  BY <1>1, ScrolledUnfolds
<1>3. Fits(s) /\ Fits(t)
  BY <1>1, FilledTyped, FitsFields
<1>4. /\ s.base_row = b /\ s.cells = m
      /\ t.base_row = b + 1 /\ t.row = Height - 1 /\ t.column = 0 /\ t.cells = cells
  BY ScreenFields
<1>. HIDE DEF t
<1>5. bottom = (b + Height) * Width /\ bottom \in Nat
  <2>1. b + 1 + (Height - 1) = b + Height /\ b + Height \in Nat
    BY <1>1
  <2>. QED BY <1>1, <2>1, Products DEF At
<1>. HIDE DEF bottom
<1>6. ASSUME NEW c \in Columns PROVE t.cells[At(t.base_row, Height - 1, c)] = Blank
  <2>1. Height - 1 \in Nat /\ b + 1 + (Height - 1) < BaseRowMax + Height
        /\ b + 1 + (Height - 1) = b + Height
    BY <1>1, GeometryAssumption
  <2>2. /\ At(b + 1, Height - 1, c) \in Cells
        /\ bottom <= At(b + 1, Height - 1, c)
        /\ At(b + 1, Height - 1, c) < bottom + Width
    BY <1>1, <1>5, <2>1, Addresses
  <2>. QED BY <1>4, <2>2 DEF Filled
<1>7. ASSUME NEW r \in 0 .. Height - 2, NEW c \in Columns
      PROVE  t.cells[At(t.base_row, r, c)] = s.cells[At(s.base_row, r + 1, c)]
  <2>1. /\ r \in Nat /\ b + 1 + r < BaseRowMax + Height /\ b + 1 + r \in Nat
        /\ b + Height \in Nat /\ b + 1 + r < b + Height
    BY <1>1, GeometryAssumption
  <2>2. /\ At(b + 1, r, c) \in Cells /\ At(b + 1, r, c) \in Nat
        /\ At(b + 1, r, c) < (b + 1 + r) * Width + Width
    BY <1>1, <2>1, Addresses
  <2>3. (b + 1 + r) * Width + Width <= bottom /\ (b + 1 + r) * Width \in Nat
    BY <1>1, <1>5, <2>1, Products
  <2>4. ~(bottom <= At(b + 1, r, c))
    BY <1>1, <1>5, <2>2, <2>3
  <2>5. At(b + 1, r, c) = At(b, r + 1, c)
    BY <1>1, <2>1, AddressBelow
  <2>. QED BY <1>4, <2>2, <2>4, <2>5 DEF Filled
<1>8. Shown(t) = Grid!ShiftUp(Shown(s))
  BY <1>3, <1>6, <1>7, ShiftedUp
<1>. QED BY <1>2, <1>3, <1>4, <1>8 DEF Arrived

(* At the end of the memory the rows that stay go back to its top. *)
LEMMA ScrolledToTop ==
  ASSUME NEW m \in [Cells -> Chars], NEW k \in Nat,
         NEW s, s = Screen(BaseRowMax, Height - 1, 0, m, BaseRowMax * Width, k)
  PROVE  Arrived(Scrolled(s), Shown(s), Height, 0)
<1>. DEFINE n == BaseRowMax + 1
            copied == Copied(m, n * Width)
            cells == Filled(copied, Height * Width, Width)
            t == Screen(1, Height - 1, 0, cells, 1 * Width, k)
<1>1. /\ BaseRowMax \in Nat /\ n \in Nat /\ Byte(n) = n /\ n > BaseRowMax
      /\ BaseRowMax \in Bases /\ 1 \in Bases /\ Height - 1 \in Rows /\ 0 \in Columns
      /\ Height \in Nat /\ Height > 1 /\ Width \in Nat
  BY GeometryAssumption DEF Byte, Columns, Rows, Bases
<1>2. Scrolled(s) = t
  BY <1>1, ScrolledUnfolds
<1>3. Fits(s) /\ Fits(t)
  BY <1>1, FilledTyped, FitsFields
<1>4. /\ s.base_row = BaseRowMax /\ s.cells = m
      /\ t.base_row = 1 /\ t.row = Height - 1 /\ t.column = 0 /\ t.cells = cells
  BY ScreenFields
<1>. HIDE DEF t
<1>5. /\ Height * Width \in Nat /\ n * Width \in Nat
      /\ 1 + (Height - 1) = Height
  BY <1>1, Products
<1>6. ASSUME NEW c \in Columns PROVE t.cells[At(t.base_row, Height - 1, c)] = Blank
  <2>1. Height - 1 \in Nat /\ 1 + (Height - 1) < BaseRowMax + Height
    BY <1>1, GeometryAssumption
  <2>2. /\ At(1, Height - 1, c) \in Cells
        /\ Height * Width <= At(1, Height - 1, c)
        /\ At(1, Height - 1, c) < Height * Width + Width
    BY <1>1, <1>5, <2>1, Addresses
  <2>. QED BY <1>4, <2>2 DEF Filled
<1>7. ASSUME NEW r \in 0 .. Height - 2, NEW c \in Columns
      PROVE  t.cells[At(t.base_row, r, c)] = s.cells[At(s.base_row, r + 1, c)]
  <2>. DEFINE p == At(1, r, c)
  <2>1. /\ r \in Nat /\ 1 + r < BaseRowMax + Height /\ 1 + r \in Nat
        /\ 1 + r < Height /\ n + r < BaseRowMax + Height /\ n + r \in Nat
        /\ c \in Nat /\ r + 1 = 1 + r
    BY <1>1, GeometryAssumption DEF Columns
  <2>2. /\ p \in Cells /\ p \in Nat
        /\ (1 + r) * Width <= p /\ p < (1 + r) * Width + Width
        /\ p = 1 * Width + r * Width + c
    <3>1. 1 \in Nat
      OBVIOUS
    <3>. QED BY <2>1, <3>1, Addresses
  <2>3. /\ (1 + r) * Width + Width <= Height * Width /\ (1 + r) * Width \in Nat
        /\ (1 + r) * Width = r * Width + Width /\ r * Width \in Nat
    BY <1>1, <2>1, Products
  <2>4. Width <= p /\ p < Height * Width /\ ~(Height * Width <= p)
    BY <1>1, <1>5, <2>2, <2>3
  <2>5. n * Width + p - Width = At(n, r, c)
    <3>1. At(n, r, c) = n * Width + r * Width + c
      BY <1>1, <2>1, Addresses
    <3>2. 1 * Width = Width
      BY <1>1
    <3>. QED BY <1>1, <1>5, <2>1, <2>2, <2>3, <3>1, <3>2
  <2>6. At(n, r, c) \in Cells /\ At(n, r, c) = At(BaseRowMax, r + 1, c)
    <3>1. At(n, r, c) \in Cells
      BY <1>1, <2>1, Addresses
    <3>2. At(BaseRowMax, r + 1, c) = At(BaseRowMax + 1, r, c)
      BY <1>1, <2>1, AddressBelow
    <3>. QED BY <3>1, <3>2
  <2>. HIDE DEF p, n
  <2>7. copied[p] = m[At(n, r, c)]
    BY <2>2, <2>4, <2>5, <2>6 DEF Copied
  <2>8. cells[p] = copied[p]
    BY <2>2, <2>4 DEF Filled
  <2>. QED BY <1>4, <2>6, <2>7, <2>8 DEF p
<1>8. Shown(t) = Grid!ShiftUp(Shown(s))
  BY <1>3, <1>6, <1>7, ShiftedUp
<1>. QED BY <1>2, <1>3, <1>4, <1>8 DEF Arrived
-----------------------------------------------------------------------------
(* The operations that move the place to write at.                         *)

LEMMA ShownUnfolds ==
  ASSUME NEW b, NEW r, NEW c, NEW m, NEW d, NEW k
  PROVE  Shown(Screen(b, r, c, m, d, k)) = [w \in Window |-> m[At(b, w[1], w[2])]]
<1>1. /\ Screen(b, r, c, m, d, k).base_row = b
      /\ Screen(b, r, c, m, d, k).cells = m
  BY ScreenFields
<1>. QED BY <1>1 DEF Shown

(* A place on the screen and the text that is there. *)
LEMMA Placement ==
  ASSUME NEW b \in Bases, NEW r \in Rows, NEW c \in Columns, NEW m \in [Cells -> Chars],
         NEW k \in Nat, NEW s, s = Screen(b, r, c, m, b * Width, k)
  PROVE  /\ Fits(s) /\ s.row = r /\ s.column = c
         /\ Shown(s) = [w \in Window |-> m[At(b, w[1], w[2])]]
  BY FitsFields, ScreenFields, ShownUnfolds

LEMMA RowDownArrives ==
  ASSUME NEW b \in Bases, NEW r \in Rows, NEW m \in [Cells -> Chars], NEW k \in Nat,
         NEW s, s = Screen(b, r, 0, m, b * Width, k)
  PROVE  Arrived(RowDown(s), Shown(s), r + 1, 0)
<1>1. /\ s.row = r /\ Height \in Nat /\ r \in Nat /\ 0 \in Columns /\ b \in Nat
      /\ b <= BaseRowMax /\ BaseRowMax \in Nat
  BY ScreenFields, GeometryAssumption DEF Rows, Columns, Bases
<1>2. CASE r = Height - 1
  <2>1. RowDown(s) = Scrolled(s)
    BY <1>1, <1>2 DEF RowDown
  <2>2. r + 1 = Height
    BY <1>1, <1>2
  <2>3. CASE b < BaseRowMax
    BY <1>1, <1>2, <2>1, <2>2, <2>3, ScrolledInMemory
  <2>4. CASE b = BaseRowMax
    BY <1>1, <1>2, <2>1, <2>2, <2>4, ScrolledToTop
  <2>. QED BY <1>1, <2>3, <2>4
<1>3. CASE r # Height - 1
  <2>. DEFINE t == Screen(b, r + 1, 0, m, b * Width, k)
  <2>1. RowDown(s) = [s EXCEPT !.row = r + 1]
    BY <1>1, <1>3 DEF RowDown
  <2>2. [s EXCEPT !.row = r + 1] = t
    BY DEF Screen
  <2>3. r + 1 \in Rows /\ r + 1 # Height
    BY <1>1, <1>3 DEF Rows
  <2>4. Fits(t) /\ t.row = r + 1 /\ t.column = 0 /\ Shown(t) = Shown(s)
    BY <1>1, <2>3, Placement
  <2>. QED BY <2>1, <2>2, <2>3, <2>4 DEF Arrived
<1>. QED BY <1>2, <1>3

LEMMA NextLineArrives ==
  ASSUME NEW s, Fits(s)
  PROVE  Arrived(MoveToNextLine(s), Shown(s), s.row + 1, 0)
<1>1. PICK b \in Bases, r \in Rows, c \in Columns, m \in [Cells -> Chars], k \in Nat :
        s = Screen(b, r, c, m, b * Width, k)
  BY FitsScreen
<1>. DEFINE t == Screen(b, r, 0, m, b * Width, k)
<1>2. s.row = r
  BY <1>1, ScreenFields
<1>3. [s EXCEPT !.column = 0] = t
  BY <1>1 DEF Screen
<1>4. Shown(t) = Shown(s)
  BY <1>1, ShownUnfolds
<1>. HIDE DEF t
<1>5. Arrived(RowDown(t), Shown(t), r + 1, 0)
  BY RowDownArrives DEF t
<1>. QED BY <1>2, <1>3, <1>4, <1>5 DEF MoveToNextLine

(* The row and the column behind a place. *)
RowAfter(r, c) == IF c = Width - 1 THEN r + 1 ELSE r
ColumnAfter(c) == IF c = Width - 1 THEN 0 ELSE c + 1

LEMMA ForwardArrives ==
  ASSUME NEW s, Fits(s)
  PROVE  Arrived(MoveForward(s), Shown(s), RowAfter(s.row, s.column), ColumnAfter(s.column))
<1>1. PICK b \in Bases, r \in Rows, c \in Columns, m \in [Cells -> Chars], k \in Nat :
        s = Screen(b, r, c, m, b * Width, k)
  BY FitsScreen
<1>2. s.row = r /\ s.column = c
  BY <1>1, ScreenFields
<1>3. CASE c = Width - 1
  <2>1. MoveForward(s) = MoveToNextLine(s)
    BY <1>2, <1>3 DEF MoveForward, MoveToNextLine
  <2>. QED BY <1>2, <1>3, <2>1, NextLineArrives DEF RowAfter, ColumnAfter
<1>4. CASE c # Width - 1
  <2>. DEFINE t == Screen(b, r, c + 1, m, b * Width, k)
  <2>1. MoveForward(s) = [s EXCEPT !.column = c + 1]
    BY <1>2, <1>4 DEF MoveForward
  <2>2. [s EXCEPT !.column = c + 1] = t
    BY <1>1 DEF Screen
  <2>3. c + 1 \in Columns /\ r # Height
    BY <1>4, GeometryAssumption DEF Columns, Rows
  <2>4. Fits(t) /\ t.row = r /\ t.column = c + 1 /\ Shown(t) = Shown(s)
    BY <1>1, <2>3, Placement
  <2>. HIDE DEF t
  <2>. QED BY <1>2, <1>4, <2>1, <2>2, <2>3, <2>4 DEF Arrived, RowAfter, ColumnAfter
<1>. QED BY <1>3, <1>4

(* A character in a cell of the window changes that place of the picture. *)
LEMMA WriteShows ==
  ASSUME NEW s, Fits(s), NEW ch \in Chars
  PROVE  LET t == Written(s, GetPosition(s), ch)
         IN  /\ Fits(t) /\ t.row = s.row /\ t.column = s.column
             /\ Shown(t) = [Shown(s) EXCEPT ![<<s.row, s.column>>] = ch]
<1>1. PICK b \in Bases, r \in Rows, c \in Columns, m \in [Cells -> Chars], k \in Nat :
        s = Screen(b, r, c, m, b * Width, k)
  BY FitsScreen
<1>. DEFINE p == At(b, r, c)
            n == Changed(m, p, ch)
            t == Screen(b, r, c, n, b * Width, k)
<1>2. s.row = r /\ s.column = c /\ GetPosition(s) = p
  BY <1>1, ScreenFields
<1>3. Written(s, GetPosition(s), ch) = t
  BY <1>1, <1>2, WriteUnfolds
<1>4. n \in [Cells -> Chars]
  BY DEF Changed
<1>5. p \in Cells
  BY <1>1, <1>2, Fields
<1>6. Fits(t) /\ t.row = r /\ t.column = c
      /\ Shown(t) = [w \in Window |-> n[At(b, w[1], w[2])]]
  <2>. HIDE DEF n
  <2>. QED BY <1>4, Placement
<1>7. Shown(s) = [w \in Window |-> m[At(b, w[1], w[2])]]
  BY <1>1, Placement
<1>8. ASSUME NEW w \in Window
      PROVE  n[At(b, w[1], w[2])] = IF w = <<r, c>> THEN ch ELSE m[At(b, w[1], w[2])]
  <2>1. w[1] \in Rows /\ w[2] \in Columns /\ w = <<w[1], w[2]>> /\ w[1] \in Nat /\ r \in Nat
        /\ b \in Nat /\ b + w[1] < BaseRowMax + Height
    BY InWindow, GeometryAssumption DEF Bases, Rows
  <2>2. At(b, w[1], w[2]) \in Cells
    BY <2>1, Addresses
  <2>3. CASE w = <<r, c>>
    BY <1>5, <2>3 DEF Changed
  <2>4. CASE w # <<r, c>>
    <3>1. At(b, w[1], w[2]) # p
      BY <2>1, <2>4, AddressesDiffer
    <3>. QED BY <2>2, <2>4, <3>1 DEF Changed
  <2>. QED BY <2>3, <2>4
<1>9. Shown(t) = [Shown(s) EXCEPT ![<<r, c>>] = ch]
  BY <1>6, <1>7, <1>8
<1>. QED BY <1>2, <1>3, <1>6, <1>9

LEMMA PutArrives ==
  ASSUME NEW s, Fits(s), NEW ch \in Chars
  PROVE  Arrived(Put(s, ch), [Shown(s) EXCEPT ![<<s.row, s.column>>] = ch],
                 RowAfter(s.row, s.column), ColumnAfter(s.column))
<1>. DEFINE t == Written(s, GetPosition(s), ch)
<1>1. Put(s, ch) = MoveForward(t)
  BY Fields DEF Put, Written
<1>2. /\ Fits(t) /\ t.row = s.row /\ t.column = s.column
      /\ Shown(t) = [Shown(s) EXCEPT ![<<s.row, s.column>>] = ch]
  BY WriteShows
<1>. HIDE DEF t
<1>3. Arrived(MoveForward(t), Shown(t), RowAfter(t.row, t.column), ColumnAfter(t.column))
  BY <1>2, ForwardArrives
<1>. QED BY <1>1, <1>2, <1>3
(* A step back from anywhere but the origin of the window. *)
Before(r, c) == IF c > 0 THEN <<r, c - 1>> ELSE <<r - 1, Width - 1>>

LEMMA BackwardsArrives ==
  ASSUME NEW s, Fits(s), ~(s.row = 0 /\ s.column = 0)
  PROVE  LET t == MoveBackwards(s)
             at == Before(s.row, s.column)
         IN  /\ Fits(t) /\ at \in Window /\ t.row = at[1] /\ t.column = at[2]
             /\ Shown(t) = Shown(s)
<1>1. PICK b \in Bases, r \in Rows, c \in Columns, m \in [Cells -> Chars], k \in Nat :
        s = Screen(b, r, c, m, b * Width, k)
  BY FitsScreen
<1>2. s.row = r /\ s.column = c
  BY <1>1, ScreenFields
<1>3. r \in Nat /\ c \in Nat /\ Width \in Nat /\ Width > 1 /\ Height \in Nat
      /\ r < Height /\ c < Width
  BY GeometryAssumption DEF Rows, Columns
<1>4. CASE c > 0
  <2>. DEFINE t == Screen(b, r, c - 1, m, b * Width, k)
  <2>1. MoveBackwards(s) = [s EXCEPT !.column = c - 1]
    BY <1>2, <1>4 DEF MoveBackwards
  <2>2. [s EXCEPT !.column = c - 1] = t
    BY <1>1 DEF Screen
  <2>3. c - 1 \in Columns
    BY <1>3, <1>4 DEF Columns
  <2>4. Fits(t) /\ t.row = r /\ t.column = c - 1 /\ Shown(t) = Shown(s)
    BY <1>1, <2>3, Placement
  <2>. HIDE DEF t
  <2>5. MoveBackwards(s) = t
    BY <2>1, <2>2
  <2>6. Before(r, c) = <<r, c - 1>> /\ <<r, c - 1>> \in Window
    BY <1>4, <2>3, InWindow DEF Before
  <2>. QED BY <1>2, <2>4, <2>5, <2>6
<1>5. CASE ~(c > 0)
  <2>. DEFINE t == Screen(b, r - 1, Width - 1, m, b * Width, k)
  <2>1. c = 0 /\ r > 0
    BY <1>2, <1>3, <1>5
  <2>2. MoveBackwards(s) = Placed(s, r - 1, Width - 1)
    BY <1>2, <1>5, <2>1 DEF MoveBackwards, Placed
  <2>3. Placed(s, r - 1, Width - 1) = t
    BY <1>1, Updates
  <2>4. r - 1 \in Rows /\ Width - 1 \in Columns
    BY <1>3, <2>1 DEF Rows, Columns
  <2>5. Fits(t) /\ t.row = r - 1 /\ t.column = Width - 1 /\ Shown(t) = Shown(s)
    BY <1>1, <2>4, Placement
  <2>. HIDE DEF t
  <2>6. MoveBackwards(s) = t
    BY <2>2, <2>3
  <2>7. Before(r, c) = <<r - 1, Width - 1>> /\ <<r - 1, Width - 1>> \in Window
    BY <1>5, <2>4, InWindow DEF Before
  <2>. QED BY <1>2, <2>5, <2>6, <2>7
<1>. QED BY <1>4, <1>5

LEMMA RemoveArrives ==
  ASSUME NEW s, Fits(s), ~(s.row = 0 /\ s.column = 0)
  PROVE  LET t == RemoveLastChar(s)
             at == Before(s.row, s.column)
         IN  /\ Fits(t) /\ at \in Window /\ t.row = at[1] /\ t.column = at[2]
             /\ Shown(t) = [Shown(s) EXCEPT ![at] = Blank]
<1>. DEFINE u == MoveBackwards(s)
            at == Before(s.row, s.column)
<1>1. Fits(u) /\ at \in Window /\ u.row = at[1] /\ u.column = at[2] /\ Shown(u) = Shown(s)
  BY BackwardsArrives
<1>2. RemoveLastChar(s) = Written(u, GetPosition(u), Blank)
  BY <1>1, Fields DEF RemoveLastChar, Written
<1>3. at = <<u.row, u.column>>
  BY <1>1, InWindow
<1>. HIDE DEF u, at
<1>4. LET t == Written(u, GetPosition(u), Blank)
      IN  /\ Fits(t) /\ t.row = u.row /\ t.column = u.column
          /\ Shown(t) = [Shown(u) EXCEPT ![<<u.row, u.column>>] = Blank]
  BY <1>1, WriteShows, CharsAssumption
<1>. QED BY <1>1, <1>2, <1>3, <1>4 DEF at

(* A distance that stays in the row changes the column only. *)
LEMMA MoveArrives ==
  ASSUME NEW s, Fits(s), NEW n \in Int, ~CrossesRow(s, n)
  PROVE  LET t == MoveCursorBy(s, n)
         IN  /\ Fits(t) /\ t.row = s.row /\ t.column = s.column + n
             /\ s.column + n \in Columns /\ Shown(t) = Shown(s)
<1>1. PICK b \in Bases, r \in Rows, c \in Columns, m \in [Cells -> Chars], k \in Nat :
        s = Screen(b, r, c, m, b * Width, k)
  BY FitsScreen
<1>2. s.row = r /\ s.column = c /\ s.base_row = b
  BY <1>1, ScreenFields
<1>3. r \in Nat /\ c \in Nat /\ Width \in Nat /\ Width > 1 /\ b \in Nat /\ Byte(b) = b
  BY GeometryAssumption DEF Rows, Columns, Bases, Byte
<1>. DEFINE abs_pos == r * Width + c + n
            t == Screen(b, r, c + n, m, b * Width, k)
<1>4. abs_pos \in Int /\ abs_pos \div Width = r
  BY <1>2, <1>3 DEF CrossesRow
<1>5. abs_pos - r * Width = c + n /\ c + n \in Columns
  <2>1. /\ abs_pos = (abs_pos \div Width) * Width + (abs_pos % Width)
        /\ abs_pos % Width \in 0 .. Width - 1
    <3>. HIDE DEF abs_pos
    <3>. QED BY <1>3, <1>4
  <2>2. r * Width \in Int
    BY <1>3
  <2>. QED BY <1>3, <1>4, <2>1, <2>2 DEF Columns
<1>6. b - (r - r) = b
  BY <1>3
<1>7. MoveCursorBy(s, n) = Wrapped(s, b, r, c + n)
  <2>. HIDE DEF abs_pos
  <2>1. s.row * Width + s.column + n = abs_pos
    BY <1>2 DEF abs_pos
  <2>. QED BY <1>2, <1>3, <1>4, <1>5, <1>6, <2>1 DEF MoveCursorBy, Wrapped
<1>8. Wrapped(s, b, r, c + n) = t
  BY <1>1, WrapUnfolds
<1>9. Fits(t) /\ t.row = r /\ t.column = c + n /\ Shown(t) = Shown(s)
  BY <1>1, <1>5, Placement
<1>. HIDE DEF t, abs_pos
<1>10. MoveCursorBy(s, n) = t
  BY <1>7, <1>8
<1>. QED BY <1>2, <1>5, <1>9, <1>10

(* The two operations that change neither the place nor the text. *)
LEMMA SyncArrives ==
  ASSUME NEW s, Fits(s)
  PROVE  /\ Fits(SyncCursor(s)) /\ SyncCursor(s).row = s.row
         /\ SyncCursor(s).column = s.column /\ Shown(SyncCursor(s)) = Shown(s)
<1>1. PICK b \in Bases, r \in Rows, c \in Columns, m \in [Cells -> Chars], k \in Nat :
        s = Screen(b, r, c, m, b * Width, k)
  BY FitsScreen
<1>. DEFINE p == At(b, r, c)
<1>2. s.row = r /\ s.column = c /\ GetPosition(s) = p
  BY <1>1, ScreenFields
<1>3. p \in Nat
  BY <1>1, <1>2, Fields, Addresses DEF Cells
<1>. HIDE DEF p
<1>4. SyncCursor(s) = Screen(b, r, c, m, b * Width, p)
  BY <1>1, <1>2 DEF SyncCursor, Screen
<1>. QED BY <1>1, <1>2, <1>3, <1>4, Placement

LEMMA LineStartArrives ==
  ASSUME NEW s, Fits(s)
  PROVE  /\ Fits(LineStart(s)) /\ LineStart(s).row = s.row
         /\ LineStart(s).column = 0 /\ Shown(LineStart(s)) = Shown(s)
<1>1. PICK b \in Bases, r \in Rows, c \in Columns, m \in [Cells -> Chars], k \in Nat :
        s = Screen(b, r, c, m, b * Width, k)
  BY FitsScreen
<1>2. s.row = r
  BY <1>1, ScreenFields
<1>3. LineStart(s) = Screen(b, r, 0, m, b * Width, k)
  BY <1>1 DEF LineStart, Screen
<1>4. 0 \in Columns
  BY GeometryAssumption DEF Columns
<1>. QED BY <1>1, <1>2, <1>3, <1>4, Placement

(* A cleared screen shows nothing, whatever the memory behind it holds. *)
LEMMA ClearArrives ==
  ASSUME NEW s, NEW b, NEW r, NEW c, NEW m \in [Cells -> Chars], NEW d, NEW k \in Nat,
         s = Screen(b, r, c, m, d, k)
  PROVE  LET t == ClearScreen(s)
         IN  /\ Fits(t) /\ t.row = 0 /\ t.column = 0 /\ Shown(t) = Grid!NoText
<1>. DEFINE n == Filled(m, 0, Height * Width)
            t == Screen(0, 0, 0, n, 0 * Width, k)
<1>1. Fill(s, 0, Height * Width) = Screen(b, r, c, n, d, k)
  BY FillUnfolds
<1>2. ClearScreen(s) = Screen(0, 0, 0, n, 0, k)
  <2>1. Wrapped(Fill(s, 0, Height * Width), 0, 0, 0) = Screen(0, 0, 0, n, d, k)
    BY <1>1, WrapUnfolds
  <2>. QED BY <2>1, DisplayUnfolds DEF ClearScreen, Wrapped
<1>3. 0 * Width = 0 /\ 0 \in Bases /\ 0 \in Rows /\ 0 \in Columns /\ n \in [Cells -> Chars]
  BY GeometryAssumption, FilledTyped DEF Bases, Rows, Columns
<1>4. /\ Fits(t) /\ t.row = 0 /\ t.column = 0
      /\ Shown(t) = [w \in Window |-> n[At(0, w[1], w[2])]]
  <2>. HIDE DEF n
  <2>. QED BY <1>3, Placement
<1>5. ASSUME NEW w \in Window PROVE n[At(0, w[1], w[2])] = Blank
  <2>1. /\ w[1] \in Nat /\ w[2] \in Columns /\ 0 + w[1] < BaseRowMax + Height
        /\ 0 + w[1] < Height /\ Height \in Nat /\ Width \in Nat /\ 0 + w[1] \in Nat
    BY InWindow, GeometryAssumption DEF Rows
  <2>2. /\ At(0, w[1], w[2]) \in Cells /\ At(0, w[1], w[2]) \in Nat
        /\ At(0, w[1], w[2]) < (0 + w[1]) * Width + Width
    BY <2>1, Addresses
  <2>3. (0 + w[1]) * Width + Width <= Height * Width /\ Height * Width \in Nat
        /\ (0 + w[1]) * Width \in Nat
    BY <2>1, Products
  <2>4. At(0, w[1], w[2]) < 0 + Height * Width /\ 0 <= At(0, w[1], w[2])
    BY <2>1, <2>2, <2>3
  <2>. QED BY <2>2, <2>4 DEF Filled
<1>6. Shown(t) = Grid!NoText
  BY <1>4, <1>5 DEF Grid!NoText, Grid!Places, Window
<1>7. ClearScreen(s) = t
  BY <1>2, <1>3
<1>. QED BY <1>4, <1>6, <1>7

-----------------------------------------------------------------------------
(* The refinement.                                                         *)

(* A step that arrives at a place is one of TextGrid's. *)
LEMMA ArriveStep ==
  ASSUME Fits(screen), NEW g, NEW r, NEW c, Arrived(screen', g, r, c)
  PROVE  Fits(screen)' /\ Grid!Arrive(g, r, c)
<1>1. Fits(screen') /\ Picture(screen') = Shown(screen')
  BY PictureShown DEF Arrived
<1>. QED BY <1>1 DEF Arrived, Grid!Arrive

LEMMA NextShows ==
  ASSUME Fits(screen), [Next]_screen
  PROVE  Fits(screen)' /\ [Grid!Next]_(Grid!vars)
<1>. DEFINE r == screen.row
            c == screen.column
<1>1. Picture(screen) = Shown(screen) /\ (Fits(screen') => Picture(screen') = Shown(screen'))
  BY PictureShown
<1>2. CASE PrintCharacter
  <2>1. PICK ch \in Chars : screen' = Put(screen, ch)
    BY <1>2 DEF PrintCharacter
  <2>2. Arrived(screen', [Picture(screen) EXCEPT ![<<r, c>>] = ch],
                RowAfter(r, c), ColumnAfter(c))
    BY <1>1, <2>1, PutArrives
  <2>3. Fits(screen)' /\ Grid!Write(ch)
    BY <2>2, ArriveStep DEF Grid!Write, Grid!Advance, RowAfter, ColumnAfter
  <2>. QED BY <2>3 DEF Grid!Next
<1>3. CASE PrintNewLine
  <2>1. Arrived(screen', Picture(screen), r + 1, 0)
    BY <1>1, <1>3, NextLineArrives DEF PrintNewLine
  <2>2. Fits(screen)' /\ Grid!NewLine
    BY <2>1, ArriveStep DEF Grid!NewLine
  <2>. QED BY <2>2 DEF Grid!Next
<1>4. CASE PrintReturn
  <2>1. /\ Fits(screen') /\ screen'.row = r /\ screen'.column = 0
        /\ Shown(screen') = Shown(screen)
    BY <1>4, LineStartArrives DEF PrintReturn
  <2>2. Grid!Return
    BY <1>1, <2>1 DEF Grid!Return
  <2>. QED BY <2>1, <2>2 DEF Grid!Next
<1>5. CASE GoForward
  <2>1. Arrived(screen', Picture(screen), RowAfter(r, c), ColumnAfter(c))
    BY <1>1, <1>5, ForwardArrives DEF GoForward
  <2>2. Fits(screen)' /\ Grid!Forward
    BY <2>1, ArriveStep DEF Grid!Forward, Grid!Advance, RowAfter, ColumnAfter
  <2>. QED BY <2>2 DEF Grid!Next
<1>6. CASE GoBackwards
  <2>. DEFINE at == Before(r, c)
  <2>1. /\ Fits(screen') /\ at \in Window /\ screen'.row = at[1] /\ screen'.column = at[2]
        /\ Shown(screen') = Shown(screen)
    BY <1>6, BackwardsArrives DEF GoBackwards, AtOrigin
  <2>2. Grid!Back(FALSE)
    BY <1>1, <2>1 DEF Grid!Back, Grid!Places, Window, Before
  <2>. QED BY <2>1, <2>2 DEF Grid!Next
<1>7. CASE DeleteLastChar
  <2>. DEFINE at == Before(r, c)
  <2>1. /\ Fits(screen') /\ at \in Window /\ screen'.row = at[1] /\ screen'.column = at[2]
        /\ Shown(screen') = [Shown(screen) EXCEPT ![at] = Blank]
    BY <1>7, RemoveArrives DEF DeleteLastChar, AtOrigin
  <2>2. Grid!Back(TRUE)
    BY <1>1, <2>1 DEF Grid!Back, Grid!Places, Window, Before
  <2>. QED BY <2>1, <2>2 DEF Grid!Next
<1>8. CASE MoveCursor
  <2>1. PICK n \in 1 - Width .. Width - 1 :
          ~CrossesRow(screen, n) /\ screen' = MoveCursorBy(screen, n)
    BY <1>8 DEF MoveCursor
  <2>2. n \in Int
    BY GeometryAssumption
  <2>3. /\ Fits(screen') /\ screen'.row = r /\ screen'.column = c + n
        /\ c + n \in Columns /\ Shown(screen') = Shown(screen)
    BY <2>1, <2>2, MoveArrives
  <2>4. Grid!Move(n)
    BY <1>1, <2>3 DEF Grid!Move, Columns
  <2>. QED BY <2>3, <2>4 DEF Grid!Next
<1>9. CASE Clear
  <2>1. PICK b \in Bases, q \in Rows, d \in Columns, m \in [Cells -> Chars], k \in Nat :
          screen = Screen(b, q, d, m, b * Width, k)
    BY FitsScreen
  <2>2. /\ Fits(screen') /\ screen'.row = 0 /\ screen'.column = 0
        /\ Shown(screen') = Grid!NoText
    BY <1>9, <2>1, ClearArrives DEF Clear
  <2>3. Grid!Clear
    BY <1>1, <2>2 DEF Grid!Clear
  <2>. QED BY <2>2, <2>3 DEF Grid!Next
<1>10. CASE CallCursorSync
  <2>1. /\ Fits(screen') /\ screen'.row = r /\ screen'.column = c
        /\ Shown(screen') = Shown(screen)
    BY <1>10, SyncArrives DEF CallCursorSync
  <2>2. UNCHANGED Grid!vars
    BY <1>1, <2>1 DEF Grid!vars
  <2>. QED BY <2>1, <2>2
<1>11. CASE UNCHANGED screen
  <2>1. Fits(screen') /\ UNCHANGED Grid!vars
    BY <1>11 DEF Grid!vars
  <2>. QED BY <2>1
<1>. QED BY <1>2, <1>3, <1>4, <1>5, <1>6, <1>7, <1>8, <1>9, <1>10, <1>11 DEF Next

(* output::initialize leaves a blank window at the top of the memory. *)
LEMMA InitShows == Init => Fits(screen) /\ Grid!Init
<1>. SUFFICES ASSUME Init PROVE Fits(screen) /\ Grid!Init
  OBVIOUS
<1>. DEFINE m == [p \in Cells |-> Blank]
            s == Screen(0, 0, 0, m, 0, 0)
            t == ClearScreen(s)
<1>1. screen = SyncCursor(t)
  BY DEF Init, Screen
<1>2. m \in [Cells -> Chars]
  BY CharsAssumption
<1>3. Fits(t) /\ t.row = 0 /\ t.column = 0 /\ Shown(t) = Grid!NoText
  <2>. HIDE DEF m
  <2>. QED BY <1>2, ClearArrives
<1>. HIDE DEF t
<1>4. /\ Fits(screen) /\ screen.row = 0 /\ screen.column = 0
      /\ Shown(screen) = Grid!NoText
  BY <1>1, <1>3, SyncArrives
<1>. QED BY <1>4, PictureShown DEF Grid!Init

(* Whatever the client prints, deletes and clears, the window that the     *)
(* hardware displays is the one that is written, and lies in the memory.   *)
THEOREM DisplayAlwaysFollowsBase == Spec => []DisplayFollowsBase
<1>1. Init => Fits(screen)
  BY InitShows
<1>2. Fits(screen) /\ [Next]_screen => Fits(screen)'
  BY NextShows
<1>3. Fits(screen) => DisplayFollowsBase
  BY DEF Fits, DisplayFollowsBase, TypeOK
<1>. QED BY <1>1, <1>2, <1>3, PTL DEF Spec

(* What the display shows is the grid of TextGrid: scrolling in the video  *)
(* memory and copying the rows back to its top both shift the grid up.     *)
THEOREM ScreenImplementsGrid == Spec => ImplementsGrid
<1>1. Init => Fits(screen) /\ Grid!Init
  BY InitShows
<1>2. Fits(screen) /\ [Next]_screen => Fits(screen)' /\ [Grid!Next]_(Grid!vars)
  BY NextShows
<1>. QED BY <1>1, <1>2, PTL DEF Spec, ImplementsGrid, Grid!Spec
=============================================================================
