------------------------------ MODULE TextGrid ------------------------------
(***************************************************************************)
(* What a text screen promises its clients, with no window and no video    *)
(* memory: a grid of Height rows with a place to write at; a row past the  *)
(* last one shifts the grid up and leaves a blank row at the bottom.       *)
(***************************************************************************)
EXTENDS Integers

CONSTANTS Chars, Width, Height, Blank

VARIABLES grid, row, column

vars == <<grid, row, column>>

Places == (0 .. Height - 1) \X (0 .. Width - 1)
NoText == [w \in Places |-> Blank]

Init == grid = NoText /\ row = 0 /\ column = 0

ShiftUp(g) ==
  [w \in Places |-> IF w[1] = Height - 1 THEN Blank ELSE g[<<w[1] + 1, w[2]>>]]

Arrive(g, r, c) ==
  /\ column' = c
  /\ IF r = Height
       THEN grid' = ShiftUp(g) /\ row' = Height - 1
       ELSE grid' = g /\ row' = r

Advance(g) ==
  IF column = Width - 1 THEN Arrive(g, row + 1, 0) ELSE Arrive(g, row, column + 1)

Write(c) == Advance([grid EXCEPT ![<<row, column>>] = c])

NewLine == Arrive(grid, row + 1, 0)

Return == column' = 0 /\ UNCHANGED <<grid, row>>

Forward == Advance(grid)

Back(erase) ==
  LET at == IF column > 0 THEN <<row, column - 1>> ELSE <<row - 1, Width - 1>>
  IN /\ at \in Places
     /\ row' = at[1] /\ column' = at[2]
     /\ grid' = IF erase THEN [grid EXCEPT ![at] = Blank] ELSE grid

Move(n) ==
  LET c == column + n
  IN /\ c \in 0 .. Width - 1
     /\ column' = c /\ UNCHANGED <<grid, row>>

Clear == grid' = NoText /\ row' = 0 /\ column' = 0

Next ==
  \/ \E c \in Chars : Write(c)
  \/ NewLine \/ Return \/ Forward \/ Clear
  \/ \E erase \in BOOLEAN : Back(erase)
  \/ \E n \in 1 - Width .. Width - 1 : Move(n)

Spec == Init /\ [][Next]_vars
=============================================================================
