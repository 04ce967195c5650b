------------------------------ MODULE VgaText ------------------------------
(***************************************************************************)
(* The VGA text buffer, class vga_text_buffer (src/io/vga_text_buffer.cpp),*)
(* as operators on a screen: the three bytes of the class, the video       *)
(* memory and the two CRTC registers that hardware_cursor writes.          *)
(* The window on the screen is a part of the video memory; scrolling moves *)
(* the window down a row, and at the end of the memory copies its rows     *)
(* back to the top.  The fill and copy loops of the three CPU levels are   *)
(* one definition each; colours are not modelled.                          *)
(***************************************************************************)
EXTENDS Integers

CONSTANTS
  Width,      \* vga_width, 80 in the source
  Height,     \* vga_height, 25 in the source
  BaseRowMax, \* base_row_max, 179 in the source
  Blank       \* the character of an empty cell, ' '

ASSUME GeometryAssumption ==
  /\ Width \in Nat /\ Width > 1 /\ Height \in Nat /\ Height > 1
  /\ BaseRowMax \in Nat /\ BaseRowMax > 0 /\ BaseRowMax + Height < 256

Byte(n) == n % 256

(* The rows that some window shows.  What lies behind them is not shown,   *)
(* and is taken to read as blank and to ignore writes.                     *)
Cells == 0 .. (BaseRowMax + Height) * Width - 1
ReadCell(s, p) == IF p \in Cells THEN s.cells[p] ELSE Blank

Screens(chars) ==
  [base_row : 0 .. 255, row : 0 .. Height - 1, column : 0 .. Width - 1,
   cells : [Cells -> chars], display_start : Nat, cursor_position : Nat]

GetPosition(s) == (s.base_row + s.row) * Width + s.column

SetDisplayStart(s, p) == [s EXCEPT !.display_start = p]
SyncCursor(s) == [s EXCEPT !.cursor_position = GetPosition(s)]

Fill(s, from, n) ==
  [s EXCEPT !.cells = [p \in Cells |->
     IF from <= p /\ p < from + n THEN Blank ELSE s.cells[p]]]

ClearRow(s) == Fill(s, GetPosition(s), Width)

(* The copy loops of reset: Height - 1 rows from source to the rows from   *)
(* the second on, upwards, from a place behind them.                       *)
CopyRows(s, source) ==
  [s EXCEPT !.cells = [p \in Cells |->
     IF Width <= p /\ p < Height * Width
       THEN ReadCell(s, source + p - Width)
       ELSE s.cells[p]]]

(* Faulty variant: the copy takes the rows of the window before the scroll. *)
ResetFromOldWindow(s) ==
  LET copied == CopyRows(s, (s.base_row - 1) * Width)
  IN [Fill(copied, Height * Width, Width)
        EXCEPT !.base_row = 1, !.row = Height - 1]

(* reset: the rows that stay visible go to the rows 1 .. Height - 1, the   *)
(* row below them is blanked.                                              *)
ResetScreen(s) ==
  LET copied == CopyRows(s, s.base_row * Width)
  IN [Fill(copied, Height * Width, Width)
        EXCEPT !.base_row = 1, !.row = Height - 1]

ClearScreen(s) ==
  SetDisplayStart([Fill(s, 0, Height * Width)
                     EXCEPT !.base_row = 0, !.row = 0, !.column = 0], 0)

(* Faulty variant: the display start is only written by a reset. *)
ScrolledUnseen(s) ==
  LET t == [s EXCEPT !.base_row = Byte(s.base_row + 1), !.row = Height - 1]
  IN IF t.base_row > BaseRowMax
       THEN SetDisplayStart(ResetScreen(t), Width) ELSE ClearRow(t)

(* The common end of move_forward and move_to_next_line, when the row has  *)
(* left the window.                                                        *)
Scrolled(s) ==
  LET t == [s EXCEPT !.base_row = Byte(s.base_row + 1), !.row = Height - 1]
      u == IF t.base_row > BaseRowMax THEN ResetScreen(t) ELSE ClearRow(t)
  IN SetDisplayStart(u, u.base_row * Width)

RowDown(s) ==
  IF s.row = Height - 1 THEN Scrolled(s) ELSE [s EXCEPT !.row = s.row + 1]

MoveToNextLine(s) == RowDown([s EXCEPT !.column = 0])

MoveForward(s) ==
  IF s.column = Width - 1 THEN RowDown([s EXCEPT !.column = 0])
  ELSE [s EXCEPT !.column = s.column + 1]

Put(s, c) ==
  MoveForward(IF GetPosition(s) \in Cells
                THEN [s EXCEPT !.cells[GetPosition(s)] = c] ELSE s)

LineStart(s) == [s EXCEPT !.column = 0]

(* At the origin of the window the row wraps to the bottom while base_row  *)
(* goes up by one: not the inverse of move_forward.                        *)
MoveBackwards(s) ==
  IF s.column > 0 THEN [s EXCEPT !.column = s.column - 1]
  ELSE IF s.row > 0 THEN [s EXCEPT !.row = s.row - 1, !.column = Width - 1]
  ELSE [s EXCEPT !.base_row = Byte(s.base_row - 1), !.row = Height - 1,
                 !.column = Width - 1]

RemoveLastChar(s) ==
  LET t == MoveBackwards(s)
  IN IF GetPosition(t) \in Cells
       THEN [t EXCEPT !.cells[GetPosition(t)] = Blank] ELSE t

(* move_cursor_left_n and move_cursor_right_n, by n < 0 and n > 0: a row   *)
(* boundary changes row and base_row.  abs_pos stays within the window     *)
(* when the text does.                                                     *)
MoveCursorBy(s, n) ==
  LET abs_pos == s.row * Width + s.column + n
      new_row == abs_pos \div Width
  IN [s EXCEPT !.base_row = Byte(s.base_row - (s.row - new_row)),
               !.row = new_row,
               !.column = abs_pos - new_row * Width]
MoveCursorLeftN(s, n) == MoveCursorBy(s, -n)
MoveCursorRightN(s, n) == MoveCursorBy(s, n)

CrossesRow(s, n) == (s.row * Width + s.column + n) \div Width # s.row

(* The picture: what the window at the display start shows. *)
Window == (0 .. Height - 1) \X (0 .. Width - 1)
Picture(s) ==
  [w \in Window |-> ReadCell(s, s.display_start + w[1] * Width + w[2])]
=============================================================================
