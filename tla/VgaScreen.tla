----------------------------- MODULE VgaScreen -----------------------------
(***************************************************************************)
(* The text screen under any client of class output (src/terminal/         *)
(* output.h, output.cpp): the operations of VgaText in any order, except   *)
(* the two the window does not support, stepping back from its origin and  *)
(* moving the cursor by a distance over a row boundary.  The shell's line  *)
(* editor never does the first; for the second see module Terminal.        *)
(***************************************************************************)
EXTENDS VgaText

CONSTANT Chars

ASSUME CharsAssumption == Blank \in Chars

VARIABLE screen

(* The vga_text_buffer after output::initialize. *)
Init ==
  screen = SyncCursor(ClearScreen(
    [base_row |-> 0, row |-> 0, column |-> 0, cells |-> [p \in Cells |-> Blank],
     display_start |-> 0, cursor_position |-> 0]))

(* put_char_no_sync *)
PrintCharacter == \E c \in Chars : screen' = Put(screen, c)
PrintNewLine == screen' = MoveToNextLine(screen)
PrintReturn == screen' = LineStart(screen)

GoForward == screen' = MoveForward(screen)
AtOrigin == screen.row = 0 /\ screen.column = 0
GoBackwards == ~AtOrigin /\ screen' = MoveBackwards(screen)
DeleteLastChar == ~AtOrigin /\ screen' = RemoveLastChar(screen)

MoveCursor ==
  \E n \in 1 - Width .. Width - 1 :
    /\ ~CrossesRow(screen, n)
    /\ screen' = MoveCursorBy(screen, n)

Clear == screen' = ClearScreen(screen)
CallCursorSync == screen' = SyncCursor(screen)

Next ==
  \/ PrintCharacter
  \/ PrintNewLine
  \/ PrintReturn
  \/ GoForward
  \/ GoBackwards
  \/ DeleteLastChar
  \/ MoveCursor
  \/ Clear
  \/ CallCursorSync

Spec == Init /\ [][Next]_screen

-----------------------------------------------------------------------------
(* Types: the place in the window and the base row keep within the memory. *)
TypeOK == screen \in Screens(Chars) /\ screen.base_row <= BaseRowMax

(* The window that is displayed is the one that is written, and lies in    *)
(* the memory: the display start register follows base_row through every   *)
(* scroll and reset.                                                       *)
DisplayFollowsBase == TypeOK /\ screen.display_start = screen.base_row * Width

(* What the user sees is a grid that shifts up by a row, whether the       *)
(* window moved or its rows were copied back to the top of the memory, and *)
(* no leftover of an earlier use of a row ever appears.                    *)
Grid == INSTANCE TextGrid WITH
  grid <- Picture(screen), row <- screen.row, column <- screen.column
ImplementsGrid == Grid!Spec
=============================================================================
