----------------------------- MODULE LineEditor -----------------------------
(***************************************************************************)
(* The buffer of the line editor, class input (src/terminal/input.h,       *)
(* input.cpp).  The pointers cursor and data_end are indices into          *)
(* input_buffer.  Every operation of the class runs in the mainline and    *)
(* touches only this object, so a call is one step.  The code never stores *)
(* the length of the text: it relies on the terminator at data_end, and    *)
(* tests *cursor to learn whether the cursor is in the middle.             *)
(***************************************************************************)
EXTENDS Integers, Sequences

CONSTANTS
  Chars,       \* characters of text keys, the space among them
  Space,       \* ' '
  NUL,         \* '\0'
  Capacity,    \* input_capacity, 128 in the source
  TabLength    \* length of the string that a tab inserts, 4 in the source

ASSUME CharsAssumption == Space \in Chars /\ NUL \notin Chars
ASSUME CapacityAssumption == Capacity \in Nat /\ Capacity > 0
ASSUME TabLengthAssumption == TabLength \in Nat /\ TabLength > 0

VARIABLES input_buffer, cursor, data_end, input_ready

editorVars == <<input_buffer, cursor, data_end, input_ready>>

Cell == 0 .. Capacity
Contents == [Cell -> Chars \cup {NUL}]

-----------------------------------------------------------------------------
buffer_full == data_end = Capacity
buffer_begin == cursor = 0

(* Faulty variant: the shift starts at the new end of the data. *)
MoveDataRightFromNewEnd(buf, end, begin, step) ==
  [i \in Cell |-> IF begin < i /\ i < end THEN buf[i - step] ELSE buf[i]]

(* The copying loops run from the far end, so that every cell is read      *)
(* before it is overwritten.                                               *)
MoveDataRight(buf, end, begin, step) ==
  [i \in Cell |-> IF begin < i /\ i <= end THEN buf[i - step] ELSE buf[i]]
MoveDataLeft(buf, begin, end, step) ==
  [i \in Cell |-> IF begin <= i /\ i < end THEN buf[i + step] ELSE buf[i]]

Init ==
  /\ input_buffer = [i \in Cell |-> NUL]
  /\ cursor = 0 /\ data_end = 0 /\ input_ready = FALSE

AddCharacter(c) ==
  /\ ~input_ready /\ ~buffer_full
  /\ LET shifted == IF input_buffer[cursor] # NUL
                      THEN MoveDataRight(input_buffer, data_end, cursor, 1)
                      ELSE input_buffer
     IN input_buffer' = [shifted EXCEPT ![cursor] = c, ![data_end + 1] = NUL]
  /\ cursor' = cursor + 1
  /\ data_end' = data_end + 1
  /\ UNCHANGED input_ready

(* Faulty variant: the test of add_character, which accepts an exact fill  *)
(* plus the part of the string that does not fit.                          *)
AddStringUnchecked ==
  /\ ~input_ready /\ ~buffer_full
  /\ LET end == data_end + TabLength
         shifted ==
           IF input_buffer[cursor] # NUL
             THEN MoveDataRight(input_buffer, end, cursor + TabLength - 1,
                                TabLength)
             ELSE input_buffer
     IN /\ input_buffer' =
             [i \in Cell |->
                IF cursor <= i /\ i < cursor + TabLength THEN Space
                ELSE IF i = end THEN NUL ELSE shifted[i]]
        /\ data_end' = end
  /\ cursor' = cursor + TabLength
  /\ UNCHANGED input_ready

(* add_string, with the only string it is called with.  Unlike             *)
(* add_character it refuses to fill the buffer exactly.                    *)
AddString ==
  /\ ~input_ready /\ data_end + TabLength < Capacity
  /\ LET end == data_end + TabLength
         shifted ==
           IF input_buffer[cursor] # NUL
             THEN MoveDataRight(input_buffer, end, cursor + TabLength - 1,
                                TabLength)
             ELSE input_buffer
     IN /\ input_buffer' =
             [i \in Cell |->
                IF cursor <= i /\ i < cursor + TabLength THEN Space
                ELSE IF i = end THEN NUL ELSE shifted[i]]
        /\ data_end' = end
  /\ cursor' = cursor + TabLength
  /\ UNCHANGED input_ready

DeleteCharacter ==
  /\ ~input_ready /\ ~buffer_begin
  /\ input_buffer' =
       [MoveDataLeft(input_buffer, cursor - 1, data_end, 1)
          EXCEPT ![data_end - 1] = NUL]
  /\ cursor' = cursor - 1
  /\ data_end' = data_end - 1
  /\ UNCHANGED input_ready

(* reset_buffer leaves the rest of the buffer as it is. *)
ResetBuffer ==
  /\ input_buffer' = [input_buffer EXCEPT ![0] = NUL]
  /\ cursor' = 0 /\ data_end' = 0 /\ input_ready' = FALSE

(* Where the loop of trim_end stops. *)
TrimmedEnd(n) ==
  /\ \A i \in n .. data_end - 1 : input_buffer[i] = Space
  /\ n > 0 => input_buffer[n - 1] # Space

(* handle_enter; trim_end moves data_end, possibly below the cursor. *)
Enter ==
  /\ ~input_ready
  /\ \E n \in 0 .. data_end :
       /\ TrimmedEnd(n)
       /\ data_end' = n
       /\ input_buffer' = [input_buffer EXCEPT ![n] = NUL]
  /\ input_ready' = TRUE
  /\ UNCHANGED cursor

MoveCursor(to) ==
  /\ ~input_ready /\ cursor' = to
  /\ UNCHANGED <<input_buffer, data_end, input_ready>>

Home == MoveCursor(0)
End == MoveCursor(data_end)
MoveCursorLeft == cursor # 0 /\ MoveCursor(cursor - 1)
MoveCursorRight == cursor # data_end /\ MoveCursor(cursor + 1)

EditorNext ==
  \/ \E c \in Chars : AddCharacter(c)
  \/ AddString
  \/ DeleteCharacter
  \/ ResetBuffer
  \/ Enter
  \/ Home
  \/ End
  \/ MoveCursorLeft
  \/ MoveCursorRight

EditorSpec == Init /\ [][EditorNext]_editorVars

-----------------------------------------------------------------------------
(* The type of the buffer and of the two pointers: both stay within the    *)
(* array, whose last cell is reserved for the terminator.                  *)
TypeOK ==
  /\ input_buffer \in Contents
  /\ cursor \in Cell /\ data_end \in Cell
  /\ input_ready \in BOOLEAN

(* The text has no terminator inside and exactly one at its end, and the   *)
(* cursor is within it: *cursor = '\0' means "at the end" only because of  *)
(* this, and the shell reads the command up to the terminator.  The bytes  *)
(* behind it are leftovers of earlier lines.  After trim_end the cursor    *)
(* may be behind data_end; only a reset ends that state.                   *)
Terminated ==
  /\ \A i \in 0 .. data_end - 1 : input_buffer[i] \in Chars
  /\ input_buffer[data_end] = NUL
  /\ ~input_ready => cursor <= data_end

(* A submitted line ends with a character that is not a space, so that a   *)
(* command followed by spaces is still found.                              *)
SubmittedTrimmed ==
  input_ready /\ data_end > 0 => input_buffer[data_end - 1] # Space

(* The buffer implements an edited text: what the user sees as inserting   *)
(* and deleting at a point is what the shifting copies do.                 *)
EditorText == [i \in 1 .. data_end |-> input_buffer[i - 1]]
EditorPoint == IF input_ready THEN 0 ELSE cursor
Edited == INSTANCE EditedText WITH
  text <- EditorText, point <- EditorPoint, submitted <- input_ready
ImplementsText == Edited!Spec
=============================================================================
