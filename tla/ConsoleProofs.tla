--------------------------- MODULE ConsoleProofs ----------------------------
(***************************************************************************)
(* Proofs about the line editor, the shell and the console that composes   *)
(* them.  For every capacity, length of a tab and set of characters the    *)
(* pointers of the editor stay within its buffer, the text is terminated,  *)
(* and the shifting copies implement the edited text.  For every sorted    *)
(* table of up to 127 commands and every comparison that is an order, the  *)
(* bisection of the shell stays in the table, finds the typed command, and *)
(* finds nothing only when there is nothing to find.  The console          *)
(* implements both of its parts, what the shell looks up is the text that  *)
(* was edited, and for every size of the window that has room for a full   *)
(* line the screen shows that text while it is edited.                     *)
(***************************************************************************)
EXTENDS Console, SequenceTheorems, WellFoundedInduction, TLAPS

-----------------------------------------------------------------------------
(* The line editor.                                                        *)

(* The properties of LineEditor are inductive together. *)
LInv == TypeOK /\ Terminated /\ SubmittedTrimmed

LEMMA ConstantsTyped ==
  /\ Capacity \in Nat /\ Capacity > 0 /\ TabLength \in Nat /\ TabLength > 0
  /\ Space \in Chars /\ NUL \notin Chars
  BY CapacityAssumption, TabLengthAssumption, CharsAssumption

(* A cell of the text holds a character, the cell behind it NUL: *cursor   *)
(* tells whether the cursor is in the middle.                              *)
LEMMA MiddleIffBelowEnd ==
  LInv /\ ~input_ready => (input_buffer[cursor] # NUL <=> cursor < data_end)
  BY ConstantsTyped DEF LInv, TypeOK, Terminated, Cell

LEMMA LInvInit == Init => LInv
<1>. SUFFICES ASSUME Init PROVE LInv
  OBVIOUS
<1>1. 0 \in Cell /\ input_buffer \in Contents
  BY ConstantsTyped DEF Init, Contents, Cell
<1>2. input_buffer[0] = NUL
  BY <1>1 DEF Init
<1>3. cursor = 0 /\ data_end = 0 /\ input_ready = FALSE
  BY DEF Init
<1>4. TypeOK
  BY <1>1, <1>3 DEF TypeOK
<1>5. Terminated
  BY <1>2, <1>3 DEF Terminated
<1>6. SubmittedTrimmed
  BY <1>3 DEF SubmittedTrimmed
<1>. QED BY <1>4, <1>5, <1>6 DEF LInv

-----------------------------------------------------------------------------
(* The buffer after each editing operation, cell by cell. *)

LEMMA AddedCharacter ==
  ASSUME LInv, NEW c \in Chars, AddCharacter(c)
  PROVE  /\ cursor <= data_end /\ data_end < Capacity
         /\ input_buffer' \in Contents
         /\ \A i \in Cell : i <= data_end + 1 =>
              input_buffer'[i] = IF i < cursor THEN input_buffer[i]
                                 ELSE IF i = cursor THEN c
                                 ELSE IF i <= data_end THEN input_buffer[i - 1]
                                 ELSE NUL
<1>. USE ConstantsTyped DEF LInv, TypeOK, Terminated
<1>1. /\ cursor \in Nat /\ data_end \in Nat /\ cursor <= data_end
      /\ data_end < Capacity /\ input_buffer \in [Cell -> Chars \cup {NUL}]
  BY DEF AddCharacter, buffer_full, Cell, Contents
<1>. DEFINE shifted == IF input_buffer[cursor] # NUL
                         THEN MoveDataRight(input_buffer, data_end, cursor, 1)
                         ELSE input_buffer
<1>2. shifted \in [Cell -> Chars \cup {NUL}]
  BY <1>1 DEF MoveDataRight, Cell
<1>3. \A i \in Cell : shifted[i] = IF cursor < i /\ i <= data_end
                                     THEN input_buffer[i - 1] ELSE input_buffer[i]
  <2>1. CASE cursor < data_end
    BY <1>1, <2>1, MiddleIffBelowEnd DEF MoveDataRight, AddCharacter
  <2>2. CASE cursor = data_end
    BY <1>1, <2>2, MiddleIffBelowEnd DEF AddCharacter, Cell
  <2>. QED BY <1>1, <2>1, <2>2
<1>4. input_buffer' = [shifted EXCEPT ![cursor] = c, ![data_end + 1] = NUL]
  BY DEF AddCharacter
<1>. HIDE DEF shifted
<1>5. input_buffer' \in Contents
  BY <1>2, <1>4 DEF Contents
<1>. QED BY <1>1, <1>2, <1>3, <1>4, <1>5 DEF Cell

LEMMA AddedString ==
  ASSUME LInv, AddString
  PROVE  /\ cursor <= data_end /\ data_end + TabLength < Capacity
         /\ input_buffer' \in Contents
         /\ \A i \in Cell : i <= data_end + TabLength =>
              input_buffer'[i] =
                IF i < cursor THEN input_buffer[i]
                ELSE IF i < cursor + TabLength THEN Space
                ELSE IF i < data_end + TabLength
                       THEN input_buffer[i - TabLength]
                ELSE NUL
<1>. USE ConstantsTyped DEF LInv, TypeOK, Terminated
<1>1. /\ cursor \in Nat /\ data_end \in Nat /\ cursor <= data_end
      /\ data_end + TabLength < Capacity
      /\ input_buffer \in [Cell -> Chars \cup {NUL}]
  BY DEF AddString, Cell, Contents
<1>. DEFINE end == data_end + TabLength
            shifted == IF input_buffer[cursor] # NUL
                         THEN MoveDataRight(input_buffer, end,
                                            cursor + TabLength - 1, TabLength)
                         ELSE input_buffer
<1>2. shifted \in [Cell -> Chars \cup {NUL}]
  <2>1. ASSUME NEW i \in Cell, cursor + TabLength - 1 < i
        PROVE  i - TabLength \in Cell
    BY <1>1, <2>1 DEF Cell
  <2>. QED BY <1>1, <2>1 DEF MoveDataRight
<1>3. \A i \in Cell : cursor + TabLength <= i /\ i < end =>
                        shifted[i] = input_buffer[i - TabLength]
  BY <1>1, MiddleIffBelowEnd DEF MoveDataRight, AddString, Cell
<1>4. \A i \in Cell : i < cursor => shifted[i] = input_buffer[i]
  BY <1>1 DEF MoveDataRight, Cell
<1>5. input_buffer' = [i \in Cell |->
                         IF cursor <= i /\ i < cursor + TabLength THEN Space
                         ELSE IF i = end THEN NUL ELSE shifted[i]]
  BY DEF AddString
<1>. HIDE DEF shifted
<1>6. input_buffer' \in Contents
  BY <1>2, <1>5 DEF Contents
<1>. QED BY <1>1, <1>3, <1>4, <1>5, <1>6 DEF Cell

LEMMA DeletedCharacter ==
  ASSUME LInv, DeleteCharacter
  PROVE  /\ 0 < cursor /\ cursor <= data_end
         /\ input_buffer' \in Contents
         /\ \A i \in Cell : i < data_end =>
              input_buffer'[i] = IF i < cursor - 1 THEN input_buffer[i]
                                 ELSE IF i < data_end - 1 THEN input_buffer[i + 1]
                                 ELSE NUL
<1>. USE ConstantsTyped DEF LInv, TypeOK, Terminated
<1>1. /\ cursor \in Nat /\ data_end \in Nat /\ cursor <= data_end /\ cursor > 0
      /\ data_end <= Capacity /\ input_buffer \in [Cell -> Chars \cup {NUL}]
  BY DEF DeleteCharacter, buffer_begin, Cell, Contents
<1>. DEFINE shifted == MoveDataLeft(input_buffer, cursor - 1, data_end, 1)
<1>2. shifted \in [Cell -> Chars \cup {NUL}]
  BY <1>1 DEF MoveDataLeft, Cell
<1>3. \A i \in Cell : shifted[i] = IF cursor - 1 <= i /\ i < data_end
                                     THEN input_buffer[i + 1] ELSE input_buffer[i]
  BY DEF MoveDataLeft
<1>4. input_buffer' = [shifted EXCEPT ![data_end - 1] = NUL]
  BY DEF DeleteCharacter
<1>. HIDE DEF shifted
<1>5. input_buffer' \in Contents
  BY <1>2, <1>4 DEF Contents
<1>. QED BY <1>1, <1>2, <1>3, <1>4, <1>5 DEF Cell

-----------------------------------------------------------------------------
LEMMA LInvNext == LInv /\ [EditorNext]_editorVars => LInv'
<1>. SUFFICES ASSUME LInv, [EditorNext]_editorVars PROVE LInv'
  OBVIOUS
<1>. USE ConstantsTyped
<1>t. /\ input_buffer \in Contents /\ input_ready \in BOOLEAN
      /\ cursor \in Nat /\ cursor <= Capacity
      /\ data_end \in Nat /\ data_end <= Capacity
  BY DEF LInv, TypeOK, Cell
<1>1. ASSUME NEW c \in Chars, AddCharacter(c) PROVE LInv'
  <2>1. /\ cursor' = cursor + 1 /\ data_end' = data_end + 1
        /\ ~input_ready /\ input_ready' = input_ready
    BY <1>1, <1>t DEF AddCharacter
  <2>2. TypeOK'
    BY <1>1, <1>t, <2>1, AddedCharacter DEF TypeOK, Cell, Contents
  <2>3. Terminated'
    BY <1>1, <1>t, <2>1, AddedCharacter DEF LInv, Terminated, Cell
  <2>. QED BY <2>1, <2>2, <2>3 DEF LInv, SubmittedTrimmed
<1>2. CASE AddString
  <2>1. /\ cursor' = cursor + TabLength /\ data_end' = data_end + TabLength
        /\ ~input_ready /\ input_ready' = input_ready
    BY <1>2, <1>t DEF AddString
  <2>2. TypeOK'
    BY <1>2, <1>t, <2>1, AddedString DEF TypeOK, Cell, Contents
  <2>3. Terminated'
    BY <1>2, <1>t, <2>1, AddedString DEF LInv, Terminated, Cell
  <2>. QED BY <2>1, <2>2, <2>3 DEF LInv, SubmittedTrimmed
<1>3. CASE DeleteCharacter
  <2>1. /\ cursor' = cursor - 1 /\ data_end' = data_end - 1
        /\ ~input_ready /\ input_ready' = input_ready
    BY <1>3, <1>t DEF DeleteCharacter
  <2>2. TypeOK'
    BY <1>3, <1>t, <2>1, DeletedCharacter DEF TypeOK, Cell, Contents
  <2>3. Terminated'
    BY <1>3, <1>t, <2>1, DeletedCharacter DEF LInv, Terminated, Cell
  <2>. QED BY <2>1, <2>2, <2>3 DEF LInv, SubmittedTrimmed
<1>4. CASE ResetBuffer
  <2>1. /\ input_buffer' = [input_buffer EXCEPT ![0] = NUL]
        /\ cursor' = 0 /\ data_end' = 0 /\ input_ready' = FALSE
    BY <1>4 DEF ResetBuffer
  <2>2. input_buffer' \in Contents /\ input_buffer'[0] = NUL
    BY <1>t, <2>1 DEF Contents, Cell
  <2>3. TypeOK'
    <3>1. input_ready' \in BOOLEAN
      BY <2>1
    <3>2. cursor' \in Cell /\ data_end' \in Cell
      BY <2>1 DEF Cell
    <3>. QED BY <2>2, <3>1, <3>2 DEF TypeOK, Contents, Cell
  <2>4. Terminated'
    BY <2>1, <2>2 DEF Terminated
  <2>5. SubmittedTrimmed'
    BY <2>1 DEF SubmittedTrimmed
  <2>. QED BY <2>3, <2>4, <2>5 DEF LInv
<1>5. CASE Enter
  <2>1. PICK n \in 0 .. data_end : /\ TrimmedEnd(n) /\ data_end' = n
                                   /\ input_buffer' = [input_buffer EXCEPT ![n] = NUL]
    BY <1>5 DEF Enter
  <2>2. cursor' = cursor /\ input_ready' = TRUE
    BY <1>5 DEF Enter
  <2>3. TypeOK'
    BY <1>t, <2>1, <2>2 DEF TypeOK, Contents, Cell
  <2>4. Terminated'
    BY <1>t, <2>1, <2>2 DEF LInv, Terminated, Contents, Cell
  <2>5. SubmittedTrimmed'
    BY <1>t, <2>1, <2>2 DEF TrimmedEnd, SubmittedTrimmed, Contents, Cell
  <2>. QED BY <2>3, <2>4, <2>5 DEF LInv
<1>6. ASSUME NEW k \in 0 .. data_end, MoveCursor(k) PROVE LInv'
  BY <1>6, <1>t DEF MoveCursor, LInv, TypeOK, Terminated, SubmittedTrimmed, Cell
<1>7. CASE Home \/ End \/ MoveCursorLeft \/ MoveCursorRight
  BY <1>6, <1>7, <1>t
  DEF Home, End, MoveCursorLeft, MoveCursorRight, MoveCursor, LInv, Terminated
<1>8. CASE UNCHANGED editorVars
  BY <1>8 DEF editorVars, LInv, TypeOK, Terminated, SubmittedTrimmed
<1>. QED BY <1>1, <1>2, <1>3, <1>4, <1>5, <1>7, <1>8 DEF EditorNext

LEMMA LInvAlways == EditorSpec => []LInv
  BY LInvInit, LInvNext, PTL DEF EditorSpec

(* Neither pointer leaves the buffer, whatever is typed. *)
THEOREM EditorTypeCorrect == EditorSpec => []TypeOK
  BY LInvAlways, PTL DEF LInv

(* The text always ends at its one terminator and the cursor is within it. *)
THEOREM AlwaysTerminated == EditorSpec => []Terminated
  BY LInvAlways, PTL DEF LInv

(* A submitted line has no trailing space. *)
THEOREM AlwaysTrimmed == EditorSpec => []SubmittedTrimmed
  BY LInvAlways, PTL DEF LInv

-----------------------------------------------------------------------------
(* The buffer implements EditedText. *)

LEMMA TextShape ==
  ASSUME LInv
  PROVE  /\ EditorText \in Seq(Chars) /\ Len(EditorText) = data_end
         /\ data_end \in Nat /\ data_end <= Capacity
         /\ cursor \in Nat
         /\ \A i \in 1 .. data_end :
              EditorText[i] = input_buffer[i - 1] /\ EditorText[i] \in Chars
<1>1. data_end \in Nat /\ data_end <= Capacity /\ cursor \in Nat
  BY ConstantsTyped DEF LInv, TypeOK, Cell
<1>2. \A i \in 1 .. data_end : input_buffer[i - 1] \in Chars
  BY <1>1 DEF LInv, Terminated
<1>3. EditorText \in [1 .. data_end -> Chars]
  BY <1>2 DEF EditorText
<1>4. EditorText \in Seq(Chars) /\ Len(EditorText) = data_end
  BY <1>1, <1>3, SeqDef
<1>. QED BY <1>1, <1>2, <1>4 DEF EditorText

LEMMA AddCharacterTypes ==
  ASSUME LInv, NEW c \in Chars, AddCharacter(c)
  PROVE  Edited!Type(1, c)
<1>. USE ConstantsTyped
<1>1. /\ ~input_ready /\ input_ready' = input_ready /\ cursor' = cursor + 1
      /\ data_end' = data_end + 1
  BY DEF AddCharacter
<1>2. cursor <= data_end /\ data_end < Capacity
  BY AddedCharacter
<1>3. ASSUME NEW i \in 1 .. data_end + 1
      PROVE  input_buffer'[i - 1] =
               IF i <= cursor THEN EditorText[i]
               ELSE IF i <= cursor + 1 THEN c ELSE EditorText[i - 1]
  <2>1. i - 1 \in Cell /\ i - 1 <= data_end + 1
    BY <1>2, TextShape DEF Cell
  <2>2. input_buffer'[i - 1] =
          IF i - 1 < cursor THEN input_buffer[i - 1]
          ELSE IF i - 1 = cursor THEN c
          ELSE IF i - 1 <= data_end THEN input_buffer[i - 1 - 1] ELSE NUL
    BY <2>1, AddedCharacter
  <2>. QED BY <1>2, <2>1, <2>2, TextShape
<1>4. EditorText' = Edited!Insert(EditorText, cursor, 1, c)
  BY <1>1, <1>3, TextShape DEF EditorText, Edited!Insert
<1>. QED BY <1>1, <1>2, <1>4, TextShape DEF Edited!Type, EditorPoint

LEMMA AddStringTypes ==
  ASSUME LInv, AddString
  PROVE  Edited!Type(TabLength, Space)
<1>. USE ConstantsTyped
<1>1. /\ ~input_ready /\ input_ready' = input_ready
      /\ cursor' = cursor + TabLength /\ data_end' = data_end + TabLength
  BY DEF AddString
<1>2. cursor <= data_end /\ data_end + TabLength < Capacity
  BY AddedString
<1>3. ASSUME NEW i \in 1 .. data_end + TabLength
      PROVE  input_buffer'[i - 1] =
               IF i <= cursor THEN EditorText[i]
               ELSE IF i <= cursor + TabLength THEN Space
               ELSE EditorText[i - TabLength]
  <2>1. i - 1 \in Cell /\ i - 1 <= data_end + TabLength
    BY <1>2, TextShape DEF Cell
  <2>2. input_buffer'[i - 1] =
          IF i - 1 < cursor THEN input_buffer[i - 1]
          ELSE IF i - 1 < cursor + TabLength THEN Space
          ELSE IF i - 1 < data_end + TabLength
                 THEN input_buffer[i - 1 - TabLength] ELSE NUL
    BY <2>1, AddedString
  <2>3. CASE i <= cursor
    BY <1>2, <2>2, <2>3, TextShape
  <2>4. CASE i > cursor + TabLength
    <3>1. i - TabLength \in 1 .. data_end
      BY <2>4, TextShape
    <3>2. EditorText[i - TabLength] = input_buffer[i - TabLength - 1]
      BY <3>1, TextShape
    <3>. QED BY <1>2, <2>2, <2>4, <3>2, TextShape
  <2>5. CASE cursor < i /\ i <= cursor + TabLength
    BY <2>2, <2>5, TextShape
  <2>. QED BY <2>3, <2>4, <2>5, TextShape
<1>4. EditorText' = Edited!Insert(EditorText, cursor, TabLength, Space)
  BY <1>1, <1>3, TextShape DEF EditorText, Edited!Insert
<1>. QED BY <1>1, <1>2, <1>4, TextShape DEF Edited!Type, EditorPoint

LEMMA DeleteCharacterDeletes ==
  ASSUME LInv, DeleteCharacter
  PROVE  Edited!Backspace
<1>. USE ConstantsTyped
<1>1. /\ ~input_ready /\ input_ready' = input_ready
      /\ cursor' = cursor - 1 /\ data_end' = data_end - 1
  BY DEF DeleteCharacter
<1>2. 0 < cursor /\ cursor <= data_end
  BY DeletedCharacter
<1>3. ASSUME NEW i \in 1 .. data_end - 1
      PROVE  input_buffer'[i - 1] =
               IF i < cursor THEN EditorText[i] ELSE EditorText[i + 1]
  <2>1. i - 1 \in Cell /\ i - 1 < data_end
    BY <1>2, TextShape DEF Cell
  <2>2. input_buffer'[i - 1] =
          IF i - 1 < cursor - 1 THEN input_buffer[i - 1]
          ELSE IF i - 1 < data_end - 1 THEN input_buffer[i - 1 + 1] ELSE NUL
    BY <2>1, DeletedCharacter
  <2>. QED BY <1>2, <2>1, <2>2, TextShape
<1>4. EditorText' = Edited!Delete(EditorText, cursor)
  BY <1>1, <1>3, TextShape DEF EditorText, Edited!Delete
<1>. QED BY <1>1, <1>2, <1>4, TextShape DEF Edited!Backspace, EditorPoint

LEMMA EnterSubmits ==
  ASSUME LInv, Enter
  PROVE  Edited!Submit
<1>. USE ConstantsTyped
<1>1. ~input_ready /\ input_ready' = TRUE
  BY DEF Enter
<1>2. PICK n \in 0 .. data_end : /\ TrimmedEnd(n) /\ data_end' = n
                                 /\ input_buffer' = [input_buffer EXCEPT ![n] = NUL]
  BY DEF Enter
<1>3. n \in Nat /\ n <= data_end
  BY <1>2, TextShape
<1>4. ASSUME NEW i \in 1 .. n
      PROVE  input_buffer'[i - 1] = EditorText[i]
  <2>1. i - 1 \in Cell /\ i - 1 # n /\ i \in 1 .. data_end
    BY <1>3, TextShape DEF Cell
  <2>. QED BY <1>2, <2>1, TextShape DEF LInv, TypeOK, Contents
<1>. DEFINE kept == SubSeq(EditorText, 1, n)
<1>5. /\ kept = [i \in 1 .. n |-> EditorText[i]] /\ Len(kept) = n
  BY <1>3, TextShape
<1>6. EditorText' = kept
  BY <1>2, <1>4, <1>5 DEF EditorText
<1>7. \A i \in n + 1 .. data_end : EditorText[i] = Space
  <2>1. ASSUME NEW i \in n + 1 .. data_end
        PROVE  EditorText[i] = Space
    <3>1. i \in 1 .. data_end /\ i - 1 \in n .. data_end - 1
      BY <1>3, TextShape
    <3>. QED BY <1>2, <3>1, TextShape DEF TrimmedEnd
  <2>. QED BY <2>1
<1>8. n > 0 => kept[n] # Space
  BY <1>2, <1>3, <1>5, TextShape DEF TrimmedEnd
<1>. HIDE DEF kept
<1>9. Edited!IsTrimmed(EditorText, kept)
  BY <1>3, <1>5, <1>7, <1>8, TextShape DEF Edited!IsTrimmed, kept
<1>. QED BY <1>1, <1>3, <1>6, <1>9, TextShape DEF Edited!Submit, EditorPoint, kept

LEMMA MovesPoint ==
  ASSUME LInv, NEW k \in 0 .. data_end, MoveCursor(k)
  PROVE  Edited!MoveTo(k) /\ k \in 0 .. Len(EditorText)
<1>1. EditorText' = EditorText
  BY DEF MoveCursor, EditorText
<1>. QED BY <1>1, TextShape DEF MoveCursor, EditorPoint, Edited!MoveTo

LEMMA InitRefined == Init => Edited!Init
<1>. SUFFICES ASSUME Init PROVE Edited!Init
  OBVIOUS
<1>1. LInv /\ data_end = 0 /\ cursor = 0 /\ input_ready = FALSE
  BY LInvInit DEF Init
<1>2. EditorText = <<>>
  BY <1>1, TextShape, EmptySeq
<1>. QED BY <1>1, <1>2 DEF Edited!Init, EditorPoint

LEMMA NextRefined ==
  LInv /\ [EditorNext]_editorVars
    => [Edited!Next]_<<EditorText, EditorPoint, input_ready>>
<1>. SUFFICES ASSUME LInv, [EditorNext]_editorVars
              PROVE  Edited!Next \/ UNCHANGED <<EditorText, EditorPoint, input_ready>>
  OBVIOUS
<1>1. ASSUME NEW c \in Chars, AddCharacter(c) PROVE Edited!Next
  BY <1>1, AddCharacterTypes DEF Edited!Next
<1>2. CASE AddString
  BY <1>2, AddStringTypes DEF Edited!Next
<1>3. CASE DeleteCharacter
  BY <1>3, DeleteCharacterDeletes DEF Edited!Next
<1>4. CASE ResetBuffer
  <2>1. EditorText' = <<>>
    <3>1. LInv' /\ data_end' = 0
      BY <1>4, LInvNext DEF ResetBuffer, EditorNext
    <3>2. EditorText' = [i \in 1 .. 0 |-> input_buffer'[i - 1]]
      BY <3>1 DEF EditorText
    <3>. QED BY <3>2
  <2>. QED BY <1>4, <2>1 DEF ResetBuffer, EditorPoint, Edited!StartOver, Edited!Next
<1>5. CASE Enter
  BY <1>5, EnterSubmits DEF Edited!Next
<1>6. ASSUME NEW k \in 0 .. data_end, MoveCursor(k) PROVE Edited!Next
  BY <1>6, MovesPoint DEF Edited!Next
<1>7. CASE Home \/ End \/ MoveCursorLeft \/ MoveCursorRight
  BY <1>6, <1>7, TextShape
  DEF Home, End, MoveCursorLeft, MoveCursorRight, MoveCursor, LInv, Terminated
<1>8. CASE UNCHANGED editorVars
  BY <1>8 DEF editorVars, EditorText, EditorPoint
<1>. QED BY <1>1, <1>2, <1>3, <1>4, <1>5, <1>7, <1>8 DEF EditorNext

(* Every key does to the buffer what inserting at a point, deleting before *)
(* it, moving it, or submitting without trailing spaces does to a text.    *)
THEOREM EditorRefinement == EditorSpec => ImplementsText
  BY InitRefined, NextRefined, LInvAlways, PTL
  DEF EditorSpec, ImplementsText, Edited!Spec

-----------------------------------------------------------------------------
(* The shell.                                                              *)

(* The inductive invariant: what has been ruled out makes the result true. *)
SInv == ShellTypeOK /\ RuledOut /\ FindsLine

LEMMA SizeNat == Size \in Nat
  BY CommandsAssumption DEF Size

(* Entries are lines, and the table is sorted. *)
LEMMA EntriesSorted ==
  /\ \A i \in 0 .. Size - 1 : Entry(i) \in Lines
  /\ \A i, j \in 0 .. Size - 1 : i < j => Compare(Entry(i), Entry(j)) < 0
<1>1. Commands \in Seq(Lines) /\ Size \in Nat
  BY CommandsAssumption, SizeNat
<1>2. \A i \in 0 .. Size - 1 : i + 1 \in 1 .. Size
  BY <1>1
<1>3. \A k \in 1 .. Size : Commands[k] \in Lines
  BY <1>1 DEF Size
<1>4. \A i \in 0 .. Size - 1 : Entry(i) \in Lines
  BY <1>2, <1>3 DEF Entry
<1>5. ASSUME NEW i \in 0 .. Size - 1, NEW j \in 0 .. Size - 1, i < j
      PROVE  Compare(Entry(i), Entry(j)) < 0
  BY <1>1, <1>2, <1>5, CommandsAssumption DEF Entry
<1>. QED BY <1>4, <1>5

(* The middle of a window that is not empty is in it. *)
LEMMA MidBetween ==
  ASSUME left \in Nat, right \in Nat, left < right, right <= Size
  PROVE  Mid \in left .. right - 1 /\ Mid \in 0 .. Size - 1 /\ Mid \in Nat
<1>1. PICK d \in Nat : d = right - left
  OBVIOUS
<1>2. d \div 2 \in Nat /\ d \div 2 < d
  BY <1>1
<1>. QED BY <1>1, <1>2, SizeNat DEF Mid

-----------------------------------------------------------------------------
LEMMA SInvInit == ShellInit => SInv
  BY SizeNat, CommandsAssumption DEF ShellInit, SInv, ShellTypeOK, RuledOut, FindsLine, None

LEMMA SInvNext == SInv /\ [ShellNext]_shellVars => SInv'
<1>. SUFFICES ASSUME SInv, [ShellNext]_shellVars PROVE SInv'
  OBVIOUS
<1>. USE SizeNat DEF SInv
<1>t. /\ pc \in {"prompt", "search", "execute"} /\ line \in Lines
      /\ left \in 0 .. Size /\ right \in 0 .. Size
      /\ index \in -1 .. Size - 1 /\ is_running \in BOOLEAN
      /\ pc = "search" => left <= right
  BY DEF ShellTypeOK
<1>m. ASSUME Searching
      PROVE  /\ Mid \in left .. right - 1 /\ Mid \in 0 .. Size - 1 /\ Mid \in Nat
             /\ Entry(Mid) \in Lines
  BY <1>t, <1>m, MidBetween, EntriesSorted DEF Searching
<1>1. CASE ReadLine
  <2>1. ShellTypeOK'
    BY <1>t, <1>1 DEF ReadLine, ShellTypeOK
  <2>2. RuledOut' /\ FindsLine'
    BY <1>t, <1>1 DEF ReadLine, RuledOut, FindsLine
  <2>. QED BY <2>1, <2>2
<1>2. CASE Found
  <2>1. ShellTypeOK' /\ RuledOut'
    BY <1>t, <1>2, <1>m DEF Found, Searching, ShellTypeOK, RuledOut
  <2>2. Entry(Mid) = line
    BY <1>t, <1>2, <1>m, CompareAssumption DEF Found, Result
  <2>3. FindsLine'
    BY <1>2, <1>m, <2>2 DEF Found, Searching, FindsLine, None, Entry
  <2>. QED BY <2>1, <2>3
<1>3. CASE GoRight
  <2>1. ShellTypeOK'
    BY <1>t, <1>3, <1>m DEF GoRight, Searching, ShellTypeOK
  <2>2. Compare(Entry(Mid), line) < 0
    BY <1>t, <1>3, <1>m, CompareAssumption DEF GoRight, Result
  <2>3. ASSUME NEW i \in 0 .. Mid
        PROVE  Compare(Entry(i), line) < 0
    <3>1. i \in 0 .. Size - 1 /\ Entry(i) \in Lines
      BY <1>3, <1>m, EntriesSorted DEF GoRight
    <3>2. CASE i = Mid
      BY <2>2, <3>2
    <3>3. CASE i < Mid
      <4>1. Compare(Entry(i), Entry(Mid)) < 0
        BY <1>3, <1>m, <3>1, <3>3, EntriesSorted DEF GoRight
      <4>. QED BY <1>3, <1>m, <1>t, <2>2, <3>1, <4>1, CompareAssumption DEF GoRight
    <3>. QED BY <1>3, <1>m, <3>2, <3>3 DEF GoRight
  <2>4. RuledOut'
    <3>1. ASSUME NEW i \in 0 .. left' - 1
          PROVE  Compare(Entry(i), line) < 0
      <4>1. i \in 0 .. Mid
        BY <1>3, <1>m DEF GoRight
      <4>. QED BY <2>3, <4>1
    <3>2. \A i \in right .. Size - 1 : Compare(line, Entry(i)) < 0
      BY <1>3 DEF GoRight, Searching, RuledOut
    <3>. QED BY <1>3, <3>1, <3>2 DEF GoRight, RuledOut, Entry
  <2>5. FindsLine'
    BY <1>3 DEF GoRight, Searching, FindsLine
  <2>. QED BY <2>1, <2>4, <2>5
<1>4. CASE GoLeft
  <2>1. ShellTypeOK'
    BY <1>t, <1>4, <1>m DEF GoLeft, Searching, ShellTypeOK
  <2>2. Compare(line, Entry(Mid)) < 0
    BY <1>4 DEF GoLeft, Result
  <2>3. ASSUME NEW i \in Mid .. Size - 1
        PROVE  Compare(line, Entry(i)) < 0
    <3>1. i \in 0 .. Size - 1 /\ Entry(i) \in Lines
      BY <1>4, <1>m, EntriesSorted DEF GoLeft
    <3>2. CASE i = Mid
      BY <2>2, <3>2
    <3>3. CASE i > Mid
      <4>1. Compare(Entry(Mid), Entry(i)) < 0
        BY <1>4, <1>m, <3>1, <3>3, EntriesSorted DEF GoLeft
      <4>. QED BY <1>4, <1>m, <1>t, <2>2, <3>1, <4>1, CompareAssumption DEF GoLeft
    <3>. QED BY <1>4, <1>m, <3>2, <3>3 DEF GoLeft
  <2>4. RuledOut'
    <3>1. \A i \in 0 .. left - 1 : Compare(Entry(i), line) < 0
      BY <1>4 DEF GoLeft, Searching, RuledOut
    <3>. QED BY <1>4, <2>3, <3>1 DEF GoLeft, RuledOut, Entry
  <2>5. FindsLine'
    BY <1>4 DEF GoLeft, Searching, FindsLine
  <2>. QED BY <2>1, <2>4, <2>5
<1>5. CASE NotFound
  <2>1. ShellTypeOK' /\ RuledOut'
    BY <1>t, <1>5 DEF NotFound, ShellTypeOK, RuledOut, None
  <2>2. ASSUME NEW i \in 0 .. Size - 1
        PROVE  Entry(i) # line
    <3>1. Compare(Entry(i), line) < 0 \/ Compare(line, Entry(i)) < 0
      BY <1>t, <1>5 DEF NotFound, RuledOut
    <3>2. Compare(line, line) = 0
      BY <1>t, CompareAssumption
    <3>. QED BY <3>1, <3>2
  <2>3. FindsLine'
    BY <1>5, <2>2 DEF NotFound, FindsLine, Entry
  <2>. QED BY <2>1, <2>3
<1>6. CASE Execute
  BY <1>t, <1>6, CommandsAssumption DEF Execute, Answered, ShellTypeOK, RuledOut, FindsLine, None
<1>7. CASE UNCHANGED shellVars
  BY <1>7 DEF shellVars, ShellTypeOK, RuledOut, FindsLine, Entry
<1>. QED BY <1>1, <1>2, <1>3, <1>4, <1>5, <1>6, <1>7 DEF ShellNext, Bisect

LEMMA SInvAlways == ShellSpec => []SInv
  BY SInvInit, SInvNext, PTL DEF ShellSpec

(* The bytes left, right and mid stay within the table, so that no entry   *)
(* outside it is compared, for any table of fewer than 128 commands.       *)
THEOREM ShellTypeCorrect == ShellSpec => []ShellTypeOK
  BY SInvAlways, PTL DEF SInv

(* command_exists has compared or ordered away every entry outside its     *)
(* window.                                                                 *)
THEOREM AlwaysRuledOut == ShellSpec => []RuledOut
  BY SInvAlways, PTL DEF SInv

(* The bisection agrees with a search through the whole table of names.    *)
THEOREM AlwaysFindsLine == ShellSpec => []FindsLine
  BY SInvAlways, PTL DEF SInv

(* With tables that agree, the function of the command that was typed is   *)
(* called, and a line is refused only if it is no command.                 *)
THEOREM AlwaysExecutesLine ==
  ASSUME TablesAgree
  PROVE  ShellSpec => []ExecutesLine
<1>1. SInv => ExecutesLine
  BY SizeNat DEF SInv, ShellTypeOK, FindsLine, ExecutesLine, TablesAgree, None
<1>. QED BY <1>1, SInvAlways, PTL

(* And the shell stops only for the typed command exit. *)
THEOREM AlwaysStopsOnlyOnExit ==
  ASSUME TablesAgree
  PROVE  ShellSpec => StopsOnlyOnExit
<1>1. SInv /\ [ShellNext]_shellVars => [StopsOnExit]_shellVars
  <2>. SUFFICES ASSUME SInv, [ShellNext]_shellVars, is_running, ~is_running'
                PROVE  line = ExitCommand
    BY DEF StopsOnExit
  <2>1. Execute
    BY DEF ShellNext, Bisect, ReadLine, Found, GoRight, GoLeft, NotFound, shellVars
  <2>2. pc = "execute" /\ index # None /\ Function(index) = ExitCommand
    BY <2>1 DEF Execute
  <2>3. index \in 0 .. Size - 1
    BY <2>2, SizeNat DEF SInv, ShellTypeOK, None
  <2>. QED BY <2>2, <2>3 DEF SInv, FindsLine, TablesAgree
<1>. QED BY <1>1, SInvAlways, PTL DEF ShellSpec, StopsOnlyOnExit

-----------------------------------------------------------------------------
(* The console.                                                            *)

(* Every step of the console is a step of the editor, or none. *)
LEMMA ConsoleStepEdits == Next => [EditorNext]_editorVars
<1>. SUFFICES ASSUME Next PROVE [EditorNext]_editorVars
  OBVIOUS
<1>1. CASE EditLine
  <2>1. CASE HandleText
    BY <2>1 DEF HandleText, EditorNext
  <2>2. CASE HandleTab
    BY <2>2 DEF HandleTab, EditorNext
  <2>3. CASE HandleBackspace
    BY <2>3 DEF HandleBackspace, EditorNext
  <2>4. CASE HandleEscape
    BY <2>4 DEF HandleEscape, EditorNext
  <2>5. CASE HandleEnter
    BY <2>5 DEF HandleEnter, EditorNext
  <2>6. CASE HandleHome \/ HandleEnd
    BY <2>6 DEF HandleHome, HandleEnd, EditorNext
  <2>7. CASE HandleArrowLeft \/ HandleArrowRight
    BY <2>7 DEF HandleArrowLeft, HandleArrowRight, EditorNext
  <2>. QED BY <1>1, <2>1, <2>2, <2>3, <2>4, <2>5, <2>6, <2>7 DEF EditLine, Key
<1>2. CASE SubmitLine \/ SearchCommand
  BY <1>2 DEF SubmitLine, SearchCommand, terminalVars
<1>3. CASE AnswerLine
  BY <1>3 DEF AnswerLine, AnswerClear, AnswerExit, AnswerWithOutput, EditorNext
<1>. QED BY <1>1, <1>2, <1>3 DEF Next

(* ... and a step of the shell, or none. *)
LEMMA ConsoleStepAnswers == Next => [ShellNext]_shellVars
  BY DEF Next, EditLine, SubmitLine, SearchCommand, AnswerLine, ShellNext

(* The console edits lines as the editor does alone: what is proved of     *)
(* EditorSpec, such as ImplementsText, holds of it.                        *)
THEOREM ConsoleEdits == Spec => EditorSpec
<1>1. ConsoleInit => Init
  BY DEF ConsoleInit, TerminalInit
<1>2. UNCHANGED vars => UNCHANGED editorVars
  BY DEF vars, terminalVars
<1>. QED BY <1>1, <1>2, ConsoleStepEdits, PTL DEF Spec, EditorSpec

(* The console answers lines as the shell does alone. *)
THEOREM ConsoleAnswers == Spec => ShellSpec
<1>1. ConsoleInit => ShellInit
  BY DEF ConsoleInit
<1>2. UNCHANGED vars => UNCHANGED shellVars
  BY DEF vars
<1>. QED BY <1>1, <1>2, ConsoleStepAnswers, PTL DEF Spec, ShellSpec

-----------------------------------------------------------------------------
(* A terminated text, and the string that is read from a place of it. *)
Holds(buf, end) ==
  /\ end \in Nat /\ end <= Capacity /\ buf[end] = NUL
  /\ \A i \in 0 .. end - 1 : buf[i] \in Chars

LEMMA StringRead ==
  ASSUME NEW buf, NEW end, Holds(buf, end), NEW from \in Nat, from <= end
  PROVE  StringAt(buf, from) = [k \in 1 .. end - from |-> buf[from + k - 1]]
<1>. DEFINE Ends(j) == buf[j] = NUL /\ \A k \in from .. j - 1 : buf[k] # NUL
            found == CHOOSE j \in from .. Capacity : Ends(j)
<1>1. end \in from .. Capacity /\ Ends(end)
  BY ConstantsTyped DEF Holds
<1>2. ASSUME NEW j \in from .. Capacity, Ends(j) PROVE j = end
  <2>1. CASE j < end
    BY <1>1, <1>2, <2>1
  <2>2. CASE j > end
    BY <1>1, <1>2, <2>2
  <2>. QED BY <1>1, <1>2, <2>1, <2>2, ConstantsTyped
<1>3. found \in from .. Capacity /\ Ends(found)
  BY <1>1
<1>4. found = end
  BY <1>2, <1>3
<1>. HIDE DEF Ends
<1>5. StringAt(buf, from) = [k \in 1 .. found - from |-> buf[from + k - 1]]
  BY DEF StringAt, Ends
<1>. HIDE DEF found
<1>. QED BY <1>4, <1>5

LEMMA HoldsLine == LInv => Holds(input_buffer, data_end)
  BY ConstantsTyped DEF LInv, TypeOK, Terminated, Holds, Cell

(* str_compare reads the edited text, up to the terminator behind it.      *)
LEMMA BufferReadsText == LInv => StringAt(input_buffer, 0) = EditorText
<1>. SUFFICES ASSUME LInv PROVE StringAt(input_buffer, 0) = EditorText
  OBVIOUS
<1>1. Holds(input_buffer, data_end) /\ data_end \in Nat
  BY HoldsLine DEF Holds
<1>2. StringAt(input_buffer, 0) = [k \in 1 .. data_end - 0 |-> input_buffer[0 + k - 1]]
  BY <1>1, StringRead
<1>3. data_end - 0 = data_end /\ \A k \in 1 .. data_end : 0 + k - 1 = k - 1
  BY <1>1
<1>. QED BY <1>2, <1>3 DEF EditorText

(* The inductive step: the line is read when the buffer holds it, and the  *)
(* buffer changes only while the shell waits for a line.                   *)
LEMMA ExecutesTextStep == LInv /\ ExecutesText /\ [Next]_vars => ExecutesText'
<1>. SUFFICES ASSUME LInv, ExecutesText, [Next]_vars PROVE ExecutesText'
  OBVIOUS
<1>1. CASE EditLine
  BY <1>1 DEF EditLine, shellVars, ExecutesText
<1>2. CASE SubmitLine
  BY <1>2, BufferReadsText DEF SubmitLine, terminalVars, editorVars, ExecutesText, EditorText
<1>3. CASE SearchCommand
  <2>1. pc # "prompt" /\ line' = line
    BY <1>3 DEF SearchCommand, Bisect, Found, GoRight, GoLeft, NotFound, Searching
  <2>. QED BY <1>3, <2>1 DEF SearchCommand, terminalVars, editorVars, ExecutesText, EditorText
<1>4. CASE AnswerLine
  BY <1>4 DEF AnswerLine, Execute, Answered, ExecutesText
<1>5. CASE UNCHANGED vars
  BY <1>5 DEF vars, terminalVars, editorVars, shellVars, ExecutesText, EditorText
<1>. QED BY <1>1, <1>2, <1>3, <1>4, <1>5 DEF Next

(* What is looked up and executed is what was edited: no leftover of an    *)
(* earlier line behind the terminator, and nothing typed in between.       *)
THEOREM ConsoleExecutesText == Spec => []ExecutesText
<1>1. ConsoleInit => ExecutesText
  BY DEF ConsoleInit, ShellInit, ExecutesText
<1>. QED BY <1>1, ExecutesTextStep, ConsoleEdits, LInvAlways, PTL DEF Spec

-----------------------------------------------------------------------------
(* The screen.                                                             *)

(* A set of numbers has a least one: induction over lengths. *)
LEMMA LeastNumber ==
  ASSUME NEW S, S \subseteq Nat, S # {}
  PROVE  \E n \in S : \A m \in S : n <= m
<1>. DEFINE R == OpToRel(<, Nat)
<1>1. IsWellFoundedOn(R, Nat)
  BY NatLessThanWellFounded
<1>2. \A i, j \in Nat : i < j => <<i, j>> \in R
  BY DEF OpToRel
<1>. HIDE DEF R
<1>3. PICK n \in S : \A m \in S : <<m, n>> \notin R
  BY <1>1, WFMin
<1>4. ASSUME NEW m \in S PROVE n <= m
  <2>1. ~(m < n)
    BY <1>2, <1>3
  <2>. QED BY <2>1
<1>. QED BY <1>4

-----------------------------------------------------------------------------
(* The screen, for any window and memory: an address is the origin of the  *)
(* window plus a place in it.                                              *)

Marks == Chars \cup {PromptSign}
Rows == 0 .. Height - 1
Columns == 0 .. Width - 1
Bytes == 0 .. 255
Memories == [Cells -> Marks]
Area == Height * Width
LastRow == (Height - 1) * Width

Typed(s) == s \in Screens(Marks)
At(base, r, c) == (base + r) * Width + c
Place(s) == s.row * Width + s.column
Origin(s) == s.base_row * Width
Fits(s) == s.display_start = Origin(s) /\ s.base_row <= BaseRowMax

(* What is at a place of the window. *)
Look(s, j) == ReadCell(s, Origin(s) + j)

LEMMA Products ==
  ASSUME NEW i \in Nat, NEW j \in Nat, NEW n \in Nat
  PROVE  /\ i * n \in Nat
         /\ (i + j) * n = i * n + j * n
         /\ i <= j => i * n <= j * n
         /\ i < j => i * n + n <= j * n
<1>1. /\ i * n \in Nat /\ (i + j) * n = i * n + j * n /\ (i + 1) * n = i * n + n
      /\ i <= j => i * n <= j * n
  OBVIOUS
<1>2. ASSUME i < j PROVE i * n + n <= j * n
  <2>1. i + 1 <= j /\ i + 1 \in Nat
    BY <1>2
  <2>2. (i + 1) * n <= j * n
    BY <2>1
  <2>. QED BY <1>1, <2>2
<1>. QED BY <1>1, <1>2

LEMMA Sizes ==
  /\ Width \in Nat /\ Width > 1 /\ Height \in Nat /\ Height > 1
  /\ BaseRowMax \in Nat /\ BaseRowMax > 0 /\ BaseRowMax + Height < 256
  /\ Area \in Nat /\ LastRow \in Nat /\ Area = LastRow + Width
  /\ BaseRowMax * Width \in Nat
  /\ Cells = 0 .. (BaseRowMax * Width + Area) - 1
  /\ PromptLength \in Nat /\ PromptLength + Capacity <= LastRow
  /\ Marks = Chars \cup {PromptSign} /\ Blank \in Marks /\ Blank = Space
<1>1. /\ Width \in Nat /\ Width > 1 /\ Height \in Nat /\ Height > 1
      /\ BaseRowMax \in Nat /\ BaseRowMax > 0 /\ BaseRowMax + Height < 256
  BY GeometryAssumption
<1>2. Height - 1 \in Nat /\ 1 \in Nat /\ (Height - 1) + 1 = Height
  BY <1>1
<1>3. 1 * Width = Width
  BY <1>1
<1>4. Area \in Nat /\ LastRow \in Nat /\ Area = LastRow + Width
  BY <1>1, <1>2, <1>3, Products DEF Area, LastRow
<1>5. /\ BaseRowMax * Width \in Nat
      /\ (BaseRowMax + Height) * Width = BaseRowMax * Width + Area
  BY <1>1, Products DEF Area
<1>6. Cells = 0 .. (BaseRowMax * Width + Area) - 1
  <2>. DEFINE all == (BaseRowMax + Height) * Width
  <2>1. all = BaseRowMax * Width + Area
    BY <1>5
  <2>2. Cells = 0 .. all - 1
    BY DEF Cells
  <2>. HIDE DEF all
  <2>. QED BY <2>1, <2>2
<1>7. PromptLength \in Nat /\ PromptLength + Capacity <= LastRow
  BY PromptAssumption, LineFitsAssumption DEF LastRow
<1>8. Marks = Chars \cup {PromptSign} /\ Blank \in Marks /\ Blank = Space
  BY PromptAssumption, ConstantsTyped DEF Marks
<1>. QED BY <1>1, <1>4, <1>5, <1>6, <1>7, <1>8

(* A row and a column are a place in the window. *)
LEMMA Places ==
  ASSUME NEW b \in Nat, NEW r \in Rows, NEW c \in Columns
  PROVE  /\ b * Width \in Nat /\ r * Width \in Nat /\ r \in Nat /\ c \in Nat
         /\ r * Width + c \in 0 .. Area - 1
         /\ At(b, r, c) = b * Width + (r * Width + c)
         /\ r * Width <= LastRow
         /\ r < Height - 1 => r * Width + c < LastRow
<1>1. Width \in Nat /\ c \in Nat /\ c <= Width - 1 /\ r \in Nat /\ Height - 1 \in Nat
      /\ r <= Height - 1 /\ Area \in Nat /\ LastRow \in Nat /\ Area = LastRow + Width
  BY Sizes DEF Rows, Columns
<1>2. /\ r * Width \in Nat /\ b * Width \in Nat
      /\ (b + r) * Width = b * Width + r * Width
  BY <1>1, Products
<1>3. r * Width <= LastRow /\ (r < Height - 1 => r * Width + Width <= LastRow)
  BY <1>1, Products DEF LastRow
<1>4. r * Width + c \in 0 .. Area - 1
  BY <1>1, <1>2, <1>3
<1>5. r < Height - 1 => r * Width + c < LastRow
  BY <1>1, <1>2, <1>3
<1>6. At(b, r, c) = b * Width + (r * Width + c)
  BY <1>1, <1>2 DEF At
<1>. QED BY <1>1, <1>2, <1>3, <1>4, <1>5, <1>6

Screen(b, r, c, m, d, k) ==
  [base_row |-> b, row |-> r, column |-> c, cells |-> m,
   display_start |-> d, cursor_position |-> k]

(* A screen is its fields. *)
LEMMA ScreenFields ==
  ASSUME NEW b, NEW r, NEW c, NEW m, NEW d, NEW k, NEW s, s = Screen(b, r, c, m, d, k)
  PROVE  /\ s.base_row = b /\ s.row = r /\ s.column = c /\ s.cells = m
         /\ s.display_start = d /\ s.cursor_position = k
         /\ GetPosition(s) = At(b, r, c)
<1>1. /\ s.base_row = b /\ s.row = r /\ s.column = c /\ s.cells = m
      /\ s.display_start = d /\ s.cursor_position = k
  BY DEF Screen
<1>2. GetPosition(s) = At(b, r, c)
  BY <1>1, Zenon DEF GetPosition, At
<1>. QED BY <1>1, <1>2

(* What the operations of VgaText make of the fields.                      *)

Filled(m, from, n) ==
  [p \in Cells |-> IF from <= p /\ p < from + n THEN Blank ELSE m[p]]
Copied(m, source) ==
  [p \in Cells |-> IF Width <= p /\ p < Height * Width
                     THEN IF source + p - Width \in Cells THEN m[source + p - Width] ELSE Blank
                     ELSE m[p]]

(* Several fields change at a time. *)
Rebased(s, v, w) == [s EXCEPT !.base_row = v, !.row = w]
Placed(s, v, w) == [s EXCEPT !.row = v, !.column = w]
Wrapped(s, v, w, x) == [s EXCEPT !.base_row = v, !.row = w, !.column = x]
Written(s, p, v) == [s EXCEPT !.cells[p] = v]

LEMMA Updates ==
  ASSUME NEW b, NEW r, NEW c, NEW m, NEW d, NEW k, NEW s, s = Screen(b, r, c, m, d, k),
         NEW v, NEW w
  PROVE  /\ Rebased(s, v, w) = Screen(v, w, c, m, d, k)
         /\ Placed(s, v, w) = Screen(b, v, w, m, d, k)
<1>1. Rebased(s, v, w) = Screen(v, w, c, m, d, k)
  <2>. DEFINE t == [s EXCEPT !.base_row = v]
  <2>1. Rebased(s, v, w) = [t EXCEPT !.row = w]
    BY DEF Rebased
  <2>2. t = Screen(v, r, c, m, d, k)
    BY DEF Screen
  <2>. HIDE DEF t
  <2>3. [t EXCEPT !.row = w] = Screen(v, w, c, m, d, k)
    BY <2>2 DEF Screen
  <2>. QED BY <2>1, <2>3
<1>2. Placed(s, v, w) = Screen(b, v, w, m, d, k)
  <2>. DEFINE t == [s EXCEPT !.row = v]
  <2>1. Placed(s, v, w) = [t EXCEPT !.column = w]
    BY DEF Placed
  <2>2. t = Screen(b, v, c, m, d, k)
    BY DEF Screen
  <2>. HIDE DEF t
  <2>3. [t EXCEPT !.column = w] = Screen(b, v, w, m, d, k)
    BY <2>2 DEF Screen
  <2>. QED BY <2>1, <2>3
<1>. QED BY <1>1, <1>2

LEMMA WrapUnfolds ==
  ASSUME NEW b, NEW r, NEW c, NEW m, NEW d, NEW k, NEW s, s = Screen(b, r, c, m, d, k),
         NEW v, NEW w, NEW x
  PROVE  Wrapped(s, v, w, x) = Screen(v, w, x, m, d, k)
<1>. DEFINE t == Rebased(s, v, w)
<1>1. Wrapped(s, v, w, x) = [t EXCEPT !.column = x]
  BY DEF Wrapped, Rebased
<1>2. t = Screen(v, w, c, m, d, k)
  BY Updates
<1>. HIDE DEF t
<1>3. [t EXCEPT !.column = x] = Screen(v, w, x, m, d, k)
  BY <1>2 DEF Screen
<1>. QED BY <1>1, <1>3

Changed(m, p, v) == [m EXCEPT ![p] = v]

LEMMA WriteUnfolds ==
  ASSUME NEW b, NEW r, NEW c, NEW m, NEW d, NEW k, NEW s, s = Screen(b, r, c, m, d, k),
         NEW p, NEW v
  PROVE  Written(s, p, v) = Screen(b, r, c, Changed(m, p, v), d, k)
<1>1. Written(s, p, v) = [s EXCEPT !.cells = [s.cells EXCEPT ![p] = v]]
  BY DEF Written
<1>2. s.cells = m
  BY DEF Screen
<1>3. [s EXCEPT !.cells = [m EXCEPT ![p] = v]]
        = Screen(b, r, c, [m EXCEPT ![p] = v], d, k)
  BY DEF Screen
<1>. QED BY <1>1, <1>2, <1>3 DEF Changed

LEMMA FillUnfolds ==
  ASSUME NEW b, NEW r, NEW c, NEW m, NEW d, NEW k, NEW s, s = Screen(b, r, c, m, d, k),
         NEW from, NEW n
  PROVE  /\ Fill(s, from, n) = Screen(b, r, c, Filled(m, from, n), d, k)
         /\ CopyRows(s, from) = Screen(b, r, c, Copied(m, from), d, k)
<1>1. s.cells = m
  BY ScreenFields
<1>2. [p \in Cells |-> IF from <= p /\ p < from + n THEN Blank ELSE s.cells[p]]
        = Filled(m, from, n)
  BY <1>1 DEF Filled
<1>3. [p \in Cells |-> IF Width <= p /\ p < Height * Width
                         THEN ReadCell(s, from + p - Width) ELSE s.cells[p]]
        = Copied(m, from)
  BY <1>1 DEF Copied, ReadCell
<1>4. Fill(s, from, n) = [s EXCEPT !.cells = Filled(m, from, n)]
  BY <1>2 DEF Fill
<1>5. CopyRows(s, from) = [s EXCEPT !.cells = Copied(m, from)]
  BY <1>3 DEF CopyRows
<1>6. /\ [s EXCEPT !.cells = Filled(m, from, n)] = Screen(b, r, c, Filled(m, from, n), d, k)
      /\ [s EXCEPT !.cells = Copied(m, from)] = Screen(b, r, c, Copied(m, from), d, k)
  BY DEF Screen
<1>. QED BY <1>4, <1>5, <1>6

LEMMA DisplayUnfolds ==
  ASSUME NEW b, NEW r, NEW c, NEW m, NEW d, NEW k, NEW s, s = Screen(b, r, c, m, d, k),
         NEW n
  PROVE  SetDisplayStart(s, n) = Screen(b, r, c, m, n, k)
  BY DEF SetDisplayStart, Screen

LEMMA ScrolledUnfolds ==
  ASSUME NEW b, NEW r, NEW c, NEW m, NEW d, NEW k, NEW s, s = Screen(b, r, c, m, d, k),
         NEW n, n = Byte(b + 1)
  PROVE  Scrolled(s) =
           IF n > BaseRowMax
             THEN Screen(1, Height - 1, c,
                         Filled(Copied(m, n * Width), Height * Width, Width), 1 * Width, k)
             ELSE Screen(n, Height - 1, c,
                         Filled(m, At(n, Height - 1, c), Width), n * Width, k)
<1>. DEFINE t == Screen(n, Height - 1, c, m, d, k)
            u == IF t.base_row > BaseRowMax THEN ResetScreen(t) ELSE ClearRow(t)
<1>1. s.base_row = b /\ t.base_row = n /\ GetPosition(t) = At(n, Height - 1, c)
  BY ScreenFields
<1>2. [s EXCEPT !.base_row = Byte(s.base_row + 1), !.row = Height - 1] = t
  <2>1. Rebased(s, n, Height - 1) = t
    BY Updates
  <2>. QED BY <1>1, <2>1 DEF Rebased
<1>3. Scrolled(s) = SetDisplayStart(u, u.base_row * Width)
  BY <1>2 DEF Scrolled
<1>4. CASE n > BaseRowMax
  <2>. DEFINE copied == Copied(m, n * Width)
              cells == Filled(copied, Height * Width, Width)
  <2>1. CopyRows(t, t.base_row * Width) = Screen(n, Height - 1, c, copied, d, k)
    BY <1>1, FillUnfolds
  <2>2. Fill(CopyRows(t, t.base_row * Width), Height * Width, Width)
          = Screen(n, Height - 1, c, cells, d, k)
    BY <2>1, FillUnfolds
  <2>3. ResetScreen(t) = Screen(1, Height - 1, c, cells, d, k)
    <3>. DEFINE x == Screen(n, Height - 1, c, cells, d, k)
    <3>1. ResetScreen(t) = Rebased(x, 1, Height - 1)
      BY <2>2 DEF ResetScreen, Rebased
    <3>. QED BY <3>1, Updates
  <2>4. u = Screen(1, Height - 1, c, cells, d, k) /\ u.base_row = 1
    <3>1. u = ResetScreen(t)
      BY <1>1, <1>4
    <3>. QED BY <2>3, <3>1, ScreenFields
  <2>5. Scrolled(s) = Screen(1, Height - 1, c, cells, 1 * Width, k)
    BY <1>3, <2>4, DisplayUnfolds
  <2>. QED BY <1>4, <2>5
<1>5. CASE ~(n > BaseRowMax)
  <2>. DEFINE cells == Filled(m, At(n, Height - 1, c), Width)
  <2>1. ClearRow(t) = Screen(n, Height - 1, c, cells, d, k)
    BY <1>1, FillUnfolds DEF ClearRow
  <2>2. u = Screen(n, Height - 1, c, cells, d, k) /\ u.base_row = n
    <3>1. u = ClearRow(t)
      BY <1>1, <1>5
    <3>. QED BY <2>1, <3>1, ScreenFields
  <2>3. Scrolled(s) = Screen(n, Height - 1, c, cells, n * Width, k)
    BY <1>3, <2>2, DisplayUnfolds
  <2>. QED BY <1>5, <2>3
<1>. QED BY <1>4, <1>5

-----------------------------------------------------------------------------
(* Scrolling shifts the picture up.                                        *)

LEMMA TypedFields ==
  ASSUME NEW b, NEW r, NEW c, NEW m, NEW d, NEW k
  PROVE  Typed(Screen(b, r, c, m, d, k)) <=>
           /\ b \in Bytes /\ r \in Rows /\ c \in Columns /\ m \in Memories
           /\ d \in Nat /\ k \in Nat
<1>1. Screens(Marks) = [base_row : Bytes, row : Rows, column : Columns,
                        cells : Memories, display_start : Nat, cursor_position : Nat]
  BY DEF Screens, Memories, Bytes, Rows, Columns
<1>. QED BY <1>1 DEF Typed, Screen

LEMMA TypedScreen ==
  ASSUME NEW s, Typed(s)
  PROVE  \E b \in Bytes, r \in Rows, c \in Columns, m \in Memories,
            d \in Nat, k \in Nat : s = Screen(b, r, c, m, d, k)
<1>1. s \in [base_row : Bytes, row : Rows, column : Columns,
             cells : Memories, display_start : Nat, cursor_position : Nat]
  BY DEF Typed, Screens, Memories, Bytes, Rows, Columns
<1>2. s = Screen(s.base_row, s.row, s.column, s.cells, s.display_start, s.cursor_position)
  BY <1>1 DEF Screen
<1>3. /\ s.base_row \in Bytes /\ s.row \in Rows /\ s.column \in Columns
      /\ s.cells \in Memories /\ s.display_start \in Nat /\ s.cursor_position \in Nat
  BY <1>1
<1>. QED BY <1>2, <1>3, Zenon

(* Where a screen stands. *)
LEMMA Stands ==
  ASSUME NEW b \in Bytes, NEW r \in Rows, NEW c \in Columns,
         NEW m \in Memories, NEW d \in Nat, NEW k \in Nat,
         NEW s, s = Screen(b, r, c, m, d, k)
  PROVE  /\ Typed(s) /\ Place(s) = r * Width + c /\ Origin(s) = b * Width
         /\ Place(s) \in 0 .. Area - 1 /\ Origin(s) \in Nat
         /\ GetPosition(s) = Origin(s) + Place(s)
         /\ Fits(s) <=> d = b * Width /\ b <= BaseRowMax
<1>1. /\ s.base_row = b /\ s.row = r /\ s.column = c /\ s.cells = m
      /\ s.display_start = d /\ s.cursor_position = k
      /\ GetPosition(s) = At(b, r, c)
  BY ScreenFields
<1>2. Typed(s)
  BY TypedFields
<1>3. Place(s) = r * Width + c /\ Origin(s) = b * Width
  BY <1>1 DEF Place, Origin
<1>4. b \in Nat
  BY DEF Bytes
<1>5. /\ b * Width \in Nat /\ r * Width + c \in 0 .. Area - 1
      /\ At(b, r, c) = b * Width + (r * Width + c)
  BY <1>4, Places
<1>6. Fits(s) <=> d = b * Width /\ b <= BaseRowMax
  BY <1>1, <1>3, Zenon DEF Fits
<1>. QED BY <1>1, <1>2, <1>3, <1>5, <1>6

LEMMA TypedStands ==
  ASSUME NEW s, Typed(s)
  PROVE  /\ Place(s) \in 0 .. Area - 1 /\ Origin(s) \in Nat
         /\ GetPosition(s) = Origin(s) + Place(s) /\ GetPosition(s) \in Nat
<1>1. PICK b \in Bytes, r \in Rows, c \in Columns, m \in Memories,
           d \in Nat, k \in Nat : s = Screen(b, r, c, m, d, k)
  BY TypedScreen
<1>2. /\ Place(s) \in 0 .. Area - 1 /\ Origin(s) \in Nat
      /\ GetPosition(s) = Origin(s) + Place(s)
  BY <1>1, Stands
<1>. QED BY <1>2, Sizes

(* What the memory holds at an address. *)
Held(m, p) == IF p \in Cells THEN m[p] ELSE Blank

LEMMA Looks ==
  ASSUME NEW b, NEW r, NEW c, NEW m, NEW d, NEW k, NEW s, s = Screen(b, r, c, m, d, k),
         NEW j
  PROVE  Look(s, j) = Held(m, b * Width + j)
<1>1. s.base_row = b /\ s.cells = m
  BY ScreenFields
<1>. QED BY <1>1, Zenon DEF Look, ReadCell, Held, Origin

(* Each place of a window is in the memory. *)
LEMMA WindowInMemory ==
  ASSUME NEW b \in Nat, b <= BaseRowMax, NEW j \in 0 .. Area - 1
  PROVE  b * Width + j \in Cells
<1>1. b * Width \in Nat /\ b * Width <= BaseRowMax * Width
  BY Sizes, Products
<1>. DEFINE x == b * Width
            y == BaseRowMax * Width
<1>2. x \in Nat /\ y \in Nat /\ x <= y /\ Area \in Nat /\ Cells = 0 .. (y + Area) - 1
  BY <1>1, Sizes
<1>. HIDE DEF x, y
<1>3. x + j \in Cells
  BY <1>2
<1>. QED BY <1>3 DEF x

-----------------------------------------------------------------------------
(* The window has moved down a row, in the memory or back to its top. *)
Shifted(t, s) == \A j \in 0 .. LastRow - 1 : Look(t, j) = Look(s, j + Width)

LEMMA FilledTyped ==
  ASSUME NEW m \in Memories, NEW from, NEW n, NEW source
  PROVE  Filled(m, from, n) \in Memories /\ Copied(m, source) \in Memories
  BY Sizes DEF Filled, Copied, Memories

LEMMA ScrollLooks ==
  ASSUME NEW b \in Bytes, NEW m \in Memories, NEW d \in Nat, NEW k \in Nat,
         NEW s, s = Screen(b, Height - 1, 0, m, d, k)
  PROVE  LET t == Scrolled(s)
         IN  /\ Typed(t) /\ Place(t) = LastRow
             /\ Fits(s) => Fits(t) /\ Shifted(t, s)
<1>. DEFINE n == Byte(b + 1)
            t == Scrolled(s)
<1>1. n \in Bytes /\ n \in Nat /\ b \in Nat /\ (b <= BaseRowMax => n = b + 1)
  BY Sizes DEF Byte, Bytes
<1>2. Height - 1 \in Rows /\ 0 \in Columns /\ LastRow + 0 = LastRow
      /\ (Height - 1) * Width = LastRow
  BY Sizes DEF Rows, Columns, LastRow
<1>3. Fits(s) <=> d = b * Width /\ b <= BaseRowMax
  BY <1>2, Stands
<1>4. (b + 1) * Width = b * Width + Width /\ b * Width \in Nat /\ n * Width \in Nat
      /\ 1 * Width = Width
  <2>1. 1 \in Nat /\ Width \in Nat
    BY Sizes
  <2>2. 1 * Width = Width
    BY <2>1
  <2>. QED BY <1>1, <2>1, <2>2, Products
<1>. HIDE DEF n
<1>5. CASE n > BaseRowMax
  <2>. DEFINE copied == Copied(m, n * Width)
              cells == Filled(copied, Height * Width, Width)
  <2>1. t = Screen(1, Height - 1, 0, cells, 1 * Width, k)
    BY <1>5, ScrolledUnfolds DEF n
  <2>2. cells \in Memories
    BY FilledTyped
  <2>. HIDE DEF cells, t
  <2>3. 1 \in Bytes /\ 1 * Width \in Nat /\ 1 <= BaseRowMax
    BY <1>4, Sizes DEF Bytes
  <2>4. Typed(t) /\ Place(t) = LastRow /\ Fits(t)
    BY <1>2, <2>1, <2>2, <2>3, Stands
  <2>5. ASSUME Fits(s), NEW j \in 0 .. LastRow - 1 PROVE Look(t, j) = Look(s, j + Width)
    <3>. DEFINE p == Width + j
                x == b * Width
    <3>1. n * Width = x + Width /\ b <= BaseRowMax
      BY <1>1, <1>3, <1>4, <2>5
    <3>2. /\ x \in Nat /\ Width \in Nat /\ Area \in Nat /\ LastRow \in Nat
          /\ Area = LastRow + Width /\ j \in Nat
      BY <1>4, Sizes
    <3>3. /\ Width <= p /\ p < Area /\ p \in Nat /\ j + Width \in 0 .. Area - 1
          /\ x + Width + p - Width = x + (j + Width)
      BY <3>2
    <3>4. x + (j + Width) \in Cells
      BY <1>1, <3>1, <3>3, WindowInMemory
    <3>5. p \in Cells
      <4>1. 0 \in Nat /\ 0 <= BaseRowMax /\ 0 * Width + p = p /\ p \in 0 .. Area - 1
        BY <3>2, <3>3, Sizes
      <4>. QED BY <4>1, WindowInMemory
    <3>6. cells[p] = copied[p]
      <4>. DEFINE end == Height * Width
      <4>1. ~(end <= p) /\ cells = Filled(copied, end, Width)
        BY <3>2, <3>3 DEF Area, cells
      <4>. HIDE DEF end, cells, copied, p
      <4>. QED BY <3>5, <4>1 DEF Filled
    <3>7. copied[p] = m[x + (j + Width)]
      <4>. DEFINE from == n * Width
      <4>1. from + p - Width = x + (j + Width)
        BY <3>1, <3>3
      <4>2. copied = Copied(m, from)
        OBVIOUS
      <4>. HIDE DEF copied, from
      <4>3. copied[p] = IF from + p - Width \in Cells THEN m[from + p - Width] ELSE Blank
        BY <3>3, <3>5, <4>2 DEF Copied, Area
      <4>. QED BY <3>4, <4>1, <4>3
    <3>8. Look(t, j) = Held(cells, 1 * Width + j)
      BY <2>1, Looks
    <3>9. Look(s, j + Width) = Held(m, x + (j + Width))
      BY Looks
    <3>. QED BY <1>4, <3>4, <3>5, <3>6, <3>7, <3>8, <3>9 DEF Held
  <2>. QED BY <2>4, <2>5 DEF Shifted, t
<1>6. CASE ~(n > BaseRowMax)
  <2>. DEFINE bottom == At(n, Height - 1, 0)
              cells == Filled(m, bottom, Width)
  <2>1. t = Screen(n, Height - 1, 0, cells, n * Width, k)
    BY <1>6, ScrolledUnfolds DEF n
  <2>2. cells \in Memories
    BY FilledTyped
  <2>3. bottom = n * Width + LastRow
    BY <1>1, <1>2, Places
  <2>. HIDE DEF cells, t, bottom
  <2>4. n <= BaseRowMax
    BY <1>1, <1>6, Sizes
  <2>5. Typed(t) /\ Place(t) = LastRow /\ Fits(t)
    BY <1>1, <1>2, <1>4, <2>1, <2>2, <2>4, Stands
  <2>6. ASSUME Fits(s), NEW j \in 0 .. LastRow - 1 PROVE Look(t, j) = Look(s, j + Width)
    <3>. DEFINE x == b * Width
                y == n * Width
    <3>1. y = x + Width /\ b <= BaseRowMax
      BY <1>1, <1>3, <1>4, <2>6
    <3>2. /\ x \in Nat /\ y \in Nat /\ Width \in Nat /\ Area \in Nat /\ LastRow \in Nat
          /\ Area = LastRow + Width /\ j \in Nat
      BY <1>4, Sizes
    <3>3. j \in 0 .. Area - 1 /\ y + j = x + (j + Width) /\ ~(bottom <= y + j)
      BY <2>3, <3>1, <3>2
    <3>4. y + j \in Cells
      BY <1>1, <2>4, <3>3, WindowInMemory
    <3>. HIDE DEF x, y
    <3>5. cells[y + j] = m[y + j]
      BY <3>3, <3>4 DEF cells, Filled
    <3>6. Look(t, j) = Held(cells, y + j)
      BY <2>1, Looks DEF y
    <3>7. Look(s, j + Width) = Held(m, x + (j + Width))
      BY Looks DEF x
    <3>. QED BY <3>3, <3>4, <3>5, <3>6, <3>7 DEF Held
  <2>. QED BY <2>5, <2>6 DEF Shifted, t
<1>. QED BY <1>5, <1>6
(* The window and what is in the memory are as before. *)
Kept(t, s) ==
  /\ t.base_row = s.base_row /\ t.display_start = s.display_start
  /\ t.cells = s.cells

LEMMA KeptLooks ==
  ASSUME NEW t, NEW s, Kept(t, s), NEW j
  PROVE  Origin(t) = Origin(s) /\ (Fits(t) <=> Fits(s)) /\ Look(t, j) = Look(s, j)
<1>1. Origin(t) = Origin(s)
  BY DEF Kept, Origin
<1>. QED BY <1>1 DEF Kept, Fits, Look, ReadCell

LEMMA DownLooks ==
  ASSUME NEW b \in Bytes, NEW r \in Rows, NEW m \in Memories, NEW d \in Nat, NEW k \in Nat,
         NEW s, s = Screen(b, r, 0, m, d, k)
  PROVE  LET t == RowDown(s)
         IN  /\ Typed(t)
             /\ IF r = Height - 1
                  THEN Place(t) = LastRow /\ (Fits(s) => Fits(t) /\ Shifted(t, s))
                  ELSE Place(t) = r * Width + Width /\ Kept(t, s)
<1>1. /\ s.row = r /\ r \in Nat /\ 0 \in Columns /\ Height \in Nat /\ Width \in Nat
      /\ r <= Height - 1
  BY ScreenFields, Sizes DEF Rows, Columns
<1>2. CASE r = Height - 1
  <2>1. RowDown(s) = Scrolled(s)
    BY <1>1, <1>2 DEF RowDown
  <2>. QED BY <1>2, <2>1, ScrollLooks
<1>3. CASE r # Height - 1
  <2>. DEFINE t == Screen(b, r + 1, 0, m, d, k)
  <2>1. RowDown(s) = [s EXCEPT !.row = r + 1]
    BY <1>1, <1>3 DEF RowDown
  <2>2. [s EXCEPT !.row = r + 1] = t
    BY DEF Screen
  <2>3. r + 1 \in Rows
    BY <1>1, <1>3 DEF Rows
  <2>4. Typed(t) /\ Place(t) = (r + 1) * Width + 0
    BY <1>1, <2>3, Stands
  <2>5. (r + 1) * Width + 0 = r * Width + Width
    <3>1. 1 \in Nat /\ 1 * Width = Width
      BY <1>1
    <3>2. (r + 1) * Width = r * Width + 1 * Width /\ r * Width \in Nat
      BY <1>1, <3>1, Products
    <3>. QED BY <1>1, <3>1, <3>2
  <2>6. Kept(t, s)
    BY ScreenFields DEF Kept
  <2>. HIDE DEF t
  <2>. QED BY <1>3, <2>1, <2>2, <2>4, <2>5, <2>6
<1>. QED BY <1>2, <1>3

(* One place further, over the end of the window a row further. *)
Advanced(t, s) ==
  /\ Typed(t)
  /\ IF Place(s) + 1 < Area
       THEN Place(t) = Place(s) + 1 /\ Kept(t, s)
       ELSE Place(t) = LastRow /\ (Fits(s) => Fits(t) /\ Shifted(t, s))

LEMMA ForwardLooks ==
  ASSUME NEW s, Typed(s)
  PROVE  Advanced(MoveForward(s), s)
<1>1. PICK b \in Bytes, r \in Rows, c \in Columns, m \in Memories,
           d \in Nat, k \in Nat : s = Screen(b, r, c, m, d, k)
  BY TypedScreen
<1>2. s.row = r /\ s.column = c /\ Place(s) = r * Width + c
  BY <1>1, ScreenFields, Stands
<1>3. /\ r \in Nat /\ c \in Nat /\ c <= Width - 1 /\ r <= Height - 1
      /\ Width \in Nat /\ Width > 1 /\ Height \in Nat /\ 0 \in Columns
      /\ Area \in Nat /\ LastRow \in Nat /\ Area = LastRow + Width
  BY Sizes DEF Rows, Columns
<1>4. /\ r * Width \in Nat /\ r * Width <= LastRow
      /\ r = Height - 1 => r * Width = LastRow
      /\ r # Height - 1 => r * Width + Width <= LastRow
  <2>1. Height - 1 \in Nat /\ (r # Height - 1 => r < Height - 1)
    BY <1>3
  <2>. QED BY <1>3, <2>1, Products DEF LastRow
<1>5. CASE c = Width - 1
  <2>. DEFINE u == Screen(b, r, 0, m, d, k)
  <2>1. MoveForward(s) = RowDown(u)
    <3>1. [s EXCEPT !.column = 0] = u
      BY <1>1 DEF Screen
    <3>. QED BY <1>2, <1>5, <3>1 DEF MoveForward
  <2>2. Kept(u, s)
    BY <1>1, ScreenFields DEF Kept
  <2>3. Fits(u) <=> Fits(s)
    BY <2>2, KeptLooks
  <2>. DEFINE t == RowDown(u)
  <2>4. /\ Typed(t)
        /\ IF r = Height - 1
             THEN Place(t) = LastRow /\ (Fits(u) => Fits(t) /\ Shifted(t, u))
             ELSE Place(t) = r * Width + Width /\ Kept(t, u)
    BY DownLooks
  <2>5. Shifted(t, u) => Shifted(t, s)
    <3>1. ASSUME NEW j PROVE Look(u, j + Width) = Look(s, j + Width)
      BY <2>2, KeptLooks
    <3>. QED BY <3>1 DEF Shifted
  <2>6. Kept(t, u) => Kept(t, s)
    BY <2>2 DEF Kept
  <2>. HIDE DEF t, u
  <2>7. CASE r = Height - 1
    <3>1. ~(Place(s) + 1 < Area)
      BY <1>2, <1>3, <1>4, <1>5, <2>7
    <3>. QED BY <2>1, <2>3, <2>4, <2>5, <2>7, <3>1 DEF Advanced, t
  <2>8. CASE r # Height - 1
    <3>1. Place(s) + 1 < Area /\ Place(s) + 1 = r * Width + Width
      BY <1>2, <1>3, <1>4, <1>5, <2>8
    <3>. QED BY <2>1, <2>4, <2>6, <2>8, <3>1 DEF Advanced, t
  <2>. QED BY <2>7, <2>8
<1>6. CASE c # Width - 1
  <2>. DEFINE t == Screen(b, r, c + 1, m, d, k)
  <2>1. MoveForward(s) = t
    <3>1. [s EXCEPT !.column = c + 1] = t
      BY <1>1 DEF Screen
    <3>. QED BY <1>2, <1>6, <3>1 DEF MoveForward
  <2>2. c + 1 \in Columns
    BY <1>3, <1>6 DEF Columns
  <2>3. Typed(t) /\ Place(t) = r * Width + (c + 1)
    BY <2>2, Stands
  <2>4. Kept(t, s)
    BY <1>1, ScreenFields DEF Kept
  <2>5. Place(s) + 1 < Area /\ r * Width + (c + 1) = Place(s) + 1
    BY <1>2, <1>3, <1>4, <1>6
  <2>. HIDE DEF t
  <2>. QED BY <2>1, <2>3, <2>4, <2>5 DEF Advanced
<1>. QED BY <1>5, <1>6

LEMMA NextLineFits ==
  ASSUME NEW s, Typed(s)
  PROVE  Typed(MoveToNextLine(s)) /\ (Fits(s) => Fits(MoveToNextLine(s)))
<1>1. PICK b \in Bytes, r \in Rows, c \in Columns, m \in Memories,
           d \in Nat, k \in Nat : s = Screen(b, r, c, m, d, k)
  BY TypedScreen
<1>. DEFINE u == Screen(b, r, 0, m, d, k)
            t == RowDown(u)
<1>2. MoveToNextLine(s) = t
  <2>1. [s EXCEPT !.column = 0] = u
    BY <1>1 DEF Screen
  <2>. QED BY <2>1 DEF MoveToNextLine
<1>3. Kept(u, s)
  BY <1>1, ScreenFields DEF Kept
<1>4. Fits(u) <=> Fits(s)
  BY <1>3, KeptLooks
<1>5. /\ Typed(t)
      /\ IF r = Height - 1
           THEN Place(t) = LastRow /\ (Fits(u) => Fits(t) /\ Shifted(t, u))
           ELSE Place(t) = r * Width + Width /\ Kept(t, u)
  BY DownLooks
<1>6. Kept(t, u) => (Fits(t) <=> Fits(u))
  BY KeptLooks
<1>. HIDE DEF t, u
<1>. QED BY <1>2, <1>4, <1>5, <1>6

-----------------------------------------------------------------------------
(* Writing. *)

(* A cell of the memory is written, if it is there. *)
Write(s, p, v) == IF p \in Cells THEN Written(s, p, v) ELSE s

LEMMA WriteLooks ==
  ASSUME NEW s, Typed(s), NEW p \in 0 .. Area - 1, NEW v \in Marks
  PROVE  LET t == Write(s, Origin(s) + p, v)
         IN  /\ Typed(t) /\ Place(t) = Place(s) /\ Origin(t) = Origin(s)
             /\ t.base_row = s.base_row /\ t.display_start = s.display_start
             /\ Fits(t) <=> Fits(s)
             /\ Fits(s) => Look(t, p) = v
             /\ \A j \in 0 .. Area - 1 : j # p => Look(t, j) = Look(s, j)
<1>1. PICK b \in Bytes, r \in Rows, c \in Columns, m \in Memories,
           d \in Nat, k \in Nat : s = Screen(b, r, c, m, d, k)
  BY TypedScreen
<1>. DEFINE x == b * Width
            n == IF x + p \in Cells THEN Changed(m, x + p, v) ELSE m
            t == Write(s, Origin(s) + p, v)
<1>2. /\ Origin(s) = x /\ Place(s) = r * Width + c /\ x \in Nat
      /\ Fits(s) <=> d = b * Width /\ b <= BaseRowMax
  BY <1>1, Stands
<1>3. t = Screen(b, r, c, n, d, k)
  <2>1. CASE x + p \in Cells
    BY <1>1, <1>2, <2>1, WriteUnfolds DEF Write
  <2>2. CASE x + p \notin Cells
    BY <1>1, <1>2, <2>2 DEF Write
  <2>. QED BY <2>1, <2>2
<1>4. n \in Memories
  BY DEF Changed, Memories
<1>5. \A j \in 0 .. Area - 1 : Held(n, x + j) =
        IF j = p /\ x + p \in Cells THEN v ELSE Held(m, x + j)
  <2>. TAKE j \in 0 .. Area - 1
  <2>1. x + j = x + p <=> j = p
    BY <1>2, Sizes
  <2>. HIDE DEF x
  <2>2. CASE x + p \in Cells
    BY <2>1, <2>2 DEF Held, Changed, Memories
  <2>3. CASE x + p \notin Cells
    BY <2>1, <2>3 DEF Held
  <2>. QED BY <2>2, <2>3
<1>. HIDE DEF n, t
<1>6. /\ Typed(t) /\ Place(t) = r * Width + c /\ Origin(t) = x
      /\ Fits(t) <=> d = b * Width /\ b <= BaseRowMax
  BY <1>3, <1>4, Stands
<1>7. /\ t.base_row = b /\ t.display_start = d
      /\ s.base_row = b /\ s.display_start = d
  BY <1>1, <1>3, ScreenFields
<1>8. \A j \in 0 .. Area - 1 : Look(t, j) = Held(n, x + j) /\ Look(s, j) = Held(m, x + j)
  BY <1>1, <1>3, Looks
<1>9. Fits(s) => x + p \in Cells
  <2>1. b \in Nat
    BY DEF Bytes
  <2>. QED BY <1>2, <2>1, WindowInMemory
<1>10. /\ Fits(s) => Look(t, p) = v
       /\ \A j \in 0 .. Area - 1 : j # p => Look(t, j) = Look(s, j)
  BY <1>5, <1>8, <1>9
<1>. QED BY <1>2, <1>6, <1>7, <1>10 DEF t
(* A character is printed: what was before the cursor stays there, as far  *)
(* as the window still shows it.                                           *)
Printed(t, s, c) ==
  LET d == Place(s) + 1 - Place(t)
  IN \A j \in 0 .. Place(t) - 1 :
       Look(t, j) = IF j + d = Place(s) THEN c ELSE Look(s, j + d)

LEMMA PutLooks ==
  ASSUME NEW s, Typed(s), NEW c \in Marks
  PROVE  LET t == Put(s, c)
         IN  /\ Typed(t)
             /\ Place(t) = Place(s) + 1 \/ (Place(t) = LastRow /\ Place(s) + 1 = Area)
             /\ Fits(s) => Fits(t) /\ Printed(t, s, c)
<1>. DEFINE p == Place(s)
            u == Write(s, Origin(s) + p, c)
            t == MoveForward(u)
<1>1. Put(s, c) = t
  <2>1. GetPosition(s) = Origin(s) + p
    BY TypedStands
  <2>2. Put(s, c) = MoveForward(Write(s, GetPosition(s), c))
    BY Zenon DEF Put, Write, Written
  <2>. QED BY <2>1, <2>2
<1>2. p \in 0 .. Area - 1 /\ Area \in Nat /\ Width \in Nat /\ LastRow \in Nat
      /\ Area = LastRow + Width
  BY TypedStands, Sizes
<1>3. /\ Typed(u) /\ Place(u) = p /\ (Fits(u) <=> Fits(s))
      /\ Fits(s) => Look(u, p) = c
      /\ \A j \in 0 .. Area - 1 : j # p => Look(u, j) = Look(s, j)
  BY <1>2, WriteLooks
<1>. HIDE DEF u
<1>4. Advanced(t, u)
  BY <1>3, ForwardLooks
<1>. HIDE DEF t
<1>5. CASE p + 1 < Area
  <2>1. Typed(t) /\ Place(t) = p + 1 /\ Kept(t, u)
    BY <1>3, <1>4, <1>5 DEF Advanced
  <2>2. ASSUME Fits(s), NEW j \in 0 .. Place(t) - 1
        PROVE  Look(t, j) = IF j + 0 = p THEN c ELSE Look(s, j + 0)
    <3>1. j \in 0 .. Area - 1 /\ j + 0 = j
      BY <1>2, <1>5, <2>1, <2>2
    <3>2. Look(t, j) = Look(u, j)
      BY <2>1, KeptLooks
    <3>. QED BY <1>3, <2>2, <3>1, <3>2
  <2>3. p + 1 - Place(t) = 0
    BY <1>2, <2>1
  <2>4. Fits(s) => Fits(t) /\ Printed(t, s, c)
    <3>1. Fits(t) <=> Fits(u)
      BY <2>1, KeptLooks
    <3>. QED BY <1>3, <2>2, <2>3, <3>1 DEF Printed
  <2>. QED BY <1>1, <2>1, <2>4
<1>6. CASE ~(p + 1 < Area)
  <2>1. Typed(t) /\ Place(t) = LastRow /\ (Fits(u) => Fits(t) /\ Shifted(t, u))
    BY <1>3, <1>4, <1>6 DEF Advanced
  <2>2. p + 1 = Area /\ p + 1 - Place(t) = Width
    BY <1>2, <1>6, <2>1
  <2>3. ASSUME Fits(s), NEW j \in 0 .. Place(t) - 1
        PROVE  Look(t, j) = IF j + Width = p THEN c ELSE Look(s, j + Width)
    <3>1. j \in 0 .. LastRow - 1 /\ j + Width \in 0 .. Area - 1
      BY <1>2, <2>1, <2>3
    <3>2. Look(t, j) = Look(u, j + Width)
      BY <1>3, <2>1, <2>3, <3>1 DEF Shifted
    <3>. QED BY <1>3, <2>3, <3>1, <3>2
  <2>4. Fits(s) => Fits(t) /\ Printed(t, s, c)
    BY <1>3, <2>1, <2>2, <2>3 DEF Printed
  <2>. QED BY <1>1, <2>1, <2>2, <2>4
<1>. QED BY <1>5, <1>6

-----------------------------------------------------------------------------
(* Moving the cursor. *)

LEMMA BackwardsLooks ==
  ASSUME NEW s, Typed(s), Place(s) > 0
  PROVE  LET t == MoveBackwards(s)
         IN  Typed(t) /\ Place(t) = Place(s) - 1 /\ Kept(t, s)
<1>1. PICK b \in Bytes, r \in Rows, c \in Columns, m \in Memories,
           d \in Nat, k \in Nat : s = Screen(b, r, c, m, d, k)
  BY TypedScreen
<1>2. s.row = r /\ s.column = c /\ Place(s) = r * Width + c
  BY <1>1, ScreenFields, Stands
<1>3. /\ r \in Nat /\ c \in Nat /\ c <= Width - 1 /\ r <= Height - 1
      /\ Width \in Nat /\ Width > 1 /\ Height \in Nat
  BY Sizes DEF Rows, Columns
<1>4. CASE c > 0
  <2>. DEFINE t == Screen(b, r, c - 1, m, d, k)
  <2>1. MoveBackwards(s) = t
    <3>1. [s EXCEPT !.column = c - 1] = t
      BY <1>1 DEF Screen
    <3>. QED BY <1>2, <1>4, <3>1 DEF MoveBackwards
  <2>2. c - 1 \in Columns
    BY <1>3, <1>4 DEF Columns
  <2>3. Typed(t) /\ Place(t) = r * Width + (c - 1)
    BY <2>2, Stands
  <2>4. Kept(t, s)
    BY <1>1, ScreenFields DEF Kept
  <2>5. r * Width + (c - 1) = Place(s) - 1
    <3>1. r * Width \in Nat
      BY <1>3, Products
    <3>. QED BY <1>2, <1>3, <3>1
  <2>. HIDE DEF t
  <2>. QED BY <2>1, <2>3, <2>4, <2>5
<1>5. CASE ~(c > 0)
  <2>. DEFINE t == Screen(b, r - 1, Width - 1, m, d, k)
  <2>1. c = 0 /\ r > 0
    <3>1. c = 0
      BY <1>3, <1>5
    <3>2. r = 0 => r * Width = 0
      BY <1>3
    <3>. QED BY <1>2, <1>3, <3>1, <3>2
  <2>2. MoveBackwards(s) = t
    <3>1. MoveBackwards(s) = Placed(s, r - 1, Width - 1)
      BY <1>2, <2>1 DEF MoveBackwards, Placed
    <3>. QED BY <1>1, <3>1, Updates
  <2>3. r - 1 \in Rows /\ Width - 1 \in Columns
    BY <1>3, <2>1 DEF Rows, Columns
  <2>4. Typed(t) /\ Place(t) = (r - 1) * Width + (Width - 1)
    BY <2>3, Stands
  <2>5. Kept(t, s)
    BY <1>1, ScreenFields DEF Kept
  <2>6. (r - 1) * Width + (Width - 1) = Place(s) - 1
    <3>1. r - 1 \in Nat /\ 1 \in Nat /\ (r - 1) + 1 = r /\ 1 * Width = Width
      BY <1>3, <2>1
    <3>2. r * Width = (r - 1) * Width + Width /\ (r - 1) * Width \in Nat
      BY <1>3, <3>1, Products
    <3>. QED BY <1>2, <1>3, <2>1, <3>2
  <2>. HIDE DEF t
  <2>. QED BY <2>2, <2>4, <2>5, <2>6
<1>. QED BY <1>4, <1>5

(* The character before the cursor is blanked. *)
LEMMA RemoveLooks ==
  ASSUME NEW s, Typed(s), Place(s) > 0
  PROVE  LET t == RemoveLastChar(s)
         IN  /\ Typed(t) /\ Place(t) = Place(s) - 1 /\ Origin(t) = Origin(s)
             /\ t.base_row = s.base_row /\ t.display_start = s.display_start
             /\ Fits(t) <=> Fits(s)
             /\ \A j \in 0 .. Place(t) - 1 : Look(t, j) = Look(s, j)
<1>. DEFINE u == MoveBackwards(s)
            p == Place(u)
            t == Write(u, Origin(u) + p, Blank)
<1>1. Typed(u) /\ p = Place(s) - 1 /\ Kept(u, s)
  BY BackwardsLooks
<1>. HIDE DEF u
<1>2. RemoveLastChar(s) = t
  <2>1. GetPosition(u) = Origin(u) + p
    BY <1>1, TypedStands
  <2>2. RemoveLastChar(s) = Write(u, GetPosition(u), Blank)
    BY Zenon DEF RemoveLastChar, Write, Written, u
  <2>. QED BY <2>1, <2>2
<1>3. p \in 0 .. Area - 1 /\ Area \in Nat /\ Blank \in Marks
  BY <1>1, TypedStands, Sizes
<1>4. /\ Typed(t) /\ Place(t) = p /\ Origin(t) = Origin(u)
      /\ t.base_row = u.base_row /\ t.display_start = u.display_start
      /\ Fits(t) <=> Fits(u)
      /\ \A j \in 0 .. Area - 1 : j # p => Look(t, j) = Look(u, j)
  BY <1>1, <1>3, WriteLooks
<1>5. \A j : Origin(u) = Origin(s) /\ (Fits(u) <=> Fits(s)) /\ Look(u, j) = Look(s, j)
  BY <1>1, KeptLooks
<1>. HIDE DEF t
<1>6. ASSUME NEW j \in 0 .. Place(t) - 1 PROVE Look(t, j) = Look(s, j)
  <2>1. j \in 0 .. Area - 1 /\ j # p
    BY <1>3, <1>4
  <2>. QED BY <1>4, <1>5, <2>1
<1>7. t.base_row = s.base_row /\ t.display_start = s.display_start
  BY <1>1, <1>4 DEF Kept
<1>. QED BY <1>1, <1>2, <1>4, <1>5, <1>6, <1>7

(* A move by a distance: if the window is displayed from its base row      *)
(* afterwards, no row was crossed, and nothing but the place has changed.  *)
LEMMA MoveLooks ==
  ASSUME NEW s, Typed(s), NEW n \in Int, Place(s) + n \in 0 .. Area - 1
  PROVE  LET t == MoveCursorBy(s, n)
         IN  /\ Typed(t) /\ Place(t) = Place(s) + n
             /\ Fits(s) /\ t.display_start = Origin(t) => Kept(t, s)
<1>1. PICK b \in Bytes, r \in Rows, c \in Columns, m \in Memories,
           d \in Nat, k \in Nat : s = Screen(b, r, c, m, d, k)
  BY TypedScreen
<1>2. /\ s.base_row = b /\ s.row = r /\ s.column = c /\ Place(s) = r * Width + c
      /\ Fits(s) <=> d = b * Width /\ b <= BaseRowMax
  BY <1>1, ScreenFields, Stands
<1>. DEFINE a == r * Width + c + n
            q == a \div Width
            e == a - q * Width
            v == Byte(b - (r - q))
            t == Screen(v, q, e, m, d, k)
<1>3. /\ r \in Nat /\ c \in Nat /\ b \in Nat
      /\ Width \in Nat /\ Width > 1 /\ Height \in Nat /\ Area \in Nat
  BY Sizes DEF Rows, Columns, Bytes
<1>4. r * Width \in Nat
  BY <1>3, Products
<1>5. a \in Nat /\ a < Area /\ a = Place(s) + n
  BY <1>2, <1>3, <1>4
<1>6. MoveCursorBy(s, n) = t
  <2>1. MoveCursorBy(s, n) = Wrapped(s, v, q, e)
    BY <1>2 DEF MoveCursorBy, Wrapped
  <2>. QED BY <1>1, <2>1, WrapUnfolds
<1>. HIDE DEF a
<1>7. q \in Nat /\ q * Width <= a /\ a < q * Width + Width /\ q * Width \in Nat
  <2>1. \A x \in Nat, w \in Nat : w > 1 =>
          /\ x \div w \in Nat /\ (x \div w) * w <= x /\ x < (x \div w) * w + w
    OBVIOUS
  <2>. QED BY <1>3, <1>5, <2>1, Products
<1>. HIDE DEF q
<1>8. q \in Rows
  <2>1. CASE Height <= q
    <3>1. Area <= q * Width
      BY <1>3, <1>7, <2>1, Products DEF Area
    <3>. QED BY <1>3, <1>5, <1>7, <3>1
  <2>. QED BY <1>3, <1>7, <2>1 DEF Rows
<1>9. e \in Columns /\ q * Width + e = a
  BY <1>3, <1>5, <1>7 DEF Columns
<1>10. v \in Bytes
  <2>1. \A x \in Int : x % 256 \in 0 .. 255
    OBVIOUS
  <2>2. b - (r - q) \in Int
    BY <1>3, <1>7
  <2>. QED BY <2>1, <2>2 DEF Byte, Bytes
<1>. HIDE DEF v, e
<1>11. Typed(t) /\ Place(t) = a /\ Origin(t) = v * Width
  BY <1>8, <1>9, <1>10, Stands
<1>12. t.base_row = v /\ t.display_start = d /\ t.cells = m
       /\ s.display_start = d /\ s.cells = m
  BY <1>1, ScreenFields
<1>. HIDE DEF t
<1>13. ASSUME Fits(s), t.display_start = Origin(t) PROVE Kept(t, s)
  <2>1. v * Width = b * Width
    BY <1>2, <1>11, <1>12, <1>13
  <2>2. v = b
    <3>1. v \in Nat /\ v * Width \in Nat /\ b * Width \in Nat
      BY <1>3, <1>10, Products DEF Bytes
    <3>2. /\ v < b => v * Width + Width <= b * Width
          /\ b < v => b * Width + Width <= v * Width
      BY <1>3, <3>1, Products
    <3>3. ~(v < b) /\ ~(b < v)
      BY <1>3, <2>1, <3>1, <3>2
    <3>. QED BY <1>3, <3>1, <3>3
  <2>. QED BY <1>2, <1>12, <2>2 DEF Kept
<1>. QED BY <1>5, <1>6, <1>11, <1>13

LEMMA SyncLooks ==
  ASSUME NEW s, Typed(s)
  PROVE  LET t == SyncCursor(s)
         IN  /\ Typed(t) /\ Place(t) = Place(s) /\ Kept(t, s)
             /\ t.cursor_position = GetPosition(t)
<1>1. PICK b \in Bytes, r \in Rows, c \in Columns, m \in Memories,
           d \in Nat, k \in Nat : s = Screen(b, r, c, m, d, k)
  BY TypedScreen
<1>. DEFINE p == GetPosition(s)
            t == Screen(b, r, c, m, d, p)
<1>2. SyncCursor(s) = t
  BY <1>1 DEF SyncCursor, Screen
<1>3. p \in Nat /\ p = At(b, r, c)
  BY <1>1, TypedStands, ScreenFields
<1>. HIDE DEF p
<1>4. Typed(t) /\ Place(t) = r * Width + c /\ Place(s) = r * Width + c
  BY <1>1, <1>3, Stands
<1>5. Kept(t, s) /\ t.cursor_position = p /\ GetPosition(t) = At(b, r, c)
  BY <1>1, ScreenFields DEF Kept
<1>. QED BY <1>2, <1>3, <1>4, <1>5
-----------------------------------------------------------------------------
(* Printing.  The recursive functions are what their equations say.        *)

PrintedBy(f, s, string, size) ==
  /\ PrintString(s, string) = f[size]
  /\ f[0] = s
  /\ \A n \in 1 .. size : f[n] = Put(f[n - 1], string[n])

LEMMA PrintUnfolds ==
  ASSUME NEW s, NEW string \in Seq(Marks)
  PROVE  \E f : PrintedBy(f, s, string, Len(string))
<1>. DEFINE size == Len(string)
<1>0. size \in Nat
  OBVIOUS
<1>. DEFINE Solves(f, k) ==
              f = [n \in 0 .. k |-> IF n = 0 THEN s ELSE Put(f[n - 1], string[n])]
            Bad == {k \in Nat : ~\E f : Solves(f, k)}
<1>1. Bad = {}
  <2>. SUFFICES ASSUME Bad # {} PROVE FALSE
    OBVIOUS
  <2>1. PICK k \in Bad : \A j \in Bad : k <= j
    BY LeastNumber
  <2>2. CASE k = 0
    <3>. DEFINE f == [n \in 0 .. 0 |-> s]
    <3>1. Solves(f, 0)
      OBVIOUS
    <3>. QED BY <2>1, <2>2, <3>1
  <2>3. CASE k # 0
    <3>1. k - 1 \in Nat /\ k - 1 \notin Bad
      <4>. HIDE DEF Solves
      <4>1. k \in Nat /\ k - 1 \in Nat /\ ~(k <= k - 1)
        BY <2>3
      <4>. HIDE DEF Bad
      <4>. QED BY <2>1, <4>1
    <3>2. PICK f : Solves(f, k - 1)
      BY <3>1
    <3>. DEFINE next == Put(f[k - 1], string[k])
                g == [n \in 0 .. k |-> IF n = k THEN next ELSE f[n]]
    <3>3. \A n \in 0 .. k :
            g[n] = IF n = 0 THEN s ELSE Put(g[n - 1], string[n])
      <4>. TAKE n \in 0 .. k
      <4>1. CASE n = k
        <5>1. g[k] = next /\ g[k - 1] = f[k - 1]
          BY <3>1
        <5>. QED BY <2>3, <4>1, <5>1
      <4>2. CASE n # k /\ n # 0
        <5>1. n \in 0 .. k - 1 /\ n - 1 \in 0 .. k - 1 /\ n \in 0 .. k /\ n - 1 \in 0 .. k
          BY <2>1, <4>2
        <5>2. f[n] = Put(f[n - 1], string[n])
          BY <3>2, <4>2, <5>1
        <5>3. g[n] = f[n] /\ g[n - 1] = f[n - 1]
          BY <2>1, <4>2, <5>1
        <5>. QED BY <4>2, <5>2, <5>3
      <4>3. CASE n # k /\ n = 0
        <5>1. f[0] = s
          BY <3>1, <3>2
        <5>. QED BY <4>3, <5>1
      <4>. QED BY <4>1, <4>2, <4>3
    <3>4. Solves(g, k)
      BY <3>3
    <3>. QED BY <2>1, <3>4
  <2>. QED BY <2>2, <2>3
<1>. DEFINE printed == CHOOSE f : Solves(f, size)
<1>2. Solves(printed, size)
  <2>. HIDE DEF Solves, size
  <2>1. \E f : Solves(f, size)
    BY <1>0, <1>1
  <2>. QED BY <2>1
<1>3. PrintString(s, string) = printed[size]
  BY DEF PrintString
<1>. HIDE DEF printed
<1>4. printed[0] = s /\ \A n \in 1 .. size : printed[n] = Put(printed[n - 1], string[n])
  BY <1>0, <1>2
<1>. QED BY <1>3, <1>4 DEF PrintedBy

LEMMA DeleteUnfolds ==
  ASSUME NEW s, NEW size \in Nat
  PROVE  \E f : /\ DeleteChars(s, size) = f[size]
                /\ f[0] = s
                /\ \A n \in 1 .. size : f[n] = RemoveLastChar(f[n - 1])
<1>. DEFINE Solves(f, k) ==
              f = [n \in 0 .. k |-> IF n = 0 THEN s ELSE RemoveLastChar(f[n - 1])]
            Bad == {k \in Nat : ~\E f : Solves(f, k)}
<1>1. Bad = {}
  <2>. SUFFICES ASSUME Bad # {} PROVE FALSE
    OBVIOUS
  <2>1. PICK k \in Bad : \A j \in Bad : k <= j
    BY LeastNumber
  <2>2. CASE k = 0
    <3>. DEFINE f == [n \in 0 .. 0 |-> s]
    <3>1. Solves(f, 0)
      OBVIOUS
    <3>. QED BY <2>1, <2>2, <3>1
  <2>3. CASE k # 0
    <3>1. k - 1 \in Nat /\ k - 1 \notin Bad
      <4>. HIDE DEF Solves
      <4>1. k \in Nat /\ k - 1 \in Nat /\ ~(k <= k - 1)
        BY <2>3
      <4>. HIDE DEF Bad
      <4>. QED BY <2>1, <4>1
    <3>2. PICK f : Solves(f, k - 1)
      BY <3>1
    <3>. DEFINE next == RemoveLastChar(f[k - 1])
                g == [n \in 0 .. k |-> IF n = k THEN next ELSE f[n]]
    <3>3. \A n \in 0 .. k :
            g[n] = IF n = 0 THEN s ELSE RemoveLastChar(g[n - 1])
      <4>. TAKE n \in 0 .. k
      <4>1. CASE n = k
        <5>1. g[k] = next /\ g[k - 1] = f[k - 1]
          BY <3>1
        <5>. QED BY <2>3, <4>1, <5>1
      <4>2. CASE n # k /\ n # 0
        <5>1. n \in 0 .. k - 1 /\ n - 1 \in 0 .. k - 1 /\ n \in 0 .. k /\ n - 1 \in 0 .. k
          BY <2>1, <4>2
        <5>2. f[n] = RemoveLastChar(f[n - 1])
          BY <3>2, <4>2, <5>1
        <5>3. g[n] = f[n] /\ g[n - 1] = f[n - 1]
          BY <2>1, <4>2, <5>1
        <5>. QED BY <4>2, <5>2, <5>3
      <4>3. CASE n # k /\ n = 0
        <5>1. f[0] = s
          BY <3>1, <3>2
        <5>. QED BY <4>3, <5>1
      <4>. QED BY <4>1, <4>2, <4>3
    <3>4. Solves(g, k)
      BY <3>3
    <3>. QED BY <2>1, <3>4
  <2>. QED BY <2>2, <2>3
<1>. DEFINE deleted == CHOOSE f : Solves(f, size)
<1>2. Solves(deleted, size)
  <2>. HIDE DEF Solves
  <2>1. \E f : Solves(f, size)
    BY <1>1
  <2>. QED BY <2>1
<1>3. DeleteChars(s, size) = deleted[size]
  BY DEF DeleteChars
<1>. HIDE DEF deleted
<1>4. deleted[0] = s /\ \A n \in 1 .. size : deleted[n] = RemoveLastChar(deleted[n - 1])
  BY <1>2
<1>. QED BY <1>3, <1>4

-----------------------------------------------------------------------------
(* Screens on which m characters of a line stand before the cursor, unless *)
(* the window had been displaced.                                          *)

Reads(s, at, line_, n) == \A i \in 0 .. n - 1 : Look(s, at + i) = line_[i]
Stable(shown, s) == Typed(s) /\ (shown => Fits(s))
Follows(shown, s, line_, m) ==
  /\ Stable(shown, s) /\ m <= Place(s)
  /\ shown => Reads(s, Place(s) - m, line_, m)

LEMMA PutFollows ==
  ASSUME NEW shown \in BOOLEAN, NEW s, NEW text, NEW m \in Nat, NEW c \in Marks,
         Follows(shown, s, text, m), m + 1 <= LastRow, text[m] = c
  PROVE  Follows(shown, Put(s, c), text, m + 1)
<1>. DEFINE t == Put(s, c)
            R == Place(s)
            Q == Place(t)
            d == R + 1 - Q
<1>1. Typed(s) /\ (shown => Fits(s)) /\ m <= R /\ (shown => Reads(s, R - m, text, m))
  BY DEF Follows, Stable
<1>2. Typed(t) /\ (Q = R + 1 \/ (Q = LastRow /\ R + 1 = Area))
      /\ (Fits(s) => Fits(t) /\ Printed(t, s, c))
  BY <1>1, PutLooks
<1>3. R \in Nat /\ Q \in Nat /\ LastRow \in Nat /\ Area \in Nat /\ Area = LastRow + Width
      /\ Width \in Nat
  BY <1>1, <1>2, TypedStands, Sizes
<1>. HIDE DEF t
<1>4. m + 1 <= Q
  BY <1>1, <1>2, <1>3
<1>5. ASSUME shown PROVE Reads(t, Q - (m + 1), text, m + 1)
  <2>1. Printed(t, s, c) /\ Reads(s, R - m, text, m)
    BY <1>1, <1>2, <1>5
  <2>. SUFFICES ASSUME NEW i \in 0 .. (m + 1) - 1
                PROVE  Look(t, (Q - (m + 1)) + i) = text[i]
    BY DEF Reads
  <2>. DEFINE j == (Q - (m + 1)) + i
  <2>2. j \in 0 .. Q - 1 /\ j + d = (R - m) + i /\ (j + d = R <=> i = m)
    BY <1>1, <1>3, <1>4
  <2>. HIDE DEF j
  <2>3. Look(t, j) = IF j + d = R THEN c ELSE Look(s, j + d)
    BY <2>1, <2>2 DEF Printed
  <2>4. CASE i = m
    BY <2>2, <2>3, <2>4 DEF j
  <2>5. CASE i # m
    <3>1. i \in 0 .. m - 1
      BY <2>5
    <3>2. Look(s, (R - m) + i) = text[i]
      BY <2>1, <3>1 DEF Reads
    <3>. QED BY <2>2, <2>3, <2>5, <3>2 DEF j
  <2>. QED BY <2>4, <2>5
<1>. QED BY <1>1, <1>2, <1>4, <1>5 DEF Follows, Stable, t

(* A string that is printed becomes the next characters of the line. *)
LEMMA PrintFollows ==
  ASSUME NEW shown \in BOOLEAN, NEW s, NEW text, NEW m \in Nat, NEW string \in Seq(Marks),
         Follows(shown, s, text, m), m + Len(string) <= LastRow,
         \A i \in 1 .. Len(string) : text[m + i - 1] = string[i]
  PROVE  Follows(shown, PrintString(s, string), text, m + Len(string))
<1>. DEFINE size == Len(string)
<1>0. size \in Nat /\ m + size <= LastRow
  OBVIOUS
<1>p. PICK f : PrintedBy(f, s, string, Len(string))
  BY PrintUnfolds
<1>1. /\ PrintString(s, string) = f[size]
      /\ f[0] = s
      /\ \A n \in 1 .. size : f[n] = Put(f[n - 1], string[n])
  BY <1>p DEF PrintedBy
<1>. DEFINE Bad == {n \in Nat : n <= size /\ ~Follows(shown, f[n], text, m + n)}
<1>2. Bad = {}
  <2>. SUFFICES ASSUME Bad # {} PROVE FALSE
    OBVIOUS
  <2>1. PICK n \in Bad : \A j \in Bad : n <= j
    BY LeastNumber
  <2>2. n \in Nat /\ n <= size /\ ~Follows(shown, f[n], text, m + n)
    BY <2>1
  <2>3. n # 0
    <3>1. m + 0 = m
      OBVIOUS
    <3>. QED BY <1>1, <2>2, <3>1
  <2>4. n - 1 \in Nat /\ n \in 1 .. size /\ ~(n <= n - 1) /\ n - 1 <= size
    BY <1>0, <2>2, <2>3
  <2>5. Follows(shown, f[n - 1], text, m + (n - 1))
    BY <2>1, <2>4
  <2>6. /\ m + (n - 1) \in Nat /\ (m + (n - 1)) + 1 = m + n /\ (m + (n - 1)) + 1 <= LastRow
        /\ m + n - 1 = m + (n - 1)
    BY <1>0, <2>4, Sizes
  <2>7. string[n] \in Marks /\ text[m + (n - 1)] = string[n]
    <3>1. string[n] \in Marks
      BY <2>4
    <3>2. text[m + n - 1] = string[n]
      BY <2>4
    <3>. QED BY <2>6, <3>1, <3>2
  <2>8. Follows(shown, Put(f[n - 1], string[n]), text, (m + (n - 1)) + 1)
    BY <2>5, <2>6, <2>7, PutFollows
  <2>. QED BY <1>1, <2>2, <2>4, <2>6, <2>8
<1>3. Follows(shown, f[size], text, m + size)
  BY <1>0, <1>2
<1>. QED BY <1>1, <1>3

(* A string of any length leaves the window displayed. *)
LEMMA PrintStable ==
  ASSUME NEW shown \in BOOLEAN, NEW s, NEW string \in Seq(Marks), Stable(shown, s)
  PROVE  Stable(shown, PrintString(s, string))
<1>. DEFINE size == Len(string)
<1>1. size \in Nat
  OBVIOUS
<1>p. PICK f : PrintedBy(f, s, string, Len(string))
  BY PrintUnfolds
<1>2. /\ PrintString(s, string) = f[size]
      /\ f[0] = s
      /\ \A n \in 1 .. size : f[n] = Put(f[n - 1], string[n])
  BY <1>p DEF PrintedBy
<1>. DEFINE Bad == {n \in Nat : n <= size /\ ~Stable(shown, f[n])}
<1>3. Bad = {}
  <2>. SUFFICES ASSUME Bad # {} PROVE FALSE
    OBVIOUS
  <2>1. PICK n \in Bad : \A j \in Bad : n <= j
    BY LeastNumber
  <2>2. n \in Nat /\ n <= size /\ ~Stable(shown, f[n])
    BY <2>1
  <2>3. n # 0
    BY <1>2, <2>2
  <2>4. n - 1 \in Nat /\ n \in 1 .. size /\ ~(n <= n - 1) /\ n - 1 <= size
    BY <1>1, <2>2, <2>3
  <2>5. Stable(shown, f[n - 1])
    BY <2>1, <2>4
  <2>6. string[n] \in Marks
    BY <2>4
  <2>7. Stable(shown, Put(f[n - 1], string[n]))
    BY <2>5, <2>6, PutLooks DEF Stable
  <2>. QED BY <1>2, <2>2, <2>4, <2>7
<1>4. Stable(shown, f[size])
  BY <1>1, <1>3
<1>. QED BY <1>2, <1>4

(* Deleting steps back and leaves what is before. *)
LEMMA DeleteLooks ==
  ASSUME NEW s, Typed(s), NEW size \in Nat, size <= Place(s)
  PROVE  LET t == DeleteChars(s, size)
         IN  /\ Typed(t) /\ Place(t) = Place(s) - size /\ Origin(t) = Origin(s)
             /\ t.display_start = s.display_start /\ (Fits(t) <=> Fits(s))
             /\ \A j \in 0 .. Place(t) - 1 : Look(t, j) = Look(s, j)
<1>. DEFINE Deleted(t, n) ==
              /\ Typed(t) /\ Place(t) = Place(s) - n /\ Origin(t) = Origin(s)
              /\ t.display_start = s.display_start /\ (Fits(t) <=> Fits(s))
              /\ \A j \in 0 .. Place(t) - 1 : Look(t, j) = Look(s, j)
<1>1. PICK f : /\ DeleteChars(s, size) = f[size]
               /\ f[0] = s
               /\ \A n \in 1 .. size : f[n] = RemoveLastChar(f[n - 1])
  BY DeleteUnfolds
<1>2. Place(s) \in Nat
  BY TypedStands, Sizes
<1>. DEFINE Bad == {n \in Nat : n <= size /\ ~Deleted(f[n], n)}
<1>3. Bad = {}
  <2>. SUFFICES ASSUME Bad # {} PROVE FALSE
    OBVIOUS
  <2>. HIDE DEF Deleted
  <2>1. PICK n \in Bad : \A j \in Bad : n <= j
    BY LeastNumber
  <2>2. n \in Nat /\ n <= size /\ ~Deleted(f[n], n)
    BY <2>1
  <2>3. n # 0
    <3>1. Place(s) - 0 = Place(s)
      BY <1>2
    <3>2. Deleted(s, 0)
      BY <3>1 DEF Deleted
    <3>. QED BY <1>1, <2>2, <3>2
  <2>4. n - 1 \in Nat /\ n \in 1 .. size /\ ~(n <= n - 1) /\ n - 1 <= size
    BY <2>2, <2>3
  <2>5. Deleted(f[n - 1], n - 1)
    BY <2>1, <2>4
  <2>. DEFINE u == f[n - 1]
              t == RemoveLastChar(u)
  <2>6. Typed(u) /\ Place(u) = Place(s) - (n - 1) /\ Place(u) > 0
    BY <1>2, <2>4, <2>5 DEF Deleted
  <2>. HIDE DEF u
  <2>7. /\ Typed(t) /\ Place(t) = Place(u) - 1 /\ Origin(t) = Origin(u)
        /\ t.display_start = u.display_start /\ (Fits(t) <=> Fits(u))
        /\ \A j \in 0 .. Place(t) - 1 : Look(t, j) = Look(u, j)
    BY <2>6, RemoveLooks
  <2>. HIDE DEF t
  <2>8. Place(t) = Place(s) - n /\ \A j \in 0 .. Place(t) - 1 : j \in 0 .. Place(u) - 1
    BY <1>2, <2>4, <2>6, <2>7
  <2>9. Deleted(t, n)
    BY <2>5, <2>7, <2>8 DEF Deleted, u
  <2>. QED BY <1>1, <2>2, <2>4, <2>9 DEF t, u
<1>4. Deleted(f[size], size)
  <2>. HIDE DEF Deleted
  <2>. QED BY <1>3
<1>. QED BY <1>1, <1>4

-----------------------------------------------------------------------------
(* Screens that show a line of n characters with the cursor behind the     *)
(* first m of them.  After a move the window may have been displaced: the  *)
(* line is shown if the window is still displayed from its base row.       *)
Level(s) == s.display_start = Origin(s)
Synced(s) == s.cursor_position = GetPosition(s)
InWindow(s, m, n) == Typed(s) /\ m <= Place(s) /\ (Place(s) - m) + n < Area
Draws(shown, s, line_, m, n) ==
  InWindow(s, m, n) /\ (shown => Fits(s) /\ Reads(s, Place(s) - m, line_, n))
Drawn(shown, s, line_, m, n) ==
  /\ InWindow(s, m, n)
  /\ shown /\ Level(s) => Fits(s) /\ Reads(s, Place(s) - m, line_, n)

LEMMA DrawsFollows ==
  ASSUME NEW shown \in BOOLEAN, NEW s, NEW text, NEW m \in Nat, NEW n \in Nat, m <= n,
         Draws(shown, s, text, m, n), NEW other, \A i \in 0 .. m - 1 : other[i] = text[i]
  PROVE  Follows(shown, s, other, m)
<1>1. Typed(s) /\ m <= Place(s) /\ (shown => Fits(s) /\ Reads(s, Place(s) - m, text, n))
  BY DEF Draws, InWindow
<1>2. ASSUME shown PROVE Reads(s, Place(s) - m, other, m)
  <2>1. Reads(s, Place(s) - m, text, n) /\ \A i \in 0 .. m - 1 : i \in 0 .. n - 1
    BY <1>1, <1>2
  <2>. QED BY <2>1 DEF Reads
<1>. QED BY <1>1, <1>2 DEF Follows, Stable

LEMMA FollowsDraws ==
  ASSUME NEW shown \in BOOLEAN, NEW s, NEW text, NEW m \in Nat, Follows(shown, s, text, m)
  PROVE  Draws(shown, s, text, m, m) /\ Drawn(shown, s, text, m, m)
<1>1. Typed(s) /\ m <= Place(s) /\ (shown => Fits(s) /\ Reads(s, Place(s) - m, text, m))
  BY DEF Follows, Stable
<1>2. (Place(s) - m) + m < Area
  BY <1>1, TypedStands, Sizes
<1>. QED BY <1>1, <1>2 DEF Draws, Drawn, InWindow

LEMMA DrawsLess ==
  ASSUME NEW shown \in BOOLEAN, NEW s, NEW text, NEW m \in Nat, NEW n \in Nat,
         NEW k \in Nat, k <= n, Drawn(shown, s, text, m, n)
  PROVE  Drawn(shown, s, text, m, k)
<1>1. /\ Typed(s) /\ m <= Place(s) /\ (Place(s) - m) + n < Area
      /\ shown /\ Level(s) => Fits(s) /\ Reads(s, Place(s) - m, text, n)
  BY DEF Drawn, InWindow
<1>2. (Place(s) - m) + k < Area
  BY <1>1, TypedStands, Sizes
<1>3. Reads(s, Place(s) - m, text, n) => Reads(s, Place(s) - m, text, k)
  BY DEF Reads
<1>. QED BY <1>1, <1>2, <1>3 DEF Drawn, InWindow

LEMMA MoveDraws ==
  ASSUME NEW shown \in BOOLEAN, NEW s, NEW text, NEW m \in Nat, NEW n \in Nat,
         Draws(shown, s, text, m, n), NEW k \in Int, m + k \in 0 .. n
  PROVE  Drawn(shown, MoveCursorBy(s, k), text, m + k, n)
<1>. DEFINE t == MoveCursorBy(s, k)
            a == Place(s) - m
<1>1. /\ Typed(s) /\ m <= Place(s) /\ a + n < Area
      /\ shown => Fits(s) /\ Reads(s, a, text, n)
  BY DEF Draws, InWindow
<1>2. Place(s) \in Nat /\ Area \in Nat
  BY <1>1, TypedStands, Sizes
<1>3. Place(s) + k \in 0 .. Area - 1
  BY <1>1, <1>2
<1>4. /\ Typed(t) /\ Place(t) = Place(s) + k
      /\ Fits(s) /\ Level(t) => Kept(t, s)
  BY <1>1, <1>3, MoveLooks DEF Level
<1>. HIDE DEF t
<1>5. m + k <= Place(t) /\ Place(t) - (m + k) = a
  BY <1>1, <1>2, <1>4
<1>6. ASSUME shown, Level(t) PROVE Fits(t) /\ Reads(t, a, text, n)
  <2>1. Fits(s) /\ Reads(s, a, text, n) /\ Kept(t, s)
    BY <1>1, <1>4, <1>6
  <2>2. Fits(t) /\ \A j : Look(t, j) = Look(s, j)
    BY <2>1, KeptLooks
  <2>. QED BY <2>1, <2>2 DEF Reads
<1>. HIDE DEF a
<1>7. InWindow(t, m + k, n)
  BY <1>1, <1>4, <1>5 DEF InWindow
<1>. QED BY <1>5, <1>6, <1>7 DEF Drawn, t

LEMMA SyncDrawn ==
  ASSUME NEW shown \in BOOLEAN, NEW s, NEW text, NEW m, NEW n,
         Drawn(shown, s, text, m, n)
  PROVE  Drawn(shown, SyncCursor(s), text, m, n) /\ Synced(SyncCursor(s))
<1>. DEFINE t == SyncCursor(s)
<1>1. /\ Typed(s) /\ m <= Place(s) /\ (Place(s) - m) + n < Area
      /\ shown /\ Level(s) => Fits(s) /\ Reads(s, Place(s) - m, text, n)
  BY DEF Drawn, InWindow
<1>2. Typed(t) /\ Place(t) = Place(s) /\ Kept(t, s) /\ Synced(t)
  BY <1>1, SyncLooks DEF Synced
<1>. HIDE DEF t
<1>3. (Level(t) <=> Level(s)) /\ (Fits(t) <=> Fits(s)) /\ \A j : Look(t, j) = Look(s, j)
  BY <1>2, KeptLooks DEF Kept, Level
<1>4. Reads(s, Place(s) - m, text, n) => Reads(t, Place(t) - m, text, n)
  BY <1>2, <1>3 DEF Reads
<1>5. InWindow(t, m, n)
  BY <1>1, <1>2 DEF InWindow
<1>. QED BY <1>1, <1>2, <1>3, <1>4, <1>5 DEF Drawn, t

LEMMA SyncFollows ==
  ASSUME NEW shown \in BOOLEAN, NEW s, NEW text, NEW m \in Nat, Follows(shown, s, text, m)
  PROVE  Follows(shown, SyncCursor(s), text, m) /\ Synced(SyncCursor(s))
<1>. DEFINE t == SyncCursor(s)
<1>1. Typed(s) /\ m <= Place(s) /\ (shown => Fits(s) /\ Reads(s, Place(s) - m, text, m))
  BY DEF Follows, Stable
<1>2. Typed(t) /\ Place(t) = Place(s) /\ Kept(t, s) /\ Synced(t)
  BY <1>1, SyncLooks DEF Synced
<1>. HIDE DEF t
<1>3. (Fits(t) <=> Fits(s)) /\ \A j : Look(t, j) = Look(s, j)
  BY <1>2, KeptLooks
<1>4. Reads(s, Place(s) - m, text, m) => Reads(t, Place(t) - m, text, m)
  BY <1>2, <1>3 DEF Reads
<1>. QED BY <1>1, <1>2, <1>3, <1>4 DEF Follows, Stable, t

-----------------------------------------------------------------------------
(* The line that shows a text behind the prompt. *)
LineOf(buf, end) ==
  [i \in Nat |-> IF i < PromptLength THEN PromptSign
                 ELSE IF i < PromptLength + end THEN buf[i - PromptLength] ELSE Space]

LEMMA LineReads ==
  ASSUME NEW buf, NEW end \in Nat
  PROVE  /\ \A i \in 0 .. PromptLength - 1 : LineOf(buf, end)[i] = PromptSign
         /\ \A i \in 0 .. end - 1 : LineOf(buf, end)[PromptLength + i] = buf[i]
         /\ LineOf(buf, end)[PromptLength + end] = Space
<1>1. PromptLength \in Nat
  BY Sizes
<1>2. ASSUME NEW i \in 0 .. end - 1 PROVE LineOf(buf, end)[PromptLength + i] = buf[i]
  <2>1. /\ PromptLength + i \in Nat /\ ~(PromptLength + i < PromptLength)
        /\ PromptLength + i < PromptLength + end /\ (PromptLength + i) - PromptLength = i
    BY <1>1
  <2>. QED BY <2>1 DEF LineOf
<1>. QED BY <1>1, <1>2 DEF LineOf

(* What a handler prints when the cursor is in the middle: the rest of the *)
(* text, and perhaps a space.                                              *)
Eraser(e) == e \in {<<>>, <<Space>>}

LEMMA RestReads ==
  ASSUME NEW buf, NEW end, Holds(buf, end), NEW from \in Nat, from <= end,
         NEW eraser, Eraser(eraser)
  PROVE  LET string == StringAt(buf, from) \o eraser
         IN  /\ string \in Seq(Marks) /\ Len(string) = (end - from) + Len(eraser)
             /\ Len(eraser) \in 0 .. 1
             /\ \A i \in 1 .. Len(string) :
                  LineOf(buf, end)[(PromptLength + from) + i - 1] = string[i]
<1>. DEFINE rest == StringAt(buf, from)
            string == rest \o eraser
            n == end - from
<1>1. n \in Nat /\ end \in Nat /\ PromptLength \in Nat
  BY Sizes DEF Holds
<1>2. rest = [k \in 1 .. n |-> buf[from + k - 1]]
  BY StringRead
<1>3. \A k \in 1 .. n : buf[from + k - 1] \in Marks
  <2>1. ASSUME NEW k \in 1 .. n PROVE buf[from + k - 1] \in Marks
    <3>1. from + k - 1 \in 0 .. end - 1
      BY <1>1
    <3>. QED BY <3>1, Sizes DEF Holds
  <2>. QED BY <2>1
<1>. HIDE DEF rest, n
<1>4. rest \in Seq(Marks) /\ Len(rest) = n /\ \A k \in 1 .. n : rest[k] = buf[from + k - 1]
  <2>1. rest \in [1 .. n -> Marks]
    BY <1>2, <1>3
  <2>2. rest \in Seq(Marks) /\ Len(rest) = n
    BY <1>1, <2>1, SeqDef
  <2>3. \A k \in 1 .. n : rest[k] = buf[from + k - 1]
    BY <1>2
  <2>. QED BY <2>2, <2>3
<1>5. /\ eraser \in Seq(Marks) /\ Len(eraser) \in 0 .. 1
      /\ Len(eraser) = 1 => eraser[1] = Space
  <2>1. CASE eraser = <<>>
    BY <2>1, EmptySeq
  <2>2. CASE eraser = <<Space>>
    <3>1. Space \in Marks
      BY Sizes
    <3>. QED BY <2>2, <3>1
  <2>. QED BY <2>1, <2>2 DEF Eraser
<1>6. /\ string \in Seq(Marks) /\ Len(string) = n + Len(eraser)
      /\ \A i \in 1 .. n : string[i] = rest[i]
      /\ Len(eraser) = 1 => string[n + 1] = Space
  <2>1. string \in Seq(Marks) /\ Len(string) = n + Len(eraser)
    <3>1. /\ rest \o eraser \in Seq(Marks)
          /\ Len(rest \o eraser) = Len(rest) + Len(eraser)
      <4>. HIDE DEF string
      <4>. QED BY <1>4, <1>5, ConcatProperties
    <3>. QED BY <1>4, <3>1
  <2>2. \A i \in 1 .. n : string[i] = rest[i]
    BY <1>1, <1>4, <1>5
  <2>3. Len(eraser) = 1 => string[n + 1] = eraser[1]
    <3>1. ASSUME Len(eraser) = 1 PROVE string[n + 1] = eraser[1]
      <4>1. n + 1 \in 1 .. Len(rest) + Len(eraser) /\ ~(n + 1 <= Len(rest)) /\ (n + 1) - Len(rest) = 1
        BY <1>1, <1>4, <3>1 DEF n
      <4>. QED BY <1>4, <1>5, <4>1, ConcatProperties
    <3>. QED BY <3>1
  <2>. QED BY <1>5, <2>1, <2>2, <2>3
<1>. HIDE DEF string
<1>7. ASSUME NEW i \in 1 .. Len(string)
      PROVE  LineOf(buf, end)[(PromptLength + from) + i - 1] = string[i]
  <2>1. CASE i \in 1 .. n
    <3>1. from + i - 1 \in 0 .. end - 1
          /\ (PromptLength + from) + i - 1 = PromptLength + (from + i - 1)
      BY <1>1, <2>1 DEF n
    <3>2. LineOf(buf, end)[PromptLength + (from + i - 1)] = buf[from + i - 1]
      BY <1>1, <3>1, LineReads
    <3>. QED BY <1>4, <1>6, <2>1, <3>1, <3>2
  <2>2. CASE i \notin 1 .. n
    <3>1. i = n + 1 /\ Len(eraser) = 1
      <4>1. Len(string) = n + Len(eraser) /\ Len(eraser) \in 0 .. 1
        BY <1>5, <1>6
      <4>2. Len(eraser) = 0 \/ Len(eraser) = 1
        BY <4>1
      <4>. DEFINE e == Len(eraser)
                  k == Len(string)
      <4>3. k = n + e /\ (e = 0 \/ e = 1) /\ i \in 1 .. k /\ n \in Nat
        BY <1>1, <4>1, <4>2 DEF n
      <4>. HIDE DEF e, k
      <4>4. i = n + 1 /\ e = 1
        BY <2>2, <4>3
      <4>. QED BY <4>4 DEF e
    <3>2. (PromptLength + from) + i - 1 = PromptLength + end
      BY <1>1, <3>1 DEF n
    <3>. QED BY <1>1, <1>6, <3>1, <3>2, LineReads
  <2>. QED BY <2>1, <2>2
<1>. QED BY <1>5, <1>6, <1>7 DEF n, string, rest

LEMMA RedrawDraws ==
  ASSUME NEW shown \in BOOLEAN, NEW s, NEW buf, NEW end, Holds(buf, end),
         NEW from \in Nat, from <= end, NEW eraser, Eraser(eraser),
         end + Len(eraser) <= Capacity,
         Follows(shown, s, LineOf(buf, end), PromptLength + from)
  PROVE  LET t == Redraw(s, buf, from, end, eraser)
         IN  /\ Drawn(shown, t, LineOf(buf, end), PromptLength + from, PromptLength + end)
             /\ Synced(s) => Synced(t)
<1>. DEFINE t == Redraw(s, buf, from, end, eraser)
            text == LineOf(buf, end)
            m == PromptLength + from
<1>1. end \in Nat /\ PromptLength \in Nat /\ m \in Nat
  BY Sizes DEF Holds
<1>2. CASE from = end
  <2>1. t = s
    BY <1>2 DEF Redraw
  <2>2. Drawn(shown, s, text, m, m)
    BY <1>1, FollowsDraws
  <2>. QED BY <1>2, <2>1, <2>2
<1>3. CASE from # end
  <2>. DEFINE string == StringAt(buf, from) \o eraser
              size == (end - from) + Len(eraser)
              n == PromptLength + end
              full == n + Len(eraser)
              u == PrintString(s, string)
              v == MoveCursorBy(u, -size)
  <2>1. /\ string \in Seq(Marks) /\ Len(string) = size /\ Len(eraser) \in 0 .. 1
        /\ \A i \in 1 .. Len(string) : text[m + i - 1] = string[i]
    BY RestReads
  <2>2. /\ size \in Nat /\ full \in Nat /\ n \in Nat /\ n <= full /\ m + Len(string) = full
        /\ -size \in Int /\ full + (-size) = m /\ m \in 0 .. full
    BY <1>1, <2>1
  <2>3. m + Len(string) <= LastRow
    <3>1. /\ full = PromptLength + (end + Len(eraser)) /\ Len(eraser) \in Nat
          /\ PromptLength + Capacity <= LastRow /\ Capacity \in Nat /\ LastRow \in Nat
      BY <1>1, <2>1, Sizes, ConstantsTyped
    <3>2. full <= LastRow
      <4>. HIDE DEF full
      <4>. QED BY <1>1, <3>1
    <3>. HIDE DEF full
    <3>. QED BY <2>2, <3>2
  <2>. HIDE DEF string, text, m, n, full
  <2>4. Follows(shown, u, text, full)
    <3>1. Follows(shown, s, text, m)
      BY DEF text, m
    <3>2. Follows(shown, PrintString(s, string), text, m + Len(string))
      BY <1>1, <2>1, <2>3, <3>1, PrintFollows
    <3>. QED BY <2>2, <3>2
  <2>. HIDE DEF u
  <2>5. Draws(shown, u, text, full, full)
    BY <2>2, <2>4, FollowsDraws
  <2>6. Drawn(shown, v, text, full + (-size), full)
    <3>. HIDE DEF size
    <3>. QED BY <2>2, <2>5, MoveDraws
  <2>7. Drawn(shown, v, text, m, n)
    <3>. HIDE DEF v
    <3>. QED BY <1>1, <2>2, <2>6, DrawsLess
  <2>8. t = SyncCursor(v)
    BY <1>3 DEF Redraw, MoveCursorLeftN, u, string
  <2>. HIDE DEF v
  <2>9. Drawn(shown, SyncCursor(v), text, m, n) /\ Synced(SyncCursor(v))
    BY <2>7, SyncDrawn
  <2>. QED BY <2>8, <2>9 DEF text, m, n
<1>. QED BY <1>2, <1>3

LEMMA FollowsAgree ==
  ASSUME NEW shown \in BOOLEAN, NEW s, NEW text, NEW m \in Nat, Follows(shown, s, text, m),
         NEW other, \A i \in 0 .. m - 1 : other[i] = text[i]
  PROVE  Follows(shown, s, other, m)
  BY DEF Follows, Reads

(* Two texts that begin alike are shown alike so far. *)
LEMMA LinesAgree ==
  ASSUME NEW buf, NEW end \in Nat, NEW other, NEW n \in Nat, NEW k \in Nat, k <= end, k <= n,
         \A i \in 0 .. k - 1 : other[i] = buf[i]
  PROVE  \A i \in 0 .. (PromptLength + k) - 1 : LineOf(other, n)[i] = LineOf(buf, end)[i]
<1>1. PromptLength \in Nat
  BY Sizes
<1>. TAKE i \in 0 .. (PromptLength + k) - 1
<1>2. CASE i < PromptLength
  <2>1. i \in 0 .. PromptLength - 1
    BY <1>1, <1>2
  <2>. QED BY <2>1, LineReads
<1>3. CASE ~(i < PromptLength)
  <2>. DEFINE j == i - PromptLength
  <2>1. j \in 0 .. k - 1 /\ j \in 0 .. end - 1 /\ j \in 0 .. n - 1 /\ PromptLength + j = i
    BY <1>1, <1>3
  <2>. HIDE DEF j
  <2>2. /\ LineOf(other, n)[PromptLength + j] = other[j]
        /\ LineOf(buf, end)[PromptLength + j] = buf[j]
    BY <2>1, LineReads
  <2>. QED BY <2>1, <2>2
<1>. QED BY <1>2, <1>3

LEMMA HoldsEdited ==
  LInv /\ [EditorNext]_editorVars => Holds(input_buffer', data_end')
<1>. SUFFICES ASSUME LInv' PROVE Holds(input_buffer', data_end')
  BY LInvNext
<1>1. data_end' \in Nat /\ data_end' <= Capacity
  BY ConstantsTyped DEF LInv, TypeOK, Cell
<1>2. input_buffer'[data_end'] = NUL /\ \A i \in 0 .. data_end' - 1 : input_buffer'[i] \in Chars
  BY DEF LInv, Terminated
<1>. QED BY <1>1, <1>2 DEF Holds

(* The pointers of a line that is edited. *)
LEMMA PointersTyped ==
  ASSUME LInv
  PROVE  /\ cursor \in Nat /\ data_end \in Nat /\ data_end <= Capacity
         /\ ~input_ready => cursor <= data_end
         /\ PromptLength \in Nat /\ Capacity \in Nat
         /\ PromptLength + cursor \in Nat /\ PromptLength + data_end \in Nat
  BY ConstantsTyped, Sizes DEF LInv, TypeOK, Terminated, Cell

-----------------------------------------------------------------------------
(* The keys. *)

(* A screen with the line that is edited, before a key. *)
Edits(shown, s) ==
  Draws(shown, s, LineOf(input_buffer, data_end), PromptLength + cursor, PromptLength + data_end)
(* A screen with the line after the key. *)
EditsNext(shown, t) ==
  /\ Drawn(shown, t, LineOf(input_buffer', data_end'),
           PromptLength + cursor', PromptLength + data_end')
  /\ Synced(t)

LEMMA EditsFollows ==
  ASSUME LInv, ~input_ready, NEW shown \in BOOLEAN, NEW s, Edits(shown, s)
  PROVE  Follows(shown, s, LineOf(input_buffer, data_end), PromptLength + cursor)
<1>. DEFINE text == LineOf(input_buffer, data_end)
            m == PromptLength + cursor
            n == PromptLength + data_end
<1>1. Draws(shown, s, text, m, n) /\ m \in Nat /\ n \in Nat /\ m <= n
  BY PointersTyped DEF Edits
<1>2. \A i \in 0 .. m - 1 : text[i] = text[i]
  OBVIOUS
<1>. HIDE DEF text, m, n
<1>3. Follows(shown, s, text, m)
  BY <1>1, <1>2, DrawsFollows
<1>. QED BY <1>3 DEF text, m

LEMMA TextEdits ==
  ASSUME LInv, NEW c \in Chars, AddCharacter(c), NEW shown \in BOOLEAN, NEW s, Edits(shown, s)
  PROVE  EditsNext(shown, Redraw(SyncCursor(Put(s, c)), input_buffer', cursor', data_end', <<>>))
<1>. DEFINE buf == input_buffer'
            end == data_end'
            text == LineOf(buf, end)
            u == SyncCursor(Put(s, c))
            t == Redraw(u, buf, cursor', end, <<>>)
<1>1. /\ ~input_ready /\ cursor' = cursor + 1 /\ end = data_end + 1
      /\ Holds(buf, end) /\ [EditorNext]_editorVars
  BY HoldsEdited DEF AddCharacter, EditorNext
<1>2. /\ cursor \in Nat /\ data_end \in Nat /\ cursor <= data_end /\ data_end < Capacity
      /\ PromptLength \in Nat /\ Capacity \in Nat
  BY PointersTyped, AddedCharacter
<1>3. buf[cursor] = c /\ \A i \in 0 .. cursor - 1 : buf[i] = input_buffer[i]
  <2>1. ASSUME NEW i \in 0 .. cursor
        PROVE  buf[i] = IF i < cursor THEN input_buffer[i] ELSE c
    <3>1. i \in Cell /\ i <= data_end + 1 /\ (~(i < cursor) => i = cursor)
      BY <1>2 DEF Cell
    <3>. QED BY <3>1, AddedCharacter
  <2>. QED BY <1>2, <2>1
<1>4. \A i \in 0 .. (PromptLength + cursor) - 1 : text[i] = LineOf(input_buffer, data_end)[i]
  <2>. HIDE DEF buf, end
  <2>1. end \in Nat /\ cursor <= end
    BY <1>1, <1>2
  <2>. QED BY <1>2, <1>3, <2>1, LinesAgree
<1>5. text[PromptLength + cursor] = c
  <2>. HIDE DEF buf, end
  <2>1. end \in Nat /\ cursor \in 0 .. end - 1
    BY <1>1, <1>2
  <2>. QED BY <1>3, <2>1, LineReads
<1>. HIDE DEF buf, end, text
<1>. DEFINE m == PromptLength + cursor
<1>6. m \in Nat /\ m + 1 <= LastRow /\ c \in Marks
  BY <1>2, Sizes
<1>7. Follows(shown, s, text, m)
  <2>1. Follows(shown, s, LineOf(input_buffer, data_end), m)
    BY <1>1, EditsFollows
  <2>. HIDE DEF m
  <2>. QED BY <1>4, <1>6, <2>1, FollowsAgree DEF m
<1>8. Follows(shown, Put(s, c), text, m + 1)
  <2>. HIDE DEF m
  <2>. QED BY <1>5, <1>6, <1>7, PutFollows DEF m
<1>9. Follows(shown, u, text, m + 1) /\ Synced(u)
  <2>. HIDE DEF m
  <2>. QED BY <1>6, <1>8, SyncFollows
<1>. HIDE DEF u
<1>10. /\ m + 1 = PromptLength + cursor' /\ cursor' \in Nat /\ cursor' <= end
       /\ end + Len(<<>>) <= Capacity
  BY <1>1, <1>2
<1>11. /\ Drawn(shown, t, text, PromptLength + cursor', PromptLength + end)
       /\ Synced(t)
  BY <1>1, <1>9, <1>10, RedrawDraws DEF Eraser, text
<1>. QED BY <1>11 DEF EditsNext, u, text, buf, end

LEMMA TabEdits ==
  ASSUME LInv, AddString, NEW shown \in BOOLEAN, NEW s, Edits(shown, s)
  PROVE  EditsNext(shown, Redraw(SyncCursor(PrintString(s, Spaces(TabLength))),
                                 input_buffer', cursor', data_end', <<>>))
<1>. DEFINE buf == input_buffer'
            end == data_end'
            text == LineOf(buf, end)
            string == Spaces(TabLength)
            u == SyncCursor(PrintString(s, string))
            t == Redraw(u, buf, cursor', end, <<>>)
<1>1. /\ ~input_ready /\ cursor' = cursor + TabLength /\ end = data_end + TabLength
      /\ Holds(buf, end) /\ [EditorNext]_editorVars
  BY HoldsEdited DEF AddString, EditorNext
<1>2. /\ cursor \in Nat /\ data_end \in Nat /\ cursor <= data_end
      /\ data_end + TabLength < Capacity /\ PromptLength \in Nat /\ Capacity \in Nat
      /\ TabLength \in Nat
  BY PointersTyped, AddedString, ConstantsTyped
<1>3. ASSUME NEW i \in 0 .. (cursor + TabLength) - 1
      PROVE  buf[i] = IF i < cursor THEN input_buffer[i] ELSE Space
  <2>1. i \in Cell /\ i <= data_end + TabLength /\ i < cursor + TabLength
    BY <1>2 DEF Cell
  <2>. QED BY <2>1, AddedString
<1>4. \A i \in 0 .. (PromptLength + cursor) - 1 : text[i] = LineOf(input_buffer, data_end)[i]
  <2>1. \A i \in 0 .. cursor - 1 : buf[i] = input_buffer[i]
    BY <1>2, <1>3
  <2>. HIDE DEF buf, end
  <2>2. end \in Nat /\ cursor <= end
    BY <1>1, <1>2
  <2>. QED BY <1>2, <2>1, <2>2, LinesAgree
<1>5. string \in Seq(Marks) /\ Len(string) = TabLength /\ \A i \in 1 .. TabLength : string[i] = Space
  <2>1. string = [i \in 1 .. TabLength |-> Space] /\ Space \in Marks
    BY Sizes DEF Spaces
  <2>2. string \in [1 .. TabLength -> Marks]
    BY <2>1
  <2>. HIDE DEF string
  <2>3. string \in Seq(Marks) /\ Len(string) = TabLength
    BY <1>2, <2>2, SeqDef
  <2>. QED BY <2>1, <2>3
<1>. HIDE DEF string
<1>. DEFINE m == PromptLength + cursor
<1>6. ASSUME NEW i \in 1 .. TabLength
      PROVE  text[m + i - 1] = string[i]
  <2>. DEFINE j == cursor + (i - 1)
  <2>. HIDE DEF buf, end
  <2>1. /\ j \in 0 .. (cursor + TabLength) - 1 /\ ~(j < cursor) /\ j \in 0 .. end - 1 /\ end \in Nat
        /\ PromptLength + j = m + i - 1
    BY <1>1, <1>2
  <2>. HIDE DEF j
  <2>2. text[PromptLength + j] = buf[j] /\ buf[j] = Space
    BY <1>3, <2>1, LineReads
  <2>. QED BY <1>5, <2>1, <2>2
<1>. HIDE DEF buf, end, text
<1>7. m \in Nat /\ m + Len(string) <= LastRow
  <2>1. m + TabLength <= LastRow /\ m \in Nat
    BY <1>2, Sizes
  <2>. QED BY <1>5, <2>1
<1>8. Follows(shown, s, text, m)
  <2>1. Follows(shown, s, LineOf(input_buffer, data_end), m)
    BY <1>1, EditsFollows
  <2>. HIDE DEF m
  <2>. QED BY <1>4, <1>7, <2>1, FollowsAgree DEF m
<1>9. Follows(shown, PrintString(s, string), text, m + Len(string))
  <2>. HIDE DEF m
  <2>1. \A i \in 1 .. Len(string) : text[m + i - 1] = string[i]
    BY <1>5, <1>6
  <2>. QED BY <1>5, <1>7, <1>8, <2>1, PrintFollows
<1>10. /\ m + Len(string) = PromptLength + cursor' /\ cursor' \in Nat /\ cursor' <= end
       /\ m + Len(string) \in Nat
       /\ end + Len(<<>>) <= Capacity
  BY <1>1, <1>2, <1>5
<1>11. Follows(shown, u, text, PromptLength + cursor') /\ Synced(u)
  <2>. HIDE DEF m
  <2>. QED BY <1>9, <1>10, SyncFollows
<1>. HIDE DEF u
<1>12. /\ Drawn(shown, t, text, PromptLength + cursor', PromptLength + end)
       /\ Synced(t)
  BY <1>1, <1>10, <1>11, RedrawDraws DEF Eraser, text
<1>. QED BY <1>12 DEF EditsNext, u, string, text, buf, end

LEMMA BackspaceEdits ==
  ASSUME LInv, DeleteCharacter, NEW shown \in BOOLEAN, NEW s, Edits(shown, s)
  PROVE  EditsNext(shown, SyncCursor(Redraw(RemoveLastChar(s), input_buffer', cursor',
                                            data_end', <<Space>>)))
<1>. DEFINE buf == input_buffer'
            end == data_end'
            text == LineOf(buf, end)
            old == LineOf(input_buffer, data_end)
            m == PromptLength + cursor'
            u == RemoveLastChar(s)
            t == Redraw(u, buf, cursor', end, <<Space>>)
<1>1. /\ ~input_ready /\ cursor' = cursor - 1 /\ end = data_end - 1
      /\ Holds(buf, end) /\ [EditorNext]_editorVars
  BY HoldsEdited DEF DeleteCharacter, EditorNext
<1>2. /\ cursor \in Nat /\ data_end \in Nat /\ 0 < cursor /\ cursor <= data_end
      /\ data_end <= Capacity /\ PromptLength \in Nat /\ Capacity \in Nat
  BY PointersTyped, DeletedCharacter
<1>3. /\ m \in Nat /\ m + 1 = PromptLength + cursor /\ cursor' \in Nat /\ end \in Nat
      /\ cursor' <= end /\ cursor' <= data_end
  BY <1>1, <1>2
<1>4. \A i \in 0 .. m - 1 : text[i] = old[i]
  <2>1. ASSUME NEW i \in 0 .. cursor' - 1 PROVE buf[i] = input_buffer[i]
    <3>1. i \in Cell /\ i < data_end /\ i < cursor - 1
      BY <1>1, <1>2 DEF Cell
    <3>. QED BY <3>1, DeletedCharacter
  <2>. DEFINE k == cursor'
  <2>2. k \in Nat /\ k <= data_end /\ k <= end /\ \A i \in 0 .. k - 1 : buf[i] = input_buffer[i]
    BY <1>3, <2>1
  <2>. HIDE DEF buf, end, k
  <2>3. \A i \in 0 .. (PromptLength + k) - 1 : text[i] = old[i]
    BY <1>2, <1>3, <2>2, LinesAgree
  <2>. QED BY <2>3 DEF k
<1>5. Follows(shown, s, old, m + 1)
  BY <1>1, <1>3, EditsFollows
<1>. HIDE DEF buf, end, text, old, m
<1>6. /\ Typed(s) /\ m + 1 <= Place(s) /\ (shown => Fits(s) /\ Reads(s, Place(s) - (m + 1), old, m + 1))
  BY <1>5 DEF Follows, Stable
<1>7. Place(s) \in Nat /\ Place(s) > 0
  BY <1>3, <1>6, TypedStands, Sizes
<1>8. /\ Typed(u) /\ Place(u) = Place(s) - 1 /\ (Fits(u) <=> Fits(s))
      /\ \A j \in 0 .. Place(u) - 1 : Look(u, j) = Look(s, j)
  BY <1>6, <1>7, RemoveLooks
<1>. HIDE DEF u
<1>9. m <= Place(u) /\ Place(u) - m = Place(s) - (m + 1)
  BY <1>3, <1>6, <1>7, <1>8
<1>10. ASSUME shown PROVE Reads(u, Place(u) - m, text, m)
  <2>. SUFFICES ASSUME NEW i \in 0 .. m - 1
                PROVE  Look(u, (Place(u) - m) + i) = text[i]
    BY DEF Reads
  <2>1. i \in 0 .. (m + 1) - 1 /\ (Place(u) - m) + i \in 0 .. Place(u) - 1
    BY <1>3, <1>7, <1>8, <1>9
  <2>2. Look(s, (Place(s) - (m + 1)) + i) = old[i]
    BY <1>6, <1>10, <2>1 DEF Reads
  <2>. QED BY <1>4, <1>8, <1>9, <2>1, <2>2
<1>11. Follows(shown, u, text, m)
  BY <1>6, <1>8, <1>9, <1>10 DEF Follows, Stable
<1>12. Drawn(shown, t, text, m, PromptLength + end)
  <2>1. /\ Follows(shown, u, LineOf(buf, end), PromptLength + cursor')
        /\ Eraser(<<Space>>) /\ end + Len(<<Space>>) <= Capacity
    BY <1>1, <1>2, <1>3, <1>11 DEF Eraser, text, m
  <2>. QED BY <1>1, <1>3, <2>1, RedrawDraws DEF text, m
<1>. HIDE DEF t
<1>13. Drawn(shown, SyncCursor(t), text, m, PromptLength + end) /\ Synced(SyncCursor(t))
  BY <1>12, SyncDrawn
<1>. QED BY <1>13 DEF EditsNext, u, t, text, buf, end, m

(* The cursor has moved by k in the window. *)
LEMMA StepDraws ==
  ASSUME NEW shown \in BOOLEAN, NEW s, NEW text, NEW m \in Nat, NEW n \in Nat,
         Draws(shown, s, text, m, n), NEW k \in Int, m + k \in 0 .. n,
         NEW t, Typed(t), Kept(t, s), Place(t) = Place(s) + k
  PROVE  Drawn(shown, t, text, m + k, n)
<1>. DEFINE a == Place(s) - m
<1>1. /\ Typed(s) /\ m <= Place(s) /\ a + n < Area
      /\ shown => Fits(s) /\ Reads(s, a, text, n)
  BY DEF Draws, InWindow
<1>2. Place(s) \in Nat
  BY <1>1, TypedStands, Sizes
<1>3. m + k <= Place(t) /\ Place(t) - (m + k) = a
  BY <1>1, <1>2
<1>4. (Fits(t) <=> Fits(s)) /\ \A j : Look(t, j) = Look(s, j)
  BY KeptLooks
<1>5. Reads(s, a, text, n) => Reads(t, a, text, n)
  BY <1>4 DEF Reads
<1>. HIDE DEF a
<1>. QED BY <1>1, <1>3, <1>4, <1>5 DEF Drawn, InWindow

(* The keys that move the cursor. *)
LEMMA MoveEdits ==
  ASSUME LInv, NEW to \in 0 .. data_end, MoveCursor(to),
         NEW shown \in BOOLEAN, NEW t,
         Drawn(shown, t, LineOf(input_buffer, data_end), (PromptLength + cursor) + (to - cursor),
               PromptLength + data_end)
  PROVE  EditsNext(shown, SyncCursor(t))
<1>1. input_buffer' = input_buffer /\ data_end' = data_end /\ cursor' = to
  BY DEF MoveCursor
<1>2. (PromptLength + cursor) + (to - cursor) = PromptLength + cursor'
  BY <1>1, PointersTyped
<1>3. Drawn(shown, t, LineOf(input_buffer, data_end), PromptLength + cursor',
            PromptLength + data_end)
  BY <1>2
<1>4. /\ Drawn(shown, SyncCursor(t), LineOf(input_buffer, data_end), PromptLength + cursor',
               PromptLength + data_end)
      /\ Synced(SyncCursor(t))
  BY <1>3, SyncDrawn
<1>. QED BY <1>1, <1>4 DEF EditsNext

LEMMA JumpEdits ==
  ASSUME LInv, NEW to \in 0 .. data_end, MoveCursor(to),
         NEW shown \in BOOLEAN, NEW s, Edits(shown, s)
  PROVE  EditsNext(shown, SyncCursor(MoveCursorBy(s, to - cursor)))
<1>. DEFINE k == to - cursor
            m == PromptLength + cursor
            n == PromptLength + data_end
            text == LineOf(input_buffer, data_end)
<1>1. m \in Nat /\ n \in Nat /\ k \in Int /\ m + k \in 0 .. n
  BY PointersTyped
<1>2. Draws(shown, s, text, m, n)
  BY DEF Edits
<1>3. Drawn(shown, MoveCursorBy(s, k), text, m + k, n)
  <2>. HIDE DEF k, m, n, text
  <2>. QED BY <1>1, <1>2, MoveDraws
<1>. QED BY <1>3, MoveEdits

LEMMA ArrowEdits ==
  ASSUME LInv, NEW shown \in BOOLEAN, NEW s, Edits(shown, s)
  PROVE  /\ MoveCursorLeft => EditsNext(shown, SyncCursor(MoveBackwards(s)))
         /\ MoveCursorRight => EditsNext(shown, SyncCursor(MoveForward(s)))
<1>. DEFINE m == PromptLength + cursor
            n == PromptLength + data_end
            text == LineOf(input_buffer, data_end)
<1>1. /\ Draws(shown, s, text, m, n) /\ m \in Nat /\ n \in Nat
      /\ Typed(s) /\ m <= Place(s) /\ (Place(s) - m) + n < Area
  BY PointersTyped DEF Edits, Draws, InWindow
<1>2. Place(s) \in Nat /\ Area \in Nat
  BY <1>1, TypedStands, Sizes
<1>3. ASSUME MoveCursorLeft PROVE EditsNext(shown, SyncCursor(MoveBackwards(s)))
  <2>. DEFINE t == MoveBackwards(s)
              to == cursor - 1
  <2>1. ~input_ready /\ cursor # 0 /\ MoveCursor(to)
    BY <1>3 DEF MoveCursorLeft, MoveCursor
  <2>2. to \in 0 .. data_end /\ to - cursor = -1 /\ -1 \in Int /\ m + (-1) \in 0 .. n /\ m > 0
    BY <2>1, PointersTyped
  <2>3. Place(s) > 0
    BY <1>1, <1>2, <2>2
  <2>4. Typed(t) /\ Place(t) = Place(s) - 1 /\ Kept(t, s)
    BY <1>1, <2>3, BackwardsLooks
  <2>. HIDE DEF t, m, n, text
  <2>5. Place(t) = Place(s) + (-1)
    BY <1>2, <2>4
  <2>6. Drawn(shown, t, text, m + (-1), n)
    BY <1>1, <2>2, <2>4, <2>5, StepDraws
  <2>. HIDE DEF to
  <2>7. Drawn(shown, t, text, m + (to - cursor), n)
    BY <2>2, <2>6
  <2>. QED BY <2>1, <2>2, <2>7, MoveEdits DEF t, m, n, text
<1>4. ASSUME MoveCursorRight PROVE EditsNext(shown, SyncCursor(MoveForward(s)))
  <2>. DEFINE t == MoveForward(s)
              to == cursor + 1
  <2>1. ~input_ready /\ cursor # data_end /\ MoveCursor(to)
    BY <1>4 DEF MoveCursorRight, MoveCursor
  <2>2. to \in 0 .. data_end /\ to - cursor = 1 /\ 1 \in Int /\ m + 1 \in 0 .. n /\ m < n
    BY <2>1, PointersTyped
  <2>3. Place(s) + 1 < Area
    BY <1>1, <1>2, <2>2
  <2>4. Typed(t) /\ Place(t) = Place(s) + 1 /\ Kept(t, s)
    BY <1>1, <2>3, ForwardLooks DEF Advanced
  <2>. HIDE DEF t, m, n, text
  <2>5. Drawn(shown, t, text, m + 1, n)
    BY <1>1, <2>2, <2>4, StepDraws
  <2>. HIDE DEF to
  <2>6. Drawn(shown, t, text, m + (to - cursor), n)
    BY <2>2, <2>5
  <2>. QED BY <2>1, <2>2, <2>6, MoveEdits DEF t, m, n, text
<1>. QED BY <1>3, <1>4

LEMMA EscapeEdits ==
  ASSUME LInv, ~input_ready, ResetBuffer, NEW shown \in BOOLEAN, NEW s, Edits(shown, s)
  PROVE  EditsNext(shown, SyncCursor(DeleteChars(MoveCursorRightN(s, data_end - cursor), data_end)))
<1>. DEFINE m == PromptLength + cursor
            n == PromptLength + data_end
            k == data_end - cursor
            text == LineOf(input_buffer, data_end)
            empty == LineOf(input_buffer', 0)
            u == MoveCursorBy(s, k)
            t == DeleteChars(u, data_end)
<1>1. /\ m \in Nat /\ n \in Nat /\ k \in Int /\ m + k = n /\ n \in 0 .. n
      /\ data_end \in Nat /\ PromptLength \in Nat /\ n - data_end = PromptLength
  BY PointersTyped
<1>2. Draws(shown, s, text, m, n)
  BY DEF Edits
<1>3. \A i \in 0 .. PromptLength - 1 : empty[i] = text[i]
  BY <1>1, LineReads
<1>. HIDE DEF m, n, k, text, empty
<1>4. Drawn(shown, u, text, n, n)
  <2>1. Drawn(shown, u, text, m + k, n)
    BY <1>1, <1>2, MoveDraws
  <2>. QED BY <1>1, <2>1
<1>. HIDE DEF u
<1>5. /\ Typed(u) /\ n <= Place(u)
      /\ shown /\ Level(u) => Fits(u) /\ Reads(u, Place(u) - n, text, n)
  BY <1>4 DEF Drawn, InWindow
<1>6. Place(u) \in Nat /\ Area \in Nat /\ Place(u) < Area /\ data_end <= Place(u)
  <2>1. Place(u) \in Nat /\ Area \in Nat /\ Place(u) < Area
    BY <1>5, TypedStands, Sizes
  <2>2. data_end <= n
    BY <1>1 DEF n
  <2>. QED BY <1>1, <1>5, <2>1, <2>2
<1>7. /\ Typed(t) /\ Place(t) = Place(u) - data_end /\ Origin(t) = Origin(u)
      /\ t.display_start = u.display_start /\ (Fits(t) <=> Fits(u))
      /\ \A j \in 0 .. Place(t) - 1 : Look(t, j) = Look(u, j)
  BY <1>1, <1>5, <1>6, DeleteLooks
<1>. HIDE DEF t
<1>8. /\ PromptLength <= Place(t) /\ Place(t) - PromptLength = Place(u) - n
      /\ (Place(t) - PromptLength) + PromptLength < Area /\ Place(t) \in Nat
      /\ PromptLength <= n
  BY <1>1, <1>5, <1>6, <1>7
<1>9. ASSUME shown, Level(t) PROVE Fits(t) /\ Reads(t, Place(t) - PromptLength, empty, PromptLength)
  <2>1. Level(u) /\ Fits(u) /\ Reads(u, Place(u) - n, text, n)
    BY <1>5, <1>7, <1>9 DEF Level
  <2>2. ASSUME NEW i \in 0 .. PromptLength - 1
        PROVE  Look(t, (Place(t) - PromptLength) + i) = empty[i]
    <3>1. i \in 0 .. n - 1 /\ (Place(t) - PromptLength) + i \in 0 .. Place(t) - 1
      BY <1>1, <1>8
    <3>2. Look(u, (Place(u) - n) + i) = text[i]
      BY <2>1, <3>1 DEF Reads
    <3>. QED BY <1>3, <1>7, <1>8, <3>1, <3>2
  <2>. QED BY <1>7, <2>1, <2>2 DEF Reads
<1>10. Drawn(shown, t, empty, PromptLength, PromptLength)
  BY <1>7, <1>8, <1>9 DEF Drawn, InWindow
<1>11. /\ Drawn(shown, SyncCursor(t), empty, PromptLength, PromptLength)
       /\ Synced(SyncCursor(t))
  BY <1>10, SyncDrawn
<1>12. cursor' = 0 /\ data_end' = 0 /\ PromptLength + 0 = PromptLength
  BY <1>1 DEF ResetBuffer
<1>. QED BY <1>11, <1>12 DEF EditsNext, MoveCursorRightN, t, u, k, empty

-----------------------------------------------------------------------------
(* Between two lines. *)

(* A prompt begins the next line, wherever the output has ended. *)
LEMMA PromptDraws ==
  ASSUME NEW shown \in BOOLEAN, NEW s, Stable(shown, s), NEW buf
  PROVE  /\ Draws(shown, WithPrompt(s), LineOf(buf, 0), PromptLength, PromptLength)
         /\ Drawn(shown, WithPrompt(s), LineOf(buf, 0), PromptLength, PromptLength)
         /\ Synced(WithPrompt(s))
<1>. DEFINE text == LineOf(buf, 0)
            u == PrintString(s, Prompt)
<1>1. PromptLength \in Nat /\ PromptLength <= LastRow /\ 0 + PromptLength = PromptLength
  BY Sizes, ConstantsTyped
<1>2. Prompt \in Seq(Marks) /\ Len(Prompt) = PromptLength
      /\ \A i \in 1 .. PromptLength : Prompt[i] = PromptSign
  <2>1. Prompt \in [1 .. PromptLength -> Marks]
    BY DEF Prompt, Marks
  <2>2. Prompt \in Seq(Marks) /\ Len(Prompt) = PromptLength
    BY <1>1, <2>1, SeqDef
  <2>3. \A i \in 1 .. PromptLength : Prompt[i] = PromptSign
    BY DEF Prompt
  <2>. QED BY <2>2, <2>3
<1>3. ASSUME NEW i \in 1 .. Len(Prompt) PROVE text[0 + i - 1] = Prompt[i]
  <2>1. 0 + i - 1 \in 0 .. PromptLength - 1 /\ i \in 1 .. PromptLength
    BY <1>1, <1>2
  <2>. QED BY <1>2, <2>1, LineReads
<1>. HIDE DEF text
<1>4. Follows(shown, s, text, 0)
  <2>1. Typed(s) /\ Place(s) \in Nat
    BY TypedStands, Sizes DEF Stable
  <2>2. Reads(s, Place(s) - 0, text, 0)
    BY DEF Reads
  <2>. QED BY <2>1, <2>2 DEF Follows
<1>5. Follows(shown, u, text, PromptLength)
  <2>1. Follows(shown, PrintString(s, Prompt), text, 0 + Len(Prompt))
    <3>1. 0 \in Nat /\ 0 + Len(Prompt) <= LastRow
      BY <1>1, <1>2
    <3>. QED BY <1>2, <1>3, <1>4, <3>1, PrintFollows
  <2>. QED BY <1>1, <1>2, <2>1
<1>. HIDE DEF u
<1>6. Follows(shown, SyncCursor(u), text, PromptLength) /\ Synced(SyncCursor(u))
  BY <1>1, <1>5, SyncFollows
<1>7. /\ Draws(shown, SyncCursor(u), text, PromptLength, PromptLength)
      /\ Drawn(shown, SyncCursor(u), text, PromptLength, PromptLength)
  <2>. DEFINE v == SyncCursor(u)
  <2>. HIDE DEF v
  <2>1. Follows(shown, v, text, PromptLength)
    BY <1>6 DEF v
  <2>2. Draws(shown, v, text, PromptLength, PromptLength)
        /\ Drawn(shown, v, text, PromptLength, PromptLength)
    BY <1>1, <2>1, FollowsDraws
  <2>. QED BY <2>2 DEF v
<1>. QED BY <1>6, <1>7 DEF WithPrompt, u, text

LEMMA OutputStable ==
  ASSUME NEW shown \in BOOLEAN, NEW s, Stable(shown, s), NEW output \in Outputs
  PROVE  /\ Stable(shown, PrintString(s, output))
         /\ Stable(shown, MoveToNextLine(PrintString(s, output)))
<1>1. output \in Seq(Marks)
  <2>1. output \in Seq(Chars) /\ Chars \subseteq Marks
    BY OutputsAssumption DEF Marks
  <2>2. \A i \in 1 .. Len(output) : output[i] \in Marks
    BY <2>1
  <2>. QED BY <2>1, <2>2
<1>2. Stable(shown, PrintString(s, output))
  BY <1>1, PrintStable
<1>. QED BY <1>2, NextLineFits DEF Stable

(* Clearing brings the window to the top of the memory, and displays it. *)
LEMMA ClearFits ==
  ASSUME NEW r, NEW c, NEW b, NEW m \in Memories, NEW d, NEW k \in Nat,
         NEW s, s = Screen(b, r, c, m, d, k)
  PROVE  Typed(ClearScreen(s)) /\ Fits(ClearScreen(s))
<1>. DEFINE cells == Filled(m, 0, Height * Width)
            f == Fill(s, 0, Height * Width)
            u == [f EXCEPT !.base_row = 0, !.row = 0, !.column = 0]
            t == Screen(0, 0, 0, cells, 0, k)
<1>1. f = Screen(b, r, c, cells, d, k)
  BY FillUnfolds
<1>. HIDE DEF f, cells
<1>2. u = Wrapped(f, 0, 0, 0)
  BY DEF Wrapped
<1>3. u = Screen(0, 0, 0, cells, d, k)
  BY <1>1, <1>2, WrapUnfolds
<1>4. ClearScreen(s) = SetDisplayStart(u, 0)
  BY DEF ClearScreen, f
<1>. HIDE DEF u
<1>5. ClearScreen(s) = t
  BY <1>3, <1>4, DisplayUnfolds
<1>6. cells \in Memories
  BY FilledTyped DEF cells
<1>7. /\ 0 \in Bytes /\ 0 \in Rows /\ 0 \in Columns /\ 0 \in Nat /\ 0 * Width = 0
      /\ 0 <= BaseRowMax
  BY Sizes DEF Bytes, Rows, Columns
<1>. HIDE DEF t
<1>8. Typed(t) /\ (Fits(t) <=> 0 = 0 * Width /\ 0 <= BaseRowMax)
  BY <1>6, <1>7, Stands DEF t
<1>. QED BY <1>5, <1>7, <1>8

-----------------------------------------------------------------------------
(* The inductive invariant: the window is displayed from its base row      *)
(* unless it has been displaced, and while a line is edited the screen     *)
(* shows it and has the cursor where the buffer says.                      *)
ScreenShown == Typed(screen) /\ displaced \in BOOLEAN /\ (~displaced => Fits(screen))
LineDrawn == Edits(~displaced, screen) /\ Synced(screen)
ScreenInv ==
  /\ ScreenShown
  /\ Editing => LineDrawn
  /\ ~is_running => ~input_ready /\ cursor = 0

LEMMA ShowsOutput ==
  ASSUME NEW shown \in BOOLEAN, displaced \in BOOLEAN, shown = ~displaced,
         NEW t, Shows(t), Typed(t), shown /\ Level(t) => Fits(t)
  PROVE  ScreenShown'
<1>1. /\ screen' = t /\ displaced' \in BOOLEAN
      /\ ~displaced' <=> shown /\ Level(t)
  BY DEF Shows, Level, Origin
<1>2. Typed(screen') /\ (~displaced' => Fits(screen'))
  BY <1>1
<1>. QED BY <1>1, <1>2 DEF ScreenShown, Typed, Fits, Origin

LEMMA ShowsEdits ==
  ASSUME NEW shown \in BOOLEAN, displaced \in BOOLEAN, shown = ~displaced,
         NEW t, Shows(t), EditsNext(shown, t)
  PROVE  ScreenShown' /\ LineDrawn'
<1>. DEFINE text == LineOf(input_buffer', data_end')
            m == PromptLength + cursor'
            n == PromptLength + data_end'
<1>1. /\ screen' = t /\ displaced' \in BOOLEAN
      /\ ~displaced' <=> shown /\ Level(t)
  BY DEF Shows, Level, Origin
<1>2. Drawn(shown, t, text, m, n) /\ Synced(t)
  BY DEF EditsNext
<1>. HIDE DEF text, m, n
<1>3. InWindow(t, m, n) /\ (shown /\ Level(t) => Fits(t) /\ Reads(t, Place(t) - m, text, n))
  BY <1>2 DEF Drawn
<1>4. ScreenShown'
  BY <1>3, ShowsOutput DEF InWindow
<1>5. Draws(~displaced', screen', text, m, n)
  BY <1>1, <1>3 DEF Draws
<1>6. LineDrawn'
  <2>1. Synced(screen')
    BY <1>1, <1>2
  <2>. QED BY <1>5, <2>1 DEF LineDrawn, Edits, text, m, n
<1>. QED BY <1>4, <1>6

LEMMA ScreenInvInit == ConsoleInit => ScreenInv
<1>. SUFFICES ASSUME ConsoleInit PROVE ScreenInv
  OBVIOUS
<1>. DEFINE blank == [p \in Cells |-> Blank]
            r == Screen(0, 0, 0, blank, 0, 0)
            s == SyncCursor(ClearScreen(r))
<1>1. /\ Init /\ displaced = FALSE /\ is_running = TRUE /\ screen = WithPrompt(s)
  BY DEF ConsoleInit, TerminalInit, ShellInit, Screen
<1>2. /\ input_ready = FALSE /\ cursor = 0 /\ data_end = 0
  BY <1>1 DEF Init
<1>3. blank \in Memories
  BY Sizes DEF Memories
<1>4. Typed(ClearScreen(r)) /\ Fits(ClearScreen(r))
  <2>. HIDE DEF blank
  <2>. QED BY <1>3, ClearFits
<1>5. Stable(TRUE, s)
  <2>. DEFINE c == ClearScreen(r)
  <2>. HIDE DEF r
  <2>1. Typed(c) /\ Fits(c)
    BY <1>4
  <2>. HIDE DEF c
  <2>2. Typed(SyncCursor(c)) /\ Kept(SyncCursor(c), c)
    BY <2>1, SyncLooks
  <2>3. Fits(SyncCursor(c))
    BY <2>1, <2>2, KeptLooks
  <2>. QED BY <2>2, <2>3 DEF Stable, c
<1>. HIDE DEF s
<1>. DEFINE t == WithPrompt(s)
            text == LineOf(input_buffer, 0)
<1>6. Draws(TRUE, t, text, PromptLength, PromptLength) /\ Synced(t)
  BY <1>5, PromptDraws
<1>. HIDE DEF t, text
<1>7. /\ InWindow(t, PromptLength, PromptLength) /\ Fits(t)
      /\ Reads(t, Place(t) - PromptLength, text, PromptLength)
  BY <1>6 DEF Draws
<1>8. ScreenShown /\ screen = t
  BY <1>1, <1>7 DEF ScreenShown, InWindow, t
<1>9. LineDrawn
  <2>1. PromptLength + 0 = PromptLength
    BY Sizes
  <2>2. Draws(~displaced, screen, text, PromptLength, PromptLength)
    BY <1>7, <1>8 DEF Draws
  <2>3. text = LineOf(input_buffer, data_end)
        /\ PromptLength = PromptLength + cursor /\ PromptLength = PromptLength + data_end
    BY <1>2, <2>1 DEF text
  <2>4. Edits(~displaced, screen)
    <3>. HIDE DEF Draws
    <3>. QED BY <2>2, <2>3 DEF Edits
  <2>. QED BY <1>6, <1>8, <2>4 DEF LineDrawn
<1>. QED BY <1>1, <1>8, <1>9 DEF ScreenInv

(* A key, while a line is edited. *)
LEMMA ScreenInvKey ==
  ASSUME LInv, ScreenInv, EditLine
  PROVE  ScreenInv'
<1>1. /\ is_running /\ is_running' = is_running /\ Key
      /\ Typed(screen) /\ displaced \in BOOLEAN /\ (~displaced => Fits(screen))
      /\ ~input_ready => Edits(~displaced, screen)
  BY DEF EditLine, shellVars, ScreenInv, ScreenShown, LineDrawn, Editing
<1>. DEFINE shown == ~displaced
<1>2. shown \in BOOLEAN /\ (shown => Fits(screen)) /\ (~input_ready => Edits(shown, screen))
  BY <1>1
<1>3. ASSUME NEW t, Shows(t), EditsNext(shown, t)
      PROVE  ScreenInv'
  BY <1>1, <1>2, <1>3, ShowsEdits DEF ScreenInv
<1>. HIDE DEF shown
<1>4. CASE HandleText
  <2>1. PICK c \in Chars :
          /\ AddCharacter(c)
          /\ Shows(Redraw(SyncCursor(Put(screen, c)), input_buffer', cursor', data_end', <<>>))
    BY <1>4 DEF HandleText
  <2>2. ~input_ready
    BY <2>1 DEF AddCharacter
  <2>. QED BY <1>2, <1>3, <2>1, <2>2, TextEdits
<1>5. CASE HandleTab
  <2>1. /\ AddString
        /\ Shows(Redraw(SyncCursor(PrintString(screen, Spaces(TabLength))),
                        input_buffer', cursor', data_end', <<>>))
    BY <1>5 DEF HandleTab
  <2>2. ~input_ready
    BY <2>1 DEF AddString
  <2>. QED BY <1>2, <1>3, <2>1, <2>2, TabEdits
<1>6. CASE HandleBackspace
  <2>1. /\ DeleteCharacter
        /\ Shows(SyncCursor(Redraw(RemoveLastChar(screen), input_buffer', cursor',
                                   data_end', <<Space>>)))
    BY <1>6 DEF HandleBackspace
  <2>2. ~input_ready
    BY <2>1 DEF DeleteCharacter
  <2>. QED BY <1>2, <1>3, <2>1, <2>2, BackspaceEdits
<1>7. CASE HandleEscape
  <2>1. /\ ~input_ready /\ ResetBuffer
        /\ Shows(SyncCursor(DeleteChars(MoveCursorRightN(screen, data_end - cursor), data_end)))
    BY <1>7 DEF HandleEscape
  <2>. QED BY <1>2, <1>3, <2>1, EscapeEdits
<1>8. CASE HandleEnter
  <2>. DEFINE u == MoveToNextLine(screen)
              t == SyncCursor(u)
  <2>1. Enter /\ Shows(t) /\ input_ready' = TRUE
    BY <1>8 DEF HandleEnter, Enter
  <2>2. Typed(u) /\ (shown => Fits(u))
    BY <1>1, <1>2, NextLineFits
  <2>. HIDE DEF u
  <2>3. Typed(t) /\ Kept(t, u)
    BY <2>2, SyncLooks
  <2>. HIDE DEF t
  <2>4. shown => Fits(t)
    BY <2>2, <2>3, KeptLooks
  <2>5. ScreenShown'
    BY <1>1, <1>2, <2>1, <2>3, <2>4, ShowsOutput DEF shown
  <2>. QED BY <1>1, <2>1, <2>5 DEF ScreenInv, Editing
<1>9. CASE HandleHome
  <2>1. /\ MoveCursor(0) /\ ~input_ready
        /\ Shows(SyncCursor(MoveCursorLeftN(screen, cursor)))
    BY <1>9 DEF HandleHome, Home, MoveCursor
  <2>2. 0 \in 0 .. data_end /\ -cursor = 0 - cursor
    BY PointersTyped
  <2>3. Shows(SyncCursor(MoveCursorBy(screen, 0 - cursor)))
    BY <2>1, <2>2 DEF MoveCursorLeftN
  <2>. QED BY <1>2, <1>3, <2>1, <2>2, <2>3, JumpEdits
<1>10. CASE HandleEnd
  <2>1. /\ MoveCursor(data_end) /\ ~input_ready
        /\ Shows(SyncCursor(MoveCursorBy(screen, data_end - cursor)))
    BY <1>10 DEF HandleEnd, End, MoveCursor, MoveCursorRightN
  <2>2. data_end \in 0 .. data_end
    BY PointersTyped
  <2>. QED BY <1>2, <1>3, <2>1, <2>2, JumpEdits
<1>11. CASE HandleArrowLeft \/ HandleArrowRight
  <2>1. /\ ~input_ready
        /\ \/ MoveCursorLeft /\ Shows(SyncCursor(MoveBackwards(screen)))
           \/ MoveCursorRight /\ Shows(SyncCursor(MoveForward(screen)))
    BY <1>11 DEF HandleArrowLeft, HandleArrowRight, MoveCursorLeft, MoveCursorRight, MoveCursor
  <2>. QED BY <1>2, <1>3, <2>1, ArrowEdits
<1>. QED BY <1>1, <1>4, <1>5, <1>6, <1>7, <1>8, <1>9, <1>10, <1>11 DEF Key

(* The answer to a line, and the next prompt. *)
LEMMA ScreenInvAnswer ==
  ASSUME ScreenInv, AnswerLine
  PROVE  ScreenInv'
<1>. DEFINE shown == ~displaced
<1>1. /\ input_ready /\ is_running
      /\ Typed(screen) /\ displaced \in BOOLEAN /\ shown \in BOOLEAN /\ Stable(shown, screen)
  BY DEF ScreenInv, ScreenShown, Stable, AnswerLine, AnswerClear, AnswerExit, AnswerWithOutput
<1>2. cursor' = 0 /\ data_end' = 0 /\ ~input_ready'
  BY DEF AnswerLine, AnswerClear, AnswerExit, AnswerWithOutput, ResetBuffer
<1>3. ASSUME ScreenShown', LineDrawn' PROVE ScreenInv'
  BY <1>2, <1>3 DEF ScreenInv
<1>4. PromptLength + 0 = PromptLength
  BY Sizes
<1>. HIDE DEF shown
<1>5. ASSUME NEW s, Stable(shown, s), Shows(WithPrompt(s))
      PROVE  ScreenInv'
  <2>. DEFINE t == WithPrompt(s)
  <2>1. /\ Drawn(shown, t, LineOf(input_buffer', 0), PromptLength, PromptLength)
        /\ Synced(t)
    BY <1>1, <1>5, PromptDraws
  <2>. HIDE DEF t
  <2>2. EditsNext(shown, t)
    BY <1>2, <1>4, <2>1 DEF EditsNext
  <2>. QED BY <1>1, <1>3, <1>5, <2>2, ShowsEdits DEF shown, t
<1>6. CASE AnswerWithOutput
  <2>1. PICK output \in Outputs :
          \/ Shows(WithPrompt(MoveToNextLine(PrintString(screen, output))))
          \/ Shows(WithPrompt(PrintString(screen, output)))
    BY <1>6 DEF AnswerWithOutput, AfterOutput
  <2>. QED BY <1>1, <1>5, <2>1, OutputStable
<1>7. CASE AnswerClear
  <2>. DEFINE s == ClearScreen(screen)
              t == WithPrompt(s)
              text == LineOf(input_buffer', 0)
  <2>1. screen' = t /\ displaced' = FALSE
    BY <1>7 DEF AnswerClear
  <2>2. Stable(TRUE, s)
    <3>1. PICK b \in Bytes, r \in Rows, c \in Columns, m \in Memories, d \in Nat, k \in Nat :
            screen = Screen(b, r, c, m, d, k)
      BY <1>1, TypedScreen
    <3>. QED BY <3>1, ClearFits DEF Stable
  <2>. HIDE DEF s
  <2>3. Draws(TRUE, t, text, PromptLength, PromptLength) /\ Synced(t)
    BY <2>2, PromptDraws
  <2>. HIDE DEF t, text
  <2>4. /\ InWindow(t, PromptLength, PromptLength) /\ Fits(t)
        /\ Reads(t, Place(t) - PromptLength, text, PromptLength)
    BY <2>3 DEF Draws
  <2>5. ScreenShown'
    <3>1. Typed(screen') /\ Fits(screen')
      BY <2>1, <2>4 DEF InWindow
    <3>. QED BY <2>1, <3>1 DEF ScreenShown, Typed, Fits, Origin
  <2>6. LineDrawn'
    <3>1. Draws(~displaced', screen', text, PromptLength, PromptLength)
      BY <2>1, <2>4 DEF Draws
    <3>2. text = LineOf(input_buffer', data_end')
          /\ PromptLength = PromptLength + cursor' /\ PromptLength = PromptLength + data_end'
      BY <1>2, <1>4 DEF text
    <3>3. Draws(~displaced', screen', LineOf(input_buffer', data_end'),
                PromptLength + cursor', PromptLength + data_end')
      <4>. HIDE DEF Draws
      <4>. QED BY <3>1, <3>2
    <3>. QED BY <2>1, <2>3, <3>3 DEF LineDrawn, Edits, Synced, GetPosition
  <2>. QED BY <1>3, <2>5, <2>6
<1>8. CASE ~AnswerWithOutput /\ ~AnswerClear
  <2>1. AnswerExit /\ ~is_running'
    BY <1>8 DEF AnswerLine, Called, Execute
  <2>2. PICK output \in Outputs :
          Shows(SyncCursor(MoveToNextLine(PrintString(screen, output))))
    BY <2>1 DEF AnswerExit, AfterOutput
  <2>. DEFINE u == MoveToNextLine(PrintString(screen, output))
              t == SyncCursor(u)
  <2>3. Stable(shown, u)
    BY <1>1, OutputStable
  <2>. HIDE DEF u
  <2>4. Typed(t) /\ Kept(t, u)
    BY <2>3, SyncLooks DEF Stable
  <2>5. Shows(t)
    BY <2>2 DEF u
  <2>. HIDE DEF t
  <2>6. shown => Fits(t)
    BY <2>3, <2>4, KeptLooks DEF Stable
  <2>7. ScreenShown'
    BY <1>1, <2>4, <2>5, <2>6, ShowsOutput DEF shown
  <2>. QED BY <1>2, <2>1, <2>7 DEF ScreenInv, Editing
<1>. QED BY <1>6, <1>7, <1>8

LEMMA ScreenInvNext == LInv /\ ScreenInv /\ [Next]_vars => ScreenInv'
<1>. SUFFICES ASSUME LInv, ScreenInv, [Next]_vars PROVE ScreenInv'
  OBVIOUS
<1>1. ASSUME UNCHANGED terminalVars, is_running' = is_running PROVE ScreenInv'
  BY <1>1 DEF terminalVars, editorVars, ScreenInv, ScreenShown, LineDrawn, Editing, Edits, Synced,
              Typed, Fits, Origin, GetPosition, Draws, InWindow, Reads, Place, Look, ReadCell
<1>2. CASE SubmitLine \/ SearchCommand
  BY <1>1, <1>2 DEF SubmitLine, SearchCommand, ReadLine, Bisect, Found, GoRight, GoLeft, NotFound
<1>3. CASE UNCHANGED vars
  BY <1>1, <1>3 DEF vars, shellVars
<1>. QED BY <1>2, <1>3, ScreenInvKey, ScreenInvAnswer DEF Next

(* What the invariant says in the terms of the property. *)
LEMMA InvariantShows == LInv /\ ScreenInv => LineShown
<1>. SUFFICES ASSUME LInv, ScreenInv PROVE LineShown
  OBVIOUS
<1>1. /\ Typed(screen) /\ displaced \in BOOLEAN /\ (~displaced => Fits(screen))
      /\ ~is_running => ~input_ready /\ cursor = 0
      /\ Editing => Edits(~displaced, screen) /\ Synced(screen)
  BY DEF ScreenInv, ScreenShown, LineDrawn
<1>2. TerminalTypeOK
  BY <1>1 DEF TerminalTypeOK, Typed, Marks
<1>. DEFINE R == Place(screen)
            x == Origin(screen)
            a == R - (PromptLength + cursor)
            text == LineOf(input_buffer, data_end)
<1>3. R \in Nat /\ x \in Nat /\ GetPosition(screen) = x + R /\ Area \in Nat
  BY <1>1, TypedStands, Sizes
<1>4. /\ cursor \in Nat /\ data_end \in Nat /\ PromptLength \in Nat
      /\ ~input_ready => cursor <= data_end
  BY PointersTyped
<1>5. ASSUME Editing
      PROVE  /\ PromptLength + cursor <= R /\ a + (PromptLength + data_end) < Area
             /\ ~displaced => /\ screen.display_start = x
                              /\ Reads(screen, a, text, PromptLength + data_end)
  BY <1>1, <1>5 DEF Edits, Draws, InWindow, Fits
<1>6. StepsBackInWindow
  <2>. SUFFICES ASSUME ~input_ready PROVE cursor <= R
    BY DEF StepsBackInWindow, Place
  <2>1. CASE is_running
    <3>1. PromptLength + cursor <= R
      BY <1>5, <2>1 DEF Editing
    <3>. HIDE DEF R
    <3>. QED BY <1>3, <1>4, <3>1
  <2>2. CASE ~is_running
    BY <1>1, <1>3, <2>2
  <2>. QED BY <2>1, <2>2
<1>7. ASSUME Editing, ~displaced PROVE ShowsLine
  <2>1. /\ screen.display_start = x /\ Reads(screen, a, text, PromptLength + data_end)
        /\ a \in Nat /\ a + (PromptLength + data_end) < Area
    BY <1>3, <1>4, <1>5, <1>7
  <2>2. LineBegin = x + a /\ TextBegin = x + (a + PromptLength)
        /\ TextEnd = x + (a + (PromptLength + data_end)) /\ WindowEnd = x + Area
    <3>1. LineBegin = x + a
      BY <1>3, <1>4 DEF LineBegin
    <3>2. TextBegin = x + (a + PromptLength)
      BY <1>3, <1>4, <2>1, <3>1 DEF TextBegin
    <3>3. TextEnd = x + (a + (PromptLength + data_end))
      BY <1>3, <1>4, <2>1, <3>2 DEF TextEnd
    <3>4. WindowEnd = x + Area
      <4>1. Width * Height = Area
        BY Sizes DEF Area
      <4>. QED BY <2>1, <4>1 DEF WindowEnd
    <3>. QED BY <3>1, <3>2, <3>3, <3>4
  <2>3. screen.display_start <= LineBegin /\ TextEnd < WindowEnd
    <3>. HIDE DEF x, a
    <3>. QED BY <1>3, <1>4, <2>1, <2>2
  <2>4. ASSUME NEW i \in 0 .. (PromptLength + data_end) - 1
        PROVE  ReadCell(screen, x + (a + i)) = text[i]
    BY <2>1, <2>4 DEF Reads, Look
  <2>5. ASSUME NEW i \in 0 .. PromptLength - 1
        PROVE  ReadCell(screen, LineBegin + i) = PromptSign
    <3>1. i \in 0 .. (PromptLength + data_end) - 1 /\ LineBegin + i = x + (a + i)
      <4>. HIDE DEF x, a
      <4>. QED BY <1>3, <1>4, <2>1, <2>2
    <3>. QED BY <1>4, <2>4, <3>1, LineReads
  <2>6. ASSUME NEW i \in 0 .. data_end - 1
        PROVE  ReadCell(screen, TextBegin + i) = input_buffer[i]
    <3>. DEFINE j == PromptLength + i
    <3>1. j \in 0 .. (PromptLength + data_end) - 1 /\ TextBegin + i = x + (a + j)
      <4>. HIDE DEF x, a
      <4>. QED BY <1>3, <1>4, <2>1, <2>2
    <3>2. text[j] = input_buffer[i]
      BY <1>4, LineReads
    <3>. HIDE DEF j
    <3>. QED BY <2>4, <3>1, <3>2
  <2>7. screen.cursor_position = GetPosition(screen)
    BY <1>1, <1>7 DEF Synced
  <2>. QED BY <2>3, <2>5, <2>6, <2>7 DEF ShowsLine
<1>. QED BY <1>2, <1>6, <1>7 DEF LineShown

LEMMA ScreenInvAlways == Spec => []ScreenInv
  BY ScreenInvInit, ScreenInvNext, ConsoleEdits, LInvAlways, PTL DEF Spec

(* While a line is edited the window shows the prompt and the text, and    *)
(* the cursor blinks at the insertion point, for any size of the window    *)
(* that holds a full line, unless a move over a row boundary displaced it. *)
THEOREM AlwaysShowsLine == Spec => []LineShown
  BY ScreenInvAlways, InvariantShows, ConsoleEdits, LInvAlways, PTL
=============================================================================
