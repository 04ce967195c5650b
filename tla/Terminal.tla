------------------------------ MODULE Terminal ------------------------------
(***************************************************************************)
(* The line editor on the screen: the key handlers of class input (src/    *)
(* terminal/input.cpp), which change the buffer and then redraw what has   *)
(* changed by moves relative to the place of the cursor, and what the      *)
(* commands print (src/apps/shell/shell.cpp).  A handler runs in the       *)
(* mainline without waiting and interrupt handlers do not print, so a key  *)
(* is one step; Console puts the steps together.  A key that the buffer    *)
(* refuses changes nothing and has no action; neither have the up, down    *)
(* and page keys, whose handlers are empty.                                *)
(***************************************************************************)
EXTENDS LineEditor, VgaText

CONSTANTS
  PromptSign,     \* a character of the prompt
  PromptLength,   \* length of "my_OS:> ", 8 in the source
  Outputs         \* the last line that a command may print

ASSUME PromptAssumption ==
  /\ PromptSign \notin Chars /\ PromptLength \in Nat
  /\ Blank = Space
(* A full line with its prompt fits the window with a row to spare. *)
ASSUME LineFitsAssumption == PromptLength + Capacity <= (Height - 1) * Width
ASSUME OutputsAssumption == Outputs \subseteq Seq(Chars)

VARIABLES
  screen,     \* the one vga_text_buffer that every output shares
  displaced   \* history: since the screen was last cleared, base_row has
              \* differed from the window that is displayed

terminalVars == <<editorVars, screen, displaced>>

Prompt == [i \in 1 .. PromptLength |-> PromptSign]
Spaces(n) == [i \in 1 .. n |-> Space]

(* The characters of a buffer from index i up to the terminator. *)
StringAt(buf, i) ==
  LET end == CHOOSE j \in i .. Capacity :
               buf[j] = NUL /\ \A k \in i .. j - 1 : buf[k] # NUL
  IN [k \in 1 .. end - i |-> buf[i + k - 1]]

PrintString(s, string) ==
  LET printed[n \in 0 .. Len(string)] ==
        IF n = 0 THEN s ELSE Put(printed[n - 1], string[n])
  IN printed[Len(string)]
DeleteChars(s, n) ==
  LET deleted[i \in 0 .. n] ==
        IF i = 0 THEN s ELSE RemoveLastChar(deleted[i - 1])
  IN deleted[n]

(* Faulty variant: the cursor is left where the rest of the line ends. *)
RedrawWithoutReturn(s, buf, from, end, eraser) ==
  IF from = end THEN s
  ELSE SyncCursor(PrintString(s, StringAt(buf, from) \o eraser))

(* What three handlers do when the cursor is in the middle of the line:    *)
(* print the rest, with a space when it has become shorter, and come back. *)
Redraw(s, buf, from, end, eraser) ==
  IF from = end THEN s
  ELSE SyncCursor(MoveCursorLeftN(
         PrintString(s, StringAt(buf, from) \o eraser),
         end - from + Len(eraser)))

Shows(s) ==
  /\ screen' = s
  /\ displaced' = (displaced \/ s.display_start # s.base_row * Width)

HandleText ==
  \E c \in Chars :
    /\ AddCharacter(c)
    /\ Shows(Redraw(SyncCursor(Put(screen, c)),
                    input_buffer', cursor', data_end', <<>>))

HandleTab ==
  /\ AddString
  /\ Shows(Redraw(SyncCursor(PrintString(screen, Spaces(TabLength))),
                  input_buffer', cursor', data_end', <<>>))

HandleBackspace ==
  /\ DeleteCharacter
  /\ Shows(SyncCursor(Redraw(RemoveLastChar(screen), input_buffer', cursor',
                             data_end', <<Space>>)))

HandleEscape ==
  /\ ~input_ready
  /\ Shows(SyncCursor(DeleteChars(
       MoveCursorRightN(screen, data_end - cursor), data_end)))
  /\ ResetBuffer

HandleEnter == Enter /\ Shows(SyncCursor(MoveToNextLine(screen)))

HandleHome == Home /\ Shows(SyncCursor(MoveCursorLeftN(screen, cursor)))
HandleEnd == End /\ Shows(SyncCursor(MoveCursorRightN(screen, data_end - cursor)))
HandleArrowLeft == MoveCursorLeft /\ Shows(SyncCursor(MoveBackwards(screen)))
HandleArrowRight == MoveCursorRight /\ Shows(SyncCursor(MoveForward(screen)))

(* shell::run between two lines: a command prints, the buffer is reset,    *)
(* the next prompt is printed.  The last line of most commands ends with a *)
(* newline, that of "pmm test" does not: the prompt follows it.            *)
AfterOutput(output) == PrintString(screen, output)
WithPrompt(s) == SyncCursor(PrintString(s, Prompt))

AnswerWithOutput ==
  /\ input_ready
  /\ \E output \in Outputs :
       \/ Shows(WithPrompt(MoveToNextLine(AfterOutput(output))))
       \/ Shows(WithPrompt(AfterOutput(output)))
  /\ ResetBuffer

(* The command clear is the only one that repositions the window. *)
AnswerClear ==
  /\ input_ready
  /\ screen' = WithPrompt(ClearScreen(screen))
  /\ displaced' = FALSE
  /\ ResetBuffer

(* The command exit: no prompt follows. *)
AnswerExit ==
  /\ input_ready
  /\ \E output \in Outputs :
       Shows(SyncCursor(MoveToNextLine(AfterOutput(output))))
  /\ ResetBuffer

TerminalInit ==
  /\ Init
  /\ displaced = FALSE
  /\ screen = WithPrompt(SyncCursor(ClearScreen(
       [base_row |-> 0, row |-> 0, column |-> 0,
        cells |-> [p \in Cells |-> Blank],
        display_start |-> 0, cursor_position |-> 0])))

(* The handlers of the keys. *)
Key ==
  \/ HandleText
  \/ HandleTab
  \/ HandleBackspace
  \/ HandleEscape
  \/ HandleEnter
  \/ HandleHome
  \/ HandleEnd
  \/ HandleArrowLeft
  \/ HandleArrowRight

-----------------------------------------------------------------------------
(* Types.  The cursor of the screen stays inside the window, so that the   *)
(* row is a byte that names a row of it, whatever the line is.             *)
TerminalTypeOK ==
  /\ screen \in Screens(Chars \cup {PromptSign})
  /\ displaced \in BOOLEAN

(* The cell of video memory where the line's prompt begins, if the cursor  *)
(* is where the buffer says.                                               *)
LineBegin == GetPosition(screen) - cursor - PromptLength
TextBegin == LineBegin + PromptLength
TextEnd == TextBegin + data_end
WindowEnd == screen.display_start + Width * Height

ShowsLine ==
  /\ screen.display_start <= LineBegin /\ TextEnd < WindowEnd
  /\ \A i \in 0 .. PromptLength - 1 :
       ReadCell(screen, LineBegin + i) = PromptSign
  /\ \A i \in 0 .. data_end - 1 :
       ReadCell(screen, TextBegin + i) = input_buffer[i]
  /\ screen.cursor_position = GetPosition(screen)

(* The editor never steps back from the origin of the window, where        *)
(* move_backwards decrements base_row, also at 0: as many places lie       *)
(* before the cursor of the screen as there are characters before that of  *)
(* the buffer, also when the line has scrolled the window, and also when a *)
(* move over a row boundary has displaced it.                              *)
StepsBackInWindow ==
  ~input_ready => cursor <= screen.row * Width + screen.column
=============================================================================
