------------------------------ MODULE Console -------------------------------
(***************************************************************************)
(* The composition that the user sees: the shell reads the line that the   *)
(* editor has submitted out of the editor's own buffer, looks it up, and   *)
(* answers on the screen that the editor draws on (src/apps/shell/         *)
(* shell.cpp, src/terminal/input.cpp).  One processor runs all of it:      *)
(* keys are taken only while the shell waits for a line.                   *)
(***************************************************************************)
EXTENDS Terminal, Shell

CONSTANT ClearCommand    \* execute_clear

ASSUME LinesAssumption ==
  /\ Lines = UNION {[1 .. n -> Chars] : n \in Cell}
  /\ ClearCommand \in Lines \ {ExitCommand}

vars == <<terminalVars, shellVars>>

ConsoleInit == TerminalInit /\ ShellInit

(* start_data_receiving, until the line is ready. *)
EditLine == pc = "prompt" /\ is_running /\ Key /\ UNCHANGED shellVars

(* Faulty variant: get_cursor is read instead of read_buffer. *)
SubmitFromCursor ==
  /\ input_ready /\ ReadLine /\ line' = StringAt(input_buffer, cursor)
  /\ UNCHANGED terminalVars

(* input::start has returned; str_compare reads the buffer from here on. *)
SubmitLine ==
  /\ input_ready /\ ReadLine /\ line' = StringAt(input_buffer, 0)
  /\ UNCHANGED terminalVars

SearchCommand == Bisect /\ UNCHANGED terminalVars

(* The function that is called through the table, and the rest of the loop. *)
Called(command) == index # None /\ Function(index) = command
AnswerLine ==
  /\ Execute
  /\ \/ Called(ClearCommand) /\ AnswerClear
     \/ Called(ExitCommand) /\ AnswerExit
     \/ ~Called(ClearCommand) /\ ~Called(ExitCommand) /\ AnswerWithOutput

Next == EditLine \/ SubmitLine \/ SearchCommand \/ AnswerLine

Spec == ConsoleInit /\ [][Next]_vars

(* The processor executes the shell once a line is ready. *)
FairSpec == Spec /\ WF_shellVars((input_ready /\ ReadLine) \/ Bisect \/ Execute)

-----------------------------------------------------------------------------
Editing == is_running /\ ~input_ready

(* While a line is edited the displayed window shows the prompt followed   *)
(* by the text, and the hardware cursor blinks at the insertion point,     *)
(* also on a line of two rows, on the last row and when the window has     *)
(* just scrolled or gone back to the top of the memory: as long as no      *)
(* cursor movement went over a row boundary.  The editor never leaves the  *)
(* window nor steps back from its origin.                                  *)
LineShown ==
  /\ TerminalTypeOK /\ StepsBackInWindow
  /\ Editing /\ ~displaced => ShowsLine

(* The line that is looked up and executed is the edited text, and the     *)
(* buffer still holds it when it is answered: nothing is typed into it     *)
(* meanwhile, and no byte of an earlier line is read behind its end.       *)
ExecutesText == pc # "prompt" => input_ready /\ line = EditorText

(* Every line that the user enters is answered. *)
EnteredLineAnswered == input_ready ~> ~input_ready

(* What the documentation claims (terminal_input.md): the screen shows the *)
(* line whatever was typed, also in the middle of it.                      *)
LineAlwaysShown == Editing => ShowsLine

(* What the documentation claims (terminal_input.md, "keeping the two      *)
(* systems in sync"): the screen shows nothing behind the line that is not *)
(* in the buffer.                                                          *)
NothingAfterLine ==
  Editing /\ ~displaced =>
    \A p \in TextEnd .. WindowEnd - 1 : ReadCell(screen, p) = Blank
=============================================================================
