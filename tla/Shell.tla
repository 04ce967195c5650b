------------------------------- MODULE Shell -------------------------------
(***************************************************************************)
(* The shell (src/apps/shell/shell.cpp): it prompts, reads a line, looks   *)
(* it up in the sorted table of commands by bisection, one pass of the     *)
(* loop per step, and executes what it found.                              *)
(***************************************************************************)
EXTENDS Integers, Sequences

CONSTANTS
  Lines,             \* what the line editor submits: trimmed, possibly empty
  Compare(_, _),     \* str_compare
  Commands,          \* COMMAND_LIST: the names, by index
  CommandFunctions,  \* COMMAND_FUNCTIONS: the functions, by index; each
                     \* stands as the line that it is named after
  ExitCommand        \* execute_exit

Size == Len(Commands)                                  \* command_list_size

ASSUME CompareAssumption ==
  /\ \A a, b \in Lines : Compare(a, b) \in Int
  /\ \A a, b \in Lines : Compare(a, b) = 0 <=> a = b
  /\ \A a, b \in Lines : Compare(a, b) < 0 <=> Compare(b, a) > 0
  /\ \A a, b, c \in Lines :
       Compare(a, b) < 0 /\ Compare(b, c) < 0 => Compare(a, c) < 0
ASSUME CommandsAssumption ==
  /\ Commands \in Seq(Lines) /\ Size < 128
  /\ \A i, j \in 1 .. Size : i < j => Compare(Commands[i], Commands[j]) < 0
  /\ DOMAIN CommandFunctions = 1 .. Size
  /\ ExitCommand \in Lines /\ <<>> \in Lines

Entry(i) == Commands[i + 1]                    \* the tables count from 0

(* Faulty variant: a command was put before the others in the names only.  *)
FunctionMisplaced(i) == CommandFunctions[IF i = 0 THEN 1 ELSE i]

Function(i) == CommandFunctions[i + 1]
None == -1

VARIABLES
  pc, line,
  left, right,      \* locals of command_exists
  index,            \* its result: an index of the table or None
  is_running

shellVars == <<pc, line, left, right, index, is_running>>

ShellInit ==
  /\ pc = "prompt" /\ line = <<>> /\ left = 0 /\ right = 0 /\ index = None
  /\ is_running = TRUE

(* input::start returns with a submitted line. *)
ReadLine ==
  /\ pc = "prompt" /\ is_running
  /\ line' \in Lines
  /\ left' = 0 /\ right' = Size
  /\ pc' = "search"
  /\ UNCHANGED <<index, is_running>>

Mid == left + (right - left) \div 2
Searching == pc = "search" /\ left < right
Result == Compare(line, Entry(Mid))

(* Faulty variant: the left end is returned. *)
FoundLeft ==
  /\ Searching /\ Result = 0
  /\ index' = left /\ pc' = "execute"
  /\ UNCHANGED <<line, left, right, is_running>>

Found ==
  /\ Searching /\ Result = 0
  /\ index' = Mid /\ pc' = "execute"
  /\ UNCHANGED <<line, left, right, is_running>>

(* Faulty variant: the middle entry is looked at again. *)
GoRightKeepingMid ==
  /\ Searching /\ Result > 0
  /\ left' = Mid
  /\ UNCHANGED <<pc, line, right, index, is_running>>

GoRight ==
  /\ Searching /\ Result > 0
  /\ left' = Mid + 1
  /\ UNCHANGED <<pc, line, right, index, is_running>>

GoLeft ==
  /\ Searching /\ Result < 0
  /\ right' = Mid
  /\ UNCHANGED <<pc, line, left, index, is_running>>

NotFound ==
  /\ pc = "search" /\ ~(left < right)
  /\ index' = None /\ pc' = "execute"
  /\ UNCHANGED <<line, left, right, is_running>>

(* The locals are gone, and input::reset has emptied the buffer. *)
Answered ==
  /\ pc' = "prompt" /\ line' = <<>> /\ left' = 0 /\ right' = 0 /\ index' = None

Execute ==
  /\ pc = "execute"
  /\ is_running' = (is_running /\ (index = None \/ Function(index) # ExitCommand))
  /\ Answered

Bisect == Found \/ GoRight \/ GoLeft \/ NotFound
ShellNext == ReadLine \/ Bisect \/ Execute

ShellSpec == ShellInit /\ [][ShellNext]_shellVars

-----------------------------------------------------------------------------
(* Types.  The bytes left, right and mid never leave the table. *)
ShellTypeOK ==
  /\ pc \in {"prompt", "search", "execute"} /\ line \in Lines
  /\ left \in 0 .. Size /\ right \in 0 .. Size
  /\ index \in -1 .. Size - 1 /\ is_running \in BOOLEAN
  /\ pc = "search" => left <= right

(* What command_exists has ruled out: the line is behind every entry below *)
(* left and before every entry from right on.                              *)
RuledOut ==
  pc = "search" =>
    /\ \A i \in 0 .. left - 1 : Compare(Entry(i), line) < 0
    /\ \A i \in right .. Size - 1 : Compare(line, Entry(i)) < 0

(* The bisection has found the line, or the line is not in the table.      *)
FindsLine ==
  pc = "execute" =>
    \/ index = None /\ \A i \in 0 .. Size - 1 : Entry(i) # line
    \/ index # None /\ Entry(index) = line

(* The function that is called is the one of the command that was typed,   *)
(* though the name is looked up in one table and the function taken from   *)
(* another; and "Command not found" is printed only for a line that is not *)
(* in the table of names.                                                  *)
ExecutesLine ==
  pc = "execute" =>
    \/ index = None /\ \A i \in 0 .. Size - 1 : Entry(i) # line
    \/ index # None /\ Function(index) = line

(* The two tables list the commands in one order (shell_commands_list.h).  *)
TablesAgree == \A i \in 0 .. Size - 1 : Function(i) = Entry(i)

(* Only the typed command exit ends the shell. *)
StopsOnExit == is_running /\ ~is_running' => line = ExitCommand
StopsOnlyOnExit == [][StopsOnExit]_shellVars
=============================================================================
