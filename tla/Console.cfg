SPECIFICATION FairSpec
CONSTANTS
  a = a
  Space = Space
  Blank = Space
  NUL = NUL
  Chars = {a, Space}
  Capacity = 5
  TabLength = 2
  Width = 4
  Height = 3
  BaseRowMax = 1
  PromptSign = PromptSign
  PromptLength = 2
  Outputs <- MCOutputs
  Lines <- MCLines
  Compare <- StrCompare
  Commands <- MCCommands
  CommandFunctions <- MCFunctions
  ExitCommand <- MCExit
  ClearCommand <- MCClear
CONSTRAINT InWindow
INVARIANTS TypeOK LineShown ExecutesLine ExecutesText
PROPERTIES ImplementsText EnteredLineAnswered
CHECK_DEADLOCK FALSE
