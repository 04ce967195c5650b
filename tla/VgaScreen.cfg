SPECIFICATION Spec
CONSTANTS
  Blank = Blank
  Chars = {a, Blank}
  Width = 2
  Height = 3
  BaseRowMax = 2
INVARIANTS DisplayFollowsBase
PROPERTIES ImplementsGrid
