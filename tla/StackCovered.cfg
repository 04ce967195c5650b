SPECIFICATION Spec
CONSTANTS
  main = main
  handle = handle
  hex = hex
  find_32 = find_32
  find_avx2 = find_avx2
  Methods <- MCMethods
  IndirectCall = IndirectCall
  Main = main
  Listed <- MCListed
  IndirectTargets <- MCIndirectTargets
  ListedSize = 2
  Dependent = {handle}
  FrameSizes <- MCFrameSizes
  CallGraphs <- MCCallGraphs
INVARIANTS CoveredAtEnd
CHECK_DEADLOCK FALSE
