SPECIFICATION ContiguousSpec
CONSTANTS
  FrameSize = 4
  ByteBits = 4
  MaxFrames = 12
  MemoryMaps <- Machines
  KernelStart = 13
  KernelEnd = 17
  MaxRun = 4
  Bytes = 3
  Widths <- WordsAndVectors
  ScalarTiers = 1
  Requests = {2, 4}
INVARIANTS Accounting KernelProtected NullMeansExhausted MissedRunsCrossHint Conservation
PROPERTIES NeverSharedFrames FreedRunFits ImplementsPmm
