SPECIFICATION ContiguousSpec
CONSTANTS
  FrameSize = 4
  ByteBits = 4
  MaxFrames = 14
  MemoryMaps <- OneMachine
  KernelStart = 5
  KernelEnd = 9
  MaxRun = 5
  Bytes = 3
  Widths <- WordsAndVectors
  ScalarTiers = 1
  Requests = {2, 5}
PROPERTY SearchReturns
