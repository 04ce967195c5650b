SPECIFICATION ScanSpec
CONSTANTS
  ByteBits = 2
  Bytes = 5
  Widths <- WordsAndVectors
  ScalarTiers = 1
  Requests = {1, 2, 3, 5, 9}
INVARIANTS LanesAligned RunTracked FindsLeftmost
