SPECIFICATION ScanSpec
CONSTANTS
  ByteBits = 4
  Bytes = 3
  Widths <- WordsOnly
  ScalarTiers = 2
  Requests = {2, 3, 5, 7, 8, 11}
INVARIANTS FindsLeftmost
