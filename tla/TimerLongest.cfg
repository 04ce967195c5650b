SPECIFICATION Spec
CONSTANTS
  Wrap = 8
  MsPerSecond = 2
  Frequencies = {1}
INVARIANT DistanceCorrect
