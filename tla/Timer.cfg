SPECIFICATION FairSpec
CONSTANTS
  Wrap = 13
  MsPerSecond = 4
  Frequencies = {0, 1, 2}
INVARIANTS NeverEarly AtMostOneLate MeasuresSleep FlagRestored
PROPERTIES SleepEnds
