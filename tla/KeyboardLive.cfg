SPECIFICATION FairSpec
CONSTANTS
  QueueSize = 2
  PhysicalKeys <- OneKey
  MaxStrokes = 3
PROPERTIES EventTaken ByteRead
