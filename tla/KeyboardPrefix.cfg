SPECIFICATION Spec
CONSTANTS
  QueueSize = 1
  PhysicalKeys <- PlainAndExtended
  MaxStrokes = 3
PROPERTIES
  ExtendedFollowsPrefix
