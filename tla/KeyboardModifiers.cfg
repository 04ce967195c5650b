SPECIFICATION Spec
CONSTANTS
  QueueSize = 1
  PhysicalKeys <- OneKey
  MaxStrokes = 3
INVARIANTS
  ModifiersMatchHeld
