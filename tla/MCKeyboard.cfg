SPECIFICATION Spec
CONSTANTS
  QueueSize = 2
  PhysicalKeys <- CtrlAndCaps
  MaxStrokes = 4
INVARIANTS TypeOK RingConsistent PollFindsEvent HaltsInterruptible EventsFaithful
PROPERTIES ImplementsFifo
