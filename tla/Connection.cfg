SPECIFICATION Spec
CONSTANTS
  FifoSize = 1
  MaxCommands = 2
  MaxTs = 2
  WireSize = 1
  SpawnMayFail = TRUE
INVARIANTS TypeOK NoThreadOutlivesObject AnswersInOrder
PROPERTIES ConnectionEnds CommandsServed
