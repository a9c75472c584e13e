SPECIFICATION Spec
CONSTANTS
  Scenarios <- MCScenarios
  Attr <- MCAttr
  Faults <- MCFaults
  MaxTime = 2
  MaxBoots = 2
  MaxEntries = 1
  Retention = 1
  BufferSize = 2
  Window = 1
  Explosion = 2
  Velocity = 2
  Repetition = 2
  Accelerating = 2
  Cooldown = 1
  AlertAge = 2
  MaxHistory = 3
INVARIANTS
  ContentFollowsItsRequest
  LoopIsTold
  BooksAgree
PROPERTIES
  PruneKeepsNewest
CHECK_DEADLOCK FALSE
