SPECIFICATION FairSpec
CONSTANTS
  Events = {e1, e2, e3}
  Poison = {e2}
  BatchSize = 2
  MaxAttempts = 2
  MaxRefusals = 2
  MaxExits = 2
PROPERTIES
  StatesMoveOneWay
CHECK_DEADLOCK FALSE
