SPECIFICATION PumpSpec
CONSTANTS
  Events = {e1, e2, e3}
  Poison = {e2}
  BatchSize = 2
  MaxAttempts = 3
  MaxRefusals = 4
  MaxExits = 1
INVARIANTS
  ClaimsAreCurrent
  AttemptsWithinBudget
PROPERTIES
  SettledForever
  DeliveryPromise
CHECK_DEADLOCK FALSE
