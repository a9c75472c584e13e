SPECIFICATION FairSpec
CONSTANTS
  Events = {e1, e2, e3}
  Poison = {e2}
  BatchSize = 2
  MaxAttempts = 2
  MaxRefusals = 7
  MaxExits = 1
INVARIANTS
  ExportedWasIngested
  OnlyPoisonIsIsolated
  ShortOutageBuriesNothing
PROPERTIES
  EveryEventSettles
  HealthyEventsDelivered
CHECK_DEADLOCK FALSE
