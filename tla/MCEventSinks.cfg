SPECIFICATION FairSpec
CONSTANTS
  old = old
  new = new
  slow = slow
  Sinks <- MCSinks
  Names <- MCNames
  NameOf <- MCNameOf
  Methods <- MCMethods
  Handlers <- MCHandlers
  Hanging <- MCHanging
  QueueLimit = 2
  MaxEvents = 4
INVARIANTS
  WorkerWhenNeeded
  EveryEventAccounted
  InOrder
PROPERTIES
  DrainMeansSettled
  HealthySinksServed
  DrainEnds
