SPECIFICATION FairSpec
CONSTANTS
  anthropic = anthropic
  openai = openai
  zai = zai
  r1 = r1
  r2 = r2
  Requests <- OneRequest
  Providers <- OneProviders
  Routes <- OneRoutes
  Registered <- OneRegistered
  Accounts <- OneAccounts
  MaxRetries = 2
  Downgrading = TRUE
  Triggering = {"auth"}
  AllowedFails = 2
INVARIANTS
  SupersededForCause
  EveryAttemptReported
  TransientFailureExhaustsRoute
PROPERTIES
  EveryRequestAnswered
CHECK_DEADLOCK FALSE
