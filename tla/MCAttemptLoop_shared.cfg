SPECIFICATION Spec
CONSTANTS
  anthropic = anthropic
  openai = openai
  zai = zai
  r1 = r1
  r2 = r2
  Requests <- TwoRequests
  Providers <- TwoProviders
  Routes <- TwoRoutes
  Registered <- TwoProviders
  Accounts <- TwoAccounts
  MaxRetries = 1
  Downgrading = FALSE
  Triggering = {}
  AllowedFails = 2
SYMMETRY
  RequestSymmetry
INVARIANTS
  AbortEndsRequest
  CooldownIsEarned
CHECK_DEADLOCK FALSE
