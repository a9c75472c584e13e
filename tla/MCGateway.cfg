SPECIFICATION Spec
CONSTANTS
  SmartAliases <- MCSmartAliases
  ModelMapping <- MCModelMapping
  Family <- MCFamily
  SlashProvider <- MCSlashProvider
  BuiltInMapping <- MCBuiltInMapping
  Unsupported <- MCUnsupported
  Text <- MCText
  ToolsEnforced = TRUE
  Packs <- MCPacks
  Agents <- MCAgents
  DenyList <- MCDenyList
  AllowedHosted <- MCHosted
  CacheTtl = 2
  CacheBudget = 3
  SizeOf <- MCSizeOf
  NotJson <- MCNotJson
  Scenarios <- MCScenarios
  Registered <- MCRegistered
  Downgrades <- MCDowngrades
  UpstreamAnswers <- MCAnswers
  FailureCategories <- MCFailures
  MaxTime = 2
INVARIANTS
  EventTellsTheAnswer
  DeniedNeverSent
  NothingLostInTranslation
  AnswerIsWhole
  RouteSound
  HitIsDeserved
PROPERTIES
  StoreMakesRoom
CHECK_DEADLOCK FALSE
