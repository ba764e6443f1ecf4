\* Two live calls, one at a time, through every check, and a dry run; with fairness.
CONSTANTS
  Attempts = {a1, a2, a3}
  Requests <- MixedRequests
  Amendments <- OneAmendment
  LiveAttempts = {a1, a2}
  Production = TRUE
  AllowProduction = TRUE
  RequireConfirmation = TRUE
  HasConfirm = TRUE
  Providers = {"position", "orderbook", "market"}
  MinGrade = 2
  MaxOrderRisk = 120
  MaxOrdersPerDay = 2
  MaxNotional = 120
  MaxPosition = 3
  MaxDeviation = 10
  Positions = {0, 2}
  Books <- TwoBooks
  NoMid = NoMid
  MaxConcurrent = 1
  MaxDay = 0
  MaxToggles = 1
  MaxMods = 1
  MaxAuditFailures = 0
  MaxCrashes = 0
  NoOrder = NoOrder
  NoMod = NoMod
SPECIFICATION FairSpec
INVARIANTS
  
  AuditAgreesWithExchange
  KillSwitchLeakBounded
  
PROPERTIES
  EveryCallEnds
CHECK_DEADLOCK FALSE
