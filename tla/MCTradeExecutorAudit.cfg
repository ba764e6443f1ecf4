\* Every attempt emits an audit event.
CONSTANTS
  Attempts = {a1}
  Requests <- MixedRequests
  Amendments <- NoAmendments
  LiveAttempts = {a1}
  Production = FALSE
  AllowProduction = FALSE
  RequireConfirmation = FALSE
  HasConfirm = FALSE
  Providers = {"orderbook"}
  MinGrade = 0
  MaxOrderRisk = 120
  MaxOrdersPerDay = 1
  MaxNotional = 120
  MaxPosition = 3
  MaxDeviation = 10
  Positions = {0}
  Books <- TwoBooks
  NoMid = NoMid
  MaxConcurrent = 2
  MaxDay = 0
  MaxToggles = 0
  MaxMods = 0
  MaxAuditFailures = 0
  MaxCrashes = 0
  NoOrder = NoOrder
  NoMod = NoMod
SPECIFICATION Spec
SYMMETRY AttemptSymmetry
INVARIANTS
  EveryAttemptAudited
CHECK_DEADLOCK FALSE
