\* Concurrent calls against the limits that are read long before they are used.
CONSTANTS
  Attempts = {a1, a2, a3}
  Requests <- GoodRequests
  Amendments <- NoAmendments
  LiveAttempts = {a1, a2, a3}
  Production = FALSE
  AllowProduction = FALSE
  RequireConfirmation = FALSE
  HasConfirm = FALSE
  Providers = {"budget"}
  MinGrade = 0
  MaxOrderRisk = 120
  MaxOrdersPerDay = 1
  MaxNotional = 120
  MaxPosition = 3
  MaxDeviation = 10
  Positions = {0}
  Books <- TwoBooks
  NoMid = NoMid
  MaxConcurrent = 2
  MaxDay = 1
  MaxToggles = 0
  MaxMods = 0
  MaxAuditFailures = 1
  MaxCrashes = 1
  NoOrder = NoOrder
  NoMod = NoMod
SPECIFICATION Spec
SYMMETRY AttemptSymmetry
INVARIANTS
  NoUntracedOrder
  LimitsHold
PROPERTIES
  ImplementsSubmission
CHECK_DEADLOCK FALSE
