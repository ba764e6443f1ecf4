\* Three runs, one market whose title may change, two attempts, two mishaps.
CONSTANTS
  i1 = i1
  i2 = i2
  Runs = {r1, r2, r3}
  Tickers = {m1}
  Topics = {i1, i2}
  Prefix <- Beginning
  Plan <- SearchThenResearch
  Estimate <- Estimates
  Costs <- Prices
  MaxOvershoot = 1
  Budget = 13
  MaxRetries = 2
  MaxPolls = 1
  MaxMishaps = 1
  NoFile = NoFile
  Torn = Torn
  NoTask = NoTask
SPECIFICATION Spec
SYMMETRY RunSymmetry
INVARIANTS
  BudgetKept
  NothingBoughtTwice
  ReportsAreOwn
CHECK_DEADLOCK FALSE
