\* Two processes that sync while a market trades and settles.
CONSTANTS
  m1 = m1
  Procs = {p1, p2}
  Tickers = {m1}
  FillKinds <- EitherSide
  Quotes = {45, 50}
  NoQuote = NoQuote
  ScalarValue = 70
  PageSize = 1
  MaxFills = 2
  MaxSyncs = 3
  MaxRows = 4
SPECIFICATION SyncSpec
SYMMETRY ProcSymmetry
INVARIANTS
  TablesFollow
  ProfitIsCash
CHECK_DEADLOCK FALSE
