\* Three callers, bursts of three tokens, with fairness.
CONSTANTS
  Callers = {c1, c2, c3}
  NoOne = NoOne
  MaxTokens = 3
  Costs <- RequestCosts
  MaxTime = 5
SPECIFICATION FairBucketSpec
INVARIANTS
  BucketSound
  TwiceRateBound
PROPERTIES
  EveryAcquireEnds
CHECK_DEADLOCK FALSE
