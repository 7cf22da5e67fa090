SPECIFICATION FairSpec
CONSTANTS
  v1 = v1
  v2 = v2
  v3 = v3
  v4 = v4
  Images = {v1, v2, v3, v4}
  Meta <- MCTwoProducts
  Factory = v1
  Single = FALSE
  ProductId = 0
  MaxAttempts = 2
  AttemptsMax = 4
  FloorEntries = 4
  CounterMod = 8
  Retries = 2
  MaxInstalls = 3
  MaxFaults = 2
  Blank = Blank
  Torn = Torn
  None = None
INVARIANTS
  TypeOK
  FallbackIntact
  TrialRunsBounded
  ArmedWins
  FloorCoversKept
PROPERTIES
  KeptNeverOlder
  KeptNeverRepublished
  KeepsPromise
  ReturnsToKept
