SPECIFICATION FairSpec
CONSTANTS
  v1 = v1
  v2 = v2
  v3 = v3
  v4 = v4
  Images = {v1, v2, v3}
  Meta <- MCRotation
  Factory = v1
  Single = TRUE
  ProductId = 7
  MaxAttempts = 2
  AttemptsMax = 4
  FloorEntries = 4
  CounterMod = 8
  Retries = 2
  MaxInstalls = 2
  MaxFaults = 1
  Blank = Blank
  Torn = Torn
  None = None
INVARIANTS
  FloorsCarried
PROPERTIES
  Recovers
