SPECIFICATION StubFairSpec
CONSTANTS
  v1 = v1
  v2 = v2
  v3 = v3
  fw1 = fw1
  fw2 = fw2
  Images = {v1, v2, v3}
  Meta <- MCMeta
  Firmware <- MCFirmware
  Factory = v1
  Single = FALSE
  ProductId = 7
  MaxAttempts = 1
  StubMaxAttempts = 2
  AttemptsMax = 4
  FloorEntries = 1
  CounterMod = 8
  Retries = 2
  MaxInstalls = 3
  MaxFaults = 1
  Blank = Blank
  Torn = Torn
  None = None
INVARIANTS
  StubTypeOK
  RecordHonest
  RecordedPair
  StubTrialBounded
  StubFallback
PROPERTIES
  StubReturnsToKept
