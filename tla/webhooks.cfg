SPECIFICATION FairSpec
CONSTANTS
  Hooks = {k1}
  Events = {1}
  Workers = {w1, w2}
  Operators = {o1, o2}
  MaxAttempts = 2
  DisableAfter = 2
  MaxCrashes = 1
  MaxOps = 1
  Slow = TRUE
  None = None
INVARIANTS
  WebhookTypeOK
  DeliveredWasAcknowledged
  GivesUpOnlyAfterTrying
PROPERTIES
  EveryDeliveryEnds
CHECK_DEADLOCK FALSE
