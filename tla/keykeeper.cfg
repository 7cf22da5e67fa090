SPECIFICATION FairSpec
CONSTANTS
  Projects = {p1}
  Period = 2
  Overlap = FALSE
  MaxTime = 4
  MaxRotations = 1
  MaxFaults = 2
  None = None
  Torn = Torn
INVARIANTS
  KeykeeperTypeOK
  SealsOpen
PROPERTIES
  SealsToCurrent
  CanSealAgain
