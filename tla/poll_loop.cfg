SPECIFICATION FairSpec
CONSTANTS
  Releases = {1, 2}
  InplaceTries = 2
  RebootGap = 2
  RecoverAfter = 2
  ExhaustedRebuilds = 1
  Steady = TRUE
  MaxOffers = 2
  MaxFaults = 2
  None = None
PROPERTIES
  OneRebootAnHour
  InstallsAtLast
  ExhaustionEnds
