SPECIFICATION Spec
CONSTANTS
  c1 = c1
  c2 = c2
  Cameras <- MCCameras
  Installed <- MCInstalled
  Operators = {o1, o2}
  Pinnable = {c2}
  Pinned = 3
  Rollouts = {1, 2}
  Release <- MCRelease
  Ticket <- MCTicket
  Stages <- MCStages
  Percents = {0}
  Limits = {20}
  Changes <- MCChanges
  MaxFalls = 1
  MaxOps = 2
  None = None
PROPERTIES
  StopIsFinal
