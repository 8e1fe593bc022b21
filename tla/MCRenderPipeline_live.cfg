SPECIFICATION FairSpec
CONSTANTS
  MaxEpoch = 1
  MaxMerged = 1
  MayNotCompose = FALSE
  None = None
PROPERTIES DisconnectsEventually LiveIsSent TestEnds
CHECK_DEADLOCK FALSE
