CHECK_DEADLOCK FALSE
CONSTANTS
  BCB_MAX_COUNT = 3
  FirstImages = {"silent"}
  NewImages <- AnyImage
  MaxUpdates = 2
  MaxResets = 2
  MaxFaults = 0
SPECIFICATION bootFairSpec
PROPERTY FailureRolledBack
