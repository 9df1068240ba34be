\* A running application and the blinking lamps do nothing more to the record.
CHECK_DEADLOCK FALSE
CONSTANTS
  BCB_MAX_COUNT = 3
  FirstImages = {"silent", "confirming"}
  NewImages <- AnyImage
  MaxUpdates = 3
  MaxResets = 7
  MaxFaults = 1
SPECIFICATION bootFairSpec
INVARIANTS TypeOK NoGap NeverStartsPartial NamesRunning
PROPERTIES ImplementsControl FallsBack
