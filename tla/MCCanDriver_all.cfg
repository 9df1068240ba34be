CONSTANTS
  Readings <- Drifting
  DefaultReading = 4
  FrameValues = 16
  WordValues = 64
  FifoSize = 2
  MaxSends = 3
SPECIFICATION FairSpec
INVARIANTS TypeOK ReadsWhatCame LeftOnlyBehindAnother OthersSentOnce ToldTheDistance
PROPERTIES SendReturns
