CONSTANTS
  FLOW_CONTROL_BLOCK_SIZE = 2
  Dialogues <- Both
  PeriodicTransmission = TRUE
  PeriodicBacklog = 1
  MaxRequests = 3
SPECIFICATION FairSpec
INVARIANTS TypeOK PiecesInPlace ResponsesWhole
PROPERTIES WholeUnlessDisturbed RequestAnswered
