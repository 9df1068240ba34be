CONSTANTS
  FLOW_CONTROL_BLOCK_SIZE = 150
  Dialogues <- ThreeFrames
  PeriodicTransmission = FALSE
  PeriodicBacklog = 0
  MaxRequests = 2
SPECIFICATION Spec
PROPERTY HandedOverWhole
