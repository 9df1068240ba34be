CONSTANTS
  DirPayloads <- Straight
  SpeedPayloads = {}
  AebPayloads = {TRUE, FALSE}
  AuthPayloads = {TRUE}
  AutoparkFrames = FALSE
  EmergencyFrames = FALSE
  TofDistances = {300}
SPECIFICATION Spec
PROPERTY OffMeansOff
