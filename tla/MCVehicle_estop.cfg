CONSTANTS
  DirPayloads <- Forward
  SpeedPayloads <- Fast
  AebPayloads = {}
  AuthPayloads = {TRUE}
  AutoparkFrames = FALSE
  EmergencyFrames = TRUE
  TofDistances = {}
SPECIFICATION Spec
PROPERTY StopHolds
