CONSTANTS
  DirPayloads = {5}
  SpeedPayloads = {}
  AebPayloads = {}
  AuthPayloads = {TRUE}
  AutoparkFrames = TRUE
  EmergencyFrames = FALSE
  TofDistances = {}
SPECIFICATION FairSpec
PROPERTY ParkRequestServed
