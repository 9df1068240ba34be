CONSTANTS
  DirPayloads <- Undocumented
  SpeedPayloads <- Fast
  AebPayloads = {TRUE, FALSE}
  AuthPayloads = {TRUE, FALSE}
  AutoparkFrames = TRUE
  EmergencyFrames = TRUE
  TofDistances <- NearAndFar
SPECIFICATION Spec
INVARIANTS TypeOK TofSupervised NoBlindDrive
PROPERTIES TornOnlyByInterrupt ReleasedByFrame ImplementsModes
