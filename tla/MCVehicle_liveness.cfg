CONSTANTS
  DirPayloads <- Turning
  SpeedPayloads <- Fast
  AebPayloads = {TRUE}
  AuthPayloads = {TRUE, FALSE}
  AutoparkFrames = FALSE
  EmergencyFrames = FALSE
  TofDistances <- NearAndFar
SPECIFICATION FairSpec
PROPERTIES StopPrevails ObstaclePrevails LogoutPrevails LimitPrevails
