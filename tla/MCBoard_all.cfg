CONSTANTS
  Dirs <- SomeDirs
  Duties <- SomeDuties
  FoundTick = 4
  Wrap = 8
  Delays <- EveryDelay
  Limits <- SomeLimits
  Horizon = 24
SPECIFICATION MCSpec
INVARIANTS TypeOK MovesAsAsked StopSurvivesCrossing BeeperSilent DelayLasts EchoTrue
PROPERTIES ParkingEnds
