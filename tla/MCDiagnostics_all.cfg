CONSTANTS
  Interval <- Intervals
SPECIFICATION diagFairSpec
INVARIANTS TypeOK TaskTicks NotTooOften RoutineStops WatchLostBetween
PROPERTY TaskServed
