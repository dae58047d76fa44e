SPECIFICATION MCSpec
CONSTANTS
  Thread = {a, b}
  Nobody = Nobody
  MaxTimer = 2
  MaxEpoch = 3
  MaxDepth = 2
  Periods = {1, 2}
  MaxDuration = 3
  NoDeadline = NoDeadline
  Overflow = Overflow
  Captures = TRUE
  NanosPerSec = 3
  Rate = 2
  TickBits = 2
  MaxSeconds = 6
  Durations = {1, 3, 4, 16}
  LastCall = 18
  MaxTime = 42
INVARIANTS
  StaleHandlesAreInert
  NoCallbackIsLost
  QuietMeansCaughtUp
PROPERTIES
  FixedRate
  ClockIsMonotonic
  
CHECK_DEADLOCK FALSE
SYMMETRY Symmetry
