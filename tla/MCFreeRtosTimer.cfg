SPECIFICATION FairSpec
CONSTANTS
  Task = {a, b}
  Worker = Worker
  Nobody = Nobody
  MaxTimer = 2
  MaxStart = 1
  Periods = {1}
  MaxDuration = 2
  NoDeadline = NoDeadline
  Overflow = Overflow
  Captures = TRUE
  AllocFails = TRUE
  Suspends = {a}
INVARIANTS
  NoLostWake
  OnlySuspendedCallsPanic
  RolledBackServiceRuns
PROPERTIES
  ImplementsContract
  
CHECK_DEADLOCK FALSE
