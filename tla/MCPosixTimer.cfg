SPECIFICATION FairSpec
CONSTANTS
  Thread = {a, b}
  Worker = Worker
  Nobody = Nobody
  MaxTimer = 2
  MaxStart = 2
  Periods = {1, 2}
  MaxDuration = 2
  NoDeadline = NoDeadline
  Overflow = Overflow
  Captures = TRUE
INVARIANTS
  HandlesPinTheService
  ServiceFollowsTheRuntime
PROPERTIES
  ImplementsContract
  DueTimersFire
CHECK_DEADLOCK FALSE
