SPECIFICATION FairSpec
CONSTANTS
  Thread = {a}
  Worker = Worker
  Nobody = Nobody
  MaxTimer = 2
  MaxStart = 1
  Periods = {1}
  MaxDuration = 1
  NoDeadline = NoDeadline
  Overflow = Overflow
  Captures = TRUE
PROPERTY
  DropsReturn
CHECK_DEADLOCK FALSE
