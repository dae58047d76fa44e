CONSTANTS
    Task = {a, b, c}
    Capacity = 2
    Budgets = {"NoWait", "Zero", "Finite", "Forever"}
    WakeMax = 3
SPECIFICATION FairSpec
INVARIANTS
    CreditsAccountForTokens
    NoLostWakeup
    NoPanic
PROPERTIES
    ClosedBeatsTimeout
    WaitersGetTheirTurn
CHECK_DEADLOCK FALSE
