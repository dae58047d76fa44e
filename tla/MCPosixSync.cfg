CONSTANTS
    Thread = {t1, t2, t3}
    NoThread = NoThread
    MaxCount = 2
    InitialCount = 0
SPECIFICATION SyncFairSpec
INVARIANTS NoLostPermit
PROPERTY TimedCallsReturn
