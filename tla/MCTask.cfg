CONSTANTS
    Caller = {s, c1, c2}
    Spawner = s
SPECIFICATION Spec
INVARIANTS OneReaper FinishedTellsAll EventGroupOutlivesItsUsers
PROPERTIES NothingLeaks JoinersReturn TimeoutOnlyWhileRunning
