CONSTANTS
    Msg = {zero, m1, m2}
    Zero = zero
    WrongSize = wrong
    NoMsg = none
    Capacity = 3
    Thread = {t1, t2, t3}
    QueueCapacity = 2
SPECIFICATION PartsSpec
INVARIANTS NoLostWakeup SuccessReturnsTheValue
PROPERTIES ImplementsFifo ServiceGoesOn CallsReturn
