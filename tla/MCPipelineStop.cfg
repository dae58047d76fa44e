CONSTANTS
    PRODUCER_COUNT = 2
    CONSUMER_COUNT = 1
    QUEUE_CAPACITY = 1
    MaxSeq = 1
SPECIFICATION Spec
INVARIANTS WorkersReportNothing
CHECK_DEADLOCK FALSE
