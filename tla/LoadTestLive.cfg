SPECIFICATION FairSpec
CONSTANTS
    Jobs = {j1, j2, j3}
    NoJob = NoJob
    Callers = {c1}
    MaxQueueDepth = 2
    MaxConcurrent = 1
    MaxFaults = 2
PROPERTY EveryRunIsReported
CHECK_DEADLOCK FALSE
