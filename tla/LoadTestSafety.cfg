SPECIFICATION Spec
CONSTANTS
    Jobs = {j1, j2, j3, j4}
    NoJob = NoJob
    Callers = {c1, c2}
    MaxQueueDepth = 1
    MaxConcurrent = 1
    MaxFaults = 1
INVARIANTS
    TypeOK
    QueueOvershootBounded
PROPERTIES
    ResultsAreFinal
    KeepsALedger
SYMMETRY Symmetry
CHECK_DEADLOCK FALSE
