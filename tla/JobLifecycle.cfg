\* Safety: three POSTs, a DELETE of any job at any time, one restart, purging on.
\* The jobs are finite, so the system stops when all are done: no deadlock check.
CONSTANTS
    Jobs = {j1, j2, j3}
    Deleters = {d1}
    NoJob = NoJob
    MaxConcurrent = 1
    PurgeOnDelete = TRUE
    ResumePurges = TRUE
    PurgeQueueCap = 1
    MaxRestarts = 1
SPECIFICATION Spec
SYMMETRY SymmetricActors
INVARIANTS
    TypeOK
    RunningWithinLimit
    RunningHasRun
    CancelReachesRun
PROPERTIES
    EndedNeverRestarts
    StartsInOrder
    QueueImplemented
CHECK_DEADLOCK FALSE
