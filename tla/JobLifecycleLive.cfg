\* Liveness of the queue when nobody deletes: three POSTs, two slots, one restart.
\* The jobs are finite, so the system stops when all are done: no deadlock check.
CONSTANTS
    Jobs = {j1, j2, j3}
    Deleters = {}
    NoJob = NoJob
    MaxConcurrent = 2
    PurgeOnDelete = FALSE
    ResumePurges = FALSE
    PurgeQueueCap = 1
    MaxRestarts = 1
SPECIFICATION FairSpec
PROPERTIES
    QueueServed
CHECK_DEADLOCK FALSE
