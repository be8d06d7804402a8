\* Queue stall: a DELETE between NextQueuedJob and UpdateJobStarted.
CONSTANTS
    Jobs = {j1, j2, j3}
    Deleters = {d1}
    NoJob = NoJob
    MaxConcurrent = 1
    PurgeOnDelete = FALSE
    ResumePurges = FALSE
    PurgeQueueCap = 1
    MaxRestarts = 0
SPECIFICATION FairSpec
PROPERTIES
    QueueServed
CHECK_DEADLOCK FALSE
