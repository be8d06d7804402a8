\* Two concurrent crawl_site calls against a limit of one crawl and one job an hour,
\* which both may pass, and two cancel_crawl calls.  All calls end: no deadlock check.
SPECIFICATION Spec
CONSTANTS
    Jobs = {j1, j2}
    NoJob = NoJob
    Cancels = {c1, c2}
    MaxConcurrent = 1
    MaxPerHour = 1
INVARIANTS
    ActiveHasRun
PROPERTY
    ActiveEnds
CHECK_DEADLOCK FALSE
