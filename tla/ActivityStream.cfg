\* One client whose address may hold one stream, one break of its connection: the
\* reconnection waits until the old session has noticed.  The job ends
\* and the client leaves: no deadlock check.
SPECIFICATION FairSpec
CONSTANTS
    Sessions = {s1, s2}
    NoSession = NoSession
    MaxStreams = 1
    Batch = 1
    WireCap = 1
    MaxRows <- ShortJob
    MaxIssues = 1
    MaxChanges = 1
    MaxDrops = 1
INVARIANTS
    TypeOK
    SlotsExact
    SnapshotCoversRows
PROPERTIES
    FeedImplemented
    FeedDelivers
CHECK_DEADLOCK FALSE
