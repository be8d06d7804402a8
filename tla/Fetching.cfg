SPECIFICATION FairSpec
CONSTANTS
    Workers = {w1, w2}
    NoWorker = NoWorker
    u = u
    v = v
    x = x
    h1 = h1
    Hosts = {h1}
    URLs = {u, v, x}
    Frontier = {u}
    PerHost = 2
    MaxDelay = 2
    HostOf <- OneHost
    Answers <- LoopAnswers
    RobotsDelay <- DelayOne
    RetryAfter = {1, 2}
    MaxHops = 2
    Blocked = {x}
    Wired = TRUE
INVARIANTS
    SlotsConserved
    ThrottleKept
    ChainIsPath
PROPERTIES
    DelayRespected
    WaitersServed
