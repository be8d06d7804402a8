SPECIFICATION Spec
CONSTANTS
    Workers = {w1}
    NoWorker = NoWorker
    u = u
    v = v
    x = x
    h1 = h1
    Hosts = {h1}
    URLs = {u, v}
    Frontier = {u}
    PerHost = 2
    MaxDelay = 2
    HostOf <- OneHost
    Answers <- BusyTarget
    RobotsDelay <- DelayOne
    RetryAfter = {1, 2}
    MaxHops = 2
    Blocked = {}
    Wired = TRUE
INVARIANTS
    LoopIsReal
