\* The service is restarted while its loop is in the callback.
SPECIFICATION Spec
CONSTANTS
    s1 = s1
    s2 = s2
    h1 = h1
    h2 = h2
    t1 = t1
    t2 = t2
    None = None
    Sources = {s1}
    Headers = {h1, h2}
    Threads = {t1, t2}
    EventOf <- DistinctEvents
    EOMTimeout = 1
    RingMax = 2
    Backtrack = 1
    NarrationMin = 2
    MaxAlerts = 2
    MaxSamples = 4
INVARIANT
    SingleMonitorThread
