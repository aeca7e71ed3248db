\* One monitor loop, two sources: safety and liveness.
SPECIFICATION Spec
CONSTANTS
    s1 = s1
    s2 = s2
    h1 = h1
    h2 = h2
    None = None
    t1 = t1
    t2 = t2
    Sources = {s1, s2}
    Headers = {h1}
    Threads = {t1}
    EventOf <- DistinctEvents
    EOMTimeout = 1
    RingMax = 1
    Backtrack = 2
    NarrationMin = 2
    MaxAlerts = 2
    MaxSamples = 2
INVARIANT
    TypeOK
PROPERTY
    PendingEventuallyForwarded
