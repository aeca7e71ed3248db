\* Two monitor loops: an operator restarts the service while its loop is in
\* the callback.  One source, two events.
SPECIFICATION Spec
CONSTANTS
    s1 = s1
    s2 = s2
    h1 = h1
    h2 = h2
    t1 = t1
    t2 = t2
    None = None
    Sources = {s1}
    Headers = {h1, h2}
    Threads = {t1, t2}
    EventOf <- DistinctEvents
    EOMTimeout = 2
    RingMax = 2
    Backtrack = 1
    NarrationMin = 1
    MaxAlerts = 3
    MaxSamples = 3
INVARIANT
    AnchorsMatchPending
    Custody
    RecordingFollowsHeader
PROPERTY
    ImplementsLifecycle
    ReleasedOnlyWhenDue
