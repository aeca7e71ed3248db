\* A second header arrives before the first one's end of message.
SPECIFICATION Spec
CONSTANTS
    s1 = s1
    s2 = s2
    h1 = h1
    h2 = h2
    t1 = t1
    t2 = t2
    None = None
    Sources = {s1}
    Headers = {h1, h2}
    Threads = {t1}
    EventOf <- SameEvents
    EOMTimeout = 1
    RingMax = 2
    Backtrack = 1
    NarrationMin = 2
    MaxAlerts = 2
    MaxSamples = 4
PROPERTY
    NeverSilentlyDropped
