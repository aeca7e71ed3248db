\* Two sources, two discoverers and the commands: unlocked walks; and one
\* source, two adapters and both healers: restarts that overlap.
SPECIFICATION MCSpec
CONSTANTS
    s1 = s1
    s2 = s2
    a1 = a1
    a2 = a2
    Sources = {s1, s2}
    Adapters = {a1, a2}
    Healers = {"controller", "watchdog"}
    AutoStart = {s1}
    None = None
INVARIANT NeverStranded
PROPERTIES UpSourcesKeepWatcher WatchersSettle
