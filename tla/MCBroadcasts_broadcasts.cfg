\* What must happen in the end: light, receiver, streams; and the fetch,
\* the lock, the queues and the schedule.
SPECIFICATION MCSpec
CONSTANTS
    Parts = {"forwarding", "fetch", "rwt", "sdr", "streaming", "queue", "ring", "lock"}
    Alerts <- MCAired
    Activations <- MCActivations
    MaxEvents = 2
    Copies <- MCCopies
    Endpoints = {"noaa", "ipaws"}
    Workers = {"w1", "w2"}
    Heartbeats = {"h1", "h2"}
    MaxLockEvents = 2
    Publishers = {"capture", "inject"}
    Adapters = {"watcher", "successor"}
    NameOf <- MCNameOf
    QueueLimit = 2
    ChunkLength = 2
    Wanted = 3
    MaxPublished = 2
    Schedulers = {"worker1", "worker2"}
    Operators = {"operator"}
    MaxDay = 1
    MaxRwtEvents = 2
    Loops = {1, 2, 3}
    MaxSdrEvents = 5
    Producers = {"loop","old"}
    Consumers = {"publisher", "handler"}
    RingSize = 3
    Batch = 2
    MaxSampled = 6
    Stations = {"s1"}
    Monitors = {"m1", "m2"}
    MaxAutoEvents = 4
INVARIANTS KeepsBest RepeatOnlyIfOverlapped LoopsAccountedFor RoomAfterDrop
    NoGapUnlessOverrun TakenAsAccepted
    StaleMetricsOnce RobsOnlyAfterExpiry
PROPERTIES LightSettles StreamsInTheEnd RunningSourceStreamed ImplementsLossyStream
    ImplementsElection
CHECK_DEADLOCK FALSE
