\* Relays: three installations of two pins, two alerts, a device that fails
\* once. Streams: two injections. Both stop when their events are used up.
SPECIFICATION MCSpec
CONSTANTS
    Parts = {"relays", "stream"}
    None = None
    f1 = f1
    f2 = f2
    Pins = {1, 2}
    Setups <- Installations
    MaxWatchdogs = 2
    Flashers = {f1, f2}
    MaxFailures = 1
    MaxAlerts = 2
    Injections = {1, 2}
    Chunks = 2
    QueueMax = 3
    BufferMax = 2
    PreTarget = 1
    PreMin = 1
    PipeMax = 2
    MaxUpsets = 1
SYMMETRY FlasherSymmetry
INVARIANTS
    TypeOK
    WatchdogArmed
    FlashStoppable
    HoldsEnd
    HeldPinsStay
    HeardInOrder
    OnlyFirstLost
    OneLiveAmongAlert
CHECK_DEADLOCK FALSE
