\* A relay that is pulsed and held: the pulse of its alert ends first.
SPECIFICATION Spec
CONSTANTS
    None = None
    f1 = f1
    f2 = f2
    Pins = {1, 2}
    Setups <- OnlyPulsedKey
    MaxWatchdogs = 2
    Flashers = {f1, f2}
    MaxFailures = 0
    MaxAlerts = 1
SYMMETRY FlasherSymmetry
INVARIANTS
    RelayHeldThroughout
CHECK_DEADLOCK FALSE
