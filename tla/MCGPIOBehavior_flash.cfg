\* A flashing light that is told to stop as it is about to toggle.
SPECIFICATION Spec
CONSTANTS
    None = None
    f1 = f1
    f2 = f2
    Pins = {1}
    Setups <- OnlyLight
    MaxWatchdogs = 2
    Flashers = {f1, f2}
    MaxFailures = 0
    MaxAlerts = 1
SYMMETRY FlasherSymmetry
INVARIANTS
    FlashLeavesPinsOff
CHECK_DEADLOCK FALSE
