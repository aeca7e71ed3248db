\* The monitor loop of the Icecast streams waits for a lock it holds.
SPECIFICATION AutoSpec
CONSTANTS
    Stations = {"s1"}
    Monitors = {"m1", "m2"}
    MaxAutoEvents = 4
PROPERTIES StoppedSourceDropped
CHECK_DEADLOCK FALSE
