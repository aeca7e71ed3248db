\* One source whose adapter is replaced between two discoveries.
SPECIFICATION MCSpec
CONSTANTS
    s1 = s1
    s2 = s2
    a1 = a1
    a2 = a2
    Sources = {s1}
    Adapters = {a1, a2}
    Healers = {}
    AutoStart = {s1}
    None = None
PROPERTY RunningSourceHeard
