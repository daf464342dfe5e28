CONSTANTS
    p = p
    c = c
    NoTarget = NoTarget
    NoTimer = NoTimer
    Keys <- OneKey
    Ancestors <- OneAncestors
    Cycle = 3
    Awakes = {1}
    MaxLate = 1
    MaxFaults = 2
SPECIFICATION FairSpec
INVARIANTS Consistent OnSchedule
PROPERTIES  ShutdownEnds
