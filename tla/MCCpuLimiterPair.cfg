CONSTANTS
    p = p
    c = c
    NoTarget = NoTarget
    NoTimer = NoTimer
    Keys <- TwoKeys
    Ancestors <- TwoAncestors
    Cycle = 2
    Awakes = {1}
    MaxLate = 0
    MaxFaults = 1
SPECIFICATION Spec
INVARIANTS Accounted
