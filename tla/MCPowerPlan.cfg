CONSTANTS
    p1 = p1
    p2 = p2
    p3 = p3
    PowerKey = power
    Keys = {power}
    Values = {p1, p2, p3, a1}
    Clones = {a1}
    Ids = {1, 2, 3, 4, 5, 6}
    Reserve = 3
    MaxFaults = 2
    MaxWrites = 1
    NoCall = NoCall
    NoCommand = NoCommand
    NoPlan = NoPlan
    NoClone = NoClone
    NoSwitch = NoSwitch
SPECIFICATION Spec
INVARIANTS Consistent Recoverable ShutdownRestores
SYMMETRY PlanSymmetry
CHECK_DEADLOCK FALSE
