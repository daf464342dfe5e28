CONSTANTS
    a1 = a1
    a2 = a2
    Apps = {a1}
    MaxFaults = 2
    MaxChanges = 3
    MaxRestarts = 1
    EarlyReports = FALSE
    Inherits = Inherits
SPECIFICATION FairSpec
INVARIANTS Consistent OnlyConsented
PROPERTIES ExclusionsArrive
