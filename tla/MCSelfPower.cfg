CONSTANTS
    MaxFaults = 3
    MaxChanges = 1
SPECIFICATION FairSpec
INVARIANTS Consistent
PROPERTIES ShownIsRestored
CHECK_DEADLOCK FALSE
