CONSTANTS
    MaxFaults = 3
    MaxChanges = 1
SPECIFICATION Spec
INVARIANTS ForegroundIsNotThrottled
CHECK_DEADLOCK FALSE
