CONSTANTS
    k1 = k1
    k2 = k2
    Keys = {k1, k2}
    Values = {0, 1}
    Ids = {1, 2}
    Pid <- OnePid
    MaxFaults = 2
    NoCall = NoCall
    NoCommand = NoCommand
    NoManaged = NoManaged
    NoOp = NoOp
    NoStep = NoStep
SPECIFICATION FairSpec
INVARIANTS Consistent Recoverable ShutdownThaws
PROPERTIES OwnersHold CompensationEnds
CHECK_DEADLOCK FALSE
