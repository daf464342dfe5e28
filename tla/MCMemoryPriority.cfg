CONSTANTS
    k1 = k1
    k2 = k2
    Keys = {k1}
    Values = {1, 2, 3}
    Ids = {1, 2, 3, 4, 5}
    Pid <- OnePid
    Claims <- TwoClaims
    MaxFaults = 1
    MaxWrites = 1
    NoCall = NoCall
    NoCommand = NoCommand
    NoClaim = NoClaim
    NoManaged = NoManaged
    NoOp = NoOp
    NoStep = NoStep
SPECIFICATION Spec
INVARIANTS Consistent Recoverable StaticOutranks ShutdownRestores
CHECK_DEADLOCK FALSE
