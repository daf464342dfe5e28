CONSTANTS
    k1 = k1
    k2 = k2
    Keys = {k1, k2}
    Values = {1, 2}
    Ids = {1, 2, 3, 4, 5}
    Pid <- OnePid
    Claims <- OneClaim
    MaxFaults = 1
    MaxWrites = 0
    NoCall = NoCall
    NoCommand = NoCommand
    NoClaim = NoClaim
    NoManaged = NoManaged
    NoOp = NoOp
    NoStep = NoStep
SPECIFICATION FairSpec
INVARIANTS ReusedIdHasOneOwner
PROPERTIES PendingReleasesEnd
CHECK_DEADLOCK FALSE
