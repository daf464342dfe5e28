CONSTANTS
    t1 = t1
    t2 = t2
    Keys = {t1, t2}
    Values = {0, 1, 2}
    Ids = {1, 2}
    MaxOthers = 1
    MaxFaults = 1
    NoCall = NoCall
    NoCommand = NoCommand
    NoManaged = NoManaged
SPECIFICATION FairSpec
INVARIANTS Consistent Recoverable
PROPERTIES OthersKept ThreadsResume
