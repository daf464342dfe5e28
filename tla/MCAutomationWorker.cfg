CONSTANTS
    c1 = c1
    Commands = {c1}
    Configurations <- Few
    Capacity = 1
    WindowsEvents = {"foreground"}
    MaxFaults = 1
SPECIFICATION FairSpec
INVARIANTS Consistent
PROPERTIES CommandsAnswered SettingsTakeEffect DisabledIsReleased WatchedPowerIsFollowed ShutdownEnds
CHECK_DEADLOCK FALSE
