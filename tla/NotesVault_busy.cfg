SPECIFICATION Spec
CONSTANTS
    desk = desk
    lap = lap
    memo = memo
    plan = plan
    Devices <- MCDevices
    Notes <- MCOne
    First <- MCNone
    Layouts <- MCShared
    Busy = TRUE
    MaxEdits = 2
    MaxClock = 2
    MaxFaults = 1
SYMMETRY MCSymmetry
CHECK_DEADLOCK FALSE
INVARIANTS
    NothingIsLost
