SPECIFICATION Spec
CONSTANTS
    desk = desk
    lap = lap
    memo = memo
    plan = plan
    Devices <- MCDevices
    Notes <- MCNotes
    First <- MCOne
    Layouts <- MCLayouts
    Busy = FALSE
    MaxEdits = 2
    MaxClock = 2
    MaxFaults = 1
SYMMETRY MCSymmetry
CHECK_DEADLOCK FALSE
INVARIANTS
    TypeOK
    PublishedIsFetchable
    
    SidesAgree

    
