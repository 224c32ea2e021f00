SPECIFICATION Spec
CONSTANTS
    desk = desk
    lap = lap
    Devices <- MCDevices
    KindsRun <- MCAll
    MidCycle <- MCNotes
    Keeps <- MCBoth
    MaxEdits = 2
    MaxFaults = 2
    MaxClock = 5
CHECK_DEADLOCK FALSE
INVARIANTS
    TypeOK
    OneCopyPerConflict
PROPERTIES
    NotesOnlyGrow
    CycleSparesUnsent
SYMMETRY MCSymmetry
