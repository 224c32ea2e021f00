SPECIFICATION Spec
CONSTANTS
    desk = desk
    lap = lap
    Devices <- MCDevices
    KindsRun <- MCFile
    MidCycle <- MCNotes
    Keeps <- MCRemote
    MaxEdits = 2
    MaxFaults = 2
    MaxClock = 7
CHECK_DEADLOCK FALSE
INVARIANTS
    UnsentWorkSurvives
