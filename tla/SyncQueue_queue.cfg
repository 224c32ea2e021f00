SPECIFICATION FairSpec
CONSTANTS
    up = up
    down = down
    other = other
    s1 = s1
    s2 = s2
    Works <- MCWorks
    Downloads <- MCDownloads
    Foreign <- MCForeign
    GivenUp <- MCGivenUp
    Slots <- MCSlots
    Attempts = 2
    MaxFaults = 2
    MaxGestures = 1
CHECK_DEADLOCK FALSE
INVARIANTS
    TypeOK
    TwinsAreRearmed
    FailuresStayListed
PROPERTIES
    WaitingIsTried
