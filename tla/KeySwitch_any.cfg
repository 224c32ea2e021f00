SPECIFICATION Spec
CONSTANTS
    root = root
    p1 = p1
    p2 = p2
    old = old
    new = new
    nokey = nokey
    Loc <- MCLoc
    Root = root
    Active = p1
    Keys <- MCKeys
    NoKey = nokey
    New = new
    Old = old
    HeldAtStart <- MCOneKey
    MirrorAtStart <- MCBoth
    Accounts <- MCAnyone
    Gestures <- MCAny
    Newborn <- MCSecond
    KeychainMoves = TRUE
    EnhancedLock <- MCPlain
    MaxFaults = 2
CHECK_DEADLOCK FALSE
INVARIANTS
    TypeOK
    KeysRecoverable
    OldKeyRetained
    

    
