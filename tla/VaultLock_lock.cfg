SPECIFICATION FairSpec
CONSTANTS
    MaxTexts = 2
    MaxLocks = 3
    MaxUnlocks = 2
CHECK_DEADLOCK FALSE
INVARIANTS
    TypeOK
    NoKeyBehindAShutGate
    
PROPERTIES
    LockErases
    
