SPECIFICATION Spec
CONSTANTS
    meta = meta
    blob = blob
    cont = cont
    junk = junk
    Items <- MCMixed
    Kind <- MCKind
    Sample <- MCMixed
    AtStart <- MCMixed
    DamageAllowed = 1
    EnhancedLock <- MCOff
    TornLines = TRUE
    Deletable <- MCNone
    MaxVersion = 2
    MaxFaults = 2
CHECK_DEADLOCK FALSE
INVARIANTS
    TypeOK
    ProofIsSound
    DamagedWasUnreadable
PROPERTIES
    PublishedStays
