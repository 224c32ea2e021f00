SPECIFICATION FairSpec
CONSTANTS
    meta = meta
    blob = blob
    cont = cont
    junk = junk
    Items <- MCTrio
    Kind <- MCKind
    Sample <- MCTrio
    AtStart <- MCTwo
    DamageAllowed = 1
    EnhancedLock <- MCLock
    TornLines = FALSE
    Deletable <- MCOne
    MaxVersion = 1
    MaxFaults = 1
CHECK_DEADLOCK FALSE
INVARIANTS
    NothingForgotten
PROPERTIES
    PublishingMovesOn
