SPECIFICATION FairSpec
CONSTANTS
    MaxUpdates = 4
    MaxBreaks = 2
    MaxExits = 2
INVARIANTS
    TypeOK
    OneOperation
    Accounted
    SessionOrder
PROPERTIES
    Settles
    ImplementsChannel
CHECK_DEADLOCK FALSE
