SPECIFICATION FairSpec
CONSTANTS
    MaxUpdates = 3
    MaxBreaks = 2
    MaxStalls = 2
    MaxPending = 4
INVARIANTS
    TypeOK
    OneReconnect
    SentOnce
    NeverStuck
PROPERTIES
    Reopens
CHECK_DEADLOCK FALSE
