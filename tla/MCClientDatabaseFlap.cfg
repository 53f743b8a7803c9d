SPECIFICATION FairSpec
CONSTANTS
    MaxUpdates = 1
    MaxBreaks = 1
    MaxStalls = 0
    MaxPending = 5
PROPERTIES
    StaysUp
CHECK_DEADLOCK FALSE
