SPECIFICATION PublicationSpec
CONSTANTS
    Hashes = {h1, h2}
    TimerInterval = 1
    SnapshotInterval = 3
    KeepSnapshots = 4
    MaxDelay = 0
    MaxTime = 8
    MaxChanges = 2
    MaxFaults = 0
    InOrder = TRUE
    MaxTroubles = 0
INVARIANT EveryUpdateSeen
CHECK_DEADLOCK FALSE
