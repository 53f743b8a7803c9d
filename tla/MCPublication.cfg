SPECIFICATION BoundedSpec
CONSTANTS
    Hashes = {h1, h2}
    TimerInterval = 1
    SnapshotInterval = 3
    KeepSnapshots = 3
    MaxDelay = 0
    MaxTime = 7
    MaxChanges = 3
    MaxFaults = 1
    InOrder = TRUE
    MaxTroubles = 1
INVARIANTS
    PublicationTypeOK
    PassedOverIsHeld
    QueueMoves
PROPERTIES
    CatchesUp
    NeverOlder
CHECK_DEADLOCK FALSE
