SPECIFICATION Spec
CONSTANTS
    Hashes = {h1, h2}
    TimerInterval = 1
    SnapshotInterval = 4
    KeepSnapshots = 6
    MaxDelay = 2
    MaxTime = 11
    MaxChanges = 2
    MaxFaults = 1
SYMMETRY Symmetry
INVARIANTS
    TypeOK
    Chained
    SnapshotsCovered
    ChangesPublished
CHECK_DEADLOCK FALSE
