SPECIFICATION Spec
CONSTANTS
    Hashes = {h1, h2}
    TimerInterval = 1
    SnapshotInterval = 4
    KeepSnapshots = 6
    MaxDelay = 0
    MaxTime = 8
    MaxChanges = 2
    MaxFaults = 0
INVARIANT EveryRecordFound
CHECK_DEADLOCK FALSE
