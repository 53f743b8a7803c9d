SPECIFICATION FairSpec
CONSTANTS
    Hashes = {h1, h2}
    CountModulus = 3
    MaxAge = 1
    MaxBatch = 1
    MaxDelay = 1
    MaxSkew = 1
    MaxTime = 4
    MaxUpdates = 3
    MaxFaults = 1
INVARIANTS
    TypeOK
    RecordsSound
PROPERTIES
    NeverUpdatedBackwards
    OnlyLossLeavesBehind
    OldRecordsExpire
CHECK_DEADLOCK FALSE
