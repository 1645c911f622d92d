SPECIFICATION FairSpec
CONSTANTS
    Segments = {s1, s2}
    Uploaders = {u1, u2}
    None = None
    Setups <- MCSetups
    MaxRetries = 2
    MaxLoads = 2
CHECK_DEADLOCK FALSE
INVARIANTS
    NothingLost
    UploadsAreSound
PROPERTIES
    StagingDrains
