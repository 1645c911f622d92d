SPECIFICATION FairSpec
CONSTANTS
    MaxProcs = 3
    MaxCalls = 2
    MaxEvents = 1
    MaxAuth = 1
    ClipOptions <- MCOptions
CHECK_DEADLOCK FALSE
INVARIANTS
    NoStrayWriter
    AuthRetriesEnd
    ClipGivesRingBack
PROPERTIES
    EveryTaskEnds
