SPECIFICATION MCSpec
CONSTANTS
    Enabled <- MCLocal
    Pref = "auto"
    Healths <- MCAllHealths
    MaxErrors = 1
    MaxStarts = 3
    MayRaise = FALSE
    SlowSchemes = FALSE
    Clients = {c1}
    MaxDoors = 4
    MaxCount = 2
    MaxSessions = 2
    MaxToggles = 2
    MaxRefusals = 1
    MaxRequests = 5
    Window = 1
    MaxRotations = 1
INVARIANTS
    
    
    DoorsServe
    RepliesMatch
PROPERTIES
    StaleTeardownSpares
