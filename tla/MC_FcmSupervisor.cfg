SPECIFICATION MCSpec
CONSTANTS
    MaxSups = 2
    MaxClients = 2
    MaxEnsures = 2
    MaxRestarts = 1
    MaxTrouble = 1
    SoftMax = 1
    TickOverlaps = FALSE
    PurgeMayBeCut = FALSE
    MaxMessages = 3
    MaxResets = 1
    RestartsToHeal = 2
CHECK_DEADLOCK FALSE

    
    
    
PROPERTIES
    
    UnloadGoesThrough
    PushesGetThrough
