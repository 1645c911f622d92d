SPECIFICATION MCSpec
CONSTANTS
    MaxWriters = 2
    MaxCalls = 2
    MaxTrouble = 1
CHECK_DEADLOCK FALSE
INVARIANTS
    RequestsHold
PROPERTIES
    
    
    ShowsTheCamera
