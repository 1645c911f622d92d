SPECIFICATION MCSpec
CONSTANTS
    NumEvents = 2
    Refetches = 1
    Polls = 1
    MaxEvents = 2
    MaxRefreshes = 1
    MaxRequests = 1
    MaxSwitches = 1
    Cams = {c1, c2}
    Calls = {k1, k2, k3}
    MaxPerDay = 2
    Days = 2
    MaxReloads = 1
    MaxManual = 1
CHECK_DEADLOCK FALSE
INVARIANTS
    MediaAreItsOwn
    
    
PROPERTIES
    KeepsThePromise
