SPECIFICATION FairSpec
CONSTANTS
    put = put
    tick = tick
    timer = timer
    Callers <- MCTwo
    TimedCallers <- MCTimed
    Timer = timer
    MaxIssued = 3
    MaxAmbiguous = 3
    MaxOutages = 2
    MayLose = FALSE
INVARIANTS
    NoSelfInflictedRefusal
    NeverTheRejectedToken
PROPERTIES
    TroubleNeverReauths
    EveryCallReturns
