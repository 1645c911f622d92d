SPECIFICATION Spec
CONSTANTS
    put = put
    tick = tick
    timer = timer
    Callers <- MCThree
    TimedCallers <- MCTimed
    Timer = timer
    MaxIssued = 2
    MaxAmbiguous = 0
    MaxOutages = 0
    MayLose = TRUE
PROPERTIES
    TroubleNeverReauths
