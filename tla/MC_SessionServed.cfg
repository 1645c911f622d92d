SPECIFICATION MCSpec
CONSTANTS
    Enabled <- MCServed
    Pref = "auto"
    Healths <- MCAllHealths
    MaxErrors = 1
    MaxStarts = 2
    MayRaise = FALSE
    SlowSchemes = FALSE
    MaxBuilds = 2
    MaxShots = 1
    MaxRecordings = 1
    FailLimit = 2
PROPERTIES
    AskersAreServed
    CredentialsHold
