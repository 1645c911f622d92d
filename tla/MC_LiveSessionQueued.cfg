SPECIFICATION Spec
CONSTANTS
    Enabled <- MCRenewing
    Pref = "local"
    Healths <- MCAllHealths
    MaxErrors = 1
    MaxStarts = 3
    MayRaise = FALSE
    SlowSchemes = FALSE
INVARIANTS
    OffSticks
