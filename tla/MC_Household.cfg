SPECIFICATION MCSpec
CONSTANTS
    Grace = 2
    Extended = 2
    MaxChanges = 3
    OutageAfter = 1
    NumWindows = 2
    MaxRestarts = 1
    MaxMoves = 3
    MaxRenewals = 2
    MaxEdits = 1
    MaxFailures = 1
INVARIANTS
    TeardownIsWhole
    EndAfterBeginning
PROPERTIES
    NoFalseAlarm
    OnlyOptionsReload
    Settles
