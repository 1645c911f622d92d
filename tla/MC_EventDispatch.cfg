SPECIFICATION FairSpec
CONSTANTS
    h1 = h1
    h2 = h2
    NumCams = 1
    Handlers <- MCTwo
    Before = 1
    MaxEvents = 2
    MarkRead = TRUE
    ListenerMay = {"stop", "quiet"}
    MayFail = TRUE
INVARIANTS
    BaselineWasAlerted
PROPERTIES
    NoQuickRepeat
    NewestIsAlerted
