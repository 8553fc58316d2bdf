CONSTANTS
    NumApps = 2
    MayHang = {1, 2}
    MayBreak = {2}
    MinHits = 1
    MaxHits = 2
    Budget = 2
    Window = 1
    History = 1
    MaxReady = 2
    MaxCrashes = 1
SPECIFICATION FairSpec
INVARIANTS
    TypeOK
PROPERTIES
    DownHasCause
    OutageIsShown
