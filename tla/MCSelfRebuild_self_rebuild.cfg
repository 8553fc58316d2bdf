CONSTANTS
    Pods = {a, b}
    LastCommit = 3
    Unbuildable = {1}
    Crashing = {2}
    MaxFaults = 1
    MaxCrashes = 1
    CrashOnBadTag = FALSE
    SlowPods = FALSE
SPECIFICATION FairSpec
INVARIANTS
    TypeOK
PROPERTIES
    RecordedIsBuilt
    GoodHeadIsServed
