CONSTANTS
    Handlers = {h1, h2}
    Workers = {w1}
    Projects = {p1}
    Commits = {c1}
    SecretNames = {p1}
    DbSecret <- OwnSecret
    DoubleClick = FALSE
    MaxClicks = 2
    MaxEdits = 1
    MaxFaults = 1
    MaxCrashes = 1
    MayUninstall = TRUE
SPECIFICATION Spec
SYMMETRY Alike
INVARIANTS
    TypeOK
    IsolatedBeforeUse
    BindingAuthenticates
    BoundPodsConnect
    DeletionIsComplete
PROPERTIES
    EnvNeverRollsBack
CHECK_DEADLOCK FALSE
