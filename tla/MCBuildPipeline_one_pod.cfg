CONSTANTS
    Pods = {p1}
    NoPod = NoPod
    NumDeployments = 2
    Project <- OneProject
    Production = {1, 2}
    Overlap = FALSE
    Revocable = {2}
    SlowBuilds = {}
    Crashes = 1
    Rollouts = 0
    Slow = 2
    Db = 0
    Kube = 1
    MaxFaults <- Faults
SPECIFICATION Spec
INVARIANTS
    TypeOK
    ReadyIsServed
    GreenCheckIsReady
PROPERTIES
    TerminalIsFinal
    ImplementsLifecycle
    ImplementsBuildOrder
