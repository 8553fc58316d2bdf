CONSTANTS
    Pods = {p1}
    NoPod = NoPod
    NumDeployments = 1
    Project <- OwnProject
    Production = {1}
    Overlap = FALSE
    Revocable = {}
    SlowBuilds = {}
    Crashes = 1
    Rollouts = 0
    Slow = 3
    Db = 1
    Kube = 1
    MaxFaults <- Faults
SPECIFICATION FairSpec
PROPERTIES
    EveryDeploymentSettles
