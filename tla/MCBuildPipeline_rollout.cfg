CONSTANTS
    Pods = {p1, p2}
    NoPod = NoPod
    NumDeployments = 1
    Project <- OwnProject
    Production = {1}
    Overlap = TRUE
    Revocable = {}
    SlowBuilds = {}
    Crashes = 0
    Rollouts = 1
    Slow = 0
    Db = 0
    Kube = 0
    MaxFaults <- Faults
SPECIFICATION FairSpec
PROPERTIES
    EveryDeploymentSettles
