CONSTANTS
    Pods = {p1}
    NoPod = NoPod
    NumDeployments = 2
    Project <- OwnProject
    Production = {1, 2}
    Overlap = FALSE
    Revocable = {1}
    SlowBuilds = {}
    Crashes = 0
    Rollouts = 0
    Slow = 0
    Db = 0
    Kube = 0
    MaxFaults <- Faults
SPECIFICATION FairSpec
PROPERTIES
    OthersProceed
