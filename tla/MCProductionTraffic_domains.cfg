CONSTANTS
    NumDeployments = 2
    InOrder = TRUE
    Production = {1, 2}
    Domains = {h1, h2}
    Requests = {r1, r2}
    Kinds = {"add", "verify", "promote"}
    Crashes = 1
    Failures = 1
    MaxFaults <- Faults
SYMMETRY Symmetry
SPECIFICATION Spec
PROPERTIES
    OnlyVerifiedRouted
    TrafficMovesForward
