CONSTANTS
    NumDeployments = 3
    InOrder = TRUE
    Production = {1, 3}
    Domains = {h1}
    Requests = {r1, r2}
    Kinds = {"add", "verify", "delete"}
    Crashes = 1
    Failures = 0
    MaxFaults <- Faults
SYMMETRY Symmetry
SPECIFICATION Spec
INVARIANTS
    TypeOK
    AliasHasBackend
