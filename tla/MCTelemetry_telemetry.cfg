CONSTANTS
    s1 = s1
    s2 = s2
    app = app
    Services = {s1, s2}
    Classes = {"2xx", "other"}
    Shown = {"2xx"}
    Slugs = {app}
    ServicesOf <- SlugsInNames
    Elsewhere <- Replicas
    Ring = 4
    LongTicks = 2
    LongRing = 2
    MaxTicks = 5
    MaxRequests = 2
    Scrapes = 1
    Lists = 1
    Traefik = 1
    Crashes = 1
    MaxFaults <- FaultBounds
CHECK_DEADLOCK FALSE
SPECIFICATION Spec
INVARIANTS
    TypeOK
    LongPointsAreSums
PROPERTIES
    PointsAreRequests
    ProjectPointsAreRequests
