CONSTANTS
    i1 = i1
    i2 = i2
    r1 = r1
    r2 = r2
    c1 = c1
    install = install
    push = push
    grant = grant
    uninstall = uninstall
    again = again
    Handlers = {h1, h2}
    Installations = {i1}
    Repos = {r1, r2}
    Commits = {c1}
    Deliveries = {install, push, grant, uninstall}
    Event <- Story
    NoDelivery = NoDelivery
    Slug <- OwnSlug
    Misnamed = {r1}
    MaxProjects = 1
    Overlap = FALSE
    MaxClicks = 1
    Crashes = 1
    Failures = 1
    MaxFaults <- Faults
SPECIFICATION FairSpec
INVARIANTS
    TypeOK
    OwnerFollowsInstallation
    InstalledReposServed
PROPERTIES
    LoginRepairsOwners
    ImplementsDeliveryOnce
    PushLostOnlyByFault
    PushDroppedOnlyByFault
CHECK_DEADLOCK FALSE
