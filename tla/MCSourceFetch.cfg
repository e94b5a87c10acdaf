SPECIFICATION FairSpec
CONSTANTS
    a = a
    b = b
    Projects = {a, b}
    Keepers = {"server", "updater"}
    Unfetchable = {}
    PageSize = 1
    MaxTasks = 2
    Slack = 2
    Inaccuracy = 1
    MaxTime = 4
    MaxFaults = 1
INVARIANTS
    TypeOK
    NoChangeIsMissed
    ClonesAreFetchedOnce
PROPERTIES
    PushesAreFetched
