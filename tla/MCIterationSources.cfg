SPECIFICATION TrackSpec
CONSTANTS
    a = a
    Projects = {a}
    Tracked = a
    Origins <- MainAndOther
    Keepers = {"server"}
    Unfetchable = {}
    PageSize = 1
    MaxTasks = 1
    Slack = 1
    Inaccuracy = 0
    MaxTime = 3
    MaxFaults = 1
INVARIANTS
    TrackTypeOK
    BuildsAreNotOlder
PROPERTIES
    IterationsSettle
