SPECIFICATION FairSpec
CONSTANTS
    a = a
    b = b
    a1 = a1
    a2 = a2
    b1 = b1
    NoPackage = NoPackage
    Pkgbases = {a, b}
    Packages = {a1, a2, b1}
    PackagesOf <- SplitAndSingle
    Settings <- WorkerTwiceRunnersOnce
    MaxFaults = 2
INVARIANTS
    TypeOK
    ListedPackagesAreWhole
    FirstBuildsAreStored
    InstallableWhenBuilt
    RepositoryIsThere
PROPERTIES
    BuildsEnd
