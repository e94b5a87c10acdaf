SPECIFICATION Spec
CONSTANTS
    a = a
    b = b
    a1 = a1
    a2 = a2
    b1 = b1
    NoPackage = NoPackage
    Pkgbases = {a, b}
    Packages = {a1, a2, b1}
    PackagesOf <- SplitAndSingle
    Settings <- WorkerTwice
    MaxFaults = 1
INVARIANTS
    RepeatedBuildsAreStored
