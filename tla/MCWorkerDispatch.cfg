SPECIFICATION Spec
CONSTANTS
    x86_64 = x86_64
    aarch64 = aarch64
    a = a
    b = b
    c = c
    hash = hash
    NoJob = NoJob
    Architectures = {x86_64, aarch64}
    Pkgbases = {a, b, c}
    CommitHashes = {hash}
    BuildSets <- AllShapes
    BranchNamesAreObjectIds = TRUE
    MaxBuilds = 5
    MaxFaults = 2
INVARIANTS
    TypeOK
    DependenciesBuiltFirst
    ResultsAreReal
