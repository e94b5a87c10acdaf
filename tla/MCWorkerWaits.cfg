SPECIFICATION Spec
CONSTANTS
    x86_64 = x86_64
    aarch64 = aarch64
    a = a
    b = b
    c = c
    hash = hash
    NoJob = NoJob
    Architectures = {x86_64}
    Pkgbases = {a, b, c}
    CommitHashes = {hash}
    BuildSets <- JoinOrFork
    BranchNamesAreObjectIds = FALSE
    MaxBuilds = 4
    MaxFaults = 0
INVARIANTS
    WaitsForRunningBuild
