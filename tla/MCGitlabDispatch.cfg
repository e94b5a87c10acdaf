SPECIFICATION FairSpec
CONSTANTS
    ns1 = ns1
    ns2 = ns2
    x86_64 = x86_64
    aarch64 = aarch64
    a = a
    b = b
    c = c
    old = old
    new = new
    NoNamespace = NoNamespace
    Namespaces = {ns1}
    Architectures = {x86_64, aarch64}
    Pkgbases = {a, b, c}
    CommitHashes = {old, new}
    BuildSets <- JoinOrTwoArchitectures
    PipelinesMayVanish = FALSE
    MaxIterations = 1
    MaxFaults = 1
INVARIANTS
    TypeOK
    DependenciesBuiltFirst
    BuildsAreTracked
    SchedulerIsNeverStuck
    ResultsAreReal
    NoNeedlessPipelines
    CancellationIsNoticed
PROPERTIES
    BuildsOnlyAdvance
    DispatchedBuildsSettle
    ReadyBuildsStart
