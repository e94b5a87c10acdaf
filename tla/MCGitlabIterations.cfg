SPECIFICATION Spec
CONSTANTS
    ns1 = ns1
    ns2 = ns2
    x86_64 = x86_64
    aarch64 = aarch64
    a = a
    b = b
    c = c
    old = old
    new = new
    NoNamespace = NoNamespace
    Namespaces = {ns1}
    Architectures = {x86_64}
    Pkgbases = {a}
    CommitHashes = {old, new}
    BuildSets <- OnePackage
    PipelinesMayVanish = TRUE
    MaxIterations = 2
    MaxFaults = 1
INVARIANTS
    IterationsHaveReasons
PROPERTIES
    ImplementsBuildProgress
