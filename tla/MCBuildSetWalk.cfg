SPECIFICATION Spec
CONSTANTS
    b1 = b1
    b2 = b2
    b3 = b3
    b4 = b4
    n1 = n1
    n2 = n2
    n3 = n3
    n4 = n4
    NoNode = NoNode
    Pkgbases = {b1, b2, b3}
    Pkgnames = {n1, n2, n3}
    InitialRepos <- SmallRepos
INVARIANTS
    TypeOK
    BuildSetIsExact
    EdgesAreDependencies
    DependentsWait
    EveryBuildCanStart
    WorkIsBounded
