---------------------------- MODULE MCBuildSetWalk ---------------------------
(***************************************************************************)
(* Source repositories for model-checking BuildSetWalk. Every dependency   *)
(* relation between the package names is tried on each of the layouts.     *)
(***************************************************************************)
EXTENDS BuildSetWalk, TLC

CONSTANTS b1, b2, b3, b4, n1, n2, n3, n4

NoSelfDependency(names) ==
    {d \in [names -> SUBSET names] : \A n \in names : n \notin d[n]}

\* A layout: the packages for the architecture, and those for another one.
Layout(packages, others) ==
    [packages |-> packages,
     all_packages |-> [b \in DOMAIN packages |-> packages[b] \union others[b]]]

NoPackages(repositories) == [b \in repositories |-> {}]

Layouts ==
    { \* one package per repository
      Layout(b1 :> {n1} @@ b2 :> {n2} @@ b3 :> {n3}, NoPackages(Pkgbases)),
      \* a split package
      Layout(b1 :> {n1, n2} @@ b2 :> {n3} @@ b3 :> {}, NoPackages(Pkgbases)),
      \* two repositories that package the same name
      Layout(b1 :> {n1} @@ b2 :> {n1, n2} @@ b3 :> {n3}, NoPackages(Pkgbases)),
      \* a repository that packages a name for another architecture only
      Layout(b1 :> {n1} @@ b2 :> {n2} @@ b3 :> {n3},
             b1 :> {} @@ b2 :> {} @@ b3 :> {n2}) }

Repo(readable, layout, dependencies, origins) ==
    [readable |-> readable, packages |-> layout.packages,
     all_packages |-> layout.all_packages,
     dependencies |-> dependencies, origins |-> origins]

\* Every dependency relation among three names, on every layout.
SmallRepos ==
    {Repo(readable, layout, dependencies, origins) :
        readable \in {Pkgbases, Pkgbases \ {b2}},
        layout \in Layouts,
        dependencies \in NoSelfDependency(Pkgnames),
        origins \in {{b1}, {b2}, {b1, b3}}}

\* Four repositories with one package each: a changes, b and c depend on it,
\* d on both of them, or on some of the others.
Packages4 == b1 :> {n1} @@ b2 :> {n2} @@ b3 :> {n3} @@ b4 :> {n4}

DiamondRepos ==
    {Repo(Pkgbases, Layout(Packages4, NoPackages(Pkgbases)),
          n1 :> {} @@ n2 :> {n1} @@ n3 :> {n1} @@ n4 :> below, origins) :
        below \in SUBSET {n1, n2, n3},
        origins \in {{b1}, {b1, b2}}}
=============================================================================
