----------------------------- MODULE BuildSetWalk ----------------------------
(***************************************************************************)
(* How the build set graph of one namespace and one architecture is        *)
(* calculated (buildbtw-poc/src/build_set_graph.rs):                       *)
(* gather_packages_metadata, build_global_dependency_graphs and            *)
(* calculate_packages_to_be_built_inner.                                   *)
(*                                                                         *)
(* The source repositories are the input and are drawn in Init; the walk   *)
(* then takes one step per turn of its loop. Every collection the code     *)
(* iterates in hash order (repositories, architectures, graph edges) is    *)
(* iterated in any order here.                                             *)
(***************************************************************************)
EXTENDS Naturals, Sequences, FiniteSets, BuildGraphs

CONSTANTS
    Pkgbases,       \* source repositories
    Pkgnames,       \* package names, and names somebody depends on
    InitialRepos,   \* the source repositories a behaviour may start from
    NoNode          \* Option::None: a node the walk starts at

(***************************************************************************)
(* The repositories as .SRCINFO files describe them for one architecture:  *)
(*   readable      the pkgbases whose branch could be read                 *)
(*   packages      pkgbase -> names of its packages for the architecture   *)
(*   all_packages  pkgbase -> names of its packages for any architecture   *)
(*   dependencies  package -> names it depends on, version constraints     *)
(*                 stripped and soname dependencies dropped                *)
(*   origins       the pkgbases of the namespace's origin changesets       *)
(***************************************************************************)
Repos ==
    [readable : SUBSET Pkgbases,
     packages : [Pkgbases -> SUBSET Pkgnames],
     all_packages : [Pkgbases -> SUBSET Pkgnames],
     dependencies : [Pkgnames -> SUBSET Pkgnames],
     origins : SUBSET Pkgbases]

ASSUME ReposAssumption ==
    /\ IsFiniteSet(Pkgbases)
    /\ IsFiniteSet(Pkgnames)
    /\ InitialRepos \subseteq Repos
    /\ \A r \in InitialRepos : \A b \in Pkgbases :
            r.packages[b] \subseteq r.all_packages[b]
    /\ NoNode \notin Pkgbases

VARIABLES
    repos,                  \* the source repositories, never changed
    pkgname_to_pkgbase,     \* PackagesMetadata.pkgname_to_pkgbase
    nodes_to_visit,         \* VecDeque of <<came from pkgbase, pkgname>>
    visited,                \* package names already visited
    nodes,                  \* pkgbases in packages_to_be_built
    edges,                  \* edges of packages_to_be_built
    result                  \* "walking", "done", "cyclic" or "missing"

vars == <<repos, pkgname_to_pkgbase, nodes_to_visit, visited, nodes, edges,
          result>>

-----------------------------------------------------------------------------
(***************************************************************************)
(* The metadata and the global dependency graph                            *)
(***************************************************************************)

\* The nodes of the global graph: the names that some readable repository
\* packages for the architecture.
PackagedNames == UNION {repos.packages[b] : b \in repos.readable}

\* One HashMap serves all architectures. It keeps the last repository that
\* inserted a name: any of those that package it, if only for an architecture
\* other than the one whose graph is calculated.
PkgnameToPkgbase(r) ==
    {f \in [UNION {r.all_packages[b] : b \in r.readable} -> r.readable] :
        \A n \in DOMAIN f : n \in r.all_packages[f[n]]}

\* The edges of the global graph at a name: the packages that depend on it.
Dependents(pkgname) ==
    {n \in PackagedNames : pkgname \in repos.dependencies[n]}

\* All sequences that list the members of S once.
Orderings(S) ==
    {s \in [1 .. Cardinality(S) -> S] : \A x \in S : \E i \in DOMAIN s : s[i] = x}

\* The queue entries for some package names, in any order.
ToVisit(came_from, pkgnames) ==
    {[i \in DOMAIN order |-> [from |-> came_from, to |-> order[i]]] :
        order \in Orderings(pkgnames)}

\* The package names pushed first: those of the origin changesets.
RootsOf(r) == UNION {r.packages[b] : b \in r.origins}
Roots == RootsOf(repos)

Init ==
    /\ repos \in InitialRepos
    /\ pkgname_to_pkgbase \in PkgnameToPkgbase(repos)
    /\ visited = {}
    /\ nodes = {}
    /\ edges = {}
    /\ \/ /\ repos.origins \subseteq repos.readable
          /\ nodes_to_visit \in ToVisit(NoNode, Roots)
          /\ result = "walking"
       \/ \* "Missing source info for origin changeset"
          /\ ~(repos.origins \subseteq repos.readable)
          /\ nodes_to_visit = <<>>
          /\ result = "missing"

-----------------------------------------------------------------------------
(***************************************************************************)
(* The walk                                                                *)
(***************************************************************************)

NextToVisit == Head(nodes_to_visit)

\* Mutant: a package is skipped when its pkgbase is in the graph already.
SkipKnownPkgbase ==
    /\ result = "walking"
    /\ nodes_to_visit # <<>>
    /\ pkgname_to_pkgbase[NextToVisit.to] \in nodes
    /\ nodes_to_visit' = Tail(nodes_to_visit)
    /\ visited' = visited \union {NextToVisit.to}
    /\ UNCHANGED <<repos, pkgname_to_pkgbase, nodes, edges, result>>

\* A node was visited before: skip it to avoid infinite loops on cycles.
SkipVisited ==
    /\ result = "walking"
    /\ nodes_to_visit # <<>>
    /\ NextToVisit.to \in visited
    /\ nodes_to_visit' = Tail(nodes_to_visit)
    /\ UNCHANGED <<repos, pkgname_to_pkgbase, visited, nodes, edges, result>>

\* Mutants: roots get an edge from nowhere; a split package may depend on
\* itself; edges point from the dependent to the dependency.
EdgeFromNowhere(came_from, pkgbase) ==
    IF came_from = pkgbase THEN {} ELSE {<<came_from, pkgbase>>}
EdgeToItself(came_from, pkgbase) ==
    IF came_from = NoNode THEN {} ELSE {<<came_from, pkgbase>>}
ReversedEdge(came_from, pkgbase) ==
    IF came_from = NoNode \/ came_from = pkgbase THEN {}
    ELSE {<<pkgbase, came_from>>}

\* The edge recorded for a node that was reached from another pkgbase.
EdgeTo(came_from, pkgbase) ==
    IF came_from = NoNode \/ came_from = pkgbase THEN {}
    ELSE {<<came_from, pkgbase>>}

\* Mutant: the node's neighbours are pushed, but it is not marked as visited
\* when its pkgbase is known.
VisitAgain ==
    /\ result = "walking"
    /\ nodes_to_visit # <<>>
    /\ NextToVisit.to \notin visited
    /\ LET pkgname == NextToVisit.to
           pkgbase == pkgname_to_pkgbase[pkgname]
       IN  /\ visited' = IF pkgbase \in nodes THEN visited ELSE visited \union {pkgname}
           /\ nodes' = nodes \union {pkgbase}
           /\ edges' = edges \union EdgeTo(NextToVisit.from, pkgbase)
           /\ \E neighbours \in ToVisit(pkgbase, Dependents(pkgname)) :
                nodes_to_visit' = Tail(nodes_to_visit) \o neighbours
    /\ UNCHANGED <<repos, pkgname_to_pkgbase, result>>

Visit ==
    /\ result = "walking"
    /\ nodes_to_visit # <<>>
    /\ NextToVisit.to \notin visited
    /\ LET pkgname == NextToVisit.to
           pkgbase == pkgname_to_pkgbase[pkgname]
       IN  /\ visited' = visited \union {pkgname}
           /\ nodes' = nodes \union {pkgbase}
           /\ edges' = edges \union EdgeTo(NextToVisit.from, pkgbase)
           /\ \E neighbours \in ToVisit(pkgbase, Dependents(pkgname)) :
                nodes_to_visit' = Tail(nodes_to_visit) \o neighbours
    /\ UNCHANGED <<repos, pkgname_to_pkgbase, result>>

\* Mutant: only a node that points to itself is a cycle.
HasSelfLoop(node_set, edge_set) == \E n \in node_set : <<n, n>> \in edge_set

\* A graph has a cycle when some of its nodes all have a predecessor among
\* themselves.
IsCyclic(node_set, edge_set) ==
    \E c \in SUBSET node_set :
        /\ c # {}
        /\ \A n \in c : \E m \in c : <<m, n>> \in edge_set

Finish ==
    /\ result = "walking"
    /\ nodes_to_visit = <<>>
    /\ result' = IF IsCyclic(nodes, edges) THEN "cyclic" ELSE "done"
    /\ UNCHANGED <<repos, pkgname_to_pkgbase, nodes_to_visit, visited, nodes,
                   edges>>

\* The calculation has returned: nothing happens any more.
Returned == result # "walking" /\ UNCHANGED vars

Next == SkipVisited \/ Visit \/ Finish \/ Returned

Spec == Init /\ [][Next]_vars

-----------------------------------------------------------------------------
(***************************************************************************)
(* Properties                                                              *)
(***************************************************************************)

TypeOK ==
    /\ repos \in InitialRepos
    /\ pkgname_to_pkgbase \in PkgnameToPkgbase(repos)
    /\ nodes_to_visit \in
            Seq([from : Pkgbases \union {NoNode}, to : PackagedNames])
    /\ visited \subseteq PackagedNames
    /\ nodes \subseteq Pkgbases
    /\ edges \subseteq Pkgbases \X Pkgbases
    /\ result \in {"walking", "done", "cyclic", "missing"}

\* S contains the packages of the origin changesets and, with a package, all
\* packages that depend on it.
ClosedUnderDependents(S) ==
    /\ Roots \subseteq S
    /\ \A n \in S : Dependents(n) \subseteq S

\* The packages to rebuild: the least set closed under dependents.
ToRebuild ==
    {n \in PackagedNames :
        \A S \in SUBSET PackagedNames : ClosedUnderDependents(S) => n \in S}

\* Whatever order the hash maps hand out, a finished calculation has visited
\* exactly the packages that transitively depend on an origin changeset, and
\* its nodes are the pkgbases of those packages.
BuildSetIsExact ==
    result \in {"done", "cyclic"} =>
        /\ visited = ToRebuild
        /\ nodes = {pkgname_to_pkgbase[n] : n \in ToRebuild}

\* An edge of the build set graph is a dependency between two different
\* source repositories, so no build waits for something it does not need.
EdgesAreDependencies ==
    \A e \in edges :
        /\ e[1] # e[2]
        /\ \E n, m \in visited :
            /\ m \in Dependents(n)
            /\ e = <<pkgname_to_pkgbase[n], pkgname_to_pkgbase[m]>>

\* Only repositories of origin changesets start without waiting for another
\* build: every other node has an incoming edge, although edges are dropped
\* when a node is met for a second time or inside one repository.
DependentsWait ==
    \A b \in nodes :
        (\A n \in visited : pkgname_to_pkgbase[n] = b => n \notin Roots)
            => \E e \in edges : e[2] = b

\* The scheduler is never stuck on a graph the calculation returned: whatever
\* the statuses of the builds, when one is left and nothing can be started,
\* then a build is in progress or has failed. The scheduler's searches begin at
\* nodes without incoming edges, so a cycle that slipped through would never be
\* built (calculate_packages_to_be_built_inner, schedule_next_build_in_graph).
EveryBuildCanStart ==
    result = "done" =>
        \A status \in [nodes -> PackageBuildStatus] :
            \/ \A b \in nodes : status[b] # "Blocked"
            \/ \E b \in nodes : status[b] \in InProgress \union {"Failed"}
            \/ ReadyBuilds([status |-> status, edges |-> edges]) # {}

\* The walk does a bounded amount of work, also when packages depend on each
\* other in a cycle: no edge of the global graph is pushed twice.
WorkIsBounded ==
    Len(nodes_to_visit) + Cardinality(visited)
        <= Cardinality(Roots)
           + Cardinality({e \in visited \X PackagedNames :
                                e[2] \in Dependents(e[1])})

\* The comment above the walk promises "the precise graph of dependents for
\* the given Pkgbases": every dependency between two repositories of the build
\* set orders their builds.
EveryDependencyIsAnEdge ==
    result = "done" =>
        \A n, m \in visited :
            /\ m \in Dependents(n)
            /\ pkgname_to_pkgbase[n] # pkgname_to_pkgbase[m]
            => <<pkgname_to_pkgbase[n], pkgname_to_pkgbase[m]>> \in edges
=============================================================================
