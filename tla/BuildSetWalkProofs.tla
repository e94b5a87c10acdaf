------------------------- MODULE BuildSetWalkProofs --------------------------
(***************************************************************************)
(* Proofs about BuildSetWalk: for any source repositories and any order    *)
(* the hash maps hand out, the walk visits exactly the packages that       *)
(* transitively depend on an origin changeset.                             *)
(***************************************************************************)
EXTENDS BuildSetWalk, FiniteSetTheorems, TLAPS

\* The elements of a queue, and the package names they lead to.
Elements(q) == {q[i] : i \in 1 .. Len(q)}
Targets(q) == {e.to : e \in Elements(q)}

\* The package names waiting in nodes_to_visit.
Queued == Targets(nodes_to_visit)

QueueOK ==
    nodes_to_visit \in Seq([from : Pkgbases \union {NoNode}, to : PackagedNames])

\* What TypeOK says of the other variables.
TypesOK ==
    /\ repos \in InitialRepos
    /\ pkgname_to_pkgbase \in PkgnameToPkgbase(repos)
    /\ visited \subseteq PackagedNames
    /\ nodes \subseteq Pkgbases
    /\ edges \subseteq Pkgbases \X Pkgbases
    /\ result \in {"walking", "done", "cyclic", "missing"}

\* Nothing is forgotten: the roots, and the dependents of what was visited,
\* were visited themselves or are queued.
NothingForgotten ==
    result # "missing" =>
        /\ Roots \subseteq visited \union Queued
        /\ \A n \in visited : Dependents(n) \subseteq visited \union Queued

\* Nothing is visited needlessly.
NothingNeedless == visited \union Queued \subseteq ToRebuild

\* The nodes of the graph are the pkgbases of the visited packages.
NodesOfVisited == nodes = {pkgname_to_pkgbase[n] : n \in visited}

FinishedWhenEmpty == result \in {"done", "cyclic"} => nodes_to_visit = <<>>

WalkInv ==
    /\ TypesOK
    /\ QueueOK
    /\ NothingForgotten
    /\ NothingNeedless
    /\ NodesOfVisited
    /\ FinishedWhenEmpty

-----------------------------------------------------------------------------
(***************************************************************************)
(* Facts about the queue                                                   *)
(***************************************************************************)

\* Taking the first element off a queue leaves the other elements in it.
LEMMA TailElements ==
    ASSUME NEW S, NEW q \in Seq(S), q # <<>>
    PROVE  /\ Tail(q) \in Seq(S)
           /\ Head(q) \in S
           /\ Elements(q) = {Head(q)} \union Elements(Tail(q))
<1>1. Len(q) \in Nat /\ Len(q) > 0 /\ Head(q) = q[1] /\ Head(q) \in S
  OBVIOUS
<1>2. /\ Tail(q) \in Seq(S)
      /\ Len(Tail(q)) = Len(q) - 1
      /\ \A i \in 1 .. Len(q) - 1 : Tail(q)[i] = q[i + 1]
  BY <1>1
<1>3. ASSUME NEW i \in 1 .. Len(q)
      PROVE  q[i] = Head(q) \/ \E j \in 1 .. Len(Tail(q)) : q[i] = Tail(q)[j]
  <2>1. CASE i = 1
    BY <1>1, <2>1
  <2>2. CASE i # 1
    <3>1. i - 1 \in 1 .. Len(Tail(q)) /\ Tail(q)[i - 1] = q[i]
      BY <1>1, <1>2, <2>2
    <3> QED BY <3>1
  <2> QED BY <2>1, <2>2
<1>4. ASSUME NEW j \in 1 .. Len(Tail(q))
      PROVE  \E i \in 1 .. Len(q) : Tail(q)[j] = q[i]
  <2>1. j + 1 \in 1 .. Len(q) /\ Tail(q)[j] = q[j + 1]
    BY <1>1, <1>2
  <2> QED BY <2>1
<1> QED BY <1>1, <1>2, <1>3, <1>4 DEF Elements

\* A queue that was extended holds the elements of both parts.
LEMMA ConcatElements ==
    ASSUME NEW S, NEW p \in Seq(S), NEW q \in Seq(S)
    PROVE  /\ p \o q \in Seq(S)
           /\ Elements(p \o q) = Elements(p) \union Elements(q)
<1>1. /\ p \o q \in Seq(S)
      /\ Len(p) \in Nat /\ Len(q) \in Nat
      /\ Len(p \o q) = Len(p) + Len(q)
      /\ \A i \in 1 .. Len(p) : (p \o q)[i] = p[i]
      /\ \A i \in Len(p) + 1 .. Len(p) + Len(q) : (p \o q)[i] = q[i - Len(p)]
  OBVIOUS
<1>2. ASSUME NEW i \in 1 .. Len(p \o q)
      PROVE  \/ \E j \in 1 .. Len(p) : (p \o q)[i] = p[j]
             \/ \E j \in 1 .. Len(q) : (p \o q)[i] = q[j]
  <2>1. CASE i \leq Len(p)
    BY <1>1, <2>1
  <2>2. CASE i > Len(p)
    <3>1. i - Len(p) \in 1 .. Len(q) /\ (p \o q)[i] = q[i - Len(p)]
      BY <1>1, <2>2
    <3> QED BY <3>1
  <2> QED BY <1>1, <2>1, <2>2
<1>3. ASSUME NEW j \in 1 .. Len(p)
      PROVE  j \in 1 .. Len(p \o q) /\ (p \o q)[j] = p[j]
  BY <1>1
<1>4. ASSUME NEW j \in 1 .. Len(q)
      PROVE  Len(p) + j \in 1 .. Len(p \o q) /\ (p \o q)[Len(p) + j] = q[j]
  BY <1>1
<1> DEFINE r == p \o q
<1>5. Elements(r) = Elements(p) \union Elements(q)
  <2>1. \A i \in 1 .. Len(r) : r[i] \in Elements(p) \union Elements(q)
    BY <1>2 DEF Elements
  <2>2. \A j \in 1 .. Len(p) : p[j] \in Elements(r)
    BY <1>3 DEF Elements
  <2>3. \A j \in 1 .. Len(q) : q[j] \in Elements(r)
    BY <1>4 DEF Elements
  <2> HIDE DEF r
  <2> QED BY <2>1, <2>2, <2>3 DEF Elements
<1> QED BY <1>1, <1>5

-----------------------------------------------------------------------------
(***************************************************************************)
(* The invariant holds initially and is preserved                          *)
(***************************************************************************)

\* What the initial repositories look like.
LEMMA ReposTyped ==
    ASSUME TypesOK
    PROVE  /\ repos \in Repos
           /\ PackagedNames \subseteq Pkgnames
           /\ \A n \in PackagedNames : pkgname_to_pkgbase[n] \in repos.readable
           /\ repos.readable \subseteq Pkgbases
           /\ \A n : Dependents(n) \subseteq PackagedNames
<1>1. repos \in Repos
  BY ReposAssumption DEF TypesOK
<1>2. PackagedNames \subseteq Pkgnames /\ repos.readable \subseteq Pkgbases
  BY <1>1 DEF PackagedNames, Repos
<1>3. \A n \in PackagedNames : pkgname_to_pkgbase[n] \in repos.readable
  <2>1. \A b \in repos.readable : repos.packages[b] \subseteq repos.all_packages[b]
    BY <1>2, ReposAssumption DEF TypesOK
  <2>2. PackagedNames \subseteq UNION {repos.all_packages[b] : b \in repos.readable}
    BY <2>1 DEF PackagedNames
  <2> QED BY <2>2 DEF TypesOK, PkgnameToPkgbase
<1> QED BY <1>1, <1>2, <1>3 DEF Dependents

\* The least closed set is closed, and lies within every closed set.
LEMMA ToRebuildIsLeast ==
    ASSUME Roots \subseteq PackagedNames
    PROVE  /\ ClosedUnderDependents(ToRebuild)
           /\ ToRebuild \subseteq PackagedNames
           /\ \A S \in SUBSET PackagedNames :
                 ClosedUnderDependents(S) => ToRebuild \subseteq S
<1>1. Roots \subseteq ToRebuild
  BY DEF ToRebuild, ClosedUnderDependents
<1>2. ASSUME NEW n \in ToRebuild, NEW m \in Dependents(n)
      PROVE  m \in ToRebuild
  BY <1>2 DEF ToRebuild, ClosedUnderDependents, Dependents
<1> QED BY <1>1, <1>2 DEF ToRebuild, ClosedUnderDependents

\* The elements of an ordering of S are the members of S.
LEMMA OrderingElements ==
    ASSUME NEW S, IsFiniteSet(S), NEW order \in Orderings(S)
    PROVE  /\ order \in Seq(S)
           /\ DOMAIN order = 1 .. Len(order)
           /\ Elements(order) = S
<1>1. Cardinality(S) \in Nat
  BY FS_CardinalityType
<1>2. order \in Seq(S) /\ Len(order) = Cardinality(S)
  BY <1>1 DEF Orderings
<1> QED BY <1>1, <1>2 DEF Orderings, Elements

\* Queueing the members of S under one origin queues nothing else.
LEMMA ToVisitElements ==
    ASSUME NEW S, IsFiniteSet(S), NEW came_from, NEW q \in ToVisit(came_from, S)
    PROVE  /\ q \in Seq([from : {came_from}, to : S])
           /\ Targets(q) = S
<1>1. PICK order \in Orderings(S) :
        q = [i \in DOMAIN order |-> [from |-> came_from, to |-> order[i]]]
  BY DEF ToVisit
<1>2. /\ order \in Seq(S)
      /\ DOMAIN order = 1 .. Len(order)
      /\ Elements(order) = S
  BY OrderingElements
<1>3. q \in Seq([from : {came_from}, to : S]) /\ Len(q) = Len(order)
  BY <1>1, <1>2
<1>4. \A i \in 1 .. Len(q) : q[i].to = order[i]
  BY <1>1, <1>2, <1>3
<1>5. Targets(q) = Elements(order)
  BY <1>3, <1>4 DEF Targets, Elements
<1> QED BY <1>2, <1>3, <1>5

\* A queue of queue entries of a smaller type is a queue of a larger one.
LEMMA SeqOfSubset ==
    ASSUME NEW S, NEW T, S \subseteq T, NEW q \in Seq(S)
    PROVE  q \in Seq(T)
OBVIOUS

-----------------------------------------------------------------------------
(***************************************************************************)
(* The invariant                                                           *)
(***************************************************************************)

\* The walk starts with exactly the roots in the queue.
LEMMA InitWalkInv == Init => WalkInv
<1> SUFFICES ASSUME Init PROVE WalkInv
  OBVIOUS
<1>1. TypesOK
  BY DEF Init, TypesOK
<1>2. ToRebuild \subseteq PackagedNames
  BY DEF ToRebuild
<1>3. CASE result = "missing"
  <2>1. nodes_to_visit = <<>> /\ visited = {} /\ nodes = {}
    BY <1>3 DEF Init
  <2>2. Queued = {}
    BY <2>1 DEF Queued, Targets, Elements
  <2> QED
    BY <1>1, <1>3, <2>1, <2>2
       DEF WalkInv, QueueOK, NothingForgotten, NothingNeedless, NodesOfVisited,
           FinishedWhenEmpty
<1>4. CASE result = "walking"
  <2>1. nodes_to_visit \in ToVisit(NoNode, Roots)
    BY <1>4 DEF Init
  <2>2. repos.origins \subseteq repos.readable
    BY <1>4 DEF Init
  <2>3. Roots \subseteq PackagedNames
    BY <2>2 DEF Roots, RootsOf, PackagedNames
  <2>4. IsFiniteSet(Roots)
    BY <1>1, <2>3, ReposTyped, FS_Subset, ReposAssumption
  <2>5. /\ nodes_to_visit \in Seq([from : {NoNode}, to : Roots])
        /\ Queued = Roots
    BY <2>1, <2>4, ToVisitElements DEF Queued
  <2>6. QueueOK /\ Queued = Roots
    <3>1. [from : {NoNode}, to : Roots]
            \subseteq [from : Pkgbases \union {NoNode}, to : PackagedNames]
      BY <2>3
    <3> QED BY <2>5, <3>1, SeqOfSubset DEF QueueOK
  <2>7. Roots \subseteq ToRebuild
    BY <2>3, ToRebuildIsLeast DEF ClosedUnderDependents
  <2>8. visited = {} /\ nodes = {}
    BY DEF Init
  <2> QED
    BY <1>1, <1>4, <2>6, <2>7, <2>8
       DEF WalkInv, NothingForgotten, NothingNeedless, NodesOfVisited,
           FinishedWhenEmpty
<1> QED BY <1>3, <1>4 DEF Init

\* Names of the next state that depend on the repositories only.
LEMMA ReposConstant ==
    ASSUME repos' = repos
    PROVE  /\ Roots' = Roots
           /\ PackagedNames' = PackagedNames
           /\ ToRebuild' = ToRebuild
           /\ \A n : Dependents(n)' = Dependents(n)
<1>1. /\ Roots' = Roots
      /\ PackagedNames' = PackagedNames
      /\ \A n : Dependents(n)' = Dependents(n)
  BY DEF Roots, PackagedNames, Dependents
<1>2. \A S : ClosedUnderDependents(S)' = ClosedUnderDependents(S)
  BY <1>1 DEF ClosedUnderDependents
<1> QED BY <1>1, <1>2 DEF ToRebuild

\* Popping the queue takes its first target away, and none of the others.
LEMMA PopQueue ==
    ASSUME NEW S, NEW q \in Seq(S), q # <<>>
    PROVE  Targets(q) = {Head(q).to} \union Targets(Tail(q))
BY TailElements DEF Targets

LEMMA PushQueue ==
    ASSUME NEW S, NEW p \in Seq(S), NEW q \in Seq(S)
    PROVE  Targets(p \o q) = Targets(p) \union Targets(q)
BY ConcatElements DEF Targets

\* A package that was visited before may be dropped from the queue.
LEMMA SkipVisitedInv == WalkInv /\ SkipVisited => WalkInv'
<1> SUFFICES ASSUME WalkInv, SkipVisited PROVE WalkInv'
  OBVIOUS
<1> DEFINE Entry == [from : Pkgbases \union {NoNode}, to : PackagedNames]
<1>1. nodes_to_visit \in Seq(Entry) /\ nodes_to_visit # <<>>
  BY DEF WalkInv, QueueOK, SkipVisited
<1>2. Tail(nodes_to_visit) \in Seq(Entry)
  <2> HIDE DEF Entry
  <2> QED BY <1>1, TailElements
<1>3. Queued = {NextToVisit.to} \union Queued'
  <2> HIDE DEF Entry
  <2>1. nodes_to_visit' = Tail(nodes_to_visit)
    BY DEF SkipVisited
  <2> QED BY <1>1, <2>1, PopQueue DEF Queued, NextToVisit
<1>4. visited \union Queued' = visited \union Queued
  BY <1>3 DEF SkipVisited
<1>5. /\ Roots' = Roots
      /\ PackagedNames' = PackagedNames
      /\ ToRebuild' = ToRebuild
      /\ \A n : Dependents(n)' = Dependents(n)
  BY ReposConstant DEF SkipVisited
<1>6. TypesOK'
  <2>1. /\ repos' = repos /\ pkgname_to_pkgbase' = pkgname_to_pkgbase
        /\ visited' = visited /\ nodes' = nodes /\ edges' = edges
        /\ result' = result
    BY DEF SkipVisited
  <2> QED BY <1>5, <2>1 DEF WalkInv, TypesOK
<1>7. QueueOK'
  BY <1>2, <1>5 DEF QueueOK, SkipVisited
<1>8. NothingForgotten' /\ NothingNeedless'
  BY <1>4, <1>5 DEF WalkInv, NothingForgotten, NothingNeedless, SkipVisited
<1>9. NodesOfVisited' /\ FinishedWhenEmpty'
  BY DEF WalkInv, NodesOfVisited, FinishedWhenEmpty, SkipVisited
<1> QED BY <1>6, <1>7, <1>8, <1>9 DEF WalkInv

\* Visiting a package queues its dependents, which have to be rebuilt too.
LEMMA VisitInv == WalkInv /\ Visit => WalkInv'
<1> SUFFICES ASSUME WalkInv, Visit PROVE WalkInv'
  OBVIOUS
<1> DEFINE Entry == [from : Pkgbases \union {NoNode}, to : PackagedNames]
           pkgname == NextToVisit.to
           pkgbase == pkgname_to_pkgbase[pkgname]
<1>1. /\ nodes_to_visit \in Seq(Entry)
      /\ nodes_to_visit # <<>>
      /\ result = "walking"
  BY DEF WalkInv, QueueOK, Visit
<1>2. Tail(nodes_to_visit) \in Seq(Entry) /\ NextToVisit \in Entry
  <2> HIDE DEF Entry
  <2> QED BY <1>1, TailElements DEF NextToVisit
<1>3. pkgname \in PackagedNames /\ pkgbase \in Pkgbases
  BY <1>2, ReposTyped DEF WalkInv
<1>4. IsFiniteSet(Dependents(pkgname)) /\ Dependents(pkgname) \subseteq PackagedNames
  BY ReposTyped, ReposAssumption, FS_Subset DEF WalkInv
<1>5. PICK neighbours \in ToVisit(pkgbase, Dependents(pkgname)) :
        nodes_to_visit' = Tail(nodes_to_visit) \o neighbours
  BY DEF Visit
<1>6. neighbours \in Seq(Entry) /\ Targets(neighbours) = Dependents(pkgname)
  <2>1. /\ neighbours \in Seq([from : {pkgbase}, to : Dependents(pkgname)])
        /\ Targets(neighbours) = Dependents(pkgname)
    <3> HIDE DEF pkgname, pkgbase
    <3> QED BY <1>4, <1>5, ToVisitElements
  <2>2. [from : {pkgbase}, to : Dependents(pkgname)] \subseteq Entry
    BY <1>3, <1>4
  <2> HIDE DEF Entry, pkgname, pkgbase
  <2> QED BY <2>1, <2>2, SeqOfSubset
<1>7. nodes_to_visit' \in Seq(Entry)
  <2> HIDE DEF Entry
  <2> QED BY <1>2, <1>5, <1>6, ConcatElements
<1>8. /\ Queued = {pkgname} \union Targets(Tail(nodes_to_visit))
      /\ Queued' = Targets(Tail(nodes_to_visit)) \union Dependents(pkgname)
  <2> HIDE DEF Entry, pkgbase
  <2>1. Queued = {pkgname} \union Targets(Tail(nodes_to_visit))
    BY <1>1, PopQueue DEF Queued, NextToVisit
  <2>2. Queued' = Targets(Tail(nodes_to_visit) \o neighbours)
    BY <1>5 DEF Queued, Targets, Elements
  <2> HIDE DEF pkgname
  <2>3. Targets(Tail(nodes_to_visit) \o neighbours)
            = Targets(Tail(nodes_to_visit)) \union Targets(neighbours)
    BY <1>2, <1>6, PushQueue
  <2> QED BY <1>6, <2>1, <2>2, <2>3
<1>9. /\ repos' = repos
      /\ pkgname_to_pkgbase' = pkgname_to_pkgbase
      /\ result' = result
      /\ visited' = visited \union {pkgname}
      /\ nodes' = nodes \union {pkgbase}
      /\ edges' = edges \union EdgeTo(NextToVisit.from, pkgbase)
  BY DEF Visit
<1>10. /\ Roots' = Roots
       /\ PackagedNames' = PackagedNames
       /\ ToRebuild' = ToRebuild
       /\ \A n : Dependents(n)' = Dependents(n)
  BY <1>9, ReposConstant
<1>11. TypesOK'
  <2>1. EdgeTo(NextToVisit.from, pkgbase) \subseteq Pkgbases \X Pkgbases
    BY <1>2, <1>3 DEF EdgeTo
  <2> HIDE DEF pkgname, pkgbase
  <2> QED BY <1>3, <1>9, <1>10, <2>1 DEF WalkInv, TypesOK
<1>12. QueueOK'
  BY <1>7, <1>10 DEF QueueOK
<1>13. NothingForgotten'
  <2>1. /\ Roots \subseteq visited \union Queued
        /\ \A n \in visited : Dependents(n) \subseteq visited \union Queued
    BY <1>1 DEF WalkInv, NothingForgotten
  <2> HIDE DEF pkgname, pkgbase
  <2>2. visited \union Queued \subseteq visited' \union Queued'
    BY <1>8, <1>9
  <2>3. \A n \in visited' : Dependents(n) \subseteq visited' \union Queued'
    BY <1>8, <1>9, <2>1, <2>2
  <2> QED BY <1>10, <2>1, <2>2, <2>3 DEF NothingForgotten
<1>14. NothingNeedless'
  <2> HIDE DEF pkgname, pkgbase
  <2>1. Roots \subseteq PackagedNames
    <3>1. visited \union Queued \subseteq PackagedNames
      BY DEF WalkInv, NothingNeedless, ToRebuild
    <3> QED BY <1>1, <3>1 DEF WalkInv, NothingForgotten
  <2>2. pkgname \in ToRebuild /\ Dependents(pkgname) \subseteq ToRebuild
    BY <1>8, <2>1, ToRebuildIsLeast
       DEF WalkInv, NothingNeedless, ClosedUnderDependents
  <2> QED BY <1>8, <1>9, <1>10, <2>2 DEF WalkInv, NothingNeedless
<1>15. NodesOfVisited' /\ FinishedWhenEmpty'
  BY <1>1, <1>9 DEF WalkInv, NodesOfVisited, FinishedWhenEmpty
<1> QED BY <1>11, <1>12, <1>13, <1>14, <1>15 DEF WalkInv

\* A finished walk, and one that has returned, keep what was calculated.
LEMMA FinishInv == WalkInv /\ (Finish \/ UNCHANGED vars) => WalkInv'
<1> SUFFICES ASSUME WalkInv, Finish \/ UNCHANGED vars PROVE WalkInv'
  OBVIOUS
<1>1. /\ repos' = repos /\ pkgname_to_pkgbase' = pkgname_to_pkgbase
      /\ nodes_to_visit' = nodes_to_visit /\ visited' = visited
      /\ nodes' = nodes /\ edges' = edges
  BY DEF Finish, vars
<1>2. /\ Roots' = Roots
      /\ PackagedNames' = PackagedNames
      /\ ToRebuild' = ToRebuild
      /\ \A n : Dependents(n)' = Dependents(n)
  BY <1>1, ReposConstant
<1>3. Queued' = Queued
  BY <1>1 DEF Queued, Targets, Elements
<1>4. /\ result' \in {"walking", "done", "cyclic", "missing"}
      /\ result' # "missing" => result # "missing"
      /\ result' \in {"done", "cyclic"} => nodes_to_visit = <<>>
  BY DEF Finish, vars, WalkInv, TypesOK, FinishedWhenEmpty
<1>5. TypesOK' /\ QueueOK'
  BY <1>1, <1>2, <1>4 DEF WalkInv, TypesOK, QueueOK
<1>6. NothingForgotten' /\ NothingNeedless'
  BY <1>1, <1>2, <1>3, <1>4 DEF WalkInv, NothingForgotten, NothingNeedless
<1>7. NodesOfVisited' /\ FinishedWhenEmpty'
  BY <1>1, <1>4 DEF WalkInv, NodesOfVisited, FinishedWhenEmpty
<1> QED BY <1>5, <1>6, <1>7 DEF WalkInv

LEMMA NextWalkInv == WalkInv /\ [Next]_vars => WalkInv'
BY SkipVisitedInv, VisitInv, FinishInv DEF Next, Returned

THEOREM WalkInvariant == Spec => []WalkInv
<1>1. Init => WalkInv
  BY InitWalkInv
<1>2. WalkInv /\ [Next]_vars => WalkInv'
  BY NextWalkInv
<1> QED BY <1>1, <1>2, PTL DEF Spec

-----------------------------------------------------------------------------
(***************************************************************************)
(* What follows from it                                                    *)
(***************************************************************************)

\* The variables of the calculation keep their types.
THEOREM WalkTypeCorrect == Spec => []TypeOK
<1>1. WalkInv => TypeOK
  BY DEF WalkInv, TypesOK, QueueOK, TypeOK
<1> QED BY <1>1, WalkInvariant, PTL

\* calculate_packages_to_be_built_inner is exact: however the hash maps order
\* repositories and edges, a finished calculation has visited the packages
\* that transitively depend on an origin changeset and no others.
THEOREM WalkIsExact == Spec => []BuildSetIsExact
<1>1. WalkInv => BuildSetIsExact
  <2> SUFFICES ASSUME WalkInv, result \in {"done", "cyclic"}
               PROVE  /\ visited = ToRebuild
                      /\ nodes = {pkgname_to_pkgbase[n] : n \in ToRebuild}
    BY DEF BuildSetIsExact
  <2>1. Queued = {}
    BY DEF WalkInv, FinishedWhenEmpty, Queued, Targets, Elements
  <2>2. visited \subseteq ToRebuild /\ visited \subseteq PackagedNames
    BY DEF WalkInv, NothingNeedless, TypesOK
  <2>3. ClosedUnderDependents(visited)
    BY <2>1 DEF WalkInv, NothingForgotten, ClosedUnderDependents
  <2>4. Roots \subseteq PackagedNames
    BY <2>2, <2>3 DEF ClosedUnderDependents
  <2>5. ToRebuild \subseteq visited
    BY <2>2, <2>3, <2>4, ToRebuildIsLeast
  <2>6. visited = ToRebuild
    BY <2>2, <2>5
  <2> QED BY <2>6 DEF WalkInv, NodesOfVisited
<1> QED BY <1>1, WalkInvariant, PTL

-----------------------------------------------------------------------------
(***************************************************************************)
(* The edges                                                               *)
(***************************************************************************)

\* A queue entry is a root, or names a dependent of a package that was visited
\* in the pkgbase the entry comes from.
Explained(entry) ==
    \/ entry.from = NoNode /\ entry.to \in Roots
    \/ \E n \in visited :
        entry.to \in Dependents(n) /\ entry.from = pkgname_to_pkgbase[n]

QueueExplained == \A entry \in Elements(nodes_to_visit) : Explained(entry)

WaitsOrHasRoot(b) ==
    (\A n \in visited : pkgname_to_pkgbase[n] = b => n \notin Roots)
        => \E e \in edges : e[2] = b

EdgesInv ==
    /\ QueueExplained
    /\ EdgesAreDependencies
    /\ \A b \in nodes : WaitsOrHasRoot(b)
    /\ result = "done" => ~IsCyclic(nodes, edges)

LEMMA EntriesTyped ==
    ASSUME NEW from, NEW S, NEW q \in Seq([from : {from}, to : S])
    PROVE  \A i \in 1 .. Len(q) : q[i].from = from /\ q[i].to \in S
<1> DEFINE T == [from : {from}, to : S]
<1> HIDE DEF T
<1>1. q \in Seq(T)
  BY DEF T
<1>2. \A i \in 1 .. Len(q) : q[i] \in T
  BY <1>1
<1> QED BY <1>2 DEF T

\* The walk has pushed nothing but roots, and an edge for a visited package.
LEMMA VisitedStays ==
    ASSUME WalkInv, Visit \/ SkipVisited
    PROVE  /\ repos' = repos
           /\ pkgname_to_pkgbase' = pkgname_to_pkgbase
           /\ visited \subseteq visited'
           /\ result' = "walking"
           /\ \A entry : Explained(entry) => Explained(entry)'
<1>1. /\ repos' = repos
      /\ pkgname_to_pkgbase' = pkgname_to_pkgbase
      /\ visited \subseteq visited'
      /\ result' = "walking"
  BY DEF Visit, SkipVisited
<1>2. Roots' = Roots /\ \A n : Dependents(n)' = Dependents(n)
  BY <1>1, ReposConstant
<1> QED
  BY <1>1, <1>2 DEF Explained

\* What a visit does to the queue, in terms of its elements.
LEMMA VisitQueue ==
    ASSUME WalkInv, Visit
    PROVE  LET pkgname == NextToVisit.to
           IN  /\ NextToVisit \in Elements(nodes_to_visit)
               /\ pkgname \in PackagedNames
               /\ \A entry \in Elements(nodes_to_visit') :
                    \/ entry \in Elements(nodes_to_visit)
                    \/ /\ entry.from = pkgname_to_pkgbase[pkgname]
                       /\ entry.to \in Dependents(pkgname)
               /\ \E neighbours \in ToVisit(pkgname_to_pkgbase[pkgname],
                                            Dependents(pkgname)) :
                    /\ nodes_to_visit' = Tail(nodes_to_visit) \o neighbours
                    /\ Len(neighbours) = Cardinality(Dependents(pkgname))
                    /\ neighbours \in Seq([from : Pkgbases \union {NoNode},
                                           to : PackagedNames])
<1> DEFINE Entry == [from : Pkgbases \union {NoNode}, to : PackagedNames]
           pkgname == NextToVisit.to
           pkgbase == pkgname_to_pkgbase[pkgname]
<1>1. nodes_to_visit \in Seq(Entry) /\ nodes_to_visit # <<>>
  BY DEF WalkInv, QueueOK, Visit
<1>2. /\ Tail(nodes_to_visit) \in Seq(Entry)
      /\ NextToVisit \in Entry
      /\ Elements(nodes_to_visit) = {NextToVisit} \union Elements(Tail(nodes_to_visit))
  <2> HIDE DEF Entry
  <2> QED BY <1>1, TailElements DEF NextToVisit
<1>3. pkgname \in PackagedNames /\ pkgbase \in Pkgbases
  BY <1>2, ReposTyped DEF WalkInv
<1>4. /\ IsFiniteSet(Dependents(pkgname))
      /\ Dependents(pkgname) \subseteq PackagedNames
  BY ReposTyped, ReposAssumption, FS_Subset DEF WalkInv
<1>5. PICK neighbours \in ToVisit(pkgbase, Dependents(pkgname)) :
        nodes_to_visit' = Tail(nodes_to_visit) \o neighbours
  BY DEF Visit
<1> HIDE DEF pkgname, pkgbase
<1>6. /\ neighbours \in Seq([from : {pkgbase}, to : Dependents(pkgname)])
      /\ Len(neighbours) = Cardinality(Dependents(pkgname))
  <2>1. neighbours \in Seq([from : {pkgbase}, to : Dependents(pkgname)])
    BY <1>4, ToVisitElements
  <2>2. PICK order \in Orderings(Dependents(pkgname)) :
            neighbours = [i \in DOMAIN order |-> [from |-> pkgbase, to |-> order[i]]]
    BY DEF ToVisit
  <2>3. Cardinality(Dependents(pkgname)) \in Nat
    BY <1>4, FS_CardinalityType
  <2>4. DOMAIN neighbours = 1 .. Cardinality(Dependents(pkgname))
    BY <2>2 DEF Orderings
  <2> QED BY <2>1, <2>3, <2>4
<1>7. \A i \in 1 .. Len(neighbours) :
        neighbours[i].from = pkgbase /\ neighbours[i].to \in Dependents(pkgname)
  BY <1>6, EntriesTyped
<1>8. neighbours \in Seq(Entry)
  <2>1. [from : {pkgbase}, to : Dependents(pkgname)] \subseteq Entry
    BY <1>3, <1>4
  <2> HIDE DEF Entry
  <2> QED BY <1>6, <2>1, SeqOfSubset
<1>9. Elements(nodes_to_visit') = Elements(Tail(nodes_to_visit)) \union Elements(neighbours)
  <2> HIDE DEF Entry
  <2> QED BY <1>2, <1>5, <1>8, ConcatElements
<1>10. \A entry \in Elements(neighbours) :
        entry.from = pkgbase /\ entry.to \in Dependents(pkgname)
  BY <1>7 DEF Elements
<1>11. \A entry \in Elements(nodes_to_visit') :
        \/ entry \in Elements(nodes_to_visit)
        \/ entry.from = pkgbase /\ entry.to \in Dependents(pkgname)
  BY <1>2, <1>9, <1>10
<1> QED
  BY <1>2, <1>3, <1>5, <1>6, <1>8, <1>11 DEF pkgname, pkgbase

LEMMA InitEdgesInv == Init => EdgesInv
<1> SUFFICES ASSUME Init
             PROVE  EdgesInv
  OBVIOUS
<1>1. edges = {} /\ nodes = {} /\ visited = {} /\ result # "done"
  BY DEF Init
<1>2. CASE nodes_to_visit = <<>>
  <2>1. Elements(nodes_to_visit) = {}
    BY <1>2 DEF Elements
  <2> QED BY <1>1, <2>1 DEF EdgesInv, QueueExplained, EdgesAreDependencies
<1>3. CASE repos.origins \subseteq repos.readable /\ nodes_to_visit \in ToVisit(NoNode, Roots)
  <2>1. TypesOK
    BY InitWalkInv DEF WalkInv
  <2>2. Roots \subseteq PackagedNames
    BY <1>3 DEF Roots, RootsOf, PackagedNames
  <2>3. IsFiniteSet(Roots)
    BY <2>1, <2>2, ReposTyped, FS_Subset, ReposAssumption
  <2>4. nodes_to_visit \in Seq([from : {NoNode}, to : Roots])
    BY <1>3, <2>3, ToVisitElements
  <2>5. \A i \in 1 .. Len(nodes_to_visit) :
            nodes_to_visit[i].from = NoNode /\ nodes_to_visit[i].to \in Roots
    BY <2>4, EntriesTyped
  <2>6. QueueExplained
    BY <2>5 DEF QueueExplained, Elements, Explained
  <2> QED BY <1>1, <2>6 DEF EdgesInv, EdgesAreDependencies
<1> QED BY <1>2, <1>3 DEF Init

LEMMA VisitEdgesInv == WalkInv /\ EdgesInv /\ Visit => EdgesInv'
<1> SUFFICES ASSUME WalkInv, EdgesInv, Visit
             PROVE  EdgesInv'
  OBVIOUS
<1> DEFINE pkgname == NextToVisit.to
           pkgbase == pkgname_to_pkgbase[pkgname]
           from == NextToVisit.from
<1>1. /\ repos' = repos
      /\ pkgname_to_pkgbase' = pkgname_to_pkgbase
      /\ visited \subseteq visited'
      /\ result' = "walking"
      /\ \A entry : Explained(entry) => Explained(entry)'
  BY VisitedStays
<1>2. Roots' = Roots /\ \A n : Dependents(n)' = Dependents(n)
  BY <1>1, ReposConstant
<1>3. /\ visited' = visited \union {pkgname}
      /\ nodes' = nodes \union {pkgbase}
      /\ edges' = edges \union EdgeTo(from, pkgbase)
  BY DEF Visit
<1>4. /\ NextToVisit \in Elements(nodes_to_visit)
      /\ \A entry \in Elements(nodes_to_visit') :
            \/ entry \in Elements(nodes_to_visit)
            \/ entry.from = pkgbase /\ entry.to \in Dependents(pkgname)
  BY VisitQueue
<1>5. Explained(NextToVisit)
  BY <1>4 DEF EdgesInv, QueueExplained
<1>6. \/ from = NoNode /\ pkgname \in Roots
      \/ \E n \in visited : pkgname \in Dependents(n) /\ from = pkgname_to_pkgbase[n]
  BY <1>5 DEF Explained
<1>7. NodesOfVisited
  BY DEF WalkInv
<1> HIDE DEF pkgname, pkgbase, from
<1>8. QueueExplained'
  <2> SUFFICES ASSUME NEW entry \in Elements(nodes_to_visit')
               PROVE  Explained(entry)'
    BY DEF QueueExplained, Elements
  <2>1. CASE entry \in Elements(nodes_to_visit)
    BY <1>1, <2>1 DEF EdgesInv, QueueExplained
  <2>2. CASE entry.from = pkgbase /\ entry.to \in Dependents(pkgname)
    BY <1>1, <1>2, <1>3, <2>2 DEF Explained, pkgbase
  <2> QED BY <1>4, <2>1, <2>2
<1>9. EdgesAreDependencies'
  <2> SUFFICES ASSUME NEW e \in edges'
               PROVE  /\ e[1] # e[2]
                      /\ \E n, m \in visited' :
                            /\ m \in Dependents(n)
                            /\ e = <<pkgname_to_pkgbase[n], pkgname_to_pkgbase[m]>>
    BY <1>1, <1>2 DEF EdgesAreDependencies
  <2>1. CASE e \in edges
    BY <1>3, <2>1 DEF EdgesInv, EdgesAreDependencies
  <2>2. CASE e \in EdgeTo(from, pkgbase)
    <3>1. from # NoNode /\ from # pkgbase /\ e = <<from, pkgbase>>
      BY <2>2 DEF EdgeTo
    <3>2. PICK n \in visited : pkgname \in Dependents(n) /\ from = pkgname_to_pkgbase[n]
      BY <1>6, <3>1
    <3> QED BY <1>3, <3>1, <3>2 DEF pkgbase
  <2> QED BY <1>3, <2>1, <2>2
<1>10. ASSUME NEW b \in nodes'
       PROVE  WaitsOrHasRoot(b)'
  <2> SUFFICES ASSUME \A n \in visited' : pkgname_to_pkgbase[n] = b => n \notin Roots
               PROVE  \E e \in edges' : e[2] = b
    BY <1>1, <1>2 DEF WaitsOrHasRoot
  <2>1. CASE b \in nodes
    BY <1>3, <2>1 DEF EdgesInv, WaitsOrHasRoot
  <2>2. CASE b = pkgbase /\ b \notin nodes
    <3>1. pkgname \notin Roots
      BY <1>3, <2>2 DEF pkgbase
    <3>2. PICK n \in visited : pkgname \in Dependents(n) /\ from = pkgname_to_pkgbase[n]
      BY <1>6, <3>1
    <3>3. from \in nodes
      BY <1>7, <3>2 DEF NodesOfVisited
    <3>4. from # NoNode
      BY <3>3, ReposAssumption DEF WalkInv, TypesOK
    <3>5. <<from, pkgbase>> \in edges'
      BY <1>3, <2>2, <3>3, <3>4 DEF EdgeTo
    <3> QED BY <2>2, <3>5
  <2> QED BY <1>3, <2>1, <2>2
<1> QED BY <1>1, <1>8, <1>9, <1>10 DEF EdgesInv

LEMMA NextEdgesInv == WalkInv /\ EdgesInv /\ [Next]_vars => EdgesInv'
<1> SUFFICES ASSUME WalkInv, EdgesInv, [Next]_vars
             PROVE  EdgesInv'
  OBVIOUS
<1>1. CASE Visit
  BY <1>1, VisitEdgesInv
<1>2. CASE SkipVisited
  <2>1. /\ repos' = repos /\ pkgname_to_pkgbase' = pkgname_to_pkgbase
        /\ visited' = visited /\ nodes' = nodes /\ edges' = edges
        /\ result' = "walking"
        /\ \A entry : Explained(entry) => Explained(entry)'
    BY <1>2, VisitedStays DEF SkipVisited
  <2>2. Roots' = Roots /\ \A n : Dependents(n)' = Dependents(n)
    BY <2>1, ReposConstant
  <2>3. Elements(nodes_to_visit') \subseteq Elements(nodes_to_visit)
    <3> DEFINE Entry == [from : Pkgbases \union {NoNode}, to : PackagedNames]
    <3>1. nodes_to_visit \in Seq(Entry) /\ nodes_to_visit # <<>>
      BY <1>2 DEF WalkInv, QueueOK, SkipVisited
    <3>2. nodes_to_visit' = Tail(nodes_to_visit)
      BY <1>2 DEF SkipVisited
    <3> HIDE DEF Entry
    <3> QED BY <3>1, <3>2, TailElements
  <2>4. QueueExplained'
    BY <2>1, <2>3 DEF EdgesInv, QueueExplained, Elements
  <2>5. EdgesAreDependencies' /\ \A b \in nodes' : WaitsOrHasRoot(b)'
    BY <2>1, <2>2 DEF EdgesInv, EdgesAreDependencies, WaitsOrHasRoot
  <2> QED BY <2>1, <2>4, <2>5 DEF EdgesInv
<1>3. CASE Finish \/ UNCHANGED vars
  <2>1. /\ repos' = repos /\ pkgname_to_pkgbase' = pkgname_to_pkgbase
        /\ nodes_to_visit' = nodes_to_visit /\ visited' = visited
        /\ nodes' = nodes /\ edges' = edges
    BY <1>3 DEF Finish, vars
  <2>2. Roots' = Roots /\ \A n : Dependents(n)' = Dependents(n)
    BY <2>1, ReposConstant
  <2>3. QueueExplained'
    BY <2>1, <2>2 DEF EdgesInv, QueueExplained, Elements, Explained
  <2>4. EdgesAreDependencies' /\ \A b \in nodes' : WaitsOrHasRoot(b)'
    BY <2>1, <2>2 DEF EdgesInv, EdgesAreDependencies, WaitsOrHasRoot
  <2>5. result' = "done" => ~IsCyclic(nodes', edges')
    BY <1>3, <2>1 DEF EdgesInv, Finish, vars
  <2> QED BY <2>3, <2>4, <2>5 DEF EdgesInv, IsCyclic
<1> QED BY <1>1, <1>2, <1>3 DEF Next, Returned

THEOREM EdgesInvariant == Spec => []EdgesInv
<1>1. WalkInv /\ EdgesInv /\ [Next]_vars => EdgesInv'
  BY NextEdgesInv
<1> QED BY <1>1, InitEdgesInv, WalkInvariant, PTL DEF Spec

\* calculate_packages_to_be_built_inner draws an edge only where a package of
\* one repository depends on a package of another one.
THEOREM WalkDrawsDependencies == Spec => []EdgesAreDependencies
<1>1. EdgesInv => EdgesAreDependencies
  BY DEF EdgesInv
<1> QED BY <1>1, EdgesInvariant, PTL

\* Only repositories of origin changesets start without waiting, although the
\* walk drops edges.
THEOREM WalkLetsDependentsWait == Spec => []DependentsWait
<1>1. EdgesInv => DependentsWait
  BY DEF EdgesInv, DependentsWait, WaitsOrHasRoot
<1> QED BY <1>1, EdgesInvariant, PTL

\* The graph of the walk, with some statuses.
GraphWith(status) == [status |-> status, edges |-> edges]

\* A graph that passed the cycle check has no node the scheduler cannot reach:
\* the unreachable nodes would all have predecessors among themselves.
LEMMA AllNodesAreVisited ==
    ASSUME WalkInv, EdgesInv, result = "done", NEW status \in [nodes -> PackageBuildStatus]
    PROVE  VisitedNodes(GraphWith(status)) = nodes
<1> DEFINE graph == GraphWith(status)
           missed == nodes \ VisitedNodes(graph)
<1>1. Nodes(graph) = nodes /\ graph.edges = edges
  BY DEF Nodes, GraphWith
<1>2. edges \subseteq nodes \X nodes
  BY DEF EdgesInv, EdgesAreDependencies, WalkInv, NodesOfVisited
<1> HIDE DEF graph
<1>3. VisitedNodes(graph) \subseteq nodes
  BY <1>1 DEF VisitedNodes
<1>4. ASSUME NEW n \in missed
      PROVE  \E m \in missed : <<m, n>> \in edges
  <2>1. n \notin RootNodes(graph)
    BY <1>1, <1>4 DEF VisitedNodes
  <2>2. PICK m \in nodes : <<m, n>> \in edges
    BY <1>1, <1>4, <2>1 DEF RootNodes, Dependencies
  <2>3. m \notin VisitedNodes(graph)
    BY <1>1, <1>4, <2>2 DEF VisitedNodes
  <2> QED BY <2>2, <2>3
<1>5. missed = {}
  <2>1. ~IsCyclic(nodes, edges)
    BY DEF EdgesInv
  <2>2. missed \in SUBSET nodes
    OBVIOUS
  <2> QED BY <1>4, <2>1, <2>2 DEF IsCyclic
<1> QED BY <1>3, <1>5 DEF graph

\* The scheduler is never stuck on a graph the calculation returned: blocked
\* builds that all wait for each other would be a cycle.
THEOREM WalkCanStartEveryBuild == Spec => []EveryBuildCanStart
<1>1. WalkInv /\ EdgesInv => EveryBuildCanStart
  <2> SUFFICES ASSUME WalkInv, EdgesInv, result = "done",
                      NEW status \in [nodes -> PackageBuildStatus],
                      \A b \in nodes : status[b] \notin InProgress \union {"Failed"},
                      ReadyBuilds(GraphWith(status)) = {}
               PROVE  \A b \in nodes : status[b] # "Blocked"
    BY DEF EveryBuildCanStart, GraphWith
  <2> DEFINE graph == GraphWith(status)
             blocked == {b \in nodes : status[b] = "Blocked"}
  <2>1. Nodes(graph) = nodes /\ graph.edges = edges /\ graph.status = status
    BY DEF Nodes, GraphWith
  <2>2. VisitedNodes(graph) = nodes /\ ReadyBuilds(graph) = {}
    BY AllNodesAreVisited
  <2> HIDE DEF graph
  <2>3. \A b \in nodes : status[b] \in {"Blocked", "Built"}
    BY <2>1, <2>2 DEF ReadyBuilds, InProgress, PackageBuildStatus
  <2>4. ASSUME NEW n \in blocked
        PROVE  \E m \in blocked : <<m, n>> \in edges
    <3>1. StillBlocked(graph, n)
      BY <2>1, <2>2 DEF ReadyBuilds
    <3>2. PICK m \in nodes : <<m, n>> \in edges /\ status[m] # "Built"
      BY <2>1, <3>1 DEF StillBlocked, Dependencies
    <3> QED BY <2>3, <3>2
  <2>5. blocked = {}
    <3>1. ~IsCyclic(nodes, edges)
      BY DEF EdgesInv
    <3>2. blocked \in SUBSET nodes
      OBVIOUS
    <3> QED BY <2>4, <3>1, <3>2 DEF IsCyclic
  <2> QED BY <2>5
<1> QED BY <1>1, EdgesInvariant, WalkInvariant, PTL

\* What the calculation returns is a graph as GitlabDispatch and WorkerDispatch
\* assume of their build sets, whatever the commits of the repositories: every
\* node is blocked, and some of any nodes waits for none of the others.
BuildSetIsAGraph ==
    result = "done" =>
        \A hashes : \A commit_hash \in [nodes -> hashes] :
            LET graph == [commit_hash |-> commit_hash,
                          status |-> [n \in nodes |-> "Blocked"],
                          edges |-> edges]
            IN  /\ IsBuildSetGraph(graph, Pkgbases, hashes)
                /\ \A b \in Nodes(graph) : graph.status[b] = "Blocked"
                /\ \A c \in SUBSET Nodes(graph) :
                        c # {} => \E b \in c : Dependencies(graph, b) \intersect c = {}

THEOREM WalkReturnsAGraph == Spec => []BuildSetIsAGraph
<1>1. WalkInv /\ EdgesInv => BuildSetIsAGraph
  <2> SUFFICES ASSUME WalkInv, EdgesInv, result = "done",
                      NEW hashes, NEW commit_hash \in [nodes -> hashes],
                      NEW graph, graph = [commit_hash |-> commit_hash,
                                          status |-> [n \in nodes |-> "Blocked"],
                                          edges |-> edges]
               PROVE  /\ IsBuildSetGraph(graph, Pkgbases, hashes)
                      /\ \A b \in Nodes(graph) : graph.status[b] = "Blocked"
                      /\ \A c \in SUBSET Nodes(graph) :
                            c # {} => \E b \in c : Dependencies(graph, b) \intersect c = {}
    BY DEF BuildSetIsAGraph
  <2>1. edges \in SUBSET (nodes \X nodes)
    BY DEF EdgesInv, EdgesAreDependencies, WalkInv, NodesOfVisited
  <2>2. [n \in nodes |-> "Blocked"] \in [nodes -> PackageBuildStatus]
    BY DEF PackageBuildStatus
  <2>3. nodes \subseteq Pkgbases
    BY DEF WalkInv, TypesOK
  <2>4. IsBuildSetGraph(graph, Pkgbases, hashes)
    BY <2>1, <2>2, <2>3 DEF IsBuildSetGraph, Nodes
  <2>5. Nodes(graph) = nodes /\ graph.edges = edges
        /\ \A b \in nodes : graph.status[b] = "Blocked"
    BY DEF Nodes
  <2>6. ASSUME NEW c \in SUBSET nodes, c # {}
        PROVE  \E b \in c : Dependencies(graph, b) \intersect c = {}
    <3>1. ~IsCyclic(nodes, edges)
      BY DEF EdgesInv
    <3>2. PICK b \in c : \A m \in c : <<m, b>> \notin edges
      BY <2>6, <3>1 DEF IsCyclic
    <3> QED BY <2>5, <3>2 DEF Dependencies
  <2> QED BY <2>4, <2>5, <2>6
<1> QED BY <1>1, EdgesInvariant, WalkInvariant, PTL

-----------------------------------------------------------------------------
(***************************************************************************)
(* When no edge is missing                                                 *)
(***************************************************************************)

\* Every way to a package to rebuild comes from the same repository, and one
\* of an origin changeset is met on no other way: there are no diamonds.
MetFromOneRepository ==
    \A n, m \in ToRebuild : m \in Dependents(n) =>
        /\ m \in Roots => pkgname_to_pkgbase[n] = pkgname_to_pkgbase[m]
        /\ \A k \in ToRebuild :
                m \in Dependents(k) => pkgname_to_pkgbase[k] = pkgname_to_pkgbase[n]

\* A visited package is a root, or was met on a way that the graph shows.
VisitedExplained ==
    \A m \in visited :
        \/ m \in Roots
        \/ \E n \in visited :
            /\ m \in Dependents(n)
            /\ \/ pkgname_to_pkgbase[n] = pkgname_to_pkgbase[m]
               \/ <<pkgname_to_pkgbase[n], pkgname_to_pkgbase[m]>> \in edges

LEMMA NextVisitedExplained ==
    WalkInv /\ EdgesInv /\ VisitedExplained /\ [Next]_vars => VisitedExplained'
<1> SUFFICES ASSUME WalkInv, EdgesInv, VisitedExplained, [Next]_vars
             PROVE  VisitedExplained'
  OBVIOUS
<1>1. repos' = repos /\ pkgname_to_pkgbase' = pkgname_to_pkgbase
  BY DEF Next, Visit, SkipVisited, Finish, Returned, vars
<1>2. Roots' = Roots /\ \A n : Dependents(n)' = Dependents(n)
  BY <1>1, ReposConstant
<1>3. CASE Visit
  <2> DEFINE pkgname == NextToVisit.to
             pkgbase == pkgname_to_pkgbase[pkgname]
             from == NextToVisit.from
  <2>1. visited' = visited \union {pkgname} /\ edges' = edges \union EdgeTo(from, pkgbase)
    BY <1>3 DEF Visit
  <2>2. Explained(NextToVisit)
    BY <1>3, VisitQueue DEF EdgesInv, QueueExplained
  <2>3. \/ pkgname \in Roots
        \/ \E n \in visited : pkgname \in Dependents(n) /\ from = pkgname_to_pkgbase[n]
    BY <2>2 DEF Explained
  <2>4. \A n \in visited : pkgname_to_pkgbase[n] # NoNode
    BY ReposTyped, ReposAssumption DEF WalkInv, TypesOK
  <2> HIDE DEF pkgname, from
  <2>5. ASSUME NEW n \in visited, pkgname \in Dependents(n), from = pkgname_to_pkgbase[n]
        PROVE  pkgname_to_pkgbase[n] = pkgbase \/ <<pkgname_to_pkgbase[n], pkgbase>> \in edges'
    BY <2>1, <2>4, <2>5 DEF EdgeTo
  <2> QED BY <1>1, <1>2, <2>1, <2>3, <2>5 DEF VisitedExplained
<1>4. CASE visited' = visited /\ edges' = edges
  BY <1>1, <1>2, <1>4 DEF VisitedExplained
<1> QED BY <1>3, <1>4 DEF Next, SkipVisited, Finish, Returned, vars

\* "The precise graph of dependents for the given Pkgbases" it is when no
\* package is met from two repositories: what the walk drops is exactly the
\* other ways to a package it has visited before.
THEOREM WalkIsPreciseWithoutDiamonds ==
    Spec => [](MetFromOneRepository => EveryDependencyIsAnEdge)
<1>1. Init => VisitedExplained
  BY DEF Init, VisitedExplained
<1>2. WalkInv /\ VisitedExplained => (MetFromOneRepository => EveryDependencyIsAnEdge)
  <2> SUFFICES ASSUME WalkInv, VisitedExplained, MetFromOneRepository,
                      NEW n \in visited, NEW m \in visited, m \in Dependents(n),
                      pkgname_to_pkgbase[n] # pkgname_to_pkgbase[m]
               PROVE  <<pkgname_to_pkgbase[n], pkgname_to_pkgbase[m]>> \in edges
    BY DEF EveryDependencyIsAnEdge
  <2>1. visited \subseteq ToRebuild
    BY DEF WalkInv, NothingNeedless
  <2>2. m \notin Roots
    BY <2>1 DEF MetFromOneRepository
  <2>3. PICK k \in visited :
            /\ m \in Dependents(k)
            /\ \/ pkgname_to_pkgbase[k] = pkgname_to_pkgbase[m]
               \/ <<pkgname_to_pkgbase[k], pkgname_to_pkgbase[m]>> \in edges
    BY <2>2 DEF VisitedExplained
  <2>4. pkgname_to_pkgbase[k] = pkgname_to_pkgbase[n]
    BY <2>1, <2>3 DEF MetFromOneRepository
  <2> QED BY <2>3, <2>4
<1> QED
  BY <1>1, <1>2, NextVisitedExplained, WalkInvariant, EdgesInvariant, PTL DEF Spec

-----------------------------------------------------------------------------
(***************************************************************************)
(* The work                                                                *)
(***************************************************************************)

\* The edges of the global graph at packages that were visited.
Followed == {e \in visited \X PackagedNames : e[2] \in Dependents(e[1])}

LEMMA FiniteWork ==
    ASSUME WalkInv
    PROVE  /\ IsFiniteSet(visited) /\ Cardinality(visited) \in Nat
           /\ IsFiniteSet(Followed) /\ Cardinality(Followed) \in Nat
           /\ Len(nodes_to_visit) \in Nat
           /\ \A n : IsFiniteSet(Dependents(n)) /\ Cardinality(Dependents(n)) \in Nat
<1>1. IsFiniteSet(PackagedNames)
  BY ReposTyped, ReposAssumption, FS_Subset DEF WalkInv
<1>2. \A n : IsFiniteSet(Dependents(n))
  BY <1>1, ReposTyped, FS_Subset DEF WalkInv
<1>3. IsFiniteSet(visited)
  BY <1>1, FS_Subset DEF WalkInv, TypesOK
<1>4. IsFiniteSet(Followed)
  <2>1. IsFiniteSet(visited \X PackagedNames)
    BY <1>1, <1>3, FS_Product
  <2> QED BY <2>1, FS_Subset DEF Followed
<1>5. Len(nodes_to_visit) \in Nat
  BY DEF WalkInv, QueueOK
<1> QED BY <1>2, <1>3, <1>4, <1>5, FS_CardinalityType

LEMMA ConcatLength ==
    ASSUME NEW S, NEW p \in Seq(S), NEW q \in Seq(S)
    PROVE  Len(p \o q) = Len(p) + Len(q)
OBVIOUS

\* Visiting a package adds its own edges to those that were followed.
LEMMA VisitFollows ==
    ASSUME WalkInv, Visit
    PROVE  LET dependents == Dependents(NextToVisit.to)
           IN  /\ Cardinality(visited') = Cardinality(visited) + 1
               /\ Cardinality(Followed') = Cardinality(Followed) + Cardinality(dependents)
               /\ Len(nodes_to_visit') = Len(nodes_to_visit) - 1 + Cardinality(dependents)
<1> DEFINE pkgname == NextToVisit.to
           new == {pkgname} \X Dependents(pkgname)
<1>1. /\ repos' = repos
      /\ visited' = visited \union {pkgname}
      /\ pkgname \notin visited
      /\ nodes_to_visit # <<>>
  BY DEF Visit
<1>2. PackagedNames' = PackagedNames /\ \A n : Dependents(n)' = Dependents(n)
  BY <1>1, ReposConstant
<1>3. /\ IsFiniteSet(visited) /\ IsFiniteSet(Followed)
      /\ IsFiniteSet(Dependents(pkgname))
      /\ Cardinality(Followed) \in Nat
      /\ Cardinality(Dependents(pkgname)) \in Nat
  BY FiniteWork
<1>4. Dependents(pkgname) \subseteq PackagedNames
  BY ReposTyped DEF WalkInv
<1> HIDE DEF pkgname
<1>5. Cardinality(visited') = Cardinality(visited) + 1
  BY <1>1, <1>3, FS_AddElement
<1>6. Followed' = Followed \union new
  <2>1. Followed' = {e \in visited' \X PackagedNames : e[2] \in Dependents(e[1])}
    BY <1>2 DEF Followed
  <2> QED BY <1>1, <1>4, <2>1 DEF Followed
<1>7. Followed \intersect new = {}
  BY <1>1 DEF Followed
<1>8. IsFiniteSet(new) /\ Cardinality(new) = Cardinality(Dependents(pkgname))
  <2>1. IsFiniteSet({pkgname}) /\ Cardinality({pkgname}) = 1
    BY FS_Singleton
  <2>2. /\ IsFiniteSet(new)
        /\ Cardinality(new) = Cardinality({pkgname}) * Cardinality(Dependents(pkgname))
    BY <1>3, <2>1, FS_Product
  <2> QED BY <1>3, <2>1, <2>2
<1> HIDE DEF new
<1>9. Cardinality(Followed') = Cardinality(Followed) + Cardinality(Dependents(pkgname))
  <2>1. Cardinality(Followed \union new)
            = Cardinality(Followed) + Cardinality(new) - Cardinality({})
    BY <1>3, <1>7, <1>8, FS_Union
  <2> QED BY <1>3, <1>6, <1>8, <2>1, FS_EmptySet
<1>10. Len(nodes_to_visit') = Len(nodes_to_visit) - 1 + Cardinality(Dependents(pkgname))
  <2> DEFINE Entry == [from : Pkgbases \union {NoNode}, to : PackagedNames]
  <2>1. nodes_to_visit \in Seq(Entry)
    BY DEF WalkInv, QueueOK
  <2>2. PICK neighbours \in Seq(Entry) :
            /\ nodes_to_visit' = Tail(nodes_to_visit) \o neighbours
            /\ Len(neighbours) = Cardinality(Dependents(pkgname))
    BY VisitQueue DEF pkgname
  <2> HIDE DEF Entry
  <2>3. Tail(nodes_to_visit) \in Seq(Entry)
        /\ Len(Tail(nodes_to_visit)) = Len(nodes_to_visit) - 1
    BY <1>1, <2>1
  <2>4. Len(nodes_to_visit') = Len(Tail(nodes_to_visit)) + Len(neighbours)
    <3>1. Len(Tail(nodes_to_visit) \o neighbours)
            = Len(Tail(nodes_to_visit)) + Len(neighbours)
      <4>1. Tail(nodes_to_visit) \in Seq(Entry) /\ neighbours \in Seq(Entry)
        BY <2>2, <2>3
      <4> QED BY <4>1, ConcatLength
    <3> QED BY <2>2, <3>1
  <2>5. Cardinality(Dependents(pkgname)) \in Nat
    BY <1>3
  <2>6. Len(Tail(nodes_to_visit)) = Len(nodes_to_visit) - 1
    BY <2>3
  <2> QED BY <2>2, <2>4, <2>5, <2>6
<1> QED BY <1>5, <1>9, <1>10 DEF pkgname

\* WorkIsBounded, with a name for its right-hand side.
LEMMA WorkBound ==
    WorkIsBounded <=>
        Len(nodes_to_visit) + Cardinality(visited)
            <= Cardinality(Roots) + Cardinality(Followed)
BY DEF WorkIsBounded, Followed

LEMMA FiniteRoots ==
    ASSUME TypesOK
    PROVE  IsFiniteSet(Roots) /\ Cardinality(Roots) \in Nat
<1>1. repos \in Repos
  BY ReposTyped
<1>2. Roots \subseteq Pkgnames
  BY <1>1 DEF Repos, Roots, RootsOf
<1> QED BY <1>2, ReposAssumption, FS_Subset, FS_CardinalityType

LEMMA InitWorkIsBounded == Init => WorkIsBounded
<1> SUFFICES ASSUME Init
             PROVE  WorkIsBounded
  OBVIOUS
<1>1. WalkInv
  BY InitWalkInv
<1>2. IsFiniteSet(Roots) /\ Cardinality(Roots) \in Nat
  BY <1>1, FiniteRoots DEF WalkInv
<1>3. Cardinality(Followed) \in Nat
  BY <1>1, FiniteWork
<1>4. Cardinality(visited) = 0
  BY FS_EmptySet DEF Init
<1>5. Len(nodes_to_visit) <= Cardinality(Roots)
  <2>1. CASE nodes_to_visit = <<>>
    BY <1>2, <2>1
  <2>2. CASE nodes_to_visit \in ToVisit(NoNode, Roots)
    <3>1. PICK order \in Orderings(Roots) :
            nodes_to_visit = [i \in DOMAIN order |-> [from |-> NoNode, to |-> order[i]]]
      BY <2>2 DEF ToVisit
    <3>2. DOMAIN nodes_to_visit = 1 .. Cardinality(Roots)
      BY <3>1 DEF Orderings
    <3>3. nodes_to_visit \in Seq([from : {NoNode}, to : Roots])
      BY <1>2, <2>2, ToVisitElements
    <3>4. /\ Len(nodes_to_visit) \in Nat
          /\ DOMAIN nodes_to_visit = 1 .. Len(nodes_to_visit)
      BY <3>3
    <3>5. Len(nodes_to_visit) = Cardinality(Roots)
      BY <1>2, <3>2, <3>4
    <3> QED BY <1>2, <3>5
  <2> QED BY <2>1, <2>2 DEF Init
<1>6. Len(nodes_to_visit) \in Nat
  BY <1>1, FiniteWork
<1> QED BY <1>2, <1>3, <1>4, <1>5, <1>6, WorkBound

LEMMA NextWorkIsBounded == WalkInv /\ WorkIsBounded /\ [Next]_vars => WorkIsBounded'
<1> SUFFICES ASSUME WalkInv, WorkIsBounded, [Next]_vars
             PROVE  WorkIsBounded'
  OBVIOUS
<1>1. /\ Cardinality(visited) \in Nat /\ Cardinality(Followed) \in Nat
      /\ Len(nodes_to_visit) \in Nat
      /\ Cardinality(Dependents(NextToVisit.to)) \in Nat
      /\ Cardinality(Roots) \in Nat
  BY FiniteWork, FiniteRoots DEF WalkInv
<1>2. Len(nodes_to_visit) + Cardinality(visited)
        <= Cardinality(Roots) + Cardinality(Followed)
  BY WorkBound
<1>3. repos' = repos /\ Roots' = Roots /\ PackagedNames' = PackagedNames
      /\ \A n : Dependents(n)' = Dependents(n)
  <2>1. repos' = repos
    BY DEF Next, Visit, SkipVisited, Finish, Returned, vars
  <2> QED BY <2>1, ReposConstant
<1>4. SUFFICES Len(nodes_to_visit') + Cardinality(visited')
                 <= Cardinality(Roots) + Cardinality(Followed')
  BY <1>3, WorkBound DEF WorkIsBounded, Followed
<1>5. CASE Visit
  BY <1>1, <1>2, <1>5, VisitFollows
<1>6. CASE visited' = visited /\ Len(nodes_to_visit') <= Len(nodes_to_visit)
           /\ Len(nodes_to_visit') \in Nat
  <2>1. Followed' = Followed
    BY <1>3, <1>6 DEF Followed
  <2> QED BY <1>1, <1>2, <1>6, <2>1
<1>7. CASE SkipVisited
  <2> DEFINE Entry == [from : Pkgbases \union {NoNode}, to : PackagedNames]
  <2>1. nodes_to_visit \in Seq(Entry) /\ nodes_to_visit # <<>>
        /\ nodes_to_visit' = Tail(nodes_to_visit) /\ visited' = visited
    BY <1>7 DEF WalkInv, QueueOK, SkipVisited
  <2> HIDE DEF Entry
  <2>2. Len(nodes_to_visit') \in Nat /\ Len(nodes_to_visit') = Len(nodes_to_visit) - 1
    BY <2>1
  <2> QED BY <1>1, <1>6, <2>1, <2>2
<1>8. CASE Finish \/ UNCHANGED vars
  BY <1>1, <1>6, <1>8 DEF Finish, vars
<1> QED BY <1>5, <1>7, <1>8 DEF Next, Returned

\* The walk does a bounded amount of work, on cycles as well: no edge of the
\* global graph is pushed twice.
THEOREM WalkIsBounded == Spec => []WorkIsBounded
<1> QED BY InitWorkIsBounded, NextWorkIsBounded, WalkInvariant, PTL DEF Spec
=============================================================================
