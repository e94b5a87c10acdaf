------------------------- MODULE GitlabDispatchProofs ------------------------
(***************************************************************************)
(* GitlabDispatch for any number of namespaces, architectures, packages,   *)
(* iterations and faults.                                                  *)
(*                                                                         *)
(* The loop works on copies of iterations that may be out of date. The     *)
(* inductive invariant says that every copy, wherever it is kept, could be *)
(* written back at any time: it has the shape of its iteration, and each   *)
(* status in it is justified by what is in the database and in GitLab.     *)
(* Both only grow, so a copy that was justified once stays justified.      *)
(*                                                                         *)
(* The invariant is stated with operators of the tables instead of the     *)
(* variables, so that the lemmas compare two states without primes.        *)
(***************************************************************************)
EXTENDS GitlabDispatch, FiniteSetTheorems, TLAPS

Graphs ==
    [commit_hash : UNION {[n -> CommitHashes] : n \in SUBSET Pkgbases},
     status : UNION {[n -> PackageBuildStatus] : n \in SUBSET Pkgbases},
     edges : SUBSET (Pkgbases \X Pkgbases)]

\* All values of packages_to_be_built.
Packages ==
    {p \in UNION {[as -> Graphs] : as \in SUBSET Architectures} : ArePackages(p)}

IterationRow ==
    [namespace : Namespaces, created_at : Nat, create_reason : CreateReasons,
     packages_to_be_built : Packages]

Pipeline ==
    [iteration : Nat, architecture : Architectures, pkgbase : Pkgbases,
     status : Statuses, deleted : BOOLEAN]

PipelineRow ==
    [iteration : Nat, architecture : Architectures, pkgbase : Pkgbases,
     gitlab_iid : Nat]

-----------------------------------------------------------------------------
IsFor(x, i, a, b) == x.iteration = i /\ x.architecture = a /\ x.pkgbase = b

HasRow(rows, i, a, b) == \E row \in rows : IsFor(row, i, a, b)

HasPipeline(pls, i, a, b, status) ==
    \E p \in DOMAIN pls : IsFor(pls[p], i, a, b) /\ pls[p].status = status

\* A status is justified by a row and by the result of a pipeline.
Justified(rows, pls, i, a, b, status) ==
    /\ status # "Pending"
    /\ status # "Blocked" => HasRow(rows, i, a, b)
    /\ status = "Built" => HasPipeline(pls, i, a, b, "Success")
    /\ status = "Failed" => HasPipeline(pls, i, a, b, "Failed")

SameShape(p, q) ==
    /\ DOMAIN p = DOMAIN q
    /\ \A a \in DOMAIN p :
        /\ Nodes(p[a]) = Nodes(q[a])
        /\ p[a].edges = q[a].edges
        /\ p[a].commit_hash = q[a].commit_hash

\* q may be written into iteration i.
Copy(its, rows, pls, i, q) ==
    /\ q \in Packages
    /\ SameShape(its[i].packages_to_be_built, q)
    /\ \A a \in DOMAIN q : \A b \in Nodes(q[a]) :
            Justified(rows, pls, i, a, b, q[a].status[b])

\* Pipeline p belongs to a build whose dependencies were built.
InOrder(its, pls, p) ==
    LET packages == its[pls[p].iteration].packages_to_be_built
        a == pls[p].architecture
    IN  /\ pls[p].iteration \in DOMAIN its
        /\ a \in DOMAIN packages
        /\ \A d \in Dependencies(packages[a], pls[p].pkgbase) :
                HasPipeline(pls, pls[p].iteration, a, d, "Success")

RowsMatch(rows, pls) ==
    \A row \in rows :
        /\ row.gitlab_iid \in DOMAIN pls
        /\ IsFor(pls[row.gitlab_iid], row.iteration, row.architecture, row.pkgbase)

\* The database and GitLab.
Tables(its, rows, pls) ==
    /\ its \in Seq(IterationRow)
    /\ pls \in Seq(Pipeline)
    /\ rows \subseteq PipelineRow
    /\ RowsMatch(rows, pls)
    /\ \A i \in DOMAIN its : Copy(its, rows, pls, i, its[i].packages_to_be_built)
    /\ \A p \in DOMAIN pls : InOrder(its, pls, p)

\* The loop's copies while it polls.
Polling(its, rows, pls, c, listed, id, builds, found) ==
    /\ DOMAIN listed \subseteq DOMAIN its
    /\ \A i \in DOMAIN listed : Copy(its, rows, pls, i, listed[i])
    /\ builds \subseteq Architectures \X Pkgbases
    /\ c = "check" =>
        /\ id \in DOMAIN listed
        /\ Copy(its, rows, pls, id, found)
        /\ \A a, b : <<a, b>> \in builds =>
                a \in DOMAIN listed[id] /\ b \in Nodes(listed[id][a])
    /\ c # "check" => id = 0 /\ found = <<>>

\* The build in hand has a pipeline, and later a row.
InHand(rows, pls, c, it, bld) ==
    /\ bld \in [architecture : Architectures, pkgbase : Pkgbases,
                gitlab_iid : DOMAIN pls]
    /\ bld.architecture \in DOMAIN it.packages_to_be_built
    /\ bld.pkgbase \in Nodes(it.packages_to_be_built[bld.architecture])
    /\ IsFor(pls[bld.gitlab_iid], it.id, bld.architecture, bld.pkgbase)
    /\ c = "update" => HasRow(rows, it.id, bld.architecture, bld.pkgbase)

\* The loop's copies while it schedules.
Scheduling(its, rows, pls, c, ns, it, archs, bld) ==
    /\ c \in {"calculate", "read", "schedule", "record", "update"} => ns \in Namespaces
    /\ IF c \in {"schedule", "record", "update"}
       THEN /\ it \in [id : DOMAIN its, packages_to_be_built : Packages]
            /\ Copy(its, rows, pls, it.id, it.packages_to_be_built)
            /\ archs \subseteq DOMAIN it.packages_to_be_built
       ELSE it = [id |-> 0, packages_to_be_built |-> <<>>] /\ archs = {}
    /\ IF c \in {"record", "update"}
       THEN InHand(rows, pls, c, it, bld)
       ELSE bld = <<>>

\* What has a type and nothing else to say.
Typed ==
    /\ namespaces \in [Namespaces -> {"none", "Active", "Cancelled"}]
    /\ pc \in {"idle", "poll", "check", "namespaces", "calculate", "read",
               "schedule", "record", "update"}
    /\ active_namespaces \subseteq Namespaces
    /\ namespace \in Namespaces \union {NoNamespace}
    /\ previous \in DOMAIN iterations \union {0}
    /\ requests \subseteq [namespace : Namespaces, created_at : Nat]
    /\ late_dispatches \in [Namespaces -> Nat]
    /\ clock \in Nat /\ faults \in Nat

IInv ==
    /\ Typed
    /\ Tables(iterations, gitlab_pipelines, pipelines)
    /\ Polling(iterations, gitlab_pipelines, pipelines, pc, to_poll, polled,
               unchecked, new_packages)
    /\ Scheduling(iterations, gitlab_pipelines, pipelines, pc, namespace,
                  iteration, architectures, build)

-----------------------------------------------------------------------------
(***************************************************************************)
(* Packages                                                                *)
(***************************************************************************)

LEMMA PackagesAre == \A p : p \in Packages <=> ArePackages(p)
<1> SUFFICES ASSUME NEW p, ArePackages(p)
             PROVE  p \in UNION {[as -> Graphs] : as \in SUBSET Architectures}
  BY DEF Packages
<1>1. /\ DOMAIN p \in SUBSET Architectures
      /\ p = [a \in DOMAIN p |-> p[a]]
  BY DEF ArePackages, ArePackagesToBeBuilt
<1>2. ASSUME NEW a \in DOMAIN p
      PROVE  p[a] \in Graphs
  <2>1. IsBuildSetGraph(p[a], Pkgbases, CommitHashes)
    BY <1>2 DEF ArePackages, ArePackagesToBeBuilt
  <2> QED
    BY <2>1 DEF IsBuildSetGraph, Graphs
<1>3. p \in [DOMAIN p -> Graphs]
  BY <1>1, <1>2
<1> QED
  BY <1>1, <1>3

LEMMA PackagesShape ==
    ASSUME NEW q \in Packages, NEW a \in DOMAIN q
    PROVE  /\ a \in Architectures
           /\ IsBuildSetGraph(q[a], Pkgbases, CommitHashes)
           /\ Nodes(q[a]) \subseteq Pkgbases
           /\ q[a].status \in [Nodes(q[a]) -> PackageBuildStatus]
           /\ q \in [DOMAIN q -> Graphs]
<1>1. ArePackages(q)
  BY PackagesAre
<1>2. q \in [DOMAIN q -> Graphs]
  BY DEF Packages
<1> QED
  BY <1>1, <1>2 DEF ArePackages, ArePackagesToBeBuilt, IsBuildSetGraph

LEMMA EmptyPackages == <<>> \in Packages
<1>1. DOMAIN <<>> = {}
  OBVIOUS
<1>2. <<>> = [a \in DOMAIN <<>> |-> <<>>[a]]
  <2>1. <<>> \in [{} -> {}]
    OBVIOUS
  <2> QED
    BY <2>1
<1> QED
  BY <1>1, <1>2, PackagesAre DEF ArePackages, ArePackagesToBeBuilt

\* A graph with another status for one of its nodes.
LEMMA ReservedGraph ==
    ASSUME NEW g, IsBuildSetGraph(g, Pkgbases, CommitHashes),
           NEW b \in Nodes(g), NEW status \in PackageBuildStatus
    PROVE  LET r == ReserveBuild(g, b, status)
           IN  /\ IsBuildSetGraph(r, Pkgbases, CommitHashes)
               /\ Nodes(r) = Nodes(g)
               /\ r.edges = g.edges
               /\ r.commit_hash = g.commit_hash
               /\ r.status = [g.status EXCEPT ![b] = status]
               /\ SetBuildStatus(g, b, status) = r
<1> USE DEF IsBuildSetGraph, ReserveBuild, Nodes
<1>1. g.status \in [Nodes(g) -> PackageBuildStatus]
  OBVIOUS
<1>2. [g.status EXCEPT ![b] = status]
        = [n \in Nodes(g) |-> IF n = b THEN status ELSE g.status[n]]
  BY <1>1
<1> QED
  BY <1>1, <1>2 DEF SetBuildStatus

LEMMA ReplacedGraph ==
    ASSUME NEW q \in Packages, NEW a \in DOMAIN q, NEW g,
           IsBuildSetGraph(g, Pkgbases, CommitHashes)
    PROVE  [q EXCEPT ![a] = g] \in Packages
<1>1. ArePackages(q) /\ q \in [DOMAIN q -> Graphs]
  BY PackagesAre DEF Packages
<1>2. ArePackages([q EXCEPT ![a] = g])
  BY <1>1 DEF ArePackages, ArePackagesToBeBuilt
<1> QED
  BY <1>2, PackagesAre

-----------------------------------------------------------------------------
(***************************************************************************)
(* Copies                                                                  *)
(***************************************************************************)

\* Iterations are added, and keep their shape when they are written.
Extends(its, its2) ==
    \A i \in DOMAIN its :
        /\ i \in DOMAIN its2
        /\ SameShape(its[i].packages_to_be_built, its2[i].packages_to_be_built)

\* Pipelines are added, and keep their results.
Grows(pls, pls2) ==
    \A p \in DOMAIN pls :
        /\ p \in DOMAIN pls2
        /\ IsFor(pls2[p], pls[p].iteration, pls[p].architecture, pls[p].pkgbase)
        /\ pls[p].status \in Finished => pls2[p].status = pls[p].status

LEMMA ResultsStay ==
    ASSUME NEW pls, NEW pls2, Grows(pls, pls2), NEW i, NEW a, NEW b,
           NEW status \in Finished, HasPipeline(pls, i, a, b, status)
    PROVE  HasPipeline(pls2, i, a, b, status)
BY DEF Grows, HasPipeline, IsFor

LEMMA StaysJustified ==
    ASSUME NEW rows, NEW rows2, rows \subseteq rows2,
           NEW pls, NEW pls2, Grows(pls, pls2),
           NEW i, NEW a, NEW b, NEW status, Justified(rows, pls, i, a, b, status)
    PROVE  Justified(rows2, pls2, i, a, b, status)
<1>1. HasRow(rows, i, a, b) => HasRow(rows2, i, a, b)
  BY DEF HasRow
<1> QED
  BY <1>1, ResultsStay DEF Justified, Finished

LEMMA StaysCopy ==
    ASSUME NEW its, NEW its2, Extends(its, its2),
           NEW rows, NEW rows2, rows \subseteq rows2,
           NEW pls, NEW pls2, Grows(pls, pls2),
           NEW i \in DOMAIN its, NEW q, Copy(its, rows, pls, i, q)
    PROVE  Copy(its2, rows2, pls2, i, q)
<1>1. SameShape(its2[i].packages_to_be_built, q)
  BY DEF Extends, Copy, SameShape
<1> QED
  BY <1>1, StaysJustified DEF Copy

LEMMA NothingChanged ==
    /\ \A its : Extends(its, its)
    /\ \A pls : Grows(pls, pls)
BY DEF Extends, Grows, SameShape, IsFor

\* A justified status may be set in a copy, in the graph it has or in that of
\* another copy of the same iteration.
LEMMA CopyUpdated ==
    ASSUME NEW its, NEW rows, NEW pls, NEW i \in DOMAIN its,
           NEW q, Copy(its, rows, pls, i, q),
           NEW r, Copy(its, rows, pls, i, r),
           NEW a \in DOMAIN r, NEW b \in Nodes(r[a]),
           NEW status \in PackageBuildStatus,
           Justified(rows, pls, i, a, b, status)
    PROVE  Copy(its, rows, pls, i, [q EXCEPT ![a] = ReserveBuild(r[a], b, status)])
<1> DEFINE g == ReserveBuild(r[a], b, status)
<1> DEFINE s == [q EXCEPT ![a] = g]
<1>1. q \in Packages /\ r \in Packages /\ a \in DOMAIN q
  BY DEF Copy, SameShape
<1>2. /\ IsBuildSetGraph(r[a], Pkgbases, CommitHashes)
      /\ r[a].status \in [Nodes(r[a]) -> PackageBuildStatus]
      /\ q \in [DOMAIN q -> Graphs]
  BY <1>1, PackagesShape
<1>3. /\ IsBuildSetGraph(g, Pkgbases, CommitHashes)
      /\ Nodes(g) = Nodes(r[a])
      /\ g.edges = r[a].edges
      /\ g.commit_hash = r[a].commit_hash
      /\ g.status = [r[a].status EXCEPT ![b] = status]
  BY <1>2, ReservedGraph
<1> HIDE DEF g
<1>4. s \in Packages
  BY <1>1, <1>3, ReplacedGraph
<1>5. DOMAIN s = DOMAIN q /\ s[a] = g /\ \A c \in DOMAIN q : c # a => s[c] = q[c]
  BY <1>1, <1>2
<1> HIDE DEF s
<1>6. SameShape(its[i].packages_to_be_built, s)
  BY <1>1, <1>3, <1>5 DEF Copy, SameShape
<1>7. ASSUME NEW c \in DOMAIN s, NEW n \in Nodes(s[c])
      PROVE  Justified(rows, pls, i, c, n, s[c].status[n])
  <2>1. CASE c # a
    BY <1>5, <1>7, <2>1 DEF Copy
  <2>2. CASE c = a /\ n = b
    BY <1>2, <1>3, <1>5, <2>2
  <2>3. CASE c = a /\ n # b
    <3>1. n \in Nodes(r[a]) /\ s[c].status[n] = r[a].status[n]
      BY <1>2, <1>3, <1>5, <1>7, <2>3
    <3> QED
      BY <3>1, <2>3 DEF Copy
  <2> QED
    BY <2>1, <2>2, <2>3
<1>8. Copy(its, rows, pls, i, s)
  BY <1>4, <1>6, <1>7 DEF Copy
<1> QED
  BY <1>8 DEF s, g

-----------------------------------------------------------------------------
(***************************************************************************)
(* What happens to the database and to GitLab                              *)
(***************************************************************************)

LEMMA ShapeDependencies ==
    ASSUME NEW p, NEW q, SameShape(p, q), NEW a \in DOMAIN p, NEW b
    PROVE  /\ a \in DOMAIN q
           /\ Dependencies(p[a], b) = Dependencies(q[a], b)
BY DEF SameShape, Dependencies

LEMMA StaysInOrder ==
    ASSUME NEW its, NEW its2, Extends(its, its2),
           NEW pls, NEW pls2, Grows(pls, pls2),
           NEW p \in DOMAIN pls, InOrder(its, pls, p)
    PROVE  InOrder(its2, pls2, p)
<1> DEFINE i == pls[p].iteration
           a == pls[p].architecture
           packages == its[i].packages_to_be_built
           packages2 == its2[i].packages_to_be_built
<1>1. pls2[p].iteration = i /\ pls2[p].architecture = a /\ pls2[p].pkgbase = pls[p].pkgbase
  BY DEF Grows, IsFor
<1>2. i \in DOMAIN its2 /\ SameShape(packages, packages2) /\ a \in DOMAIN packages
  BY DEF Extends, InOrder
<1>3. /\ a \in DOMAIN packages2
      /\ Dependencies(packages[a], pls[p].pkgbase) = Dependencies(packages2[a], pls[p].pkgbase)
  BY <1>2, ShapeDependencies
<1>4. \A d \in Dependencies(packages[a], pls[p].pkgbase) :
        HasPipeline(pls2, i, a, d, "Success")
  BY ResultsStay DEF InOrder, Finished
<1> QED
  BY <1>1, <1>2, <1>3, <1>4 DEF InOrder

\* Tables that grow stay right, when what is written is right.
LEMMA TablesGrow ==
    ASSUME NEW its, NEW rows, NEW pls, Tables(its, rows, pls),
           NEW its2, NEW rows2, NEW pls2,
           Extends(its, its2), rows \subseteq rows2, Grows(pls, pls2),
           its2 \in Seq(IterationRow), pls2 \in Seq(Pipeline),
           rows2 \subseteq PipelineRow, RowsMatch(rows2, pls2),
           \A i \in DOMAIN its2 :
                \/ i \in DOMAIN its /\ its2[i].packages_to_be_built = its[i].packages_to_be_built
                \/ Copy(its2, rows2, pls2, i, its2[i].packages_to_be_built),
           \A p \in DOMAIN pls2 : p \in DOMAIN pls \/ InOrder(its2, pls2, p)
    PROVE  Tables(its2, rows2, pls2)
<1>1. \A i \in DOMAIN its2 : Copy(its2, rows2, pls2, i, its2[i].packages_to_be_built)
  BY StaysCopy DEF Tables
<1>2. \A p \in DOMAIN pls2 : InOrder(its2, pls2, p)
  BY StaysInOrder DEF Tables
<1> QED
  BY <1>1, <1>2 DEF Tables

\* db::iteration::update with a copy
LEMMA IterationUpdated ==
    ASSUME NEW its, NEW rows, NEW pls, Tables(its, rows, pls),
           NEW i \in DOMAIN its, NEW q, Copy(its, rows, pls, i, q)
    PROVE  LET its2 == [its EXCEPT ![i].packages_to_be_built = q]
           IN  Tables(its2, rows, pls) /\ Extends(its, its2)
<1> DEFINE its2 == [its EXCEPT ![i].packages_to_be_built = q]
<1>1. its \in Seq(IterationRow) /\ q \in Packages
  BY DEF Tables, Copy
<1>2. /\ its2 \in Seq(IterationRow)
      /\ DOMAIN its2 = DOMAIN its
      /\ its2[i].packages_to_be_built = q
      /\ \A j \in DOMAIN its : j # i => its2[j] = its[j]
  <2> DEFINE row == [its[i] EXCEPT !.packages_to_be_built = q]
  <2>1. row \in IterationRow /\ row.packages_to_be_built = q
    <3>1. its[i] \in IterationRow
      BY <1>1
    <3> QED
      BY <1>1, <3>1 DEF IterationRow
  <2>2. its2 = [its EXCEPT ![i] = row]
    BY <1>1
  <2> HIDE DEF row, its2
  <2>3. its2 \in Seq(IterationRow) /\ DOMAIN its2 = DOMAIN its
    BY <1>1, <2>1, <2>2
  <2>4. its2[i] = row /\ \A j \in DOMAIN its : j # i => its2[j] = its[j]
    BY <1>1, <2>2
  <2> QED
    BY <2>1, <2>3, <2>4
<1> HIDE DEF its2
<1>3. Extends(its, its2)
  BY <1>2 DEF Extends, SameShape, Copy
<1>4. Copy(its2, rows, pls, i, q)
  BY <1>3, StaysCopy, NothingChanged
<1>5. Tables(its2, rows, pls)
  BY <1>2, <1>3, <1>4, TablesGrow, NothingChanged DEF Tables
<1> QED
  BY <1>3, <1>5 DEF its2

\* db::iteration::create with a freshly calculated build set
LEMMA IterationInserted ==
    ASSUME NEW its, NEW rows, NEW pls, Tables(its, rows, pls),
           NEW ns \in Namespaces, NEW time \in Nat, NEW reason \in CreateReasons,
           NEW q \in BuildSets
    PROVE  LET its2 == Append(its, [namespace |-> ns, created_at |-> time,
                                    create_reason |-> reason, packages_to_be_built |-> q])
           IN  Tables(its2, rows, pls) /\ Extends(its, its2)
<1> DEFINE row == [namespace |-> ns, created_at |-> time, create_reason |-> reason,
                   packages_to_be_built |-> q]
           its2 == Append(its, row)
<1>1. its \in Seq(IterationRow) /\ q \in Packages
  BY PackagesAre, BuildSetsAssumption DEF Tables
<1>2. row \in IterationRow /\ row.packages_to_be_built = q
  BY <1>1 DEF IterationRow
<1> HIDE DEF row
<1>3. /\ its2 \in Seq(IterationRow)
      /\ \A j \in DOMAIN its : j \in DOMAIN its2 /\ its2[j] = its[j]
      /\ \A j \in DOMAIN its2 : j \notin DOMAIN its => its2[j] = row
  BY <1>1, <1>2
<1> HIDE DEF its2
<1>4. Extends(its, its2)
  BY <1>3 DEF Extends, SameShape
<1>5. \A a \in DOMAIN q : \A b \in Nodes(q[a]) : q[a].status[b] = "Blocked"
  BY BuildSetsAssumption
<1>6. ASSUME NEW j \in DOMAIN its2, j \notin DOMAIN its
      PROVE  Copy(its2, rows, pls, j, its2[j].packages_to_be_built)
  <2>1. its2[j].packages_to_be_built = q
    BY <1>2, <1>3, <1>6
  <2>2. \A a \in DOMAIN q : \A b \in Nodes(q[a]) :
            Justified(rows, pls, j, a, b, q[a].status[b])
    BY <1>5 DEF Justified
  <2> QED
    BY <1>1, <2>1, <2>2 DEF Copy, SameShape
<1>7. Tables(its2, rows, pls)
  BY <1>3, <1>4, <1>6, TablesGrow, NothingChanged DEF Tables
<1> QED
  BY <1>4, <1>7 DEF its2, row

\* A pipeline is only created for a build the scheduler may choose, and that
\* one's dependencies were built as far as the copy knows.
LEMMA ReadyHasBuiltDependencies ==
    ASSUME NEW g, NEW b \in ReadyBuilds(g), g.status[b] # "Pending"
    PROVE  /\ b \in Nodes(g)
           /\ \A d \in Dependencies(g, b) : d \in Nodes(g) /\ g.status[d] = "Built"
BY DEF ReadyBuilds, VisitedNodes, StillBlocked, Dependencies

\* GitLab accepts a pipeline for a ready build of a copy.
LEMMA PipelineCreated ==
    ASSUME NEW its, NEW rows, NEW pls, Tables(its, rows, pls),
           NEW i \in DOMAIN its, NEW q, Copy(its, rows, pls, i, q),
           NEW a \in DOMAIN q, NEW b \in ReadyBuilds(q[a]),
           NEW status \in Statuses
    PROVE  LET pls2 == Append(pls, [iteration |-> i, architecture |-> a, pkgbase |-> b,
                                    status |-> status, deleted |-> FALSE])
           IN  /\ Tables(its, rows, pls2)
               /\ Grows(pls, pls2)
               /\ b \in Nodes(q[a])
               /\ Len(pls2) \in DOMAIN pls2
               /\ IsFor(pls2[Len(pls2)], i, a, b)
<1> DEFINE new == [iteration |-> i, architecture |-> a, pkgbase |-> b,
                   status |-> status, deleted |-> FALSE]
           pls2 == Append(pls, new)
           packages == its[i].packages_to_be_built
<1>1. /\ its \in Seq(IterationRow) /\ pls \in Seq(Pipeline)
      /\ i \in Nat
      /\ q \in Packages
      /\ SameShape(packages, q)
  BY DEF Tables, Copy
<1>2. b \in Nodes(q[a])
  BY DEF ReadyBuilds, VisitedNodes
<1>3. q[a].status[b] # "Pending"
  BY <1>2 DEF Copy, Justified
<1>4. \A d \in Dependencies(q[a], b) : HasPipeline(pls, i, a, d, "Success")
  BY <1>3, ReadyHasBuiltDependencies DEF Copy, Justified
<1>5. new \in Pipeline /\ IsFor(new, i, a, b)
  BY <1>1, <1>2, PackagesShape DEF Pipeline, IsFor
<1> HIDE DEF new
<1>6. /\ pls2 \in Seq(Pipeline)
      /\ Len(pls2) \in DOMAIN pls2
      /\ pls2[Len(pls2)] = new
      /\ \A p \in DOMAIN pls : p \in DOMAIN pls2 /\ pls2[p] = pls[p]
      /\ \A p \in DOMAIN pls2 : p \notin DOMAIN pls => pls2[p] = new
  BY <1>1, <1>5
<1> HIDE DEF pls2
<1>7. Grows(pls, pls2)
  BY <1>6 DEF Grows, IsFor
<1>8. /\ a \in DOMAIN packages
      /\ Dependencies(packages[a], b) = Dependencies(q[a], b)
  BY <1>1 DEF SameShape, Dependencies
<1>9. ASSUME NEW p \in DOMAIN pls2, p \notin DOMAIN pls
      PROVE  InOrder(its, pls2, p)
  <2>1. pls2[p].iteration = i /\ pls2[p].architecture = a /\ pls2[p].pkgbase = b
    BY <1>5, <1>6, <1>9 DEF IsFor
  <2>2. \A d \in Dependencies(packages[a], b) : HasPipeline(pls2, i, a, d, "Success")
    BY <1>4, <1>7, <1>8, ResultsStay DEF Finished
  <2> QED
    BY <1>8, <2>1, <2>2 DEF InOrder
<1>10. RowsMatch(rows, pls2)
  BY <1>6 DEF RowsMatch, Tables
<1>11. Tables(its, rows, pls2)
  BY <1>6, <1>7, <1>9, <1>10, TablesGrow, NothingChanged DEF Tables
<1> QED
  BY <1>2, <1>5, <1>6, <1>7, <1>11 DEF pls2, new

\* db::gitlab_pipeline::create
LEMMA RowInserted ==
    ASSUME NEW its, NEW rows, NEW pls, Tables(its, rows, pls),
           NEW i \in Nat, NEW a \in Architectures, NEW b \in Pkgbases,
           NEW p \in DOMAIN pls, IsFor(pls[p], i, a, b)
    PROVE  LET rows2 == rows \union {[iteration |-> i, architecture |-> a,
                                      pkgbase |-> b, gitlab_iid |-> p]}
           IN  /\ Tables(its, rows2, pls)
               /\ rows \subseteq rows2
               /\ HasRow(rows2, i, a, b)
<1> DEFINE row == [iteration |-> i, architecture |-> a, pkgbase |-> b, gitlab_iid |-> p]
           rows2 == rows \union {row}
<1>1. pls \in Seq(Pipeline)
  BY DEF Tables
<1>2. row \in PipelineRow /\ IsFor(row, i, a, b) /\ row.gitlab_iid = p
  BY <1>1 DEF PipelineRow, IsFor
<1> HIDE DEF row
<1>3. rows \subseteq rows2 /\ rows2 \subseteq PipelineRow /\ HasRow(rows2, i, a, b)
  BY <1>2 DEF HasRow, Tables
<1>4. RowsMatch(rows2, pls)
  BY <1>2 DEF RowsMatch, Tables, IsFor
<1>5. Tables(its, rows2, pls)
  BY <1>3, <1>4, TablesGrow, NothingChanged DEF Tables
<1> QED
  BY <1>3, <1>5 DEF rows2, row

\* A pipeline moves on, or is deleted: its build and its result stay.
LEMMA PipelineChanged ==
    ASSUME NEW its, NEW rows, NEW pls, Tables(its, rows, pls),
           NEW p \in DOMAIN pls, NEW x \in Pipeline,
           IsFor(x, pls[p].iteration, pls[p].architecture, pls[p].pkgbase),
           pls[p].status \in Finished => x.status = pls[p].status
    PROVE  LET pls2 == [pls EXCEPT ![p] = x]
           IN  /\ Tables(its, rows, pls2)
               /\ Grows(pls, pls2)
<1> DEFINE pls2 == [pls EXCEPT ![p] = x]
<1>1. pls \in Seq(Pipeline)
  BY DEF Tables
<1>2. /\ pls2 \in Seq(Pipeline)
      /\ DOMAIN pls2 = DOMAIN pls
      /\ pls2[p] = x
      /\ \A r \in DOMAIN pls : r # p => pls2[r] = pls[r]
  BY <1>1
<1> HIDE DEF pls2
<1>3. Grows(pls, pls2)
  BY <1>2 DEF Grows, IsFor
<1>4. RowsMatch(rows, pls2)
  BY <1>2, <1>3 DEF RowsMatch, Tables, Grows, IsFor
<1>5. Tables(its, rows, pls2)
  BY <1>2, <1>3, <1>4, TablesGrow, NothingChanged DEF Tables
<1> QED
  BY <1>3, <1>5 DEF pls2

-----------------------------------------------------------------------------
(***************************************************************************)
(* What happens to the copies of the loop                                  *)
(***************************************************************************)

LEMMA PollingStays ==
    ASSUME NEW its, NEW its2, Extends(its, its2),
           NEW rows, NEW rows2, rows \subseteq rows2,
           NEW pls, NEW pls2, Grows(pls, pls2),
           NEW c, NEW c2, c = "check" <=> c2 = "check",
           NEW listed, NEW id, NEW builds, NEW found,
           Polling(its, rows, pls, c, listed, id, builds, found)
    PROVE  Polling(its2, rows2, pls2, c2, listed, id, builds, found)
<1>1. DOMAIN listed \subseteq DOMAIN its /\ DOMAIN listed \subseteq DOMAIN its2
  BY DEF Polling, Extends
<1>2. \A i \in DOMAIN its : \A q :
        Copy(its, rows, pls, i, q) => Copy(its2, rows2, pls2, i, q)
  BY StaysCopy
<1> QED
  BY <1>1, <1>2 DEF Polling

LEMMA SchedulingStays ==
    ASSUME NEW its, NEW its2, Extends(its, its2),
           NEW rows, NEW rows2, rows \subseteq rows2,
           NEW pls, NEW pls2, Grows(pls, pls2),
           NEW c, NEW ns, NEW it, NEW archs, NEW bld,
           Scheduling(its, rows, pls, c, ns, it, archs, bld)
    PROVE  Scheduling(its2, rows2, pls2, c, ns, it, archs, bld)
<1>1. \A i \in DOMAIN its : \A q :
        Copy(its, rows, pls, i, q) => Copy(its2, rows2, pls2, i, q)
  BY StaysCopy
<1>2. InHand(rows, pls, c, it, bld) => InHand(rows2, pls2, c, it, bld)
  <2>1. HasRow(rows, it.id, bld.architecture, bld.pkgbase)
            => HasRow(rows2, it.id, bld.architecture, bld.pkgbase)
    BY DEF HasRow
  <2> QED
    BY <2>1 DEF InHand, Grows, IsFor
<1>3. \A i \in DOMAIN its : i \in DOMAIN its2
  BY DEF Extends
<1> QED
  BY <1>1, <1>2, <1>3 DEF Scheduling

\* Outside its turn with a namespace the loop keeps nothing to schedule.
LEMMA SchedulingElsewhere ==
    ASSUME NEW its, NEW rows, NEW pls,
           NEW c \in {"idle", "poll", "check", "namespaces", "calculate", "read"},
           NEW c2 \in {"idle", "poll", "check", "namespaces", "calculate", "read"},
           NEW ns, NEW ns2,
           c2 \in {"calculate", "read"} => ns2 \in Namespaces,
           NEW it, NEW archs, NEW bld,
           Scheduling(its, rows, pls, c, ns, it, archs, bld)
    PROVE  Scheduling(its, rows, pls, c2, ns2, it, archs, bld)
BY DEF Scheduling

-----------------------------------------------------------------------------
(***************************************************************************)
(* The invariant holds initially and is preserved by every step            *)
(***************************************************************************)

LEMMA InitIInv == Init => IInv
<1> SUFFICES ASSUME Init
             PROVE  IInv
  OBVIOUS
<1> USE DEF Init
<1>1. Typed
  BY BoundsAssumption DEF Typed
<1>2. Tables(iterations, gitlab_pipelines, pipelines)
  BY DEF Tables, RowsMatch
<1>3. Polling(iterations, gitlab_pipelines, pipelines, pc, to_poll, polled,
              unchecked, new_packages)
  <2>1. DOMAIN to_poll = {}
    OBVIOUS
  <2> QED
    BY <2>1 DEF Polling
<1>4. Scheduling(iterations, gitlab_pipelines, pipelines, pc, namespace,
                 iteration, architectures, build)
  BY DEF Scheduling
<1> QED
  BY <1>1, <1>2, <1>3, <1>4 DEF IInv

\* Steps of the polling part of the loop.
LEMMA PollingSteps ==
    ASSUME IInv,
           \/ StartPass
           \/ \E id \in DOMAIN iterations : PollIteration(id)
           \/ \E a \in Architectures, b \in Pkgbases : CheckPipeline(a, b)
           \/ PersistIteration
           \/ PollingFails
           \/ PassFails
           \/ ListActiveNamespaces
    PROVE  IInv'
<1> USE DEF database, polling, scheduling, bounds
<1>t. Tables(iterations, gitlab_pipelines, pipelines)
  BY DEF IInv
<1>p. Polling(iterations, gitlab_pipelines, pipelines, pc, to_poll, polled,
              unchecked, new_packages)
  BY DEF IInv
<1>s. Scheduling(iterations, gitlab_pipelines, pipelines, pc, namespace,
                 iteration, architectures, build)
  BY DEF IInv
<1>1. ASSUME StartPass
      PROVE  IInv'
  <2> USE <1>1 DEF StartPass
  <2>1. Typed'
    BY DEF IInv, Typed
  <2>2. Tables(iterations', gitlab_pipelines', pipelines')
    BY <1>t
  <2>3. Polling(iterations', gitlab_pipelines', pipelines', pc', to_poll', polled',
                unchecked', new_packages')
    BY <1>t, <1>p DEF Polling, Tables
  <2>4. Scheduling(iterations', gitlab_pipelines', pipelines', pc', namespace',
                   iteration', architectures', build')
    BY <1>s, SchedulingElsewhere
  <2> QED
    BY <2>1, <2>2, <2>3, <2>4 DEF IInv
<1>2. ASSUME NEW id \in DOMAIN iterations, PollIteration(id)
      PROVE  IInv'
  <2> USE <1>2 DEF PollIteration
  <2>1. Typed'
    BY DEF IInv, Typed
  <2>2. Tables(iterations', gitlab_pipelines', pipelines')
    BY <1>t
  <2>3. Polling(iterations', gitlab_pipelines', pipelines', pc', to_poll', polled',
                unchecked', new_packages')
    <3>1. Copy(iterations, gitlab_pipelines, pipelines, id, to_poll[id])
      BY <1>p DEF Polling
    <3>2. to_poll[id] \in Packages
      BY <3>1 DEF Copy
    <3>3. \A a, b : <<a, b>> \in unchecked' =>
            a \in DOMAIN to_poll[id] /\ b \in Nodes(to_poll[id][a])
      BY DEF InProgressBuilds
    <3>4. unchecked' \subseteq Architectures \X Pkgbases
      BY <3>2, PackagesShape DEF InProgressBuilds
    <3> QED
      BY <1>p, <3>1, <3>3, <3>4 DEF Polling
  <2>4. Scheduling(iterations', gitlab_pipelines', pipelines', pc', namespace',
                   iteration', architectures', build')
    BY <1>s, SchedulingElsewhere
  <2> QED
    BY <2>1, <2>2, <2>3, <2>4 DEF IInv
<1>3. ASSUME NEW a \in Architectures, NEW b \in Pkgbases, CheckPipeline(a, b)
      PROVE  IInv'
  <2> USE <1>3 DEF CheckPipeline
  <2>1. Typed'
    BY DEF IInv, Typed
  <2>2. Tables(iterations', gitlab_pipelines', pipelines')
    BY <1>t
  <2>3. /\ polled \in DOMAIN iterations /\ polled \in DOMAIN to_poll
        /\ Copy(iterations, gitlab_pipelines, pipelines, polled, to_poll[polled])
        /\ Copy(iterations, gitlab_pipelines, pipelines, polled, new_packages)
        /\ a \in DOMAIN to_poll[polled] /\ b \in Nodes(to_poll[polled][a])
    BY <1>p DEF Polling
  <2>4. Copy(iterations, gitlab_pipelines, pipelines, polled, new_packages')
    <3>1. CASE UNCHANGED new_packages
      BY <2>3, <3>1
    <3>2. ASSUME NEW row \in PipelineRows(polled, a, b),
                 NoteStatus(a, b, pipelines[row.gitlab_iid].status)
          PROVE  Copy(iterations, gitlab_pipelines, pipelines, polled, new_packages')
      <4> DEFINE found == pipelines[row.gitlab_iid].status
                 current == FromPipelineStatus(found)
      <4>1. /\ row \in gitlab_pipelines
            /\ IsFor(row, polled, a, b)
            /\ row.gitlab_iid \in DOMAIN pipelines
            /\ IsFor(pipelines[row.gitlab_iid], polled, a, b)
        BY <1>t DEF PipelineRows, Tables, RowsMatch, IsFor
      <4>2. found \in Statuses
        <5>1. pipelines[row.gitlab_iid] \in Pipeline
          BY <1>t, <4>1 DEF Tables
        <5> QED
          BY <5>1 DEF Pipeline
      <4>3. /\ current \in PackageBuildStatus
            /\ current # "Pending"
            /\ current = "Built" => found = "Success"
            /\ current = "Failed" => found = "Failed"
        BY <4>2 DEF FromPipelineStatus, Statuses, PackageBuildStatus
      <4>4. Justified(gitlab_pipelines, pipelines, polled, a, b, current)
        BY <4>1, <4>3 DEF Justified, HasRow, HasPipeline
      <4> HIDE DEF found
      <4>5. Copy(iterations, gitlab_pipelines, pipelines, polled,
                 [new_packages EXCEPT ![a] =
                    ReserveBuild(to_poll[polled][a], b, current)])
        BY <2>3, <4>3, <4>4, CopyUpdated
      <4>6. SetBuildStatus(to_poll[polled][a], b, current)
                = ReserveBuild(to_poll[polled][a], b, current)
        BY <2>3, <4>3, PackagesShape, ReservedGraph DEF Copy
      <4>7. \/ new_packages' = new_packages
            \/ new_packages' = [new_packages EXCEPT ![a] =
                                    SetBuildStatus(to_poll[polled][a], b, current)]
        BY <3>2 DEF NoteStatus, found
      <4> QED
        BY <2>3, <4>5, <4>6, <4>7
    <3> QED
      BY <3>1, <3>2
  <2>5. Polling(iterations', gitlab_pipelines', pipelines', pc', to_poll', polled',
                unchecked', new_packages')
    BY <1>p, <2>4 DEF Polling
  <2>6. Scheduling(iterations', gitlab_pipelines', pipelines', pc', namespace',
                   iteration', architectures', build')
    BY <1>s
  <2> QED
    BY <2>1, <2>2, <2>5, <2>6 DEF IInv
<1>4. ASSUME PersistIteration
      PROVE  IInv'
  <2> USE <1>4 DEF PersistIteration, UpdatePackages
  <2>1. /\ polled \in DOMAIN iterations
        /\ Copy(iterations, gitlab_pipelines, pipelines, polled, new_packages)
    BY <1>p DEF Polling
  <2>2. /\ Tables(iterations', gitlab_pipelines', pipelines')
        /\ Extends(iterations, iterations')
    BY <1>t, <2>1, IterationUpdated
  <2>3. Typed'
    BY <2>2 DEF IInv, Typed, Extends
  <2>4. Polling(iterations', gitlab_pipelines', pipelines', pc', to_poll', polled',
                unchecked', new_packages')
    <3>1. \A i \in DOMAIN to_poll :
            Copy(iterations', gitlab_pipelines, pipelines, i, to_poll[i])
      BY <1>p, <2>2, StaysCopy, NothingChanged DEF Polling
    <3>2. DOMAIN to_poll \subseteq DOMAIN iterations'
      BY <1>p, <2>2 DEF Polling, Extends
    <3>3. DOMAIN to_poll' \subseteq DOMAIN to_poll
          /\ \A i \in DOMAIN to_poll' : to_poll'[i] = to_poll[i]
      OBVIOUS
    <3> QED
      BY <1>p, <3>1, <3>2, <3>3 DEF Polling
  <2>5. Scheduling(iterations', gitlab_pipelines', pipelines', pc', namespace',
                   iteration', architectures', build')
    <3>1. Scheduling(iterations', gitlab_pipelines, pipelines, pc, namespace,
                     iteration, architectures, build)
      BY <1>s, <2>2, SchedulingStays, NothingChanged
    <3> QED
      BY <3>1, SchedulingElsewhere
  <2> QED
    BY <2>2, <2>3, <2>4, <2>5 DEF IInv
<1>5. ASSUME PollingFails
      PROVE  IInv'
  <2> USE <1>5 DEF PollingFails, Fault
  <2>1. Typed'
    BY DEF IInv, Typed
  <2>2. Tables(iterations', gitlab_pipelines', pipelines')
    BY <1>t
  <2>3. Polling(iterations', gitlab_pipelines', pipelines', pc', to_poll', polled',
                unchecked', new_packages')
    <3>1. DOMAIN to_poll' = {}
      OBVIOUS
    <3> QED
      BY <3>1 DEF Polling
  <2>4. Scheduling(iterations', gitlab_pipelines', pipelines', pc', namespace',
                   iteration', architectures', build')
    BY <1>s, SchedulingElsewhere
  <2> QED
    BY <2>1, <2>2, <2>3, <2>4 DEF IInv
<1>6. ASSUME PassFails \/ ListActiveNamespaces
      PROVE  IInv'
  <2>1. /\ pc = "poll" /\ pc' \in {"idle", "namespaces"}
        /\ UNCHANGED <<iterations, gitlab_pipelines, pipelines>>
        /\ UNCHANGED <<to_poll, polled, unchecked, new_packages>>
        /\ UNCHANGED <<namespace, iteration, architectures, build>>
    BY <1>6 DEF PassFails, ListActiveNamespaces
  <2>2. Typed'
    BY <1>6 DEF IInv, Typed, PassFails, ListActiveNamespaces, Fault
  <2>3. Polling(iterations', gitlab_pipelines', pipelines', pc', to_poll', polled',
                unchecked', new_packages')
    BY <1>p, <2>1, PollingStays, NothingChanged
  <2>4. Scheduling(iterations', gitlab_pipelines', pipelines', pc', namespace',
                   iteration', architectures', build')
    BY <1>s, <2>1 DEF Scheduling
  <2> QED
    BY <1>t, <2>1, <2>2, <2>3, <2>4 DEF IInv
<1> QED
  BY <1>1, <1>2, <1>3, <1>4, <1>5, <1>6

\* Steps that update a namespace and schedule its builds.
LEMMA SchedulingSteps ==
    ASSUME IInv,
           \/ \E ns \in Namespaces : UpdateNextNamespace(ns)
           \/ \E packages \in BuildSets : CreateIterationIfNeeded(packages)
           \/ \E id \in DOMAIN iterations : ReadNewestIteration(id)
           \/ \E a \in architectures : NothingToSchedule(a)
           \/ \E a \in architectures : \E b \in Ready(a) : CreatePipeline(a, b)
           \/ \E a \in architectures : \E b \in Ready(a) : SchedulingFails(a, b)
           \/ RecordPipeline
           \/ UpdateIteration
           \/ FinishNamespace
           \/ NamespaceFails
           \/ FinishPass
    PROVE  IInv'
<1> USE DEF database, polling, scheduling, bounds
<1>t. Tables(iterations, gitlab_pipelines, pipelines)
  BY DEF IInv
<1>p. Polling(iterations, gitlab_pipelines, pipelines, pc, to_poll, polled,
              unchecked, new_packages)
  BY DEF IInv
<1>s. Scheduling(iterations, gitlab_pipelines, pipelines, pc, namespace,
                 iteration, architectures, build)
  BY DEF IInv
\* The polling part keeps its (empty) copies, whatever happens to the tables.
<1>k. ASSUME Extends(iterations, iterations'), Grows(pipelines, pipelines'),
             gitlab_pipelines \subseteq gitlab_pipelines',
             pc # "check", pc' # "check",
             UNCHANGED <<to_poll, polled, unchecked, new_packages>>
      PROVE  Polling(iterations', gitlab_pipelines', pipelines', pc', to_poll',
                     polled', unchecked', new_packages')
  BY <1>p, <1>k, PollingStays
<1>1. ASSUME NEW ns \in Namespaces, UpdateNextNamespace(ns)
      PROVE  IInv'
  <2>1. /\ pc = "namespaces" /\ pc' = "calculate" /\ namespace' \in Namespaces
        /\ UNCHANGED <<iterations, gitlab_pipelines, pipelines>>
        /\ UNCHANGED <<to_poll, polled, unchecked, new_packages>>
        /\ UNCHANGED <<iteration, architectures, build>>
    BY <1>1 DEF UpdateNextNamespace
  <2>2. Typed'
    BY <1>1 DEF IInv, Typed, UpdateNextNamespace, OfNamespace, Fault
  <2>3. Polling(iterations', gitlab_pipelines', pipelines', pc', to_poll', polled',
                unchecked', new_packages')
    BY <1>k, <2>1, NothingChanged
  <2>4. Scheduling(iterations', gitlab_pipelines', pipelines', pc', namespace',
                   iteration', architectures', build')
    BY <1>s, <2>1 DEF Scheduling
  <2> QED
    BY <1>t, <2>1, <2>2, <2>3, <2>4 DEF IInv
<1>2. ASSUME NEW packages \in BuildSets, CreateIterationIfNeeded(packages)
      PROVE  IInv'
  <2>1. /\ pc = "calculate" /\ pc' = "read" /\ namespace' = namespace
        /\ namespace \in Namespaces /\ previous' = 0
        /\ UNCHANGED <<gitlab_pipelines, pipelines>>
        /\ UNCHANGED <<to_poll, polled, unchecked, new_packages>>
        /\ UNCHANGED <<iteration, architectures, build>>
    BY <1>2, <1>s DEF CreateIterationIfNeeded, Scheduling
  <2>2. clock' \in Nat
    BY <1>2 DEF CreateIterationIfNeeded, IInv, Typed
  <2>3. Tables(iterations', gitlab_pipelines, pipelines)
        /\ Extends(iterations, iterations')
    <3>1. CASE NewIterationIsNeeded(packages)
      <4>1. NewIterationReason \in CreateReasons
        BY DEF NewIterationReason, CreateReasons
      <4> QED
        BY <1>2, <1>t, <2>1, <2>2, <3>1, <4>1, IterationInserted
        DEF CreateIterationIfNeeded, InsertIteration
    <3>2. CASE ~NewIterationIsNeeded(packages)
      <4>1. iterations' = iterations
        BY <1>2, <3>2 DEF CreateIterationIfNeeded
      <4> QED
        BY <1>t, <4>1, NothingChanged
    <3> QED
      BY <3>1, <3>2
  <2>4. Typed'
    BY <1>2, <2>1, <2>2 DEF IInv, Typed, CreateIterationIfNeeded
  <2>5. Polling(iterations', gitlab_pipelines', pipelines', pc', to_poll', polled',
                unchecked', new_packages')
    BY <1>k, <2>1, <2>3, NothingChanged
  <2>6. Scheduling(iterations', gitlab_pipelines', pipelines', pc', namespace',
                   iteration', architectures', build')
    BY <1>s, <2>1 DEF Scheduling
  <2> QED
    BY <2>1, <2>3, <2>4, <2>5, <2>6 DEF IInv
<1>3. ASSUME NEW id \in DOMAIN iterations, ReadNewestIteration(id)
      PROVE  IInv'
  <2>1. /\ pc = "read" /\ pc' = "schedule" /\ namespace' = namespace
        /\ UNCHANGED <<iterations, gitlab_pipelines, pipelines>>
        /\ UNCHANGED <<to_poll, polled, unchecked, new_packages>>
        /\ iteration' = [id |-> id,
                packages_to_be_built |-> iterations[id].packages_to_be_built]
        /\ architectures' = DOMAIN iterations[id].packages_to_be_built
        /\ build' = build
    BY <1>3 DEF ReadNewestIteration
  <2>2. Typed'
    BY <1>3 DEF IInv, Typed, ReadNewestIteration
  <2>3. Polling(iterations', gitlab_pipelines', pipelines', pc', to_poll', polled',
                unchecked', new_packages')
    BY <1>k, <2>1, NothingChanged
  <2>4. Copy(iterations, gitlab_pipelines, pipelines, id,
             iterations[id].packages_to_be_built)
    BY <1>t DEF Tables
  <2>5. Scheduling(iterations', gitlab_pipelines', pipelines', pc', namespace',
                   iteration', architectures', build')
    BY <1>s, <2>1, <2>4 DEF Scheduling, Copy
  <2> QED
    BY <1>t, <2>1, <2>2, <2>3, <2>5 DEF IInv
<1>4. ASSUME NEW a \in architectures, NothingToSchedule(a)
      PROVE  IInv'
  <2>1. /\ pc = "schedule" /\ pc' = pc /\ namespace' = namespace
        /\ UNCHANGED <<iterations, gitlab_pipelines, pipelines>>
        /\ UNCHANGED <<to_poll, polled, unchecked, new_packages>>
        /\ UNCHANGED <<iteration, build>>
        /\ architectures' \subseteq architectures
    BY <1>4 DEF NothingToSchedule
  <2>2. Typed'
    BY <1>4 DEF IInv, Typed, NothingToSchedule
  <2>3. Polling(iterations', gitlab_pipelines', pipelines', pc', to_poll', polled',
                unchecked', new_packages')
    BY <1>k, <2>1, NothingChanged
  <2>4. Scheduling(iterations', gitlab_pipelines', pipelines', pc', namespace',
                   iteration', architectures', build')
    BY <1>s, <2>1 DEF Scheduling
  <2> QED
    BY <1>t, <2>1, <2>2, <2>3, <2>4 DEF IInv
\* A pipeline for a ready build of the iteration as it was read.
<1>c. ASSUME pc = "schedule", NEW a \in architectures, NEW b \in Ready(a),
             NEW status \in {"Created", "Pending"}, GitlabCreates(a, b, status)
      PROVE  /\ Tables(iterations, gitlab_pipelines, pipelines')
             /\ Grows(pipelines, pipelines')
             /\ b \in Nodes(iteration.packages_to_be_built[a])
             /\ Len(pipelines') \in DOMAIN pipelines'
             /\ IsFor(pipelines'[Len(pipelines')], iteration.id, a, b)
             /\ late_dispatches' \in [Namespaces -> Nat]
  <2>1. /\ iteration.id \in DOMAIN iterations
        /\ Copy(iterations, gitlab_pipelines, pipelines, iteration.id,
                iteration.packages_to_be_built)
        /\ a \in DOMAIN iteration.packages_to_be_built
        /\ b \in ReadyBuilds(iteration.packages_to_be_built[a])
    BY <1>s, <1>c DEF Scheduling, Ready
  <2>2. status \in Statuses
    BY DEF Statuses
  <2>3. pipelines' = Append(pipelines,
            [iteration |-> iteration.id, architecture |-> a, pkgbase |-> b,
             status |-> status, deleted |-> FALSE])
    BY <1>c DEF GitlabCreates
  <2>4. late_dispatches' \in [Namespaces -> Nat]
    <3>1. late_dispatches \in [Namespaces -> Nat] /\ namespace \in Namespaces
      BY <1>s, <1>c DEF IInv, Typed, Scheduling
    <3>2. late_dispatches' =
            [late_dispatches EXCEPT
                ![namespace] = IF namespaces[namespace] = "Cancelled"
                               THEN late_dispatches[namespace] + 1
                               ELSE late_dispatches[namespace]]
      BY <1>c DEF GitlabCreates
    <3> QED
      BY <3>1, <3>2
  <2> QED
    BY <1>t, <2>1, <2>2, <2>3, <2>4, PipelineCreated
<1>5. ASSUME NEW a \in architectures, NEW b \in Ready(a), CreatePipeline(a, b)
      PROVE  IInv'
  <2>1. /\ pc = "schedule" /\ pc' = "record" /\ namespace' = namespace
        /\ UNCHANGED <<iterations, gitlab_pipelines>>
        /\ UNCHANGED <<to_poll, polled, unchecked, new_packages>>
        /\ UNCHANGED <<iteration>>
        /\ build' = [architecture |-> a, pkgbase |-> b, gitlab_iid |-> Len(pipelines')]
        /\ architectures' \subseteq architectures
    BY <1>5 DEF CreatePipeline
  <2>2. /\ Tables(iterations, gitlab_pipelines, pipelines')
        /\ Grows(pipelines, pipelines')
        /\ b \in Nodes(iteration.packages_to_be_built[a])
        /\ Len(pipelines') \in DOMAIN pipelines'
        /\ IsFor(pipelines'[Len(pipelines')], iteration.id, a, b)
        /\ late_dispatches' \in [Namespaces -> Nat]
    BY <1>5, <1>c, <2>1 DEF CreatePipeline
  <2>3. Typed'
    BY <1>5, <2>2 DEF IInv, Typed, CreatePipeline
  <2>4. Polling(iterations', gitlab_pipelines', pipelines', pc', to_poll', polled',
                unchecked', new_packages')
    BY <1>k, <2>1, <2>2, NothingChanged
  <2>5. Scheduling(iterations', gitlab_pipelines', pipelines', pc, namespace,
                   iteration, architectures, build)
    BY <1>s, <2>1, <2>2, SchedulingStays, NothingChanged
  <2>6. iteration.packages_to_be_built \in Packages
        /\ a \in DOMAIN iteration.packages_to_be_built
    BY <1>s, <2>1 DEF Scheduling
  <2>7. InHand(gitlab_pipelines', pipelines', pc', iteration', build')
    BY <2>1, <2>2, <2>6, PackagesShape DEF InHand
  <2>8. Scheduling(iterations', gitlab_pipelines', pipelines', pc', namespace',
                   iteration', architectures', build')
    BY <2>1, <2>5, <2>7 DEF Scheduling
  <2> QED
    BY <2>1, <2>2, <2>3, <2>4, <2>8 DEF IInv
<1>6. ASSUME NEW a \in architectures, NEW b \in Ready(a), SchedulingFails(a, b)
      PROVE  IInv'
  <2>1. /\ pc = "schedule" /\ pc' = pc /\ namespace' = namespace
        /\ UNCHANGED <<iterations, gitlab_pipelines>>
        /\ UNCHANGED <<to_poll, polled, unchecked, new_packages>>
        /\ UNCHANGED <<iteration, build>>
        /\ architectures' \subseteq architectures
    BY <1>6 DEF SchedulingFails
  <2>2. /\ Tables(iterations, gitlab_pipelines, pipelines')
        /\ Grows(pipelines, pipelines')
        /\ late_dispatches' \in [Namespaces -> Nat]
    <3>1. CASE GitlabCreates(a, b, "Created")
      BY <1>c, <2>1, <3>1
    <3>2. CASE UNCHANGED <<pipelines, late_dispatches>>
      BY <1>t, <3>2, NothingChanged DEF IInv, Typed
    <3> QED
      BY <1>6, <3>1, <3>2 DEF SchedulingFails
  <2>3. Typed'
    BY <1>6, <2>2 DEF IInv, Typed, SchedulingFails, Fault
  <2>4. Polling(iterations', gitlab_pipelines', pipelines', pc', to_poll', polled',
                unchecked', new_packages')
    BY <1>k, <2>1, <2>2, NothingChanged
  <2>5. Scheduling(iterations', gitlab_pipelines', pipelines', pc, namespace,
                   iteration, architectures, build)
    BY <1>s, <2>1, <2>2, SchedulingStays, NothingChanged
  <2>6. Scheduling(iterations', gitlab_pipelines', pipelines', pc', namespace',
                   iteration', architectures', build')
    BY <2>1, <2>5 DEF Scheduling
  <2> QED
    BY <2>1, <2>2, <2>3, <2>4, <2>6 DEF IInv
<1>7. ASSUME RecordPipeline
      PROVE  IInv'
  <2>1. /\ pc = "record" /\ pc' = "update" /\ namespace' = namespace
        /\ UNCHANGED <<iterations, pipelines>>
        /\ UNCHANGED <<to_poll, polled, unchecked, new_packages>>
        /\ UNCHANGED <<iteration, architectures, build>>
        /\ gitlab_pipelines' = gitlab_pipelines \union
                {[iteration |-> iteration.id, architecture |-> build.architecture,
                  pkgbase |-> build.pkgbase, gitlab_iid |-> build.gitlab_iid]}
    BY <1>7 DEF RecordPipeline
  <2>2. /\ InHand(gitlab_pipelines, pipelines, pc, iteration, build)
        /\ iteration.id \in Nat
    BY <1>s, <1>t, <2>1 DEF Scheduling, Tables
  <2>3. /\ Tables(iterations, gitlab_pipelines', pipelines)
        /\ gitlab_pipelines \subseteq gitlab_pipelines'
        /\ HasRow(gitlab_pipelines', iteration.id, build.architecture, build.pkgbase)
    BY <1>t, <2>1, <2>2, RowInserted DEF InHand
  <2>4. Typed'
    BY <1>7 DEF IInv, Typed, RecordPipeline
  <2>5. Polling(iterations', gitlab_pipelines', pipelines', pc', to_poll', polled',
                unchecked', new_packages')
    BY <1>k, <2>1, <2>3, NothingChanged
  <2>6. Scheduling(iterations, gitlab_pipelines', pipelines, pc, namespace,
                   iteration, architectures, build)
    BY <1>s, <2>3, SchedulingStays, NothingChanged
  <2>7. Scheduling(iterations', gitlab_pipelines', pipelines', pc', namespace',
                   iteration', architectures', build')
    BY <2>1, <2>3, <2>6 DEF Scheduling, InHand
  <2> QED
    BY <2>1, <2>3, <2>4, <2>5, <2>7 DEF IInv
<1>8. ASSUME UpdateIteration
      PROVE  IInv'
  <2> DEFINE packages == [iteration.packages_to_be_built EXCEPT
                            ![build.architecture] =
                                ReserveBuild(@, build.pkgbase, "Scheduled")]
  <2>1. /\ pc = "update" /\ pc' = "schedule" /\ namespace' = namespace
        /\ UNCHANGED <<gitlab_pipelines, pipelines>>
        /\ UNCHANGED <<to_poll, polled, unchecked, new_packages>>
        /\ architectures' = architectures
        /\ build' = <<>>
        /\ iteration' = [iteration EXCEPT !.packages_to_be_built = packages]
        /\ iterations' = [iterations EXCEPT ![iteration.id].packages_to_be_built = packages]
    BY <1>8 DEF UpdateIteration, UpdatePackages
  <2>2. /\ iteration \in [id : DOMAIN iterations, packages_to_be_built : Packages]
        /\ Copy(iterations, gitlab_pipelines, pipelines, iteration.id,
                iteration.packages_to_be_built)
        /\ architectures \subseteq DOMAIN iteration.packages_to_be_built
        /\ InHand(gitlab_pipelines, pipelines, "update", iteration, build)
    BY <1>s, <2>1 DEF Scheduling
  <2>3. /\ build.architecture \in DOMAIN iteration.packages_to_be_built
        /\ build.pkgbase \in Nodes(iteration.packages_to_be_built[build.architecture])
        /\ Justified(gitlab_pipelines, pipelines, iteration.id, build.architecture,
                     build.pkgbase, "Scheduled")
        /\ "Scheduled" \in PackageBuildStatus
    BY <2>2 DEF InHand, Justified, PackageBuildStatus
  <2>4. packages = [iteration.packages_to_be_built EXCEPT
            ![build.architecture] =
                ReserveBuild(iteration.packages_to_be_built[build.architecture],
                             build.pkgbase, "Scheduled")]
    OBVIOUS
  <2>5. DOMAIN packages = DOMAIN iteration.packages_to_be_built
    BY <2>4
  <2>6. Copy(iterations, gitlab_pipelines, pipelines, iteration.id, packages)
    BY <2>2, <2>3, <2>4, CopyUpdated
  <2> HIDE DEF packages
  <2>7. /\ Tables(iterations', gitlab_pipelines, pipelines)
        /\ Extends(iterations, iterations')
    BY <1>t, <2>1, <2>2, <2>6, IterationUpdated
  <2>8. Typed'
    BY <1>8, <2>7 DEF IInv, Typed, UpdateIteration, Extends
  <2>9. Polling(iterations', gitlab_pipelines', pipelines', pc', to_poll', polled',
                unchecked', new_packages')
    BY <1>k, <2>1, <2>7, NothingChanged
  <2>10. /\ iteration'.id = iteration.id
         /\ iteration'.packages_to_be_built = packages
         /\ iteration.id \in DOMAIN iterations'
         /\ packages \in Packages
    BY <2>1, <2>2, <2>6, <2>7 DEF Copy, Extends
  <2>11. iteration' \in [id : DOMAIN iterations', packages_to_be_built : Packages]
    BY <2>1, <2>2, <2>10
  <2>12. Copy(iterations', gitlab_pipelines, pipelines, iteration.id, packages)
    BY <2>2, <2>6, <2>7, StaysCopy, NothingChanged
  <2>13. Scheduling(iterations', gitlab_pipelines', pipelines', pc', namespace',
                    iteration', architectures', build')
    BY <1>s, <2>1, <2>2, <2>5, <2>10, <2>11, <2>12 DEF Scheduling
  <2> QED
    BY <2>1, <2>7, <2>8, <2>9, <2>13 DEF IInv
<1>9. ASSUME FinishNamespace \/ NamespaceFails
      PROVE  IInv'
  <2>1. /\ pc # "check" /\ pc' = "namespaces"
        /\ UNCHANGED <<iterations, gitlab_pipelines, pipelines>>
        /\ UNCHANGED <<to_poll, polled, unchecked, new_packages>>
        /\ iteration' = [id |-> 0, packages_to_be_built |-> <<>>]
        /\ architectures' = {} /\ build' = <<>>
    BY <1>9 DEF FinishNamespace, NamespaceFails, LeaveNamespace
  <2>2. Typed'
    BY <1>9 DEF IInv, Typed, FinishNamespace, NamespaceFails, LeaveNamespace, Fault
  <2>3. Polling(iterations', gitlab_pipelines', pipelines', pc', to_poll', polled',
                unchecked', new_packages')
    BY <1>k, <2>1, NothingChanged
  <2>4. Scheduling(iterations', gitlab_pipelines', pipelines', pc', namespace',
                   iteration', architectures', build')
    BY <2>1 DEF Scheduling
  <2> QED
    BY <1>t, <2>1, <2>2, <2>3, <2>4 DEF IInv
<1>10. ASSUME FinishPass
       PROVE  IInv'
  <2>1. /\ pc = "namespaces" /\ pc' = "idle"
        /\ UNCHANGED <<iterations, gitlab_pipelines, pipelines>>
        /\ UNCHANGED <<to_poll, polled, unchecked, new_packages>>
        /\ UNCHANGED <<iteration, architectures, build>>
    BY <1>10 DEF FinishPass
  <2>2. Typed'
    BY <1>10 DEF IInv, Typed, FinishPass
  <2>3. Polling(iterations', gitlab_pipelines', pipelines', pc', to_poll', polled',
                unchecked', new_packages')
    BY <1>k, <2>1, NothingChanged
  <2>4. Scheduling(iterations', gitlab_pipelines', pipelines', pc', namespace',
                   iteration', architectures', build')
    BY <1>s, <2>1 DEF Scheduling
  <2> QED
    BY <1>t, <2>1, <2>2, <2>3, <2>4 DEF IInv
<1> QED
  BY <1>1, <1>2, <1>3, <1>4, <1>5, <1>6, <1>7, <1>8, <1>9, <1>10

\* Steps of the handlers and of GitLab, and a crash.
LEMMA OtherSteps ==
    ASSUME IInv, Crash \/ Handlers \/ Gitlab
    PROVE  IInv'
<1> USE DEF database, polling, scheduling, bounds, loop, server
<1>t. Tables(iterations, gitlab_pipelines, pipelines)
  BY DEF IInv
<1>p. Polling(iterations, gitlab_pipelines, pipelines, pc, to_poll, polled,
              unchecked, new_packages)
  BY DEF IInv
<1>s. Scheduling(iterations, gitlab_pipelines, pipelines, pc, namespace,
                 iteration, architectures, build)
  BY DEF IInv
\* The tables may change in the middle of a pass.
<1>k. ASSUME UNCHANGED <<pc, to_poll, polled, unchecked, new_packages>>,
             UNCHANGED <<namespace, iteration, architectures, build>>,
             Tables(iterations', gitlab_pipelines', pipelines'),
             Extends(iterations, iterations'), Grows(pipelines, pipelines'),
             gitlab_pipelines' = gitlab_pipelines,
             Typed'
      PROVE  IInv'
  <2>1. Polling(iterations', gitlab_pipelines', pipelines', pc', to_poll', polled',
                unchecked', new_packages')
    BY <1>p, <1>k, PollingStays
  <2>2. Scheduling(iterations', gitlab_pipelines', pipelines', pc', namespace',
                   iteration', architectures', build')
    BY <1>s, <1>k, SchedulingStays
  <2> QED
    BY <1>k, <2>1, <2>2 DEF IInv
<1>1. ASSUME Crash
      PROVE  IInv'
  <2> USE <1>1 DEF Crash
  <2>1. Typed'
    BY DEF IInv, Typed, Fault
  <2>2. Polling(iterations', gitlab_pipelines', pipelines', pc', to_poll', polled',
                unchecked', new_packages')
    <3>1. DOMAIN to_poll' = {}
      OBVIOUS
    <3> QED
      BY <3>1 DEF Polling
  <2>3. Scheduling(iterations', gitlab_pipelines', pipelines', pc', namespace',
                   iteration', architectures', build')
    BY DEF Scheduling
  <2> QED
    BY <1>t, <2>1, <2>2, <2>3 DEF IInv
<1>2. ASSUME NEW ns \in Namespaces, NEW status \in {"Active", "Cancelled"},
             CreateNamespace(ns) \/ UpdateNamespace(ns, status)
      PROVE  IInv'
  <2>1. UNCHANGED <<iterations, gitlab_pipelines, pipelines, loop>>
    BY <1>2 DEF CreateNamespace, UpdateNamespace
  <2>2. Typed'
    BY <1>2 DEF CreateNamespace, UpdateNamespace, IInv, Typed
  <2> QED
    BY <1>t, <1>k, <2>1, <2>2, NothingChanged
<1>3. ASSUME NEW ns \in Namespaces, RequestIteration(ns)
      PROVE  IInv'
  <2>1. UNCHANGED <<iterations, gitlab_pipelines, pipelines, loop>>
    BY <1>3 DEF RequestIteration
  <2>2. Typed'
    BY <1>3 DEF RequestIteration, IInv, Typed
  <2> QED
    BY <1>t, <1>k, <2>1, <2>2, NothingChanged
<1>4. ASSUME NEW request \in requests, NEW packages \in BuildSets,
             AnswerRequest(request, packages)
      PROVE  IInv'
  <2>1. UNCHANGED <<gitlab_pipelines, pipelines, loop>>
    BY <1>4 DEF AnswerRequest
  <2>2. request.namespace \in Namespaces /\ request.created_at \in Nat
    BY DEF IInv, Typed
  <2>3. /\ Tables(iterations', gitlab_pipelines, pipelines)
        /\ Extends(iterations, iterations')
    BY <1>4, <1>t, <2>2, IterationInserted DEF AnswerRequest, InsertIteration, CreateReasons
  <2>4. Typed'
    BY <1>4, <2>3 DEF AnswerRequest, IInv, Typed, Extends
  <2> QED
    BY <1>k, <2>1, <2>3, <2>4, NothingChanged
<1>5. ASSUME NEW request \in requests, RequestFails(request)
      PROVE  IInv'
  <2>1. UNCHANGED <<iterations, gitlab_pipelines, pipelines, loop>>
    BY <1>5 DEF RequestFails
  <2>2. Typed'
    BY <1>5 DEF RequestFails, IInv, Typed
  <2> QED
    BY <1>t, <1>k, <2>1, <2>2, NothingChanged
<1>6. ASSUME NEW p \in DOMAIN pipelines, NEW x \in Pipeline,
             pipelines' = [pipelines EXCEPT ![p] = x],
             IsFor(x, pipelines[p].iteration, pipelines[p].architecture,
                   pipelines[p].pkgbase),
             pipelines[p].status \in Finished => x.status = pipelines[p].status,
             UNCHANGED server, clock' \in Nat, faults' \in Nat
      PROVE  IInv'
  <2>1. UNCHANGED <<iterations, gitlab_pipelines, loop>>
    BY <1>6
  <2>2. /\ Tables(iterations, gitlab_pipelines, pipelines')
        /\ Grows(pipelines, pipelines')
    BY <1>6, <1>t, PipelineChanged
  <2>3. Typed'
    BY <1>6 DEF IInv, Typed
  <2> QED
    BY <1>k, <2>1, <2>2, <2>3, NothingChanged
<1>7. ASSUME NEW p \in DOMAIN pipelines, NEW status \in Statuses,
             MovePipeline(p, status)
      PROVE  IInv'
  <2> DEFINE x == [pipelines[p] EXCEPT !.status = status]
  <2>1. pipelines[p] \in Pipeline
    BY <1>t DEF Tables
  <2>2. /\ x \in Pipeline
        /\ IsFor(x, pipelines[p].iteration, pipelines[p].architecture,
                 pipelines[p].pkgbase)
    BY <2>1 DEF Pipeline, IsFor
  <2>3. pipelines[p].status \notin Finished
    BY <1>7 DEF MovePipeline, Unfinished, Finished
  <2>4. /\ pipelines' = [pipelines EXCEPT ![p] = x] /\ UNCHANGED server
        /\ clock' \in Nat /\ faults' \in Nat
    BY <1>7 DEF MovePipeline, IInv, Typed
  <2> HIDE DEF x
  <2> QED
    BY <1>6, <2>2, <2>3, <2>4
<1>8. ASSUME NEW p \in DOMAIN pipelines, DeletePipeline(p)
      PROVE  IInv'
  <2> DEFINE x == [pipelines[p] EXCEPT !.deleted = TRUE]
  <2>1. pipelines[p] \in Pipeline
    BY <1>t DEF Tables
  <2>2. /\ x \in Pipeline
        /\ IsFor(x, pipelines[p].iteration, pipelines[p].architecture,
                 pipelines[p].pkgbase)
        /\ x.status = pipelines[p].status
    BY <2>1 DEF Pipeline, IsFor
  <2>3. /\ pipelines' = [pipelines EXCEPT ![p] = x] /\ UNCHANGED server
        /\ clock' \in Nat /\ faults' \in Nat
    BY <1>8 DEF DeletePipeline, Fault, IInv, Typed
  <2> HIDE DEF x
  <2> QED
    BY <1>6, <2>2, <2>3
<1>9. Unfinished \subseteq Statuses /\ Finished \subseteq Statuses
  BY DEF Unfinished, Finished, Statuses
<1> QED
  BY <1>1, <1>2, <1>3, <1>4, <1>5, <1>7, <1>8, <1>9 DEF Handlers, Gitlab, FinishPipeline

LEMMA NextIInv == IInv /\ [Next]_vars => IInv'
<1> SUFFICES ASSUME IInv, [Next]_vars
             PROVE  IInv'
  OBVIOUS
<1>1. CASE LoopStep
  BY <1>1, PollingSteps, SchedulingSteps DEF LoopStep
<1>2. CASE Failure
  BY <1>2, PollingSteps, SchedulingSteps, OtherSteps DEF Failure
<1>3. CASE Handlers \/ Gitlab
  BY <1>3, OtherSteps
<1>4. CASE UNCHANGED vars
  <2>1. Typed'
    BY <1>4 DEF vars, IInv, Typed, database, polling, scheduling, bounds
  <2> QED
    BY <1>4, <2>1 DEF vars, IInv, database, polling, scheduling, bounds
<1> QED
  BY <1>1, <1>2, <1>3, <1>4 DEF Next

LEMMA Invariance == Spec => []IInv
BY InitIInv, NextIInv, PTL DEF Spec

-----------------------------------------------------------------------------
(***************************************************************************)
(* What follows from the invariant                                         *)
(***************************************************************************)

LEMMA TypeOKFollows == IInv => TypeOK
<1> SUFFICES ASSUME IInv
             PROVE  TypeOK
  OBVIOUS
<1>t. Tables(iterations, gitlab_pipelines, pipelines)
  BY DEF IInv
<1>p. Polling(iterations, gitlab_pipelines, pipelines, pc, to_poll, polled,
              unchecked, new_packages)
  BY DEF IInv
<1>s. Scheduling(iterations, gitlab_pipelines, pipelines, pc, namespace,
                 iteration, architectures, build)
  BY DEF IInv
<1>1. iterations \in Seq({iterations[i] : i \in Ids})
  BY <1>t DEF Tables, Ids
<1>2. \A i \in Ids :
        /\ ArePackages(iterations[i].packages_to_be_built)
        /\ iterations[i] \in [namespace : Namespaces, created_at : Nat,
                create_reason : CreateReasons,
                packages_to_be_built : {iterations[i].packages_to_be_built}]
  <2> SUFFICES ASSUME NEW i \in Ids
               PROVE  /\ ArePackages(iterations[i].packages_to_be_built)
                      /\ iterations[i] \in [namespace : Namespaces, created_at : Nat,
                            create_reason : CreateReasons,
                            packages_to_be_built : {iterations[i].packages_to_be_built}]
    OBVIOUS
  <2>1. iterations[i] \in IterationRow
    BY <1>t DEF Tables, Ids
  <2> QED
    BY <2>1, PackagesAre DEF IterationRow
<1>3. gitlab_pipelines \subseteq
        [iteration : Nat, architecture : Architectures, pkgbase : Pkgbases,
         gitlab_iid : DOMAIN pipelines]
  BY <1>t DEF Tables, RowsMatch, PipelineRow
<1>4. pipelines \in Seq([iteration : Nat, architecture : Architectures,
                         pkgbase : Pkgbases, status : Statuses, deleted : BOOLEAN])
  BY <1>t DEF Tables, Pipeline
<1>5. /\ DOMAIN to_poll \subseteq Ids
      /\ \A i \in DOMAIN to_poll : ArePackages(to_poll[i])
      /\ polled \in DOMAIN to_poll \union {0}
      /\ unchecked \subseteq Architectures \X Pkgbases
      /\ ArePackages(new_packages)
  BY <1>p, PackagesAre, EmptyPackages DEF Polling, Copy, Ids
<1>6. /\ ArePackages(iteration.packages_to_be_built)
      /\ iteration \in [id : Ids \union {0},
                         packages_to_be_built : {iteration.packages_to_be_built}]
      /\ architectures \subseteq DOMAIN iteration.packages_to_be_built
  BY <1>s, PackagesAre, EmptyPackages DEF Scheduling, Ids
<1>7. \/ build = <<>>
      \/ build \in [architecture : Architectures, pkgbase : Pkgbases,
                    gitlab_iid : DOMAIN pipelines]
  BY <1>s DEF Scheduling, InHand
<1> QED
  BY <1>1, <1>2, <1>3, <1>4, <1>5, <1>6, <1>7 DEF TypeOK, IInv, Typed, Ids

\* What the rows of iterations say of a job.
LEMMA JobsJustified ==
    ASSUME IInv, NEW j \in Jobs
    PROVE  Justified(gitlab_pipelines, pipelines, j[1], j[2], j[3], JobStatus(j))
<1>1. /\ j[1] \in Ids
      /\ j[2] \in DOMAIN iterations[j[1]].packages_to_be_built
      /\ j[3] \in Nodes(Graph(j[1], j[2]))
  BY DEF Jobs
<1>2. Copy(iterations, gitlab_pipelines, pipelines, j[1],
           iterations[j[1]].packages_to_be_built)
  BY <1>1 DEF IInv, Tables, Ids
<1> QED
  BY <1>1, <1>2 DEF Copy, JobStatus, Graph

LEMMA TrackedFollows == IInv => BuildsAreTracked
<1> SUFFICES ASSUME IInv, NEW j \in Jobs, JobStatus(j) # "Blocked"
             PROVE  \E row \in PipelineRows(j[1], j[2], j[3]) :
                        row.gitlab_iid \in PipelinesOf(j)
  BY DEF BuildsAreTracked
<1>1. PICK row \in gitlab_pipelines : IsFor(row, j[1], j[2], j[3])
  BY JobsJustified DEF Justified, HasRow
<1>2. /\ row.gitlab_iid \in DOMAIN pipelines
      /\ IsFor(pipelines[row.gitlab_iid], j[1], j[2], j[3])
  BY <1>1 DEF IInv, Tables, RowsMatch, IsFor
<1> QED
  BY <1>1, <1>2 DEF PipelineRows, PipelinesOf, IsFor

LEMMA ResultsFollow == IInv => ResultsAreReal
<1> SUFFICES ASSUME IInv, NEW j \in Jobs
             PROVE  /\ JobStatus(j) = "Built" =>
                        \E p \in PipelinesOf(j) : pipelines[p].status = "Success"
                    /\ JobStatus(j) = "Failed" =>
                        \E p \in PipelinesOf(j) : pipelines[p].status = "Failed"
  BY DEF ResultsAreReal
<1> QED
  BY JobsJustified DEF Justified, HasPipeline, PipelinesOf, IsFor

LEMMA DependenciesFollow == IInv => DependenciesBuiltFirst
<1> SUFFICES ASSUME IInv, NEW p \in DOMAIN pipelines,
                    NEW d \in Dependencies(
                        Graph(pipelines[p].iteration, pipelines[p].architecture),
                        pipelines[p].pkgbase)
             PROVE  \E r \in PipelinesOf(<<pipelines[p].iteration,
                                          pipelines[p].architecture, d>>) :
                        pipelines[r].status = "Success"
  BY DEF DependenciesBuiltFirst
<1>1. HasPipeline(pipelines, pipelines[p].iteration, pipelines[p].architecture, d,
                  "Success")
  BY DEF IInv, Tables, InOrder, Graph
<1> QED
  BY <1>1 DEF HasPipeline, PipelinesOf, IsFor

\* Every variable of the loop, the database and GitLab has its type.
THEOREM DispatchTypeCorrect == Spec => []TypeOK
BY Invariance, TypeOKFollows, PTL

\* A crash, a failed call or an older copy that is written back never leaves a
\* build that is not blocked without a pipeline the server can look up.
THEOREM DispatchTracksBuilds == Spec => []BuildsAreTracked
BY Invariance, TrackedFollows, PTL

\* Every result in every iteration is the result of one of its pipelines.
THEOREM DispatchResultsAreReal == Spec => []ResultsAreReal
BY Invariance, ResultsFollow, PTL

\* No pipeline is ever created for a build with a dependency that was not built
\* by GitLab before.
THEOREM DispatchInOrder == Spec => []DependenciesBuiltFirst
BY Invariance, DependenciesFollow, PTL

-----------------------------------------------------------------------------
(***************************************************************************)
(* Cancelled namespaces                                                    *)
(***************************************************************************)

\* A listed namespace has not got a late pipeline yet, and the one that has its
\* turn got none for the architectures that are left.
LateBounded ==
    /\ \A ns \in Namespaces :
        /\ late_dispatches[ns] <= Cardinality(Architectures)
        /\ namespaces[ns] # "Cancelled" => late_dispatches[ns] = 0
        /\ ns \in active_namespaces => late_dispatches[ns] = 0
        /\ pc \in {"calculate", "read"} /\ namespace = ns => late_dispatches[ns] = 0
        /\ pc \in {"schedule", "record", "update"} /\ namespace = ns =>
            late_dispatches[ns] + Cardinality(architectures) <= Cardinality(Architectures)
    /\ pc \in {"calculate", "read", "schedule", "record", "update"} =>
            namespace \notin active_namespaces

LateInv == IInv /\ LateBounded

LEMMA ArchitecturesLeft ==
    ASSUME IInv
    PROVE  /\ Cardinality(Architectures) \in Nat
           /\ \A as \in SUBSET Architectures :
                /\ Cardinality(as) \in Nat
                /\ Cardinality(as) <= Cardinality(Architectures)
                /\ \A a \in as : Cardinality(as \ {a}) = Cardinality(as) - 1
           /\ architectures \subseteq Architectures
<1>1. \A as \in SUBSET Architectures : IsFiniteSet(as)
  BY BoundsAssumption, FS_Subset
<1>2. architectures \subseteq Architectures
  <2>1. CASE pc \in {"schedule", "record", "update"}
    <3>1. iteration.packages_to_be_built \in Packages
          /\ architectures \subseteq DOMAIN iteration.packages_to_be_built
      BY <2>1 DEF IInv, Scheduling
    <3> QED
      BY <3>1, PackagesShape
  <2>2. CASE pc \notin {"schedule", "record", "update"}
    BY <2>2 DEF IInv, Scheduling
  <2> QED
    BY <2>1, <2>2
<1>3. Cardinality(Architectures) \in Nat
  BY BoundsAssumption, FS_CardinalityType
<1>4. ASSUME NEW as \in SUBSET Architectures
      PROVE  /\ Cardinality(as) \in Nat
             /\ Cardinality(as) <= Cardinality(Architectures)
             /\ \A a \in as : Cardinality(as \ {a}) = Cardinality(as) - 1
  BY <1>1, BoundsAssumption, FS_CardinalityType, FS_Subset, FS_RemoveElement
<1> QED
  BY <1>2, <1>3, <1>4

\* The architecture of a dispatch is not left any more.
LEMMA DispatchStaysBounded ==
    ASSUME LateInv, pc = "schedule", pc' \in {"schedule", "record"},
           UNCHANGED <<namespaces, active_namespaces, namespace>>,
           NEW a \in architectures, architectures' = architectures \ {a},
           \/ UNCHANGED late_dispatches
           \/ late_dispatches' =
                [late_dispatches EXCEPT
                    ![namespace] = IF namespaces[namespace] = "Cancelled"
                                   THEN @ + 1 ELSE @]
    PROVE  LateBounded'
<1>1. /\ namespace \in Namespaces
      /\ late_dispatches \in [Namespaces -> Nat]
  BY DEF LateInv, IInv, Scheduling, Typed
<1>2. /\ Cardinality(Architectures) \in Nat /\ Cardinality(architectures) \in Nat
      /\ Cardinality(architectures') = Cardinality(architectures) - 1
      /\ Cardinality(architectures') \in Nat
  BY ArchitecturesLeft DEF LateInv
<1>3. \A ns \in Namespaces : ns # namespace => late_dispatches'[ns] = late_dispatches[ns]
  BY <1>1
<1>4. /\ late_dispatches'[namespace] \in Nat
      /\ late_dispatches'[namespace] <= late_dispatches[namespace] + 1
      /\ namespaces[namespace] # "Cancelled" =>
            late_dispatches'[namespace] = late_dispatches[namespace]
  BY <1>1
<1>5. /\ late_dispatches[namespace] \in Nat
      /\ late_dispatches[namespace] + Cardinality(architectures)
            <= Cardinality(Architectures)
      /\ namespace \notin active_namespaces
  BY <1>1 DEF LateInv, LateBounded
<1>6. /\ late_dispatches'[namespace] + Cardinality(architectures')
            <= Cardinality(Architectures)
      /\ late_dispatches'[namespace] <= Cardinality(Architectures)
  BY <1>2, <1>4, <1>5
<1> QED
  BY <1>1, <1>3, <1>4, <1>5, <1>6 DEF LateInv, LateBounded

LEMMA NextLateInv == LateInv /\ [Next]_vars => LateInv'
<1> SUFFICES ASSUME LateInv, [Next]_vars
             PROVE  LateInv'
  OBVIOUS
<1>i. IInv'
  BY NextIInv DEF LateInv
<1>t. /\ late_dispatches \in [Namespaces -> Nat]
      /\ Cardinality(Architectures) \in Nat
  BY ArchitecturesLeft DEF LateInv, IInv, Typed
<1> SUFFICES LateBounded'
  BY <1>i DEF LateInv
<1> USE DEF database, polling, scheduling, bounds, loop, server
<1>1. CASE \E a \in architectures : \E b \in Ready(a) : CreatePipeline(a, b)
  BY <1>1, DispatchStaysBounded DEF CreatePipeline, GitlabCreates
<1>2. CASE \E a \in architectures : \E b \in Ready(a) : SchedulingFails(a, b)
  BY <1>2, DispatchStaysBounded DEF SchedulingFails, GitlabCreates
<1>3. CASE \E a \in architectures : NothingToSchedule(a)
  BY <1>3, DispatchStaysBounded DEF NothingToSchedule
<1>4. CASE \E id \in DOMAIN iterations : ReadNewestIteration(id)
  <2>1. /\ pc = "read" /\ pc' = "schedule"
        /\ UNCHANGED <<namespaces, active_namespaces, namespace, late_dispatches>>
    BY <1>4 DEF ReadNewestIteration
  <2>2. /\ Cardinality(architectures') \in Nat
        /\ Cardinality(architectures') <= Cardinality(Architectures)
    <3>1. /\ iteration'.packages_to_be_built \in Packages
          /\ architectures' \subseteq DOMAIN iteration'.packages_to_be_built
      BY <1>i, <2>1 DEF IInv, Scheduling
    <3>2. architectures' \subseteq Architectures
      BY <3>1, PackagesShape
    <3> QED
      BY <3>2, ArchitecturesLeft DEF LateInv
  <2> QED
    BY <1>t, <2>1, <2>2 DEF LateInv, LateBounded
<1>5. CASE \E ns \in Namespaces : UpdateNextNamespace(ns)
  BY <1>5 DEF UpdateNextNamespace, LateInv, LateBounded
<1>6. CASE \E packages \in BuildSets : CreateIterationIfNeeded(packages)
  BY <1>6 DEF CreateIterationIfNeeded, LateInv, LateBounded
<1>7. CASE RecordPipeline \/ UpdateIteration
  BY <1>7 DEF RecordPipeline, UpdateIteration, LateInv, LateBounded
<1>8. CASE FinishNamespace \/ NamespaceFails \/ FinishPass
  BY <1>8 DEF FinishNamespace, NamespaceFails, FinishPass, LeaveNamespace, LateInv,
     LateBounded
<1>9. CASE ListActiveNamespaces
  BY <1>9 DEF ListActiveNamespaces, LateInv, LateBounded
<1>10. CASE \/ StartPass
            \/ \E id \in DOMAIN iterations : PollIteration(id)
            \/ \E a \in Architectures, b \in Pkgbases : CheckPipeline(a, b)
            \/ PersistIteration
            \/ PollingFails
            \/ PassFails
  BY <1>10 DEF StartPass, PollIteration, CheckPipeline, PersistIteration, PollingFails,
     PassFails, LateInv, LateBounded
<1>11. CASE Crash
  BY <1>11 DEF Crash, LateInv, LateBounded
<1>12. CASE \E ns \in Namespaces : CreateNamespace(ns)
  <2> PICK ns \in Namespaces : CreateNamespace(ns)
    BY <1>12
  <2>1. /\ namespaces[ns] = "none" /\ namespaces' = [namespaces EXCEPT ![ns] = "Active"]
        /\ UNCHANGED <<loop, late_dispatches>>
    BY DEF CreateNamespace
  <2>2. namespaces \in [Namespaces -> {"none", "Active", "Cancelled"}]
    BY DEF LateInv, IInv, Typed
  <2> QED
    BY <2>1, <2>2 DEF LateInv, LateBounded
<1>13. ASSUME NEW ns \in Namespaces, NEW status, UpdateNamespace(ns, status)
       PROVE  LateBounded'
  <2>1. /\ namespaces' = [namespaces EXCEPT ![ns] = status]
        /\ late_dispatches' = [late_dispatches EXCEPT ![ns] = 0]
        /\ UNCHANGED loop
    BY <1>13 DEF UpdateNamespace
  <2>2. namespaces \in [Namespaces -> {"none", "Active", "Cancelled"}]
    BY DEF LateInv, IInv, Typed
  <2>3. \A other \in Namespaces : other # ns =>
            late_dispatches'[other] = late_dispatches[other]
            /\ namespaces'[other] = namespaces[other]
    BY <1>t, <2>1, <2>2
  <2>4. late_dispatches'[ns] = 0
    BY <1>t, <2>1
  <2>5. Cardinality(architectures) \in Nat
        /\ Cardinality(architectures) <= Cardinality(Architectures)
    BY ArchitecturesLeft DEF LateInv
  <2> QED
    BY <1>t, <2>1, <2>3, <2>4, <2>5 DEF LateInv, LateBounded
<1>14. CASE \/ \E ns \in Namespaces : RequestIteration(ns)
            \/ \E request \in requests, packages \in BuildSets :
                    AnswerRequest(request, packages)
            \/ \E request \in requests : RequestFails(request)
  BY <1>14 DEF RequestIteration, AnswerRequest, RequestFails, LateInv, LateBounded
<1>15. CASE Gitlab \/ UNCHANGED vars
  BY <1>15 DEF Gitlab, FinishPipeline, MovePipeline, DeletePipeline, vars, LateInv,
     LateBounded
<1> QED
  BY <1>1, <1>2, <1>3, <1>4, <1>5, <1>6, <1>7, <1>8, <1>9, <1>10, <1>11, <1>12, <1>13,
     <1>14, <1>15 DEF Next, LoopStep, Failure, Handlers

\* However a cancellation meets a pass that is under way, the namespace gets no
\* more than one more pipeline for each architecture.
THEOREM DispatchNoticesCancellation == Spec => []CancellationIsNoticed
<1>1. Init => LateInv
  <2> SUFFICES ASSUME Init
               PROVE  LateInv
    OBVIOUS
  <2>1. IInv
    BY InitIInv
  <2>2. Cardinality(Architectures) \in Nat
    BY <2>1, ArchitecturesLeft
  <2> QED
    BY <2>1, <2>2 DEF Init, LateInv, LateBounded
<1>2. LateInv => CancellationIsNoticed
  BY DEF LateInv, LateBounded, CancellationIsNoticed
<1> QED
  BY <1>1, <1>2, NextLateInv, PTL DEF Spec
=============================================================================
