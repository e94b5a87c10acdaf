----------------------------- MODULE BuildGraphs -----------------------------
(***************************************************************************)
(* The pure part of buildbtw-poc/src/build_set_graph.rs: what a build set  *)
(* graph is, which build the scheduler may start next, how a status is     *)
(* written into a graph, and when two graphs are considered different.     *)
(*                                                                         *)
(* A build set graph is a record with                                      *)
(*   commit_hash  the commit every PKGBUILD of the graph is built from, a  *)
(*                function whose domain is the set of pkgbases;            *)
(*   status       the PackageBuildStatus of every pkgbase;                 *)
(*   edges        the pairs <<dependency, dependent>>.                     *)
(* The branch name and the .SRCINFO stored in a node are left out: nothing *)
(* here branches on them.                                                  *)
(***************************************************************************)

PackageBuildStatus ==
    {"Blocked", "Pending", "Scheduled", "Building", "Built", "Failed"}

\* A build that was handed to somebody and has no result yet.
InProgress == {"Scheduled", "Building"}

\* A build that has a result. No code path is meant to leave these.
Settled == {"Built", "Failed"}

Nodes(graph) == DOMAIN graph.status

Dependencies(graph, pkgbase) ==
    {d \in Nodes(graph) : <<d, pkgbase>> \in graph.edges}

IsBuildSetGraph(graph, pkgbases, hashes) ==
    /\ Nodes(graph) \subseteq pkgbases
    /\ graph \in [commit_hash : [Nodes(graph) -> hashes],
                  status : [Nodes(graph) -> PackageBuildStatus],
                  edges : SUBSET (Nodes(graph) \X Nodes(graph))]

\* packages_to_be_built: a graph for each architecture that has packages.
ArePackagesToBeBuilt(packages, architectures, pkgbases, hashes) ==
    /\ DOMAIN packages \subseteq architectures
    /\ packages = [a \in DOMAIN packages |-> packages[a]]
    /\ \A a \in DOMAIN packages : IsBuildSetGraph(packages[a], pkgbases, hashes)

-----------------------------------------------------------------------------
(***************************************************************************)
(* schedule_next_build_in_graph                                            *)
(***************************************************************************)

RootNodes(graph) == {n \in Nodes(graph) : Dependencies(graph, n) = {}}

\* Mutant: only one of the root nodes is searched from.
VisitedFromOneRoot(graph) ==
    {n \in Nodes(graph) :
        \A seen \in SUBSET Nodes(graph) :
            /\ (CHOOSE root \in RootNodes(graph) : TRUE) \in seen
            /\ \A e \in graph.edges : e[1] \in seen => e[2] \in seen
            => n \in seen}

\* The nodes the breadth first searches from the root nodes come across.
VisitedNodes(graph) ==
    {n \in Nodes(graph) :
        \A seen \in SUBSET Nodes(graph) :
            /\ RootNodes(graph) \subseteq seen
            /\ \A e \in graph.edges : e[1] \in seen => e[2] \in seen
            => n \in seen}

\* Mutant: blocked while all instead of any dependencies are unbuilt.
AllUnbuilt(graph, pkgbase) ==
    /\ Dependencies(graph, pkgbase) # {}
    /\ \A d \in Dependencies(graph, pkgbase) : graph.status[d] # "Built"

StillBlocked(graph, pkgbase) ==
    \E d \in Dependencies(graph, pkgbase) : graph.status[d] # "Built"

\* Mutant: blocked nodes are skipped without looking at their dependencies.
OnlyPending(graph) == {n \in VisitedNodes(graph) : graph.status[n] = "Pending"}

\* The builds the search may return. It returns the first one it meets; the
\* order depends on node indices that were drawn from a hash map, so any of
\* them may be the first.
ReadyBuilds(graph) ==
    {n \in VisitedNodes(graph) :
        \/ graph.status[n] = "Pending"
        \/ graph.status[n] = "Blocked" /\ ~StillBlocked(graph, n)}

\* What the caller is told when there is nothing to start.
FallbackStatus(graph) ==
    IF \E n \in VisitedNodes(graph) : graph.status[n] \in InProgress
    THEN "NoPendingPackages" ELSE "Finished"

\* updated_build_set_graph: the chosen node is reserved for building.
ReserveBuild(graph, pkgbase, schedule_status) ==
    [graph EXCEPT !.status[pkgbase] = schedule_status]

-----------------------------------------------------------------------------
(***************************************************************************)
(* set_build_status and the diff that decides about a new iteration        *)
(***************************************************************************)

\* Mutant: the nodes that do not match are dropped.
OnlyMatchingNodes(graph, pkgbase, new_status) ==
    [graph EXCEPT !.status = [n \in Nodes(graph) \intersect {pkgbase} |-> new_status]]

SetBuildStatus(graph, pkgbase, new_status) ==
    [graph EXCEPT !.status =
        [n \in Nodes(graph) |-> IF n = pkgbase THEN new_status ELSE @[n]]]

\* The nodes_added and nodes_removed of diff_graphs.
DiffNodes(graph) == {<<n, graph.commit_hash[n]>> : n \in Nodes(graph)}

\* Diff::is_empty looks at the nodes only: a changed edge alone is no change.
DiffIsEmpty(old, new) == DiffNodes(old) = DiffNodes(new)

\* Mutant: an architecture has changed when there is a diff for it.
NothingCompared(old, new) == DOMAIN old = {} /\ DOMAIN new = {}

\* IterationDiff::is_empty over the graphs of all architectures.
IterationDiffIsEmpty(old, new) ==
    /\ DOMAIN old = DOMAIN new
    /\ \A architecture \in DOMAIN new :
            DiffIsEmpty(old[architecture], new[architecture])

-----------------------------------------------------------------------------
(***************************************************************************)
(* impl From<PipelineStatus> for PackageBuildStatus (gitlab/mod.rs)        *)
(***************************************************************************)

PipelineStatus ==
    {"Pending", "Created", "WaitingForResource", "Preparing", "Running",
     "Success", "Failed", "Canceled", "Skipped", "Manual", "Scheduled"}

FromPipelineStatus(pipeline_status) ==
    CASE pipeline_status = "Pending" -> "Scheduled"
      [] pipeline_status = "Success" -> "Built"
      [] pipeline_status \in {"Failed", "Canceled", "Skipped"} -> "Failed"
      [] OTHER -> "Building"
=============================================================================
