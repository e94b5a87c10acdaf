---------------------------- MODULE GitlabDispatch ---------------------------
(***************************************************************************)
(* The buildbtw server as it is deployed: one background loop              *)
(* (buildbtw-poc/src/bin/server/tasks.rs) polls the GitLab pipelines of    *)
(* all iterations, creates new iterations and starts the next builds as    *)
(* pipelines, while HTTP handlers (routes.rs) change namespaces and insert *)
(* iterations, GitLab runs the pipelines, and the server process may       *)
(* crash at any point.                                                     *)
(*                                                                         *)
(* The loop is split wherever it awaits something that another actor can   *)
(* get in between. What it keeps in local variables across an await is     *)
(* state of its own here, so a stale copy can be written back.             *)
(***************************************************************************)
EXTENDS Naturals, Sequences, FiniteSets, BuildGraphs

CONSTANTS
    Namespaces,
    Architectures,
    Pkgbases,
    CommitHashes,
    BuildSets,          \* what calculate_packages_to_be_built may return
    PipelinesMayVanish, \* whether a pipeline may be deleted in GitLab
    NoNamespace,
    MaxIterations,      \* bound on created_at timestamps handed out
    MaxFaults           \* bound on crashes, failed calls and deletions

ArePackages(packages) ==
    ArePackagesToBeBuilt(packages, Architectures, Pkgbases, CommitHashes)

\* A build set comes out of the calculation with every node blocked.
ASSUME BuildSetsAssumption ==
    \A packages \in BuildSets :
        /\ ArePackages(packages)
        /\ \A a \in DOMAIN packages : \A b \in Nodes(packages[a]) :
                packages[a].status[b] = "Blocked"

\* It does not come out at all when there is a cycle in it.
ASSUME AcyclicAssumption ==
    \A packages \in BuildSets : \A a \in DOMAIN packages :
        \A c \in SUBSET Nodes(packages[a]) :
            c # {} => \E b \in c : Dependencies(packages[a], b) \intersect c = {}

ASSUME BoundsAssumption ==
    /\ MaxIterations \in Nat
    /\ MaxFaults \in Nat
    /\ PipelinesMayVanish \in BOOLEAN
    /\ NoNamespace \notin Namespaces
    /\ IsFiniteSet(Namespaces) /\ IsFiniteSet(Architectures)

VARIABLES
    \* the database
    namespaces,         \* status of every namespace, "none" before creation
    iterations,         \* table build_set_iterations, in insertion order
    gitlab_pipelines,   \* table gitlab_pipelines
    \* GitLab
    pipelines,          \* every pipeline ever created
    \* the loop
    pc,
    to_poll,            \* all_iterations: listed iterations left to poll
    polled,             \* id of the iteration being polled, 0 for none
    unchecked,          \* builds of the current iteration left to check
    new_packages,       \* new_packages_to_be_built of the current iteration
    active_namespaces,  \* listed namespaces left to update
    namespace,          \* the namespace being updated
    previous,           \* id of newest_iteration, 0 for None
    iteration,          \* the newest iteration, as read
    architectures,      \* architectures left to schedule
    build,              \* the pipeline just created: create_pipeline's result
    \* the handlers
    requests,           \* create_namespace_iteration calls being calculated
    \* observation and bounds
    late_dispatches,    \* pipelines created since a namespace was cancelled
    clock,              \* created_at timestamps handed out
    faults

database == <<namespaces, iterations, gitlab_pipelines>>
polling == <<to_poll, polled, unchecked, new_packages>>
scheduling == <<active_namespaces, namespace, previous, iteration,
                architectures, build>>
bounds == <<clock, faults>>
vars == <<database, pipelines, pc, polling, scheduling, requests,
          late_dispatches, bounds>>

-----------------------------------------------------------------------------
(***************************************************************************)
(* Database queries                                                        *)
(***************************************************************************)

OfNamespace(ns) == {i \in DOMAIN iterations : iterations[i].namespace = ns}

\* read_newest: order by created_at desc limit 1
IsNewest(i, ns) ==
    /\ i \in OfNamespace(ns)
    /\ \A j \in OfNamespace(ns) :
            iterations[j].created_at <= iterations[i].created_at

\* Mutant: the query forgets the pkgbase.
RowsOfIteration(id, architecture, pkgbase) ==
    {row \in gitlab_pipelines : row.iteration = id /\ row.architecture = architecture}

\* read_by_iteration_and_pkgbase_and_architecture returns one of these.
PipelineRows(id, architecture, pkgbase) ==
    {row \in gitlab_pipelines :
        /\ row.iteration = id
        /\ row.architecture = architecture
        /\ row.pkgbase = pkgbase}

\* db::iteration::create, with the created_at chosen by the caller.
InsertIteration(ns, created_at, reason, packages) ==
    iterations' = Append(iterations,
        [namespace |-> ns, created_at |-> created_at, create_reason |-> reason,
         packages_to_be_built |-> packages])

\* db::iteration::update writes the graphs of all architectures.
UpdatePackages(id, packages) ==
    iterations' = [iterations EXCEPT ![id].packages_to_be_built = packages]

-----------------------------------------------------------------------------
Init ==
    /\ namespaces = [ns \in Namespaces |-> "none"]
    /\ iterations = <<>>
    /\ gitlab_pipelines = {}
    /\ pipelines = <<>>
    /\ pc = "idle"
    /\ to_poll = <<>> /\ polled = 0 /\ unchecked = {} /\ new_packages = <<>>
    /\ active_namespaces = {} /\ namespace = NoNamespace /\ previous = 0
    /\ iteration = [id |-> 0, packages_to_be_built |-> <<>>]
    /\ architectures = {} /\ build = <<>>
    /\ requests = {}
    /\ late_dispatches = [ns \in Namespaces |-> 0]
    /\ clock = 0 /\ faults = 0

\* A call fails, or the server dies: at most MaxFaults times.
Fault == faults < MaxFaults /\ faults' = faults + 1 /\ UNCHANGED clock

-----------------------------------------------------------------------------
(***************************************************************************)
(* update_build_set_graphs_from_gitlab_pipelines                           *)
(***************************************************************************)

\* The loop wakes up and lists all iterations of all namespaces.
StartPass ==
    /\ pc = "idle"
    /\ pc' = "poll"
    /\ to_poll' = [i \in DOMAIN iterations |-> iterations[i].packages_to_be_built]
    /\ UNCHANGED <<database, pipelines, polled, unchecked, new_packages, scheduling,
                   requests, late_dispatches, bounds>>

\* Mutant: the loop forgets builds that GitLab has only scheduled.
BuildingOnly(packages) ==
    UNION {{<<a, b>> : b \in {n \in Nodes(packages[a]) :
                                packages[a].status[n] = "Building"}} :
                a \in DOMAIN packages}

\* The nodes the loop asks GitLab about.
InProgressBuilds(packages) ==
    UNION {{<<a, b>> : b \in {n \in Nodes(packages[a]) :
                                packages[a].status[n] \in InProgress}} :
                a \in DOMAIN packages}

\* The iterations were listed with order by created_at asc: take the oldest.
PollIteration(id) ==
    /\ pc = "poll"
    /\ id \in DOMAIN to_poll
    /\ \A j \in DOMAIN to_poll : iterations[id].created_at <= iterations[j].created_at
    /\ pc' = "check"
    /\ polled' = id
    /\ unchecked' = InProgressBuilds(to_poll[id])
    /\ new_packages' = to_poll[id]
    /\ UNCHANGED <<database, pipelines, to_poll, scheduling, requests,
                   late_dispatches, bounds>>

\* A pipeline's status differs from the node's: set it in a copy of the graph
\* as it was listed. Of several changes in one architecture only the last one
\* is kept, and the others are found again in the next pass.
NoteStatus(a, b, pipeline_status) ==
    LET graph == to_poll[polled][a]
        current == FromPipelineStatus(pipeline_status)
    IN  new_packages' =
            IF current = graph.status[b] THEN new_packages
            ELSE [new_packages EXCEPT ![a] = SetBuildStatus(graph, b, current)]

\* Nobody but the loop writes gitlab_pipelines, so reading the row and asking
\* GitLab can be one step.
CheckPipeline(a, b) ==
    /\ pc = "check"
    /\ <<a, b>> \in unchecked
    /\ unchecked' = unchecked \ {<<a, b>>}
    /\ IF PipelineRows(polled, a, b) = {}
       THEN UNCHANGED new_packages
       ELSE \E row \in PipelineRows(polled, a, b) :
                /\ ~pipelines[row.gitlab_iid].deleted
                /\ NoteStatus(a, b, pipelines[row.gitlab_iid].status)
    /\ UNCHANGED <<database, pipelines, pc, to_poll, polled, scheduling, requests,
                   late_dispatches, bounds>>

\* Mutant: the graphs are written into the newest iteration.
PersistNewest ==
    /\ pc = "check"
    /\ unchecked = {}
    /\ UpdatePackages(Len(iterations), new_packages)
    /\ to_poll' = [i \in DOMAIN to_poll \ {polled} |-> to_poll[i]]
    /\ polled' = 0
    /\ new_packages' = <<>>
    /\ pc' = "poll"
    /\ UNCHANGED <<namespaces, gitlab_pipelines, pipelines, unchecked,
                   scheduling, requests, late_dispatches, bounds>>

\* "Persist the updated build set graph"
PersistIteration ==
    /\ pc = "check"
    /\ unchecked = {}
    /\ UpdatePackages(polled, new_packages)
    /\ to_poll' = [i \in DOMAIN to_poll \ {polled} |-> to_poll[i]]
    /\ polled' = 0
    /\ new_packages' = <<>>
    /\ pc' = "poll"
    /\ UNCHANGED <<namespaces, gitlab_pipelines, pipelines, unchecked,
                   scheduling, requests, late_dispatches, bounds>>

\* The query of a pipeline fails, for a deleted one always, or the database
\* does. The function returns the error: what was found about the current
\* iteration is dropped and later iterations are not polled in this pass.
PollingFails ==
    /\ pc = "check"
    /\ \/ Fault
       \/ /\ \E u \in unchecked : \E row \in PipelineRows(polled, u[1], u[2]) :
                pipelines[row.gitlab_iid].deleted
          /\ UNCHANGED bounds
    /\ pc' = "poll"
    /\ to_poll' = <<>> /\ polled' = 0 /\ unchecked' = {} /\ new_packages' = <<>>
    /\ UNCHANGED <<database, pipelines, scheduling, requests, late_dispatches>>

\* Mutant: namespaces are listed whatever their status.
ListAllNamespaces ==
    /\ pc = "poll"
    /\ to_poll = <<>>
    /\ pc' = "namespaces"
    /\ active_namespaces' = {ns \in Namespaces : namespaces[ns] # "none"}
    /\ UNCHANGED <<database, pipelines, polling, namespace, previous, iteration,
                   architectures, build, requests, late_dispatches, bounds>>

\* Polling is over, with or without an error. The active namespaces are
\* listed with their status; that listing is used for the rest of the pass.
ListActiveNamespaces ==
    /\ pc = "poll"
    /\ to_poll = <<>>
    /\ pc' = "namespaces"
    /\ active_namespaces' = {ns \in Namespaces : namespaces[ns] = "Active"}
    /\ UNCHANGED <<database, pipelines, polling, namespace, previous, iteration,
                   architectures, build, requests, late_dispatches, bounds>>

\* The namespaces cannot be listed, or SourceRepos::new fails: the error ends
\* the pass.
PassFails ==
    /\ pc = "poll"
    /\ to_poll = <<>>
    /\ pc' = "idle"
    /\ Fault
    /\ UNCHANGED <<database, pipelines, polling, scheduling, requests,
                   late_dispatches>>

-----------------------------------------------------------------------------
(***************************************************************************)
(* create_new_namespace_iteration_if_needed                                *)
(***************************************************************************)

\* Timestamps the bound MaxIterations keeps free for first iterations.
Reserved ==
    Cardinality({ns \in Namespaces :
        \/ OfNamespace(ns) = {}
        \/ pc = "calculate" /\ namespace = ns /\ previous = 0})

\* The next namespace of the listing: read its newest iteration.
UpdateNextNamespace(ns) ==
    /\ pc = "namespaces"
    /\ ns \in active_namespaces
    /\ active_namespaces' = active_namespaces \ {ns}
    /\ namespace' = ns
    /\ \/ /\ \E newest \in OfNamespace(ns) :
                IsNewest(newest, ns) /\ previous' = newest
          /\ UNCHANGED bounds
       \/ OfNamespace(ns) = {} /\ previous' = 0 /\ UNCHANGED bounds
       \/ \* read_newest(..).await.ok(): a failed read looks like no iteration
          clock + Reserved < MaxIterations /\ previous' = 0 /\ Fault
    /\ pc' = "calculate"
    /\ UNCHANGED <<database, pipelines, polling, iteration, architectures, build,
                   requests, late_dispatches>>

\* new_build_set_iteration_is_needed, for a namespace listed as active whose
\* origin changesets never change: there was no iteration yet, or the build
\* set graph differs from that of the newest iteration read before.
NewIterationIsNeeded(packages) ==
    \/ previous = 0
    \/ ~IterationDiffIsEmpty(iterations[previous].packages_to_be_built, packages)

NewIterationReason == IF previous = 0 THEN "FirstIteration" ELSE "BuildSetGraphChanged"

CreateIterationIfNeeded(packages) ==
    /\ pc = "calculate"
    /\ IF NewIterationIsNeeded(packages)
       THEN /\ clock < MaxIterations
            /\ previous # 0 => clock + Reserved < MaxIterations
            /\ clock' = clock + 1
            /\ InsertIteration(namespace, clock', NewIterationReason, packages)
       ELSE UNCHANGED <<iterations, clock>>
    /\ previous' = 0
    /\ pc' = "read"
    /\ UNCHANGED <<namespaces, gitlab_pipelines, pipelines, polling,
                   active_namespaces, namespace, iteration, architectures, build,
                   requests, late_dispatches, faults>>

-----------------------------------------------------------------------------
(***************************************************************************)
(* schedule_next_build_if_needed                                           *)
(***************************************************************************)

\* The namespace was listed as active, so its status is not looked at again.
ReadNewestIteration(newest) ==
    /\ pc = "read"
    /\ IsNewest(newest, namespace)
    /\ iteration' = [id |-> newest,
                     packages_to_be_built |-> iterations[newest].packages_to_be_built]
    /\ architectures' = DOMAIN iterations[newest].packages_to_be_built
    /\ pc' = "schedule"
    /\ UNCHANGED <<database, pipelines, polling, active_namespaces, namespace,
                   previous, build, requests, late_dispatches, bounds>>

Ready(a) == ReadyBuilds(iteration.packages_to_be_built[a])

\* ScheduleBuildResult::NoPendingPackages or Finished: nothing to start.
NothingToSchedule(a) ==
    /\ pc = "schedule"
    /\ a \in architectures
    /\ Ready(a) = {}
    /\ architectures' = architectures \ {a}
    /\ UNCHANGED <<database, pipelines, pc, polling, active_namespaces,
                   namespace, previous, iteration, build, requests,
                   late_dispatches, bounds>>

\* GitLab accepts a pipeline; it starts out as created or pending.
GitlabCreates(a, b, status) ==
    /\ pipelines' = Append(pipelines,
            [iteration |-> iteration.id, architecture |-> a, pkgbase |-> b,
             status |-> status, deleted |-> FALSE])
    /\ late_dispatches' =
            [late_dispatches EXCEPT
                ![namespace] = IF namespaces[namespace] = "Cancelled"
                               THEN @ + 1 ELSE @]

\* Mutant: the graph is saved before the pipeline is recorded.
SaveBeforeRecording(a, b) ==
    /\ pc = "schedule"
    /\ a \in architectures
    /\ b \in Ready(a)
    /\ \E status \in {"Created", "Pending"} : GitlabCreates(a, b, status)
    /\ build' = [architecture |-> a, pkgbase |-> b, gitlab_iid |-> Len(pipelines')]
    /\ UpdatePackages(iteration.id,
            [iteration.packages_to_be_built EXCEPT
                ![a] = ReserveBuild(@, b, "Scheduled")])
    /\ architectures' = architectures \ {a}
    /\ pc' = "record"
    /\ UNCHANGED <<namespaces, gitlab_pipelines, polling, active_namespaces,
                   namespace, previous, iteration, requests, bounds>>

\* schedule_build: gitlab::create_pipeline succeeds.
CreatePipeline(a, b) ==
    /\ pc = "schedule"
    /\ a \in architectures
    /\ b \in Ready(a)
    /\ \E status \in {"Created", "Pending"} : GitlabCreates(a, b, status)
    /\ build' = [architecture |-> a, pkgbase |-> b, gitlab_iid |-> Len(pipelines')]
    /\ architectures' = architectures \ {a}
    /\ pc' = "record"
    /\ UNCHANGED <<database, polling, active_namespaces, namespace, previous,
                   iteration, requests, bounds>>

\* schedule_build returns an error, which is logged. GitLab may have created
\* the pipeline all the same: its answer was lost, or the row could not be
\* inserted.
SchedulingFails(a, b) ==
    /\ pc = "schedule"
    /\ a \in architectures
    /\ b \in Ready(a)
    /\ Fault
    /\ \/ GitlabCreates(a, b, "Created")
       \/ UNCHANGED <<pipelines, late_dispatches>>
    /\ architectures' = architectures \ {a}
    /\ UNCHANGED <<database, pc, polling, active_namespaces, namespace, previous,
                   iteration, build, requests>>

\* db::gitlab_pipeline::create
RecordPipeline ==
    /\ pc = "record"
    /\ gitlab_pipelines' = gitlab_pipelines \union
            {[iteration |-> iteration.id, architecture |-> build.architecture,
              pkgbase |-> build.pkgbase, gitlab_iid |-> build.gitlab_iid]}
    /\ pc' = "update"
    /\ UNCHANGED <<namespaces, iterations, pipelines, polling, scheduling,
                   requests, late_dispatches, bounds>>

\* Mutants: the reserved graph is written, but not kept for the other
\* architectures; the build is not reserved at all.
UpdateDatabaseOnly ==
    /\ pc = "update"
    /\ UpdatePackages(iteration.id,
            [iteration.packages_to_be_built EXCEPT
                ![build.architecture] = ReserveBuild(@, build.pkgbase, "Scheduled")])
    /\ build' = <<>>
    /\ pc' = "schedule"
    /\ UNCHANGED <<namespaces, gitlab_pipelines, pipelines, polling,
                   active_namespaces, namespace, previous, iteration,
                   architectures, requests, late_dispatches, bounds>>
UpdateUnreserved ==
    /\ pc = "update"
    /\ UpdatePackages(iteration.id, iteration.packages_to_be_built)
    /\ build' = <<>>
    /\ pc' = "schedule"
    /\ UNCHANGED <<namespaces, gitlab_pipelines, pipelines, polling,
                   active_namespaces, namespace, previous, iteration,
                   architectures, requests, late_dispatches, bounds>>

\* The build is reserved in the iteration as it was read, and all of its
\* graphs are written.
UpdateIteration ==
    /\ pc = "update"
    /\ LET packages ==
            [iteration.packages_to_be_built EXCEPT
                ![build.architecture] = ReserveBuild(@, build.pkgbase, "Scheduled")]
       IN  /\ iteration' = [iteration EXCEPT !.packages_to_be_built = packages]
           /\ UpdatePackages(iteration.id, packages)
    /\ build' = <<>>
    /\ pc' = "schedule"
    /\ UNCHANGED <<namespaces, gitlab_pipelines, pipelines, polling,
                   active_namespaces, namespace, previous, architectures,
                   requests, late_dispatches, bounds>>

\* Local variables of the namespace's turn go out of scope.
LeaveNamespace ==
    /\ pc' = "namespaces"
    /\ namespace' = NoNamespace /\ previous' = 0
    /\ iteration' = [id |-> 0, packages_to_be_built |-> <<>>]
    /\ architectures' = {} /\ build' = <<>>
    /\ UNCHANGED <<database, pipelines, polling, active_namespaces, requests,
                   late_dispatches>>

FinishNamespace ==
    /\ pc = "schedule"
    /\ architectures = {}
    /\ LeaveNamespace
    /\ UNCHANGED bounds

\* The calculation or a database call fails. The error is logged and the next
\* namespace has its turn: "Try to build all namespaces, and continue on
\* failures."
NamespaceFails ==
    /\ pc \in {"calculate", "read", "update"}
    /\ LeaveNamespace
    /\ Fault

FinishPass ==
    /\ pc = "namespaces"
    /\ active_namespaces = {}
    /\ pc' = "idle"
    /\ UNCHANGED <<database, pipelines, polling, scheduling, requests,
                   late_dispatches, bounds>>

\* The server process dies and is started again: the database is all that is
\* left of the loop and of the running requests.
Crash ==
    /\ pc # "idle" \/ requests # {}
    /\ Fault
    /\ pc' = "idle"
    /\ to_poll' = <<>> /\ polled' = 0 /\ unchecked' = {} /\ new_packages' = <<>>
    /\ active_namespaces' = {} /\ namespace' = NoNamespace /\ previous' = 0
    /\ iteration' = [id |-> 0, packages_to_be_built |-> <<>>]
    /\ architectures' = {} /\ build' = <<>>
    /\ requests' = {}
    /\ UNCHANGED <<database, pipelines, late_dispatches>>

-----------------------------------------------------------------------------
(***************************************************************************)
(* HTTP handlers                                                           *)
(***************************************************************************)

loop == <<pc, polling, scheduling>>

\* create_build_namespace: the name must be unused.
CreateNamespace(ns) ==
    /\ namespaces[ns] = "none"
    /\ namespaces' = [namespaces EXCEPT ![ns] = "Active"]
    /\ UNCHANGED <<iterations, gitlab_pipelines, pipelines, loop, requests,
                   late_dispatches, bounds>>

\* update_namespace: cancel or resume.
UpdateNamespace(ns, status) ==
    /\ namespaces[ns] \notin {"none", status}
    /\ namespaces' = [namespaces EXCEPT ![ns] = status]
    /\ late_dispatches' = [late_dispatches EXCEPT ![ns] = 0]
    /\ UNCHANGED <<iterations, gitlab_pipelines, pipelines, loop, requests,
                   bounds>>

\* create_namespace_iteration takes the timestamp, then calculates ...
RequestIteration(ns) ==
    /\ namespaces[ns] # "none"
    /\ clock + Reserved < MaxIterations
    /\ clock' = clock + 1
    /\ requests' = requests \union {[namespace |-> ns, created_at |-> clock']}
    /\ UNCHANGED <<database, pipelines, loop, late_dispatches, faults>>

\* ... then inserts the iteration, whatever the namespace's status.
AnswerRequest(request, packages) ==
    /\ request \in requests
    /\ requests' = requests \ {request}
    /\ InsertIteration(request.namespace, request.created_at, "CreatedByUser", packages)
    /\ UNCHANGED <<namespaces, gitlab_pipelines, pipelines, loop,
                   late_dispatches, bounds>>

RequestFails(request) ==
    /\ request \in requests
    /\ requests' = requests \ {request}
    /\ UNCHANGED <<database, pipelines, loop, late_dispatches, bounds>>

-----------------------------------------------------------------------------
(***************************************************************************)
(* GitLab. Of the pipeline statuses with the same meaning for buildbtw one *)
(* is used: "Created" also stands for preparing and running pipelines,     *)
(* "Failed" also for canceled and skipped ones.                            *)
(***************************************************************************)

Unfinished == {"Created", "Pending"}
Finished == {"Success", "Failed"}

server == <<database, loop, requests, late_dispatches>>

MovePipeline(p, status) ==
    /\ pipelines[p].status \in Unfinished \ {status}
    /\ pipelines' = [pipelines EXCEPT ![p].status = status]
    /\ UNCHANGED <<server, bounds>>

FinishPipeline(p) == \E status \in Finished : MovePipeline(p, status)

\* Somebody deletes a pipeline; this counts as a fault.
DeletePipeline(p) ==
    /\ PipelinesMayVanish
    /\ ~pipelines[p].deleted
    /\ Fault
    /\ pipelines' = [pipelines EXCEPT ![p].deleted = TRUE]
    /\ UNCHANGED server

-----------------------------------------------------------------------------
\* What the loop does by itself when nothing fails.
LoopStep ==
    \/ StartPass
    \/ \E id \in DOMAIN iterations : PollIteration(id)
    \/ \E a \in Architectures, b \in Pkgbases : CheckPipeline(a, b)
    \/ PersistIteration
    \/ PollingFails /\ UNCHANGED bounds
    \/ ListActiveNamespaces
    \/ \E ns \in Namespaces : UpdateNextNamespace(ns)
    \/ \E packages \in BuildSets : CreateIterationIfNeeded(packages)
    \/ \E id \in DOMAIN iterations : ReadNewestIteration(id)
    \/ \E a \in architectures : NothingToSchedule(a)
    \/ \E a \in architectures : \E b \in Ready(a) : CreatePipeline(a, b)
    \/ RecordPipeline
    \/ UpdateIteration
    \/ FinishNamespace
    \/ FinishPass

Failure ==
    \/ PollingFails
    \/ PassFails
    \/ \E a \in architectures : \E b \in Ready(a) : SchedulingFails(a, b)
    \/ NamespaceFails
    \/ Crash

Handlers ==
    \/ \E ns \in Namespaces : CreateNamespace(ns)
    \/ \E ns \in Namespaces, status \in {"Active", "Cancelled"} :
            UpdateNamespace(ns, status)
    \/ \E ns \in Namespaces : RequestIteration(ns)
    \/ \E request \in requests, packages \in BuildSets :
            AnswerRequest(request, packages)
    \/ \E request \in requests : RequestFails(request)

Gitlab ==
    \E p \in DOMAIN pipelines :
        \/ \E status \in Unfinished : MovePipeline(p, status)
        \/ FinishPipeline(p)
        \/ DeletePipeline(p)

Next == LoopStep \/ Failure \/ Handlers \/ Gitlab

Spec == Init /\ [][Next]_vars

\* The loop is a task of its own that always goes on, as long as calls do not
\* keep failing, and GitLab finishes what it started.
Fairness ==
    /\ WF_vars(LoopStep)
    /\ WF_vars(\E p \in DOMAIN pipelines : FinishPipeline(p))

FairSpec == Spec /\ Fairness

-----------------------------------------------------------------------------
(***************************************************************************)
(* Safety                                                                  *)
(***************************************************************************)

Statuses == {"Created", "Pending", "Success", "Failed"}
CreateReasons == {"FirstIteration", "BuildSetGraphChanged", "CreatedByUser"}
Ids == DOMAIN iterations
Graph(i, a) == iterations[i].packages_to_be_built[a]

\* Every build of every iteration: <<iteration, architecture, pkgbase>>.
Jobs == UNION {{<<i, j[1], j[2]>> :
                    j \in UNION {{a} \X Nodes(Graph(i, a)) :
                        a \in DOMAIN iterations[i].packages_to_be_built}} :
                i \in Ids}

JobStatus(j) == Graph(j[1], j[2]).status[j[3]]

PipelinesOf(j) ==
    {p \in DOMAIN pipelines :
        /\ pipelines[p].iteration = j[1]
        /\ pipelines[p].architecture = j[2]
        /\ pipelines[p].pkgbase = j[3]}

TypeOK ==
    /\ namespaces \in [Namespaces -> {"none", "Active", "Cancelled"}]
    /\ iterations \in Seq({iterations[i] : i \in Ids})
    /\ \A i \in Ids :
        /\ ArePackages(iterations[i].packages_to_be_built)
        /\ iterations[i] \in [namespace : Namespaces, created_at : Nat,
                create_reason : CreateReasons,
                packages_to_be_built : {iterations[i].packages_to_be_built}]
    /\ gitlab_pipelines \subseteq [iteration : Nat, architecture : Architectures,
                                   pkgbase : Pkgbases, gitlab_iid : DOMAIN pipelines]
    /\ pipelines \in Seq([iteration : Nat, architecture : Architectures,
                          pkgbase : Pkgbases, status : Statuses,
                          deleted : BOOLEAN])
    /\ pc \in {"idle", "poll", "check", "namespaces", "calculate", "read",
               "schedule", "record", "update"}
    /\ DOMAIN to_poll \subseteq Ids
    /\ \A i \in DOMAIN to_poll : ArePackages(to_poll[i])
    /\ polled \in DOMAIN to_poll \union {0}
    /\ unchecked \subseteq Architectures \X Pkgbases
    /\ ArePackages(new_packages)
    /\ active_namespaces \subseteq Namespaces
    /\ namespace \in Namespaces \union {NoNamespace}
    /\ previous \in Ids \union {0}
    /\ ArePackages(iteration.packages_to_be_built)
    /\ iteration \in [id : Ids \union {0},
                     packages_to_be_built : {iteration.packages_to_be_built}]
    /\ architectures \subseteq DOMAIN iteration.packages_to_be_built
    /\ \/ build = <<>>
       \/ build \in [architecture : Architectures, pkgbase : Pkgbases,
                     gitlab_iid : DOMAIN pipelines]
    /\ requests \subseteq [namespace : Namespaces, created_at : Nat]
    /\ late_dispatches \in [Namespaces -> Nat]
    /\ clock \in Nat /\ faults \in Nat

\* No build is handed to GitLab before each of its dependencies in the build
\* set was built by GitLab, across crashes, polling and stale copies.
DependenciesBuiltFirst ==
    \A p \in DOMAIN pipelines :
        LET q == pipelines[p]
        IN  \A d \in Dependencies(Graph(q.iteration, q.architecture), q.pkgbase) :
                \E r \in PipelinesOf(<<q.iteration, q.architecture, d>>) :
                    pipelines[r].status = "Success"

\* A build that is not blocked any more has a pipeline the server knows of:
\* without one the loop never looks at the build again, and a crash between
\* creating a pipeline and saving the graph must not get it there.
BuildsAreTracked ==
    \A j \in Jobs : JobStatus(j) # "Blocked" =>
        \E row \in PipelineRows(j[1], j[2], j[3]) :
            row.gitlab_iid \in PipelinesOf(j)

\* An iteration never stops half-way: when the scheduler has nothing to start
\* ("if only built nodes are visited, the graph is finished"), then all of it is
\* built, or a build has failed, or one is in progress that the loop will ask
\* GitLab for. No status that is written may leave builds waiting for nothing.
SchedulerIsNeverStuck ==
    \A i \in Ids : \A a \in DOMAIN iterations[i].packages_to_be_built :
        LET graph == Graph(i, a)
        IN  \/ ReadyBuilds(graph) # {}
            \/ \A b \in Nodes(graph) : graph.status[b] = "Built"
            \/ \E b \in Nodes(graph) :
                    \/ graph.status[b] = "Failed"
                    \/ graph.status[b] \in InProgress /\ PipelineRows(i, a, b) # {}

\* The sources an iteration builds.
CommitsOf(i) ==
    LET packages == iterations[i].packages_to_be_built
    IN  [a \in DOMAIN packages |-> packages[a].commit_hash]

\* The loop starts a build set over only for a reason, although it decides on
\* what it has read before its calculation, and requests insert iterations
\* meanwhile, with timestamps from before or after: the packages or commits are
\* not those of the newest older iteration, the ones users asked for aside. A
\* first iteration comes once, and again only when the newest cannot be read.
IterationsHaveReasons ==
    \A ns \in Namespaces :
        /\ Cardinality({i \in OfNamespace(ns) :
                iterations[i].create_reason = "FirstIteration"}) <= 1 + faults
        /\ \A i \in OfNamespace(ns) :
            iterations[i].create_reason = "BuildSetGraphChanged" =>
                \E j \in OfNamespace(ns) :
                    /\ iterations[j].created_at < iterations[i].created_at
                    /\ CommitsOf(j) # CommitsOf(i)
                    /\ \A k \in OfNamespace(ns) :
                            \/ iterations[k].create_reason = "CreatedByUser"
                            \/ iterations[k].created_at <= iterations[j].created_at
                            \/ iterations[k].created_at >= iterations[i].created_at

\* A result in an iteration is the result of one of the build's pipelines.
ResultsAreReal ==
    \A j \in Jobs :
        /\ JobStatus(j) = "Built" =>
                \E p \in PipelinesOf(j) : pipelines[p].status = "Success"
        /\ JobStatus(j) = "Failed" =>
                \E p \in PipelinesOf(j) : pipelines[p].status = "Failed"

\* A build gets a second pipeline only when a call failed or the server died
\* in between: no copy of a graph from before the dispatch is written back.
NoNeedlessPipelines ==
    \A j \in Jobs : Cardinality(PipelinesOf(j)) <= 1 + faults

\* A cancelled namespace gets at most one more pipeline per architecture: the
\* pass that listed it as active may be under way, no later one starts builds.
CancellationIsNoticed ==
    \A ns \in Namespaces : late_dispatches[ns] <= Cardinality(Architectures)

\* Whole rows are overwritten with copies read earlier, and still no result is
\* taken back and no dispatched build is blocked again.
BuildsOnlyAdvance ==
    [][\A j \in Jobs :
        /\ JobStatus(j) \in Settled => JobStatus(j)' = JobStatus(j)
        /\ JobStatus(j) \in InProgress => JobStatus(j)' # "Blocked"]_vars

-----------------------------------------------------------------------------
(***************************************************************************)
(* The iterations as build sets of BuildProgress. A build is named by its  *)
(* architecture and pkgbase; scheduled and building are one phase.         *)
(***************************************************************************)

Keys == Architectures \X Pkgbases

KeysOf(packages) ==
    UNION {{<<a, b>> : b \in Nodes(packages[a])} : a \in DOMAIN packages}

PlanOf(packages) ==
    [keys |-> KeysOf(packages),
     edges |-> {e \in KeysOf(packages) \X KeysOf(packages) :
                    /\ e[1][1] = e[2][1]
                    /\ <<e[1][2], e[2][2]>> \in packages[e[1][1]].edges}]

PhaseOf(status) ==
    CASE status \in {"Blocked", "Pending"} -> "waiting"
      [] status \in InProgress -> "running"
      [] status = "Built" -> "built"
      [] status = "Failed" -> "failed"

PhasesOf(packages) ==
    [k \in KeysOf(packages) |-> PhaseOf(packages[k[1]].status[k[2]])]

ProgressBuilds ==
    [i \in DOMAIN iterations |->
        [plan |-> PlanOf(iterations[i].packages_to_be_built),
         phase |-> PhasesOf(iterations[i].packages_to_be_built)]]

Progress == INSTANCE BuildProgress WITH
    Plans <- {PlanOf(packages) : packages \in BuildSets},
    MaxBuildSets <- MaxIterations,
    builds <- ProgressBuilds

\* Through all of its copies of iterations, the server only ever takes the
\* steps of BuildProgress.
ImplementsBuildProgress == Progress!Spec

-----------------------------------------------------------------------------
(***************************************************************************)
(* Liveness, under FairSpec                                                *)
(***************************************************************************)

StatusIn(i, a, b, statuses) == <<i, a, b>> \in Jobs /\ JobStatus(<<i, a, b>>) \in statuses

\* The builds that iterations may have.
PossibleBuilds ==
    UNION {UNION {{<<a, b>> : b \in Nodes(packages[a])} : a \in DOMAIN packages} :
                packages \in BuildSets}

\* A build that was handed to GitLab gets its result, also when the server
\* crashes, when a call fails, and when the loop forgets a change because
\* another one in the same graph overwrote it. As it never is blocked again
\* (BuildsOnlyAdvance), it cannot stop being in progress in another way.
DispatchedBuildsSettle ==
    \A i \in 1 .. MaxIterations, k \in PossibleBuilds :
        []<>~StatusIn(i, k[1], k[2], InProgress)

\* The namespace's current iteration has a build that waits for nothing.
MayStart(i, a, b) ==
    /\ StatusIn(i, a, b, {"Blocked"})
    /\ \A d \in Dependencies(Graph(i, a), b) : JobStatus(<<i, a, d>>) = "Built"
    /\ IsNewest(i, iterations[i].namespace)
    /\ namespaces[iterations[i].namespace] = "Active"

\* Such a build does not wait forever: it is started, unless the namespace is
\* cancelled or gets a new iteration.
ReadyBuildsStart ==
    \A i \in 1 .. MaxIterations, k \in PossibleBuilds : []<>~MayStart(i, k[1], k[2])

\* "Update gitlab pipeline status for all iterations in all namespaces."
\* The result of a pipeline that exists in GitLab is found.
FinishedPipelinesAreFound ==
    \A i \in 1 .. MaxIterations, a \in Architectures, b \in Pkgbases :
        (/\ StatusIn(i, a, b, InProgress)
         /\ \A p \in PipelinesOf(<<i, a, b>>) : ~pipelines[p].deleted)
        ~> \/ StatusIn(i, a, b, Settled)
           \/ \E p \in PipelinesOf(<<i, a, b>>) : pipelines[p].deleted
=============================================================================
