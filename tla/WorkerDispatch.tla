---------------------------- MODULE WorkerDispatch ---------------------------
(***************************************************************************)
(* The buildbtw server without GitLab: the background loop                 *)
(* (buildbtw-poc/src/bin/server/tasks.rs) posts builds to a local worker   *)
(* (buildbtw-poc/src/bin/worker), which builds one after the other and     *)
(* reports each result with a PATCH request (routes.rs, set_build_status). *)
(*                                                                         *)
(* The loop and the PATCH handler both read the iteration's row, change    *)
(* their copy and write the whole row, without a transaction. This module  *)
(* follows one iteration of one namespace: the rows of other iterations    *)
(* are never touched by the same requests.                                 *)
(***************************************************************************)
EXTENDS Naturals, Sequences, FiniteSets, BuildGraphs

CONSTANTS
    Architectures,
    Pkgbases,
    CommitHashes,
    BuildSets,                  \* build sets the iteration may be created with
    BranchNamesAreObjectIds,    \* whether a branch name parses as a commit id
    NoJob,
    MaxBuilds,                  \* bound on builds sent to the worker
    MaxFaults                   \* bound on crashes and failed requests

Job == [architecture : Architectures, pkgbase : Pkgbases]

ASSUME WorkerAssumption ==
    /\ \A packages \in BuildSets :
        /\ ArePackagesToBeBuilt(packages, Architectures, Pkgbases, CommitHashes)
        /\ \A a \in DOMAIN packages : \A b \in Nodes(packages[a]) :
                packages[a].status[b] = "Blocked"
    /\ BranchNamesAreObjectIds \in BOOLEAN
    /\ MaxBuilds \in Nat
    /\ MaxFaults \in Nat
    /\ NoJob \notin Job

VARIABLES
    packages_to_be_built,   \* the iteration's row in the database
    \* the loop
    pc, iteration, architectures, build,
    \* the worker
    queue,      \* the unbounded channel behind POST /build/schedule
    building,   \* the build the worker is busy with
    outcome,    \* its result once it is known, "" before
    \* the PATCH handler
    patched,    \* the copy of the row a running handler has read, or <<>>
    \* observation and bounds
    sent,       \* every build the worker accepted, in order
    results,    \* every result a build had: pairs <<job, status>>
    faults

loop == <<pc, iteration, architectures, build>>
worker == <<queue, building, outcome>>
vars == <<packages_to_be_built, loop, worker, patched, sent, results, faults>>

Init ==
    /\ packages_to_be_built \in BuildSets
    /\ pc = "idle" /\ iteration = <<>> /\ architectures = {} /\ build = NoJob
    /\ queue = <<>> /\ building = NoJob /\ outcome = ""
    /\ patched = <<>>
    /\ sent = <<>> /\ results = {} /\ faults = 0

Fault == faults < MaxFaults /\ faults' = faults + 1

-----------------------------------------------------------------------------
(***************************************************************************)
(* schedule_next_build_if_needed, dispatching to the worker                *)
(***************************************************************************)

\* The loop sleeps between two passes. MaxBuilds bounds the passes it makes.
Sleep == pc = "idle" /\ UNCHANGED vars

ReadNewestIteration ==
    /\ pc = "idle"
    /\ Len(sent) + Cardinality(DOMAIN packages_to_be_built) <= MaxBuilds
    /\ pc' = "schedule"
    /\ iteration' = packages_to_be_built
    /\ architectures' = DOMAIN packages_to_be_built
    /\ UNCHANGED <<packages_to_be_built, build, worker, patched, sent, results,
                   faults>>

Ready(a) == ReadyBuilds(iteration[a])

NothingToSchedule(a) ==
    /\ pc = "schedule"
    /\ a \in architectures
    /\ Ready(a) = {}
    /\ architectures' = architectures \ {a}
    /\ UNCHANGED <<packages_to_be_built, pc, iteration, build, worker, patched,
                   sent, results, faults>>

\* The worker's handler puts the build into its channel and answers at once.
Enqueue(job) ==
    /\ queue' = Append(queue, job)
    /\ sent' = Append(sent, job)

\* schedule_build: the request is answered, with whatever status.
SendBuild(a, b) ==
    /\ pc = "schedule"
    /\ a \in architectures
    /\ b \in Ready(a)
    /\ build' = [architecture |-> a, pkgbase |-> b]
    /\ Enqueue(build')
    /\ architectures' = architectures \ {a}
    /\ pc' = "update"
    /\ UNCHANGED <<packages_to_be_built, iteration, building, outcome, patched,
                   results, faults>>

\* "Failed to send to worker", before or after the worker accepted the build.
SendFails(a, b) ==
    /\ pc = "schedule"
    /\ a \in architectures
    /\ b \in Ready(a)
    /\ Fault
    /\ \/ Enqueue([architecture |-> a, pkgbase |-> b])
       \/ UNCHANGED <<queue, sent>>
    /\ architectures' = architectures \ {a}
    /\ UNCHANGED <<packages_to_be_built, pc, iteration, build, building, outcome,
                   patched, results>>

\* The build is set to building in the iteration as it was read at the start of
\* the namespace's turn, and the whole row is written.
UpdateIteration ==
    /\ pc = "update"
    /\ iteration' = [iteration EXCEPT
            ![build.architecture] = ReserveBuild(@, build.pkgbase, "Building")]
    /\ packages_to_be_built' = iteration'
    /\ build' = NoJob
    /\ pc' = "schedule"
    /\ UNCHANGED <<architectures, worker, patched, sent, results, faults>>

FinishPass ==
    /\ pc = "schedule"
    /\ architectures = {}
    /\ pc' = "idle"
    /\ iteration' = <<>>
    /\ UNCHANGED <<packages_to_be_built, architectures, build, worker, patched,
                   sent, results, faults>>

-----------------------------------------------------------------------------
(***************************************************************************)
(* The worker                                                              *)
(***************************************************************************)

\* while let Some(msg) = receiver.recv().await
TakeBuild ==
    /\ building = NoJob
    /\ queue # <<>>
    /\ building' = Head(queue)
    /\ queue' = Tail(queue)
    /\ UNCHANGED <<packages_to_be_built, loop, outcome, patched, sent, results,
                   faults>>

\* build_package checks out the commit whose id is the branch name, then runs
\* pkgctl; a build whose packages cannot be uploaded has failed.
Outcomes == IF BranchNamesAreObjectIds THEN {"Built", "Failed"} ELSE {"Failed"}

FinishBuild ==
    /\ building # NoJob
    /\ outcome = ""
    /\ outcome' \in Outcomes
    /\ results' = results \union {<<building, outcome'>>}
    /\ UNCHANGED <<packages_to_be_built, loop, queue, building, patched, sent,
                   faults>>

\* The worker is done with a build, whether or not the server knows.
NextBuild == building' = NoJob /\ outcome' = "" /\ UNCHANGED queue

\* set_build_status in routes.rs: read the row ...
ReadForPatch ==
    /\ outcome # ""
    /\ patched = <<>>
    /\ patched' = packages_to_be_built
    /\ UNCHANGED <<packages_to_be_built, loop, worker, sent, results, faults>>

\* Mutant: the status that was reported is not looked at.
WriteBuilt ==
    /\ patched # <<>>
    /\ packages_to_be_built' =
            [patched EXCEPT ![building.architecture] =
                SetBuildStatus(@, building.pkgbase, "Built")]
    /\ patched' = <<>>
    /\ NextBuild
    /\ UNCHANGED <<loop, sent, results, faults>>

\* ... then write it with the new status. The worker gets its answer.
WritePatch ==
    /\ patched # <<>>
    /\ packages_to_be_built' =
            [patched EXCEPT ![building.architecture] =
                SetBuildStatus(@, building.pkgbase, outcome)]
    /\ patched' = <<>>
    /\ NextBuild
    /\ UNCHANGED <<loop, sent, results, faults>>

\* "Failed to set build status": logged, and never tried again.
ReportFails ==
    /\ outcome # ""
    /\ Fault
    /\ patched' = <<>>
    /\ NextBuild
    /\ UNCHANGED <<packages_to_be_built, loop, sent, results>>

-----------------------------------------------------------------------------
(***************************************************************************)
(* Crashes. Both processes keep their work in memory only.                 *)
(***************************************************************************)

ServerCrash ==
    /\ Fault
    /\ pc' = "idle" /\ iteration' = <<>> /\ architectures' = {} /\ build' = NoJob
    /\ patched' = <<>>
    /\ IF patched = <<>> THEN UNCHANGED worker ELSE NextBuild
    /\ UNCHANGED <<packages_to_be_built, sent, results>>

WorkerCrash ==
    /\ building # NoJob \/ queue # <<>>
    /\ Fault
    /\ queue' = <<>> /\ building' = NoJob /\ outcome' = ""
    /\ patched' = <<>>
    /\ UNCHANGED <<packages_to_be_built, loop, sent, results>>

LoopStep ==
    \/ Sleep
    \/ ReadNewestIteration
    \/ \E a \in architectures : NothingToSchedule(a)
    \/ \E a \in architectures : \E b \in Ready(a) : SendBuild(a, b)
    \/ UpdateIteration
    \/ FinishPass

WorkerStep == TakeBuild \/ FinishBuild \/ ReadForPatch \/ WritePatch

Failure ==
    \/ \E a \in architectures : \E b \in Ready(a) : SendFails(a, b)
    \/ ReportFails
    \/ ServerCrash
    \/ WorkerCrash

Next == LoopStep \/ WorkerStep \/ Failure

Spec == Init /\ [][Next]_vars

-----------------------------------------------------------------------------
(***************************************************************************)
(* Properties                                                              *)
(***************************************************************************)

ArePackages(packages) ==
    ArePackagesToBeBuilt(packages, Architectures, Pkgbases, CommitHashes)

TypeOK ==
    /\ ArePackages(packages_to_be_built)
    /\ ArePackages(iteration)
    /\ ArePackages(patched)
    /\ pc \in {"idle", "schedule", "update"}
    /\ architectures \subseteq DOMAIN iteration
    /\ build \in Job \union {NoJob}
    /\ queue \in Seq(Job) /\ sent \in Seq(Job)
    /\ building \in Job \union {NoJob}
    /\ outcome \in {"", "Built", "Failed"}
    /\ results \subseteq Job \X Settled
    /\ faults \in Nat

\* The worker never gets a build before each of its dependencies in the build
\* set was built, although rows are overwritten with older copies.
DependenciesBuiltFirst ==
    \A s \in DOMAIN sent :
        \A d \in Dependencies(packages_to_be_built[sent[s].architecture],
                              sent[s].pkgbase) :
            <<[sent[s] EXCEPT !.pkgbase = d], "Built">> \in results

\* A result stored in the iteration is one the worker arrived at.
ResultsAreReal ==
    \A j \in Job :
        LET graph == packages_to_be_built[j.architecture]
        IN  /\ j.architecture \in DOMAIN packages_to_be_built
            /\ j.pkgbase \in Nodes(graph)
            /\ graph.status[j.pkgbase] \in Settled
            => <<j, graph.status[j.pkgbase]>> \in results

\* The scheduler, on nodes that are building, tells the loop "to wait for them
\* to complete": there is something to wait for.
WaitsForRunningBuild ==
    \A a \in DOMAIN packages_to_be_built :
        (/\ pc = "idle"
         /\ ReadyBuilds(packages_to_be_built[a]) = {}
         /\ FallbackStatus(packages_to_be_built[a]) = "NoPendingPackages")
        => queue # <<>> \/ building # NoJob
=============================================================================
