# buildbtw, modelled in TLA+

buildbtw rebuilds Arch Linux packages. A *build namespace* names some git
branches (its origin changesets); the server finds every package that
transitively depends on them, keeps the resulting graph as an *iteration* of the
namespace, and has the packages built in dependency order, by GitLab pipelines or
by a local worker. This directory holds TLA+ modules translated from the source,
TLC configurations that check them on small instances, and TLAPS proofs of their
main safety properties for all instances.

`PROJECT.json` lists the components, the runs, a mutation of the code for every
checked property, the source lines behind every definition, the hazards of the
code, the findings and the theorems.

## 1. The system

| Component | State it keeps | Operations | Modelled in |
|---|---|---|---|
| Build set graphs (`build_set_graph.rs`, `iteration.rs`) | none: values | `schedule_next_build_in_graph`, `set_build_status`, `diff_graphs` | `BuildGraphs` |
| Build set calculation (`build_set_graph.rs`) | the walk's queue, its visited set, the graph under construction | metadata, global graph, `calculate_packages_to_be_built_inner` | `BuildSetWalk` |
| Server loop (`bin/server/tasks.rs`) | local copies of iterations, nothing that survives a crash | poll GitLab, create iterations, start builds | `GitlabDispatch`, `WorkerDispatch` |
| Database (`bin/server/db/`) | namespaces, iterations with all their graphs in one JSON column, pipelines, a watermark | create, update, read, list; no transactions | `GitlabDispatch`, `WorkerDispatch` |
| HTTP handlers (`bin/server/routes.rs`) | none but the database | create, cancel and resume namespaces, retry, status reports, uploads | `GitlabDispatch`, `WorkerDispatch` |
| GitLab (external) | pipelines | runs, finishes, loses pipelines | `GitlabDispatch` |
| Worker (`bin/worker/`, `build_package.rs`) | an in-memory queue and one running build | accept, build, upload, report | `WorkerDispatch` |
| Package repositories (`pacman_repo.rs`, `stream_to_file.rs`, `upload_package`, the upload half of the worker and of `buildbtw-executor.sh`) | package files, the pacman database, its lock | create a repository, upload, `repo-add` | `PackageRepo` |
| Source fetching (`git.rs`, `gitlab/mod.rs`, `source_repos.rs`) | git clones, the date of the next query | list changed projects, fetch them, read branches | `SourceFetch`, `IterationSources` |
| arch-pkg-repo-updater | a state file | one fetch round per run | `SourceFetch` |
| CI settings of the GitLab projects | none | set one field of every project | its effect, in `SourceFetch` |
| Package metadata, web pages, client, start-up, build machines | see `PROJECT.json` | | not modelled |

How they interact. The loop is one tokio task: it sleeps, polls the pipelines of all
iterations, then gives every active namespace a turn in which it may insert an iteration
and start at most one build per architecture. The handlers run concurrently in the same
process and share nothing with the loop but the SQLite database. A second task lists the
projects that changed in GitLab and fetches them into the clones that passes and
requests read. Nobody uses a transaction: an iteration is read as a row, changed in
memory and written back as a whole row, with the graphs of *all* architectures. A build
is handed over either as a GitLab pipeline, whose status the loop asks for later, or as
a POST request to the worker, which answers with a PATCH request.

What is hard about it:

* stale copies: `iteration` in `schedule_next_build_if_needed` and
  `new_packages_to_be_built` in the polling function live across many awaits and
  are then written over whatever is in the table;
* three steps that belong together (create a pipeline, insert its row, save the
  reserved graph) and may be cut by an error or a crash at any point;
* several changes found in one poll, of which only the last one is kept;
* a status report, an answer or a whole process that is lost;
* requests that take their timestamp before a slow calculation and insert after
  it, while the loop does the same, and that have read `main` before either;
* origin changesets that fail the calculation in every pass until they are pushed to
  again;
* clones that move while a pass or a request reads them, one look at a time;
* a date that decides what is listed next, kept in two places, computed from
  timestamps that are neither accurate nor what the list is sorted by;
* a graph walk whose result depends on the order of hash maps, over packages that
  depend on each other in cycles;
* a scheduler that only sees nodes reachable from nodes without incoming edges.

What makes each component correct:

* the calculation visits exactly the transitive dependents, terminates on cycles, and
  returns nothing the scheduler cannot finish;
* an iteration never stops half-way, and a new one is created for a reason only;
* no build starts before its dependencies were built;
* a build that left "blocked" is tracked, gets a result, and keeps it;
* results are real; builds are not started twice for no reason;
* cancelling is noticed; a build that waits for nothing is started;
* packages that were built are stored and can be installed (both break, see section 5,
  for repeated builds and for concurrent ones); a build that was handed over ends;
* no push is forgotten; no two fetches of a round work on one clone; the newest commit
  ends up in the newest iteration, if it can be used, and what is built is never older
  than what the iteration shows.

## 2. The modules

```
BuildGraphs          pure operators on graphs, used by GitlabDispatch and WorkerDispatch
BuildSetWalk         the calculation              <- BuildSetWalkProofs, MCBuildSetWalk
BuildProgress        what the server promises     <- BuildProgressProofs
GitlabDispatch       server with GitLab           <- GitlabDispatchProofs, MCGitlabDispatch
   INSTANCE BuildProgress WITH builds <- ...      <- GitlabRefinementProofs
WorkerDispatch       server with the worker       <- WorkerDispatchProofs, MCWorkerDispatch
PackageRepo          uploads and repo-add         <- PackageRepoProofs, MCPackageRepo
SourceFetch          from GitLab to the clones    <- SourceFetchProofs, MCSourceFetch
   IterationSources  from a clone to a build      <- IterationSourcesProofs, MCIterationSources
```

**BuildGraphs.** A graph is a record of commit hashes, statuses and edges. The
operators are the functions of `build_set_graph.rs`: `ReadyBuilds` is the set of
nodes from which the scheduler's breadth first search may take the first one (node
indices come out of a hash map, so any of them may be first), `FallbackStatus` what
it answers otherwise, `SetBuildStatus` and `IterationDiffIsEmpty` as in the code,
including that a diff looks at nodes only, never at edges. `FromPipelineStatus` is
`impl From<PipelineStatus>`.

**BuildSetWalk.** The source repositories are drawn in `Init`; one action per turn of the
`while let` loop. Wherever the code iterates over a hash map or pushes neighbours, the
model takes any order. "Stripping version constraints and dropping soname dependencies" is
part of what a dependency of `repos` is. Two repositories may package the same name: the
one inserted last wins, so `PkgnameToPkgbase` is any such choice. The code fills that map
with the packages of all architectures (`all_packages`) and walks those of one
(`packages`), so a repository that packages a name for another architecture only may win,
too. A repository whose branch cannot be read is left out, unless an origin changeset
names it (`result = "missing"`).

**BuildProgress.** The abstract specification: build sets are only ever added, a
build starts after its dependencies were built, gets one result and keeps it. It has no
run of its own: `gitlab_iterations` checks that the server implements it, and its
assumption on plans (`PlansAssumption`) is a hypothesis of its theorems.

**GitlabDispatch.** The deployed configuration. The variables are the three tables
of the database, GitLab's pipelines, and *every local variable the loop keeps
across an await*: `to_poll` is `all_iterations` as it was listed, `new_packages` is
`new_packages_to_be_built`, `iteration` is the copy in
`schedule_next_build_if_needed`, `build` the answer of `create_pipeline`, and so
on. `pc` says between which awaits the loop is:

| `pc` | the loop has | next |
|---|---|---|
| `idle` | slept | `StartPass` lists all iterations |
| `poll` | iterations left to poll | `PollIteration`, or `ListActiveNamespaces` |
| `check` | builds left to ask GitLab about | `CheckPipeline`, then `PersistIteration`, or `PollingFails` |
| `namespaces` | active namespaces left | `UpdateNextNamespace`, or `FinishPass` |
| `calculate` | read the newest iteration | `CreateIterationIfNeeded` |
| `read` | created an iteration, or not | `ReadNewestIteration` |
| `schedule` | architectures left | `CreatePipeline`, `SchedulingFails`, `NothingToSchedule`, `FinishNamespace` |
| `record` | a pipeline GitLab has created | `RecordPipeline` |
| `update` | inserted its row | `UpdateIteration` |

Awaits that nobody can get in between are not split: only the loop writes
`gitlab_pipelines`, so reading a row and asking GitLab is one step.
`CreateIterationIfNeeded` is one step because the diff, the timestamp and the
insert only depend on copies that were read before. Handlers are `CreateNamespace`,
`UpdateNamespace`, and a retry that is split at its slow calculation into
`RequestIteration` (takes `created_at`) and `AnswerRequest` (inserts). `Crash`
forgets everything but the database and GitLab. `late_dispatches` and `clock` are
observations: the first counts pipelines created for a cancelled namespace, the
second hands out timestamps. A row keeps its `create_reason`; as no handler changes the
origin changesets of a namespace, `OriginChangesetsChanged` does not occur, and the diff
that `BuildSetGraphChanged` carries is left out.

**WorkerDispatch.** The same loop with the local worker, for one iteration: the
loop's stale row against the stale row of the PATCH handler (`patched`), the
worker's queue, its running build and its outcome. Both processes may crash, a
request may fail before or after it had its effect, a status report may be lost.
`BranchNamesAreObjectIds` says whether a branch name parses as a commit id. The
code needs it to (`checkout_build_git_ref`), and branch names such as `main` do
not, so with `FALSE`, as the code is used, every build fails. The passing run sets
it to `TRUE` to reach successful builds; the finding below does not need them.

**PackageRepo.** One repository: one iteration and one architecture. The upload
handler is modelled await by await; `step` says where the server is with the
request of a run:

| `step` | `upload_package` has | next |
|---|---|---|
| `check` | found the package in the iteration | `FileExists` (answers OK), `FileIsMissing` |
| `create` | seen that there is no such file | `CreateFile` |
| `write` | created, that is truncated, the file | `FinishWriting` |
| `add` | written all of it | `AddToRepo` |
| `adding` | started `repo-add` | `RepoAddEnds` |
| `answered` | answered OK | `ReceiveAnswer` |

`repo-add` is a process of its own: it holds a lock file, it outlives a request
that breaks off, may outlive the server, and may be killed and leave its lock.
Nobody looks at its exit status, so one that finds the lock taken does nothing and
the handler answers OK (`Locked`). `setting` says who builds. The worker builds and
uploads one package after the other and gives up when the server answers with an
error; a runner of GitLab executes `buildbtw-executor.sh` next to other runners, and
its `curl` takes an error for an answer. The upload loops of both are
`RequestUpload`, `ReceiveAnswer` and `FinishJob`. `Schedule` is `ensure_repo_exists`
with the dispatch that follows it. The builders' queues are reduced to what matters
here: `Start` keeps the runs of one pkgbase in order, and otherwise takes any.

**SourceFetch.** Rounds of `fetch_all_source_repo_changes`, run by the server's loop or
by arch-pkg-repo-updater (`keeper`). `pc` says where the round is:

| `pc` | the round has | next |
|---|---|---|
| `idle` | not begun | `QueryPage` (the updater reads its state file first, or `UpdaterFails`) |
| `query` | listed some pages | `QueryPage`, or `QueryFails` |
| `fetch` | listed everything | `SpawnTask`, `TaskFetches`, `TaskFails`, `JoinTask`, `JoinFailedTask`; in the end `ServerKeepsDate` or `UpdaterKeepsDate` |

A query lists projects by activity, most active first, and stops at the first project
whose `updated_at` is not after the date. Between two pages projects are pushed to
(`Push`) and edited (`EditProject`: settings change `updated_at` and no activity), so
they move in the list. The date of the next query (`NextDate`) is that of the project
listed first minus `Slack`; `updated_at` may lag behind a push by `Inaccuracy`, the
reason the code gives for the six minutes. `tasks` is the `JoinSet`. The first error
ends the round (`JoinFailedTask`) without a new date, while fetches that run already
may be completed. `Crash` may leave behind a clone that had just begun (`broken`).
What is read back after it depends on the keeper: the server has a date in memory and
one in its database and takes an error for no date; the updater has a file that is
written in place, and one that it cannot parse ends every later run (`readable`).

**IterationSources** extends it with one tracked project: the clones that the rounds
move are read, one look for `.SRCINFO` and one for the commit (`ReadBranch`), by passes
of the server loop and by requests. `SourceRepos::new` reads `main` in all repositories
and ignores errors; any other branch is read when the calculation asks for it. `Origins`
gives the branch, and what its commits are like; `origin` is drawn from it.

| Loop | Request | The code |
|---|---|---|
| `StartPass`, `GetBranchInfo`, `PassOpened` | `RequestIteration`, `RequestReads`, `ReposOpened` | `SourceRepos::new`, which reads `main` |
| | `TakeCreatedAt` | `created_at`, after `main` was read and before another branch is |
| `ReadNewest`, `GetBranchInfo` | `RequestReads` | the newest iteration; another branch is read |
| `CreateIterationIfNeeded`, or `TurnFails` | `AnswerRequest`, or `RequestFails` | the calculation, and the insert |
| `ScheduleBuild` (`CreatePipeline`) | | `schedule_next_build_if_needed` |

A pass keeps what it read in `cache` until it ends. An iteration the loop inserts after
a request took its timestamp stays the newest one (`overtaken`); one it inserted before,
while the request was reading `main`, may be replaced by an older commit.
A commit without a valid `.SRCINFO` cannot be read (`LookFails`), and nothing is cached
then; that, and a commit that closes a cycle, end the calculation (`CalculationFails`)
and with it the namespace's turn: no iteration is created and no build started, in every
pass until the next push. `CreatePipeline` builds what the *branch* shows in GitLab by then.
`ServerCrash` is the `Crash` of `SourceFetch` together with the loss of the pass and of
the request: the server is one process.

## 3. The runs

| Run | Instance | States | What it shows |
|---|---|---|---|
| `build_set_walk` | three names in four layouts (one package each, a split package, a name packaged twice, a name that another repository packages for another architecture), *every* dependency relation without self loops, with and without an unreadable repository, three sets of origins | 16 k | the walk is exact, draws real dependencies only, lets only origins start without waiting, terminates, and never returns a graph on which the scheduler gets stuck, whatever the statuses |
| `build_set_edges` (violation) | four repositories, a diamond | | an edge is lost when a package is met twice |
| `gitlab_dispatch` | one namespace; a join of three builds, or two architectures in one row; one fault; fairness | 0.7 M | the safety properties of the server; no iteration stops half-way; every dispatched build settles, every ready build starts |
| `gitlab_iterations` | one package, two iterations from the loop and from requests, one fault or deleted pipeline | 1.5 M | refinement of `BuildProgress`; an iteration of the loop differs from the one before it, or is a first one |
| `gitlab_vanishes` (violation) | as `gitlab_iterations`, with fairness | | one deleted pipeline keeps other results from being found |
| `worker_dispatch` | fork, join and two architectures; five builds sent, two faults | 0.4 M | order and results survive overwritten rows |
| `worker_waits` (violation) | fork or join, four builds sent, no fault | | a result is overwritten and the scheduler waits for nobody |
| `package_repo` | a split package and a single one; the worker may build both twice, runners once; two faults | 0.1 M | no broken-off upload is listed, successful first runs have stored their packages (those of runners while nothing fails), the worker's can be installed while nothing fails, every build that was handed over ends |
| `package_repo_repeated` (violation) | the same packages, the worker, two runs, one fault | | a repeated build succeeds on the partial file of the first one |
| `package_repo_runners` (violation) | the same packages, runners, no fault | | a build succeeds whose package is not in the repository |
| `source_fetch` | two projects on two pages, both keepers, four pushes, one fault | 1.0 M | no commit is behind the date the next query starts from, every commit gets into its clone, no clone gets two tasks in a round |
| `iteration_sources` | one project, `main` or another branch, three pushes, one of them without a valid `.SRCINFO` or with a cycle, a pass and a request, one fault | 1.6 M | nothing older is built than what an iteration shows, the newest iteration ends up with the newest commit, if that can be used |

Why the bounds are enough. The properties relate at most two builds of one graph, two
graphs of one row, or two rows; three builds are the smallest graphs in which one build
has two dependencies, two architectures are what it takes for one graph's write to hurt
another one, and two iterations are what it takes for the loop to hold on to the wrong
one. `MaxFaults` bounds crashes, failing calls and deleted pipelines together; one fault
can hit anywhere, and the proofs of section 4 cover any number. `MaxIterations` bounds
`clock`; the guard of a retry leaves a timestamp for the first iteration of every
namespace (`Reserved`), so the bound never stops the loop for good. `MaxBuilds` bounds
what is sent to the worker. In `package_repo` a split package is needed for a build of
which only a part arrives, a second pkgbase for two users of one lock, a second run for a
file that is already there, and two faults for a broken-off upload with a stale lock. In
`source_fetch` two projects with one project per page are what it takes for a project to
move across a page border; `Slack` is larger than `Inaccuracy` by the least amount, so a
smaller slack would be noticed; two tasks run at once, so that one may fail while the
other fetches; four dates let a push come after each of the rounds that matter.
`iteration_sources` needs two pushes for two looks to differ and a third one that has to
be noticed afterwards; the commit that cannot be used is the second one, so that an
iteration exists before it and a valid commit comes after it. It has no second project, as
what lists a project is `source_fetch`'s subject, and no updater, which is not part of the
server.

`gitlab_iterations` has build sets of one package, so that two iterations and the
requests fit. The part of the refinement that is about edges is checked by
`DependenciesBuiltFirst` in `gitlab_dispatch`, and proved there.

`WorkIsBounded` counts an edge of the global graph once. The code's graph may have
parallel edges when a package lists two constraints on one name; those are pushed
once each and skipped as visited, and are not counted here.

**Fairness.** `GitlabDispatch`: `WF(LoopStep)`: `update_and_build_all_namespaces_in_loop`
never returns, logs errors and sleeps, so the loop goes on by itself; `LoopStep`
contains no failing call except the permanent one of a deleted pipeline. It says
nothing about which build of a graph is chosen. `WF(FinishPipeline)`: GitLab
finishes what it has started. No fairness is assumed of handlers, of faults, or of
their absence; faults are finitely many because of `MaxFaults`, which is what
"calls do not keep failing" means here.

`SourceFetch`: `WF(FetchLoop)`. The server's fetch loop is a task that logs errors and
sleeps, and the updater is a program that is run again and again; that it is, is the
one thing about it that the repository does not contain. `IterationSources` adds
`WF(BuildLoop)` for the other loop. Requests need none: they may stay unanswered.
`PackageRepo`: `WF(Server)`, `WF(Builder)`. A handler or `repo-add` goes on as long as one
of them can, and so does a builder with its next request. A crash of the worker process
is not part of `PackageRepo` but of `WorkerDispatch`.

`TypeOK` of `GitlabDispatch` also contains that copies refer to existing rows
(`polled`, `previous`, `architectures`).

## 4. The proofs

All theorems hold for every value of the constants that satisfies the named assumptions
(`ReposAssumption`, `BuildSetsAssumption`, `AcyclicAssumption`, `BoundsAssumption`,
`WorkerAssumption`, `PackageRepoAssumption`, `SourceFetchAssumption`,
`TrackedAssumption`), which TLC evaluates in the runs, and of the hypotheses that some
theorems name. What `BuildSetsAssumption`, `AcyclicAssumption` and `WorkerAssumption`
assume of a build set is proved of the calculation that build sets come out of
(`WalkReturnsAGraph`): nodes are blocked, edges are between nodes, and `Finish` rejects
cycles.

* `BuildSetWalkProofs`: `WalkTypeCorrect` and `WalkIsExact`. The invariant behind
  them: visited packages are packages to rebuild, the queue holds packages to
  rebuild, and the roots and the dependents of every visited package are visited or
  queued. With an empty queue that makes the visited set closed under dependents,
  and the least such set contains it. `EdgesInv` adds where queue entries come from: each
  is a root or a dependent of a visited package, and its edge is drawn when it is
  visited. Hence `WalkDrawsDependencies` and `WalkLetsDependentsWait`, and
  `WalkCanStartEveryBuild`: builds the scheduler cannot reach would all have
  predecessors among themselves, and `Finish` returns no graph with a cycle. It holds of
  every assignment of statuses to the nodes, whether or not a schedule leads there.
  `WalkIsBounded` counts: every turn takes an entry that a visited package's edge, or a
  root, has put there once. `WalkReturnsAGraph` is the link to
  the server's modules. `WalkIsPreciseWithoutDiamonds` is about the property that
  `build_set_edges` violates: every dependency is an edge when every package is met from
  one repository only, and those of an origin changeset from none but their own
  (`MetFromOneRepository`). Its invariant, `VisitedExplained`, says
  of each visited package that it was a root or that an edge was drawn for it.
* `BuildProgressProofs`: `ProgressTypeCorrect`, `ProgressInOrder`. `StartedInOrder`
  is inductive together with the type. Both have `PlansAssumption` as a hypothesis: plans
  are relations on sets of keys.
* `GitlabDispatchProofs`: `DispatchTypeCorrect`, `DispatchTracksBuilds`,
  `DispatchResultsAreReal`, `DispatchInOrder`, all from one inductive invariant
  `IInv == Typed /\ Tables /\ Polling /\ Scheduling`. `Tables` says that every row
  is justified: a status that is not blocked has a row and a pipeline, a result is
  the result of a pipeline, and a pipeline's dependencies have successful ones.
  `Polling` and `Scheduling` say of the loop's copies (`to_poll`, `new_packages`,
  `iteration`) that they have the shape of the row they came from and are justified
  *by the present tables*. That is the point of the argument: justification only
  needs tables and pipelines that grow, so an old copy stays justified and may be
  written over a newer row without making anything false. The properties alone are
  not inductive, because they say nothing of the copies. `DispatchNoticesCancellation`
  counts: a namespace that is listed in this pass has no late pipeline yet, and the one
  having its turn has none for the architectures that are left.
* `GitlabRefinementProofs`: `DispatchOnlyAdvances`, `DispatchImplementsProgress`,
  `DispatchIsNotRepeated`, `DispatchIsNeverStuck`, `DispatchHasReasons`. Here justified
  copies are not enough, as the abstract builds must never go back. Only the loop
  changes rows and requests only insert them, so a copy the loop *will write* is not
  only justified but current. Every step then is one of `BuildProgress` or a stutter
  under the mapping. `DispatchIsNotRepeated` counts pipelines of a build: one for having
  been dispatched, and every other one has cost a fault. `DispatchIsNeverStuck`: rows
  keep the edges of an acyclic build set, whatever is written into them, so the
  scheduler reaches every node; among the blocked ones there is one that waits for none
  of the others; and what is in progress is tracked, by `BuildsAreTracked`.
  `DispatchHasReasons` needs to know when an iteration was the newest one: between
  reading it and inserting the next one, only requests insert rows, and those are
  excepted; after the insertion, a row that gets between the two by its timestamp is
  again one of a request, as the loop's timestamps are taken when it inserts
  (`ReasonsInv`). A first iteration after the first one needs a failed read, which is
  counted before it happens (`StartsOver`).
* `WorkerDispatchProofs`: `WorkerTypeCorrect`, `WorkerBuildsInOrder`,
  `WorkerResultsAreReal`. Here two writers overwrite each other, and copies do go back.
  Every copy has the row's nodes and edges, and every result in a copy is a result of
  the worker. Those only grow, so it does not matter which copy is written.
  `WorkerWaitsWhenNothingIsLost` is about the property that `worker_waits` violates. It
  holds of every behaviour of `KeepingSpec`, in which none of four things happens: the
  loop writes a row that is older than the one in the database, the worker dies, one of
  its reports gets lost, or the server dies over a report. The argument is that every
  build that is in progress, in the row or in the handler's copy of it, is in the
  worker's queue or being built (`WaitInv`). On the instance of `worker_dispatch`, TLC
  finds the property violated when any one of the four is allowed. A *handler* that
  writes an old row is not among them: what it takes back is a reservation, so the build
  is sent twice, but is not waited for in vain.
* `SourceFetchProofs`: `FetchTypeCorrect`, `FetchMissesNoChange`. Every project that is
  behind is still to be listed in this round, or still to be fetched, or found by the
  date the round will keep (`RoundKeepsTrack`). The date lies at least `Slack` before
  the time of the listing, so a later push, whose `updated_at` lags by less, never makes
  a safe date unsafe. `FetchesClonesOnce`: a project is listed with an activity that it
  has had, and the cursor only moves to older ones, so a project that is pushed to while
  the pages are read moves out of the cursor's way instead of being listed again
  (`OnceInv`). It is about the tasks of one round. A fetch that still runs on its
  blocking thread when its round was aborted is completed or dropped in `JoinFailedTask`
  itself, so one that reaches into the next round is not modelled.
* `IterationSourcesProofs`: `TrackTypeCorrect`, `TrackMissesNoChange`,
  `TrackBuildsAreNotOlder`. The loop and the requests only read what `SourceFetch`
  changes, so its invariant carries over. Clones only move forward, and never past the
  branch in GitLab: the second look is not older than the first, nor the pipeline older
  than both.

* `PackageRepoProofs`: `RepoTypeCorrect` and `RepoListsWholePackages`, under the
  hypothesis `RunsDoNotOverlap`: the worker builds, or runners build every pkgbase at
  most once. Without it two handlers may write into one file. The invariant says that
  what the handler found out about the file before an await still holds after it
  (`FilesMatchSteps`), and that a `repo-add` works on a whole file even when its request
  is gone (`AddsWholePackages`). Both rest on `OneAtATime`: two requests for one package
  would be of two runs of one pkgbase. `StoreInv` carries the rest
  (`RepoStoresPackages`, `RepoInstalls`, `RepoIsCreatedFirst`): the first run of a
  pkgbase finds none of its packages and writes all of them itself; a later one starts
  when the first is over and leaves the files it finds alone, whole or, after a fault,
  partial (`package_repo_repeated`); and without faults
  the worker's `repo-add`s never meet, so every written package is listed.
  `RepoInstallsWhatIsKept` is about the property that `package_repo_runners` violates,
  for the worker and for runners and with faults. It holds of every behaviour of
  `KeepingSpec`, in which none of three things happens: a `repo-add` finds the lock
  taken, a runner overlooks that the server has answered with an error, or something
  breaks off between the creation of a file and the end of its `repo-add`. Every file
  that is there is then listed, or the request that writes it goes on (`KeepInv`), so
  the early answer to a file that exists is right. On the instance of `package_repo`,
  TLC finds the property violated when any one of them is allowed, the third at each of
  its awaits.

`IInv` of `GitlabDispatchProofs` is not given to TLC: it quantifies over all rows a
table may have. Its consequences are the invariants of `gitlab_dispatch`, and its
conjuncts were written against that run's states.

Only model-checked: liveness (`PushesAreFetched`, `IterationsSettle`,
`DispatchedBuildsSettle`, `ReadyBuildsStart`, `BuildsEnd`). Every invariant and action
property of the passing runs, the refinement included, is stated by a theorem. TLAPS
does not do liveness under fairness or
`ENABLED`, induction over data with the library's operator-parameter theorems, or
modules with `RECURSIVE` operators; there are none here, and reachability
(`VisitedNodes`, `ToRebuild`) is defined by least closed sets instead.

## 5. Findings

* `build_set_edges`: a package that was visited before is skipped before the edge
  that led to it is recorded, so in a diamond one dependency is not waited for.
  `WalkIsPreciseWithoutDiamonds` shows that it takes a package that is met from two
  repositories.
* `gitlab_vanishes`: the first pipeline that cannot be queried ends polling; one
  that is gone for good does so in every pass.
* `worker_waits`: the loop and the PATCH handler overwrite each other's change of
  the iteration. In the direction the run shows, a result is lost and the scheduler
  waits forever; in the other one a reservation is lost and a build is sent twice.
  `WorkerWaitsWhenNothingIsLost` shows that nothing else makes it wait but a crash or a
  lost report.
* `package_repo_repeated`: an upload that breaks off leaves a partial file under the
  package's name. When the build is run again, the handler takes that file for whole and
  answers OK without reading the upload, so the second run succeeds and its package is
  neither stored nor in the database. `FirstBuildsAreStored` is about first runs for this
  reason.
* `package_repo_runners`: `repo-add` fails when its lock is taken, the server does not
  notice, and the build of the second runner succeeds with a package that is in the
  directory but not in the database. Uploading it again changes nothing: the file
  exists, so the handler answers OK at once. While runs of a
  pkgbase do not overlap, the ways that `RepoInstallsWhatIsKept` names are the only ones
  in which a completed build may lack a package.

Not findings, as no text of the repository says otherwise, but visible in the models:
a cancelled namespace still gets the pipelines of the pass under way, as its status is
checked on a copy (`CancellationIsNoticed` shows that it gets no more than those); an
updater that is stopped while it writes its state file, or whose first round lists no
project, cannot be started again (`readable`); a clone that a crash left half made ends
every later round (`broken`); a worker's lost report leaves a build in progress; when two
repositories package one name, be it for different architectures, the choice between them
is made by hash order in every pass, so two passes may disagree and each insert an
iteration; and an origin changeset whose newest commit has no valid `.SRCINFO` or closes a
cycle keeps its namespace from starting builds of the iteration that is there, in every
pass until the next push (a comment in `calculate_packages_to_be_built_inner` knows of the
retries). `IterationsSettle` excepts such commits and those that cannot be fetched.

## 6. What is not modelled

See the components with status `not_modelled` in `PROJECT.json`. The main
abstractions inside the modelled parts: a build set in `GitlabDispatch` is one of a
few given ones, where the code calculates it (`BuildSetWalk`); origin changesets of
a namespace never change (no handler changes them); pipeline statuses that mean the
same to buildbtw are one status; the project path of `create_pipeline` is the plain
group and pkgbase, without the renaming of `gitlab_project_name_to_path`, and a
project that is not found is a failing call; sleeping times are left out.
`PackageRepo` leaves out names: that an upload names a package of its build is
assumed, where `buildbtw-executor.sh` cuts the name out of the file's. In `SourceFetch` a
project is one branch and a commit its number: several branches of a project are fetched
together, and deleting or force-pushing a branch is left out. At most one push happens at
a date, so the order of projects with equal activity, which GitLab does not define, is
left out, too. `IterationSources` looks at one namespace with one origin changeset; what a
build set contains beyond it is `BuildSetWalk`'s subject. Whether a commit closes a cycle
is taken as a property of the commit, where it depends on the other repositories, too. A
binary `.SRCINFO` on `main` panics the task that reads all repositories, which ends the
pass for every namespace; with one namespace that is the same as an error. `WalkIsExact`
holds for whichever repository the name table chose; that two passes choose the same is
not claimed.

Not modelled as components: package metadata, the web pages and JSON views, the client,
start-up and the build machines. They keep no state of their own, or run once before
everything else, or only shape text. The CI settings loop compares one field per project
and sets it where it differs; nothing else reads that field.

## 7. Plan

1. Done: the core (`BuildGraphs`, `BuildSetWalk`, `BuildProgress`, `GitlabDispatch`,
   `WorkerDispatch`, `PackageRepo`), the way of a push (`SourceFetch`,
   `IterationSources`), proofs of every safety property that the runs check, of the
   assumptions on build sets, and of where three of the findings end.
2. Next proofs: that the worker's loop, too, starts a build twice only after a lost
   reservation, and is never stuck but for the four losses of `KeepingSpec`.
3. Next models: `WorkerDispatch` with several iterations, so that one worker's queue holds
   builds of older ones; a namespace with two origin changesets in `IterationSources`; a
   fetch that outlives its round.
4. The CI settings loop, with the error that ends a round, and the name that
   `buildbtw-executor.sh` cuts out of a file's, as an operator over small names next to
   `package_file_name`.
