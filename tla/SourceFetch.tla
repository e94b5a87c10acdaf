----------------------------- MODULE SourceFetch ------------------------------
(***************************************************************************)
(* How changes of package sources get from GitLab to the local clones      *)
(* (buildbtw-poc/src/gitlab/mod.rs, git.rs). Rounds of                     *)
(* fetch_all_source_repo_changes list the projects that changed since a    *)
(* date, most active first and page by page, fetch them concurrently, and  *)
(* remember the next date only when every fetch has succeeded. The server  *)
(* runs rounds in a loop and remembers the date in memory and in its       *)
(* database; arch-pkg-repo-updater runs one round per start and remembers  *)
(* it in a state file.                                                     *)
(*                                                                         *)
(* A project is one branch, a commit is its number. Dates are numbers; at  *)
(* any of them at most one push happens.                                   *)
(***************************************************************************)
EXTENDS Integers, FiniteSets

CONSTANTS
    Projects,
    Keepers,        \* who may run the rounds: "server", "updater"
    Unfetchable,    \* projects that git cannot fetch
    PageSize,       \* projects per page of the query
    MaxTasks,       \* concurrent fetches: 50 in clone_or_fetch_repositories
    Slack,          \* Duration::minutes(6)
    Inaccuracy,     \* how far updated_at may lag behind a push
    MaxTime,        \* bound on dates
    MaxFaults       \* bound on failed calls and crashes

ASSUME SourceFetchAssumption ==
    /\ Keepers \subseteq {"server", "updater"}
    /\ Unfetchable \subseteq Projects
    /\ PageSize \in Nat \ {0} /\ MaxTasks \in Nat \ {0}
    /\ Slack \in Nat /\ Inaccuracy \in Nat /\ Inaccuracy < Slack
    /\ MaxTime \in Nat /\ MaxFaults \in Nat

\* No date yet: a query since None finds everything.
None == -(Slack + Inaccuracy)

VARIABLES
    \* GitLab
    time,
    head,           \* the newest commit of every project, 0 before it exists
    activity,       \* what ACTIVITY_DESC sorts by
    updated_at,
    \* the disk
    clones,         \* the newest commit in every clone, 0 for none
    broken,         \* clones a crash left in a state git cannot work with
    saved,          \* the date in the database or in the state file
    readable,       \* whether the state file can be parsed
    \* the process that runs the rounds
    keeper,         \* drawn in Init, never changed
    pc,
    results,        \* projects listed, or still to be fetched, in this round
    tasks,          \* the JoinSet: phase of every project's fetch
    until,          \* what last_fetched becomes if the round succeeds
    last_fetched,   \* the server's, across rounds
    faults

gitlab == <<time, head, activity, updated_at>>
disk == <<clones, broken>>
dates == <<saved, readable, last_fetched>>
round == <<pc, results, tasks, until>>
fetch_vars == <<gitlab, disk, dates, round, keeper, faults>>

NoTasks == [p \in Projects |-> "none"]

Init ==
    /\ time = 0
    /\ head = [p \in Projects |-> 0]
    /\ activity = [p \in Projects |-> 0]
    /\ updated_at = [p \in Projects |-> 0]
    /\ clones = [p \in Projects |-> 0] /\ broken = {}
    /\ saved = None /\ readable = TRUE /\ last_fetched = None
    /\ keeper \in Keepers
    /\ pc = "idle" /\ results = {} /\ tasks = NoTasks /\ until = None
    /\ faults = 0

Fault == faults < MaxFaults /\ faults' = faults + 1

-----------------------------------------------------------------------------
(***************************************************************************)
(* GitLab                                                                  *)
(***************************************************************************)

\* A push, the first one with the project's creation. updated_at may lag.
Push(p, updated) ==
    /\ time < MaxTime
    /\ time' = time + 1
    /\ head' = [head EXCEPT ![p] = @ + 1]
    /\ activity' = [activity EXCEPT ![p] = time']
    /\ updated \in (time' - Inaccuracy) .. time'
    /\ updated >= updated_at[p]
    /\ updated_at' = [updated_at EXCEPT ![p] = updated]
    /\ UNCHANGED <<disk, dates, round, keeper, faults>>

\* Settings are edited, by set_project_ci_config for one: no activity.
EditProject(p) ==
    /\ head[p] > 0
    /\ updated_at[p] < time
    /\ updated_at' = [updated_at EXCEPT ![p] = time]
    /\ UNCHANGED <<time, head, activity, disk, dates, round, keeper, faults>>

-----------------------------------------------------------------------------
(***************************************************************************)
(* get_changed_projects_since                                              *)
(***************************************************************************)

\* The date a round starts from. It does not change while one is under way.
Since == IF keeper = "server" THEN last_fetched ELSE saved

\* Mutant: pages are counted instead of followed by a cursor.
UnlistedByOffset ==
    {p \in Projects :
        /\ head[p] > 0
        /\ Cardinality({q \in Projects : activity[q] > activity[p]}) >= Cardinality(results)}

\* Projects behind the cursor: activity changes between two pages, too.
Unlisted ==
    {p \in Projects : head[p] > 0 /\ \A r \in results : activity[p] < r.activity}

IsPage(page) ==
    /\ page \subseteq Unlisted
    /\ Cardinality(page) <= PageSize
    /\ page = Unlisted \/ Cardinality(page) = PageSize
    /\ \A p \in page, q \in Unlisted \ page : activity[q] < activity[p]

\* The projects of a page in front of the first one that has not changed.
Changed(page) ==
    {p \in page : \A q \in page : activity[q] >= activity[p] => updated_at[q] > Since}

Listed(page) ==
    results \union {[name |-> p, activity |-> activity[p], updated_at |-> updated_at[p]] :
                        p \in Changed(page)}

\* Mutant: updated_at is taken to be accurate.
DateWithoutSlack(listed) ==
    IF listed = {} THEN Since
    ELSE (CHOOSE r \in listed : \A s \in listed : s.activity <= r.activity).updated_at

\* Slack before the date of the project listed first; the old date without one.
NextDate(listed) ==
    IF listed = {} THEN Since
    ELSE (CHOOSE r \in listed : \A s \in listed : s.activity <= r.activity).updated_at - Slack

\* Mutant: only one page is queried.
QueryFirstPage(page) ==
    /\ pc = "idle"
    /\ keeper = "updater" => readable
    /\ IsPage(page)
    /\ results' = Listed(page)
    /\ pc' = "fetch" /\ until' = NextDate(results')
    /\ UNCHANGED <<gitlab, disk, dates, tasks, keeper, faults>>

\* A round starts with the first page. The updater reads its state file first.
QueryPage(page) ==
    /\ pc \in {"idle", "query"}
    /\ keeper = "updater" => readable
    /\ IsPage(page)
    /\ results' = Listed(page)
    /\ IF Changed(page) = page /\ page # Unlisted
       THEN pc' = "query" /\ UNCHANGED until
       ELSE pc' = "fetch" /\ until' = NextDate(results')
    /\ UNCHANGED <<gitlab, disk, dates, tasks, keeper, faults>>

\* The error is logged, or ends the updater.
QueryFails ==
    /\ pc \in {"idle", "query"}
    /\ Fault
    /\ pc' = "idle" /\ results' = {}
    /\ UNCHANGED <<gitlab, disk, dates, tasks, until, keeper>>

\* from_filesystem fails, now and whenever the updater is started again.
UpdaterFails == keeper = "updater" /\ ~readable /\ pc = "idle" /\ UNCHANGED fetch_vars

-----------------------------------------------------------------------------
(***************************************************************************)
(* clone_or_fetch_repositories                                             *)
(***************************************************************************)

InJoinSet == {p \in Projects : tasks[p] # "none"}

\* Tasks are spawned in the order of the list, while fewer than MaxTasks are in
\* the set.
SpawnTask(r) ==
    /\ pc = "fetch"
    /\ r \in results
    /\ \A s \in results : s.activity <= r.activity
    /\ Cardinality(InJoinSet) < MaxTasks
    /\ results' = results \ {r}
    /\ tasks' = [tasks EXCEPT ![r.name] = "running"]
    /\ UNCHANGED <<gitlab, disk, dates, pc, until, keeper, faults>>

MayBeFetched(p) == p \notin Unfetchable \union broken

\* clone_or_fetch_repository
TaskFetches(p) ==
    /\ tasks[p] = "running"
    /\ MayBeFetched(p)
    /\ clones' = [clones EXCEPT ![p] = head[p]]
    /\ tasks' = [tasks EXCEPT ![p] = "ok"]
    /\ UNCHANGED <<gitlab, broken, dates, pc, results, until, keeper, faults>>

TaskFails(p) ==
    /\ tasks[p] = "running"
    /\ \/ ~MayBeFetched(p) /\ UNCHANGED faults
       \/ Fault
    /\ tasks' = [tasks EXCEPT ![p] = "failed"]
    /\ UNCHANGED <<gitlab, disk, dates, pc, results, until, keeper>>

\* A full set, or the end of the list, makes it wait for any task.
JoinsNext == Cardinality(InJoinSet) >= MaxTasks \/ results = {}

\* Mutant: a failed fetch does not end the round.
JoinAnyTask(p) ==
    /\ JoinsNext
    /\ tasks[p] \in {"ok", "failed"}
    /\ tasks' = [tasks EXCEPT ![p] = "none"]
    /\ UNCHANGED <<gitlab, disk, dates, pc, results, until, keeper, faults>>

JoinTask(p) ==
    /\ JoinsNext
    /\ tasks[p] = "ok"
    /\ tasks' = [tasks EXCEPT ![p] = "none"]
    /\ UNCHANGED <<gitlab, disk, dates, pc, results, until, keeper, faults>>

\* Mutant: the other tasks go on without the JoinSet.
DetachTasks(p) ==
    /\ JoinsNext
    /\ tasks[p] = "failed"
    /\ pc' = "idle" /\ results' = {} /\ tasks' = [tasks EXCEPT ![p] = "none"]
    /\ UNCHANGED <<gitlab, disk, dates, until, keeper, faults>>

\* The first error ends the round. The other tasks are aborted, but a fetch
\* that runs on its blocking thread may be completed all the same.
JoinFailedTask(p) ==
    /\ JoinsNext
    /\ tasks[p] = "failed"
    /\ \E done \in SUBSET {q \in InJoinSet : tasks[q] = "running" /\ MayBeFetched(q)} :
            clones' = [q \in Projects |-> IF q \in done THEN head[q] ELSE clones[q]]
    /\ pc' = "idle" /\ results' = {} /\ tasks' = NoTasks
    /\ UNCHANGED <<gitlab, broken, dates, until, keeper, faults>>

AllFetched == pc = "fetch" /\ results = {} /\ InJoinSet = {}

\* set_gitlab_last_updated may fail, which is logged only.
ServerKeepsDate ==
    /\ AllFetched /\ keeper = "server"
    /\ pc' = "idle"
    /\ IF until = None
       THEN UNCHANGED <<dates, faults>>
       ELSE /\ last_fetched' = until
            /\ \/ saved' = until /\ UNCHANGED faults
               \/ UNCHANGED saved /\ Fault
            /\ UNCHANGED readable
    /\ UNCHANGED <<gitlab, disk, results, tasks, until, keeper>>

\* write_to_filesystem: a state without a date is written as an empty file,
\* which cannot be parsed again, and so is one that the updater dies writing.
UpdaterKeepsDate ==
    /\ AllFetched /\ keeper = "updater"
    /\ pc' = "idle"
    /\ \/ saved' = until /\ readable' = (until # None) /\ UNCHANGED faults
       \/ readable' = FALSE /\ UNCHANGED saved /\ Fault
    /\ UNCHANGED <<gitlab, disk, last_fetched, results, tasks, until, keeper>>

\* The process dies and is started again: get_gitlab_last_updated(..).ok() takes
\* an error for no date. A clone that had just begun may be left behind.
Crash ==
    /\ Fault
    /\ pc' = "idle" /\ results' = {} /\ tasks' = NoTasks
    /\ \E new \in SUBSET {p \in InJoinSet : tasks[p] = "running" /\ clones[p] = 0} :
            broken' = broken \union new
    /\ last_fetched' \in {saved, None}
    /\ UNCHANGED <<gitlab, clones, saved, readable, until, keeper>>

-----------------------------------------------------------------------------
Gitlab ==
    \E p \in Projects :
        \/ \E updated \in -Inaccuracy .. MaxTime : Push(p, updated)
        \/ EditProject(p)

FetchLoop ==
    \/ \E page \in SUBSET Projects : QueryPage(page)
    \/ UpdaterFails
    \/ \E r \in results : SpawnTask(r)
    \/ \E p \in Projects : TaskFetches(p) \/ JoinTask(p) \/ JoinFailedTask(p)
    \/ \E p \in Unfetchable \union broken : TaskFails(p)
    \/ ServerKeepsDate
    \/ UpdaterKeepsDate

FailedCall == QueryFails \/ \E p \in Projects : TaskFails(p)

FetchNext == Gitlab \/ FetchLoop \/ FailedCall \/ Crash

Spec == Init /\ [][FetchNext]_fetch_vars

\* The loop never ends, and the updater is started again and again.
FairSpec == Spec /\ WF_fetch_vars(FetchLoop)

-----------------------------------------------------------------------------
(***************************************************************************)
(* Properties                                                              *)
(***************************************************************************)

Listings == [name : Projects, activity : Int, updated_at : Int]

TypeOK ==
    /\ time \in Nat /\ time <= MaxTime
    /\ head \in [Projects -> Nat]
    /\ activity \in [Projects -> Nat]
    /\ updated_at \in [Projects -> Int]
    /\ clones \in [Projects -> Nat]
    /\ broken \subseteq Projects
    /\ saved \in Int /\ last_fetched \in Int /\ until \in Int
    /\ readable \in BOOLEAN
    /\ keeper \in Keepers
    /\ pc \in {"idle", "query", "fetch"}
    /\ results \in SUBSET Listings
    /\ tasks \in [Projects -> {"none", "running", "ok", "failed"}]
    /\ (\E p \in Projects : tasks[p] # "none") => pc = "fetch"
    /\ faults \in Nat

Behind(p) == clones[p] # head[p]

\* A query since the date lists p: it has a later date itself, and so have all
\* projects the list shows before it.
Finds(date, p) ==
    \A q \in Projects : head[q] > 0 /\ activity[q] >= activity[p] => updated_at[q] > date

\* A commit that is not in its clone is never forgotten: whatever failed or was
\* pushed while a round was listing and fetching, the next query, or one after
\* a restart, still lists the project, though updated_at is inaccurate, is not
\* what the list is sorted by, and the list is left at the first old date
\* (fetch_all_source_repo_changes, get_changed_projects_since).
NoChangeIsMissed ==
    \A p \in Projects : Behind(p) =>
        /\ Finds(saved, p)
        /\ keeper = "server" => Finds(last_fetched, p)

\* No two tasks of a round work on the same clone, although a project that is
\* pushed to moves to the front of the list while its pages are queried, and
\* nothing in clone_or_fetch_repositories looks for a project met before.
ClonesAreFetchedOnce ==
    \A r \in results :
        /\ tasks[r.name] = "none"
        /\ \A s \in results : s.name = r.name => s = r

\* After pushes, edits and failures, every commit ends up in its clone, unless
\* git cannot work with a repository or the updater with its state file.
PushesAreFetched ==
    \A p \in Projects :
        Behind(p) ~> (~Behind(p) \/ broken \union Unfetchable # {} \/ ~readable)
=============================================================================
