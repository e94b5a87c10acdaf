-------------------------- MODULE IterationSources --------------------------
(***************************************************************************)
(* From a push to an iteration: SourceFetch moves the clones while the     *)
(* server's loop (tasks.rs) and requests for a new iteration (routes.rs)   *)
(* read them (source_repos.rs), insert iterations and start builds.        *)
(*                                                                         *)
(* One active namespace is looked at, whose origin changeset is the branch *)
(* of the project Tracked. Of its iterations only the newest one matters,  *)
(* and of that one only what concerns this project.                        *)
(***************************************************************************)
EXTENDS SourceFetch

CONSTANTS
    Tracked,
    Origins     \* the branches, and what is committed to them

\* The branch "main" is read when the repositories are opened, another one when
\* it is asked for. A commit's .SRCINFO is valid, or missing or not to be parsed
\* ("invalid"), or closes a cycle of dependencies ("cyclic").
ASSUME TrackedAssumption ==
    /\ Tracked \in Projects
    /\ Origins \subseteq [branch : {"main", "other"},
                          srcinfo : [1 .. MaxTime -> {"valid", "invalid", "cyclic"}]]

VARIABLES
    origin,     \* drawn in TrackInit, never changed
    newest,     \* the iteration with the latest created_at
    pass,       \* where the loop is: "idle", "opening", "pass" or "schedule"
    cache,      \* SourceRepos of the pass: BranchInfo of the branch
    previous,   \* commit in newest_iteration as the loop has read it
    request     \* a create_namespace_iteration call

tracking == <<origin, newest, pass, cache, previous, request>>
vars == <<fetch_vars, tracking>>

\* BranchInfo: the commits that .SRCINFO and the commit hash were read from,
\* 0 until they are.
Unread == [source_info |-> 0, commit_hash |-> 0]
IsRead(info) == info.source_info > 0 /\ info.commit_hash > 0

NoIteration == [info |-> Unread, built |-> 0]
NoRequest == [phase |-> "none", info |-> Unread, overtaken |-> FALSE]

NotRead == -1

TrackInit ==
    /\ Init
    /\ origin \in Origins
    /\ newest = NoIteration
    /\ pass = "idle" /\ cache = Unread /\ previous = NotRead
    /\ request = NoRequest

\* Mutant: the hash is read in front of .SRCINFO.
HashFirst(info) ==
    IF info.commit_hash = 0 THEN [info EXCEPT !.commit_hash = clones[Tracked]]
    ELSE [info EXCEPT !.source_info = clones[Tracked]]

\* read_branch_info_from_disk: the branch is looked up once for each.
ReadBranch(info) ==
    IF info.source_info = 0 THEN [info EXCEPT !.source_info = clones[Tracked]]
    ELSE [info EXCEPT !.commit_hash = clones[Tracked]]

\* There is no BranchInfo of a commit without a .SRCINFO that can be parsed.
\* Nothing is cached then: the next one to ask looks again.
LookFails(info) ==
    info.source_info = 0 /\ origin.srcinfo[clones[Tracked]] = "invalid"

\* What SourceRepos::new can do about the branch is done: it ignores errors.
IsPrimed(info) == IsRead(info) \/ LookFails(info)

\* "Missing source info for origin changeset", "Build graph contains cycles".
CalculationFails(info) ==
    \/ LookFails(info)
    \/ IsRead(info) /\ origin.srcinfo[info.source_info] = "cyclic"

-----------------------------------------------------------------------------
(***************************************************************************)
(* The loop                                                                *)
(***************************************************************************)

\* A pass opens the repositories, and reads "main" in all of them. Without a
\* clone of the origin changeset the calculation fails, and the pass leaves
\* nothing behind.
StartPass ==
    /\ pass = "idle"
    /\ clones[Tracked] > 0
    /\ pass' = IF origin.branch = "main" THEN "opening" ELSE "pass"
    /\ UNCHANGED <<newest, cache, previous, request, faults>>

\* Another branch is read in get_branch_info, the first time in the pass that a
\* namespace asks for it: in the namespace's own turn or in an earlier one.
GetBranchInfo ==
    /\ pass \in {"opening", "pass"}
    /\ ~IsRead(cache) /\ ~LookFails(cache)
    /\ cache' = ReadBranch(cache)
    /\ UNCHANGED <<newest, pass, previous, request, faults>>

PassOpened ==
    /\ pass = "opening"
    /\ IsPrimed(cache)
    /\ pass' = "pass"
    /\ UNCHANGED <<newest, cache, previous, request, faults>>

\* read_newest(..).await.ok(): a failed read looks like no iteration.
ReadNewest ==
    /\ pass = "pass"
    /\ previous = NotRead
    /\ \/ previous' = newest.info.commit_hash /\ UNCHANGED faults
       \/ previous' = 0 /\ Fault
    /\ UNCHANGED <<newest, pass, cache, request>>

\* Mutant: the repositories are opened once and for all.
KeepRepositories == pass' = "idle" /\ previous' = NotRead /\ UNCHANGED cache

\* The pass ends, and what it read of the repositories is dropped.
LeavePass == pass' = "idle" /\ cache' = Unread /\ previous' = NotRead

\* The error ends the namespace's turn: it starts no build either.
TurnFails ==
    /\ pass = "pass" /\ previous # NotRead
    /\ CalculationFails(cache)
    /\ LeavePass
    /\ UNCHANGED <<newest, request, faults>>

\* new_build_set_iteration_is_needed and db::iteration::create. The diff looks
\* at commit hashes only. A request that is still calculating took its
\* created_at before this.
CreateIterationIfNeeded ==
    /\ pass = "pass" /\ previous # NotRead
    /\ IsRead(cache) /\ ~CalculationFails(cache)
    /\ IF previous # cache.commit_hash
       THEN /\ newest' = [info |-> cache, built |-> 0]
            /\ request' = [request EXCEPT !.overtaken = request.phase = "calculating"]
       ELSE UNCHANGED <<newest, request>>
    /\ pass' = "schedule" /\ previous' = NotRead
    /\ UNCHANGED <<cache, faults>>

\* create_pipeline names the branch, not the commit of the iteration.
CreatePipeline ==
    /\ newest.info.commit_hash > 0
    /\ newest.built = 0
    /\ newest' = [newest EXCEPT !.built = head[Tracked]]

\* The newest iteration may have other builds to start, or none.
ScheduleBuild ==
    /\ pass = "schedule"
    /\ CreatePipeline \/ UNCHANGED newest
    /\ LeavePass
    /\ UNCHANGED <<request, faults>>

-----------------------------------------------------------------------------
(***************************************************************************)
(* create_namespace_iteration                                              *)
(***************************************************************************)

\* SourceRepos::new. Of another branch than "main" it reads nothing, and the
\* request goes on to take its created_at.
RequestIteration ==
    /\ request.phase = "none"
    /\ clones[Tracked] > 0
    /\ request' = [NoRequest EXCEPT !.phase =
            IF origin.branch = "main" THEN "opening" ELSE "calculating"]
    /\ UNCHANGED <<newest, pass, cache, previous, faults>>

RequestReads ==
    /\ request.phase \in {"opening", "calculating"}
    /\ ~IsRead(request.info) /\ ~LookFails(request.info)
    /\ request' = [request EXCEPT !.info = ReadBranch(request.info)]
    /\ UNCHANGED <<newest, pass, cache, previous, faults>>

ReposOpened ==
    /\ request.phase = "opening"
    /\ IsPrimed(request.info)
    /\ request' = [request EXCEPT !.phase = "opened"]
    /\ UNCHANGED <<newest, pass, cache, previous, faults>>

\* The branch has been read before this, and is read no more.
TakeCreatedAt ==
    /\ request.phase = "opened"
    /\ request' = [request EXCEPT !.phase = "calculating"]
    /\ UNCHANGED <<newest, pass, cache, previous, faults>>

\* The iteration is inserted, behind one with a later created_at.
AnswerRequest ==
    /\ request.phase = "calculating"
    /\ IsRead(request.info) /\ ~CalculationFails(request.info)
    /\ newest' = IF request.overtaken THEN newest
                 ELSE [info |-> request.info, built |-> 0]
    /\ request' = NoRequest
    /\ UNCHANGED <<pass, cache, previous, faults>>

\* A call fails, or the calculation.
RequestFails ==
    /\ request.phase # "none"
    /\ request' = NoRequest
    /\ UNCHANGED <<newest, pass, cache, previous, faults>>

-----------------------------------------------------------------------------
\* An await of the pass returns an error.
PassFails == pass # "idle" /\ Fault /\ LeavePass /\ UNCHANGED <<newest, request>>

\* The server is one process.
ServerCrash == Crash /\ LeavePass /\ request' = NoRequest /\ UNCHANGED <<origin, newest>>

BuildLoop ==
    /\ \/ StartPass
       \/ GetBranchInfo
       \/ PassOpened
       \/ ReadNewest
       \/ TurnFails
       \/ CreateIterationIfNeeded
       \/ ScheduleBuild
    /\ UNCHANGED <<gitlab, disk, dates, round, keeper, origin>>

Handler ==
    /\ \/ RequestIteration
       \/ RequestReads
       \/ ReposOpened
       \/ TakeCreatedAt
       \/ AnswerRequest
       \/ RequestFails
       \/ PassFails
    /\ UNCHANGED <<gitlab, disk, dates, round, keeper, origin>>

Next ==
    \/ (Gitlab \/ FetchLoop \/ FailedCall) /\ UNCHANGED tracking
    \/ BuildLoop
    \/ Handler
    \/ ServerCrash

\* Both loops are tasks that always go on.
TrackSpec ==
    /\ TrackInit /\ [][Next]_vars
    /\ WF_vars(FetchLoop /\ UNCHANGED tracking)
    /\ WF_vars(BuildLoop)

-----------------------------------------------------------------------------
Infos == [source_info : Nat, commit_hash : Nat]

TrackTypeOK ==
    /\ origin \in Origins
    /\ newest \in [info : Infos, built : Nat]
    /\ pass \in {"idle", "opening", "pass", "schedule"}
    /\ cache \in Infos /\ previous \in Nat \union {NotRead}
    /\ request \in [phase : {"none", "opening", "opened", "calculating"},
                    info : Infos, overtaken : BOOLEAN]
    /\ pass = "idle" => cache = Unread
    /\ pass # "pass" => previous = NotRead
    /\ request.overtaken => request.phase = "calculating"

\* The .SRCINFO of an iteration is never newer than its commit hash, nor is
\* that newer than what GitLab builds for it, though the three come from three
\* looks at a branch that moves in between. A .SRCINFO that is newer would be
\* noticed in the next pass, an older one never is: the order of the two reads
\* decides what the race leaves behind (read_branch_info_from_disk).
BuildsAreNotOlder ==
    /\ newest.info.source_info <= newest.info.commit_hash
    /\ newest.built > 0 => newest.info.commit_hash <= newest.built

\* "If you change commits or push new ones to your branch, buildbtw will
\* automatically create a new iteration for your namespace." When pushes have
\* ended, the newest iteration shows the newest commit, and keeps showing it,
\* whatever the order in which fetches, passes with repositories read before
\* and requests with older timestamps, or with older commits, came to an end.
\* That is not so when a project cannot be fetched, and not when the newest
\* commit has no .SRCINFO that can be used: the namespace's turn fails in every
\* pass then, with "Missing source info for origin changeset" or "Build graph
\* contains cycles", and an older iteration stays the newest one.
IterationsSettle ==
    <>[](\/ head[Tracked] = 0
         \/ broken \union Unfetchable # {}
         \/ origin.srcinfo[head[Tracked]] # "valid"
         \/ newest.info.commit_hash = head[Tracked])
=============================================================================
