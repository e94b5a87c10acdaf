------------------------ MODULE IterationSourcesProofs -----------------------
(***************************************************************************)
(* In the composition of the fetch loop with the build loop and requests,  *)
(* no change is missed, and what an iteration shows is never newer than    *)
(* what is built for it. Clones only move forward and stay behind GitLab,  *)
(* so of two looks at a branch the second one shows the newer commit.      *)
(***************************************************************************)
EXTENDS IterationSources, SourceFetchProofs

ClonesFollow == \A p \in Projects : clones[p] <= head[p]

\* A BranchInfo, half read or read.
InfoIsOrdered(info) ==
    /\ info.source_info <= clones[Tracked] /\ info.commit_hash <= clones[Tracked]
    /\ info.commit_hash > 0 => info.source_info > 0
    /\ info.commit_hash > 0 => info.source_info <= info.commit_hash

InfosAreOrdered ==
    /\ InfoIsOrdered(cache)
    /\ InfoIsOrdered(request.info)
    /\ InfoIsOrdered(newest.info)
    /\ newest.info.commit_hash = 0 => newest.info.source_info = 0

TrackInv ==
    /\ IInv
    /\ TrackTypeOK
    /\ ClonesFollow
    /\ InfosAreOrdered
    /\ BuildsAreNotOlder

-----------------------------------------------------------------------------
LEMMA InitTrackInv == TrackInit => TrackInv
BY InitIInv, TrackedAssumption
   DEF TrackInit, TrackInv, TrackTypeOK, ClonesFollow, InfosAreOrdered, InfoIsOrdered,
       BuildsAreNotOlder, Infos, NoIteration, NoRequest, Unread, NotRead, Init

LEMMA ClonesMoveForward ==
    ASSUME IInv, ClonesFollow, FetchNext
    PROVE  ClonesFollow' /\ \A p \in Projects : clones'[p] >= clones[p]
<1>1. CASE Gitlab
  BY <1>1 DEF Gitlab, Push, EditProject, IInv, TypeOK, ClonesFollow, disk
<1>2. CASE ~Gitlab
  <2>1. UNCHANGED head
    BY <1>2 DEF FetchNext, FetchLoop, FailedCall, Crash, QueryFails, QueryPage, UpdaterFails,
       SpawnTask, TaskFetches, TaskFails, JoinTask, JoinFailedTask, ServerKeepsDate,
       UpdaterKeepsDate, fetch_vars, gitlab
  <2>2. \A p \in Projects : clones'[p] \in {clones[p], head[p]}
    <3>1. CASE UNCHANGED clones
      BY <3>1
    <3>2. ASSUME NEW p \in Projects, TaskFetches(p)
          PROVE  \A q \in Projects : clones'[q] \in {clones[q], head[q]}
      BY <3>2 DEF TaskFetches, IInv, TypeOK
    <3>3. ASSUME NEW p \in Projects, JoinFailedTask(p)
          PROVE  \A q \in Projects : clones'[q] \in {clones[q], head[q]}
      BY <3>3 DEF JoinFailedTask, IInv, TypeOK
    <3> QED
      BY <1>2, <3>1, <3>2, <3>3 DEF FetchNext, FetchLoop, FailedCall, Crash, QueryFails,
         QueryPage, UpdaterFails, SpawnTask, TaskFails, JoinTask, ServerKeepsDate,
         UpdaterKeepsDate, fetch_vars, disk
  <2> QED
    BY <2>1, <2>2 DEF IInv, TypeOK, ClonesFollow
<1> QED
  BY <1>1, <1>2

LEMMA FetchStepKeeps ==
    ASSUME TrackInv, FetchNext, UNCHANGED <<origin, newest>>,
           \/ UNCHANGED <<pass, cache, previous, request>>
           \/ LeavePass /\ request' = NoRequest
    PROVE  TrackInv'
<1>1. IInv'
  BY NextIInv DEF TrackInv
<1>2. ClonesFollow' /\ clones'[Tracked] >= clones[Tracked]
  BY ClonesMoveForward, TrackedAssumption DEF TrackInv
<1>3. clones[Tracked] \in Nat /\ clones'[Tracked] \in Nat
  BY <1>1, TrackedAssumption DEF TrackInv, IInv, TypeOK
<1>4. TrackTypeOK'
  <2>1. CASE UNCHANGED <<pass, cache, previous, request>>
    BY <2>1 DEF TrackInv, TrackTypeOK
  <2>2. CASE LeavePass /\ request' = NoRequest
    <3>1. Unread \in Infos
      BY DEF Unread, Infos
    <3>2. /\ pass' = "idle" /\ cache' = Unread /\ previous' = NotRead
          /\ request' = [phase |-> "none", info |-> Unread, overtaken |-> FALSE]
      BY <2>2 DEF LeavePass, NoRequest
    <3>3. newest' \in [info : Infos, built : Nat] /\ origin' \in Origins
      BY DEF TrackInv, TrackTypeOK
    <3> QED
      BY <3>1, <3>2, <3>3 DEF TrackTypeOK
  <2> QED
    BY <2>1, <2>2
<1>5. InfosAreOrdered'
  <2>1. ASSUME NEW info \in Infos, InfoIsOrdered(info)
        PROVE  InfoIsOrdered(info)'
    BY <2>1, <1>2, <1>3 DEF InfoIsOrdered, Infos
  <2>2. InfoIsOrdered(Unread)' /\ Unread \in Infos
    BY <1>3 DEF InfoIsOrdered, Unread, Infos
  <2>3. /\ cache' \in {cache, Unread}
        /\ request'.info \in {request.info, Unread}
        /\ newest' = newest
    BY DEF LeavePass, NoRequest
  <2>4. /\ cache \in Infos /\ InfoIsOrdered(cache)
        /\ request.info \in Infos /\ InfoIsOrdered(request.info)
        /\ newest.info \in Infos /\ InfoIsOrdered(newest.info)
        /\ newest.info.commit_hash = 0 => newest.info.source_info = 0
    BY DEF TrackInv, TrackTypeOK, InfosAreOrdered
  <2>5. /\ \A info \in {cache, request.info, newest.info, Unread} :
               /\ info.source_info <= clones'[Tracked]
               /\ info.commit_hash <= clones'[Tracked]
               /\ info.commit_hash > 0 => info.source_info > 0
               /\ info.commit_hash > 0 => info.source_info <= info.commit_hash
    BY <2>1, <2>2, <2>4 DEF InfoIsOrdered
  <2>6. InfoIsOrdered(cache)'
    BY <2>3, <2>5 DEF InfoIsOrdered
  <2>7. InfoIsOrdered(request.info)'
    BY <2>3, <2>5 DEF InfoIsOrdered
  <2>8. InfoIsOrdered(newest.info)'
    BY <2>3, <2>5 DEF InfoIsOrdered
  <2> QED
    BY <2>3, <2>4, <2>6, <2>7, <2>8 DEF InfosAreOrdered
<1>6. BuildsAreNotOlder'
  BY DEF TrackInv, BuildsAreNotOlder
<1> QED
  BY <1>1, <1>2, <1>4, <1>5, <1>6 DEF TrackInv

\* The steps of the loop and the requests leave the fetch loop alone.
LEMMA ReadersLeaveClones ==
    ASSUME TrackInv, UNCHANGED <<gitlab, disk, dates, round, keeper>>,
           Fault \/ UNCHANGED faults
    PROVE  IInv' /\ ClonesFollow' /\ clones' = clones /\ head' = head
<1>1. faults' \in Nat
  BY FaultIsCounted DEF TrackInv, IInv
<1> QED
  BY <1>1 DEF TrackInv, gitlab, disk, dates, round, IInv, TypeOK, DatesOfProjects,
     DatesAreOld, NoChangeIsMissed, RoundKeepsTrack, Behind, Finds, InResults, ToBeListed,
     FoundByFirst, ClonesFollow

LEMMA ReadBranchIsOrdered ==
    ASSUME TrackInv, NEW info \in Infos, InfoIsOrdered(info)
    PROVE  ReadBranch(info) \in Infos /\ InfoIsOrdered(ReadBranch(info))
<1>1. clones[Tracked] \in Nat
  BY TrackedAssumption DEF TrackInv, IInv, TypeOK
<1> QED
  BY <1>1 DEF ReadBranch, Infos, InfoIsOrdered

LEMMA BuildLoopKeeps ==
    ASSUME TrackInv, BuildLoop
    PROVE  TrackInv'
<1>1. IInv' /\ ClonesFollow' /\ clones' = clones /\ head' = head
  <2>1. UNCHANGED <<gitlab, disk, dates, round, keeper>> /\ (Fault \/ UNCHANGED faults)
    BY DEF BuildLoop, StartPass, GetBranchInfo, PassOpened, ReadNewest, TurnFails,
       CreateIterationIfNeeded, ScheduleBuild
  <2> QED
    BY <2>1, ReadersLeaveClones
<1> USE <1>1 DEF TrackInv, TrackTypeOK, InfosAreOrdered, InfoIsOrdered, BuildsAreNotOlder, Infos
<1>0. origin' = origin
  BY DEF BuildLoop
<1>c. clones[Tracked] \in Nat
  BY TrackedAssumption DEF IInv, TypeOK
<1>2. CASE StartPass
  BY <1>0, <1>2 DEF StartPass
<1>3. CASE GetBranchInfo
  BY <1>0, <1>3, ReadBranchIsOrdered DEF GetBranchInfo
<1>4. CASE PassOpened
  BY <1>0, <1>4 DEF PassOpened
<1>5. CASE ReadNewest
  BY <1>0, <1>5 DEF ReadNewest, NotRead
<1>6. CASE TurnFails
  <2>1. /\ pass' = "idle" /\ cache' = Unread /\ previous' = NotRead
        /\ UNCHANGED <<newest, request>>
    BY <1>6 DEF TurnFails, LeavePass
  <2>2. Unread \in Infos /\ Unread.source_info = 0 /\ Unread.commit_hash = 0
    BY DEF Unread
  <2>3. TrackTypeOK'
    BY <1>0, <2>1, <2>2
  <2> QED
    BY <2>1, <2>2, <2>3, <1>c
<1>7. CASE CreateIterationIfNeeded
  <2>1. UNCHANGED cache /\ pass' = "schedule" /\ previous' = NotRead
    BY <1>7 DEF CreateIterationIfNeeded
  <2>2. CASE UNCHANGED <<newest, request>>
    BY <1>0, <2>1, <2>2
  <2>3. CASE newest' = [info |-> cache, built |-> 0]
             /\ request' = [request EXCEPT !.overtaken = request.phase = "calculating"]
    <3>1. cache.commit_hash > 0
      BY <1>7 DEF CreateIterationIfNeeded, IsRead
    <3>2. /\ newest'.info = cache /\ newest'.built = 0
          /\ request'.phase = request.phase /\ request'.info = request.info
          /\ request'.overtaken = (request.phase = "calculating")
      BY <2>3
    <3>3. TrackTypeOK'
      BY <1>0, <2>1, <2>3, <3>2
    <3>4. InfosAreOrdered' /\ BuildsAreNotOlder'
      BY <2>1, <3>1, <3>2, <1>c
    <3> QED
      BY <3>3, <3>4
  <2> QED
    BY <1>7, <2>2, <2>3 DEF CreateIterationIfNeeded
<1>8. CASE ScheduleBuild
  <2>1. head[Tracked] \in Nat /\ clones[Tracked] \in Nat /\ clones[Tracked] <= head[Tracked]
    BY TrackedAssumption DEF ClonesFollow, IInv, TypeOK
  <2> QED
    BY <1>0, <1>8, <2>1 DEF ScheduleBuild, CreatePipeline, LeavePass, Unread, NotRead
<1> QED
  BY <1>2, <1>3, <1>4, <1>5, <1>6, <1>7, <1>8 DEF BuildLoop

LEMMA HandlerKeeps ==
    ASSUME TrackInv, Handler
    PROVE  TrackInv'
<1>1. IInv' /\ ClonesFollow' /\ clones' = clones /\ head' = head
  <2>1. UNCHANGED <<gitlab, disk, dates, round, keeper>> /\ (Fault \/ UNCHANGED faults)
    BY DEF Handler, RequestIteration, RequestReads, ReposOpened, TakeCreatedAt,
       AnswerRequest, RequestFails, PassFails
  <2> QED
    BY <2>1, ReadersLeaveClones
<1>0. clones[Tracked] \in Nat
  BY TrackedAssumption DEF TrackInv, IInv, TypeOK
<1> USE <1>0, <1>1
    DEF TrackInv, TrackTypeOK, InfosAreOrdered, InfoIsOrdered, BuildsAreNotOlder, Infos
<1>h. origin' = origin
  BY DEF Handler
<1>2. CASE RequestIteration
  <2>1. PICK phase \in {"opening", "calculating"} :
            request' = [phase |-> phase, info |-> [source_info |-> 0, commit_hash |-> 0],
                        overtaken |-> FALSE]
    <3> DEFINE phase == IF origin.branch = "main" THEN "opening" ELSE "calculating"
    <3>1. request' = [phase |-> phase, info |-> [source_info |-> 0, commit_hash |-> 0],
                      overtaken |-> FALSE]
      BY <1>2 DEF RequestIteration, NoRequest, Unread
    <3>2. phase \in {"opening", "calculating"}
      OBVIOUS
    <3> QED
      BY <3>1, <3>2
  <2>2. UNCHANGED <<newest, pass, cache, previous>>
    BY <1>2 DEF RequestIteration
  <2>3. request' \in [phase : {"none", "opening", "opened", "calculating"},
                      info : Infos, overtaken : BOOLEAN]
    BY <2>1
  <2>4. request'.info.source_info = 0 /\ request'.info.commit_hash = 0 /\ ~request'.overtaken
    BY <2>1
  <2>5. TrackTypeOK'
    BY <1>h, <2>2, <2>3, <2>4
  <2>6. InfosAreOrdered' /\ BuildsAreNotOlder'
    BY <2>2, <2>4
  <2> QED
    BY <2>5, <2>6
<1>3. CASE RequestReads
  BY <1>h, <1>3, ReadBranchIsOrdered DEF RequestReads
<1>4. CASE ReposOpened \/ TakeCreatedAt
  BY <1>h, <1>4 DEF ReposOpened, TakeCreatedAt
<1>5. CASE AnswerRequest
  BY <1>h, <1>5 DEF AnswerRequest, NoRequest, Unread, IsRead
<1>6. CASE RequestFails
  BY <1>h, <1>6 DEF RequestFails, NoRequest, Unread
<1>7. CASE PassFails
  BY <1>h, <1>7 DEF PassFails, LeavePass, Unread, NotRead
<1> QED
  BY <1>2, <1>3, <1>4, <1>5, <1>6, <1>7 DEF Handler

LEMMA NextTrackInv == TrackInv /\ [Next]_vars => TrackInv'
<1> SUFFICES ASSUME TrackInv, [Next]_vars
             PROVE  TrackInv'
  OBVIOUS
<1>1. CASE UNCHANGED vars
  <2>1. IInv'
    BY <1>1, NextIInv DEF vars, TrackInv
  <2> QED
    BY <1>1, <2>1 DEF vars, tracking, fetch_vars, gitlab, disk, TrackInv, TrackTypeOK,
       ClonesFollow, InfosAreOrdered, InfoIsOrdered, BuildsAreNotOlder
<1>2. CASE (Gitlab \/ FetchLoop \/ FailedCall) /\ UNCHANGED tracking
  BY <1>2, FetchStepKeeps DEF FetchNext, tracking
<1>3. CASE ServerCrash
  BY <1>3, FetchStepKeeps DEF FetchNext, ServerCrash
<1> QED
  BY <1>1, <1>2, <1>3, BuildLoopKeeps, HandlerKeeps DEF Next

-----------------------------------------------------------------------------
THEOREM TrackInvariant == TrackSpec => []TrackInv
<1>1. TrackInv /\ [Next]_vars => TrackInv'
  BY NextTrackInv
<1> QED
  BY InitTrackInv, <1>1, PTL DEF TrackSpec

\* The state of passes and requests is well formed: nothing that was read of
\* the repositories outlives a pass (SourceRepos::new in every pass).
THEOREM TrackTypeCorrect == TrackSpec => []TrackTypeOK
<1>1. TrackInv => TrackTypeOK
  BY DEF TrackInv
<1> QED
  BY TrackInvariant, <1>1, PTL

\* No commit is forgotten while the loop and requests read the repositories,
\* which is what iterations rely on (fetch_all_source_repo_changes).
THEOREM TrackMissesNoChange == TrackSpec => []NoChangeIsMissed
<1>1. TrackInv => NoChangeIsMissed
  BY DEF TrackInv, IInv
<1> QED
  BY TrackInvariant, <1>1, PTL

\* An iteration's .SRCINFO is never newer than its commit, and that never
\* newer than what is built, for every interleaving of fetches, pushes, passes
\* and requests (read_branch_info_from_disk, create_pipeline).
THEOREM TrackBuildsAreNotOlder == TrackSpec => []BuildsAreNotOlder
<1>1. TrackInv => BuildsAreNotOlder
  BY DEF TrackInv
<1> QED
  BY TrackInvariant, <1>1, PTL
=============================================================================
