----------------------- MODULE GitlabRefinementProofs ------------------------
(***************************************************************************)
(* GitlabDispatch implements BuildProgress, results are never taken back   *)
(* and pipelines not created twice without a fault, for any number of      *)
(* namespaces, architectures, packages, iterations and faults.             *)
(*                                                                         *)
(* GitlabDispatchProofs shows that a copy may be written back at any time  *)
(* without harm to what rows and pipelines justify. That is not enough     *)
(* here: a justified copy can still be older than the row it replaces. So  *)
(* the invariant says that copies which are written are not: what the loop *)
(* has listed or read is what is in the table, because handlers add rows   *)
(* and only the loop changes them.                                         *)
(***************************************************************************)
EXTENDS GitlabDispatchProofs

\* Statuses in q are those in p, or what GitLab says of a build in progress.
Advances(p, q) ==
    \A a \in DOMAIN p : \A b \in Nodes(p[a]) :
        \/ q[a].status[b] = p[a].status[b]
        \/ /\ p[a].status[b] \in InProgress
           /\ q[a].status[b] \in InProgress \union Settled

ListedAreCurrent ==
    /\ \A i \in DOMAIN to_poll : to_poll[i] = iterations[i].packages_to_be_built
    /\ pc \notin {"poll", "check"} => DOMAIN to_poll = {}

FoundAdvances ==
    pc = "check" =>
        /\ Advances(to_poll[polled], new_packages)
        /\ \A a, b : <<a, b>> \in unchecked =>
                to_poll[polled][a].status[b] \in InProgress

ReadIsCurrent ==
    /\ pc \in {"schedule", "record", "update"} =>
        iteration.packages_to_be_built = iterations[iteration.id].packages_to_be_built
    /\ pc \in {"record", "update"} => build.pkgbase \in Ready(build.architecture)

\* Every iteration has a timestamp, and so has every request.
RowsAreCounted ==
    /\ IsFiniteSet(requests)
    /\ Len(iterations) + Cardinality(requests) <= clock
    /\ clock <= MaxIterations

CInv ==
    /\ IInv
    /\ ListedAreCurrent
    /\ FoundAdvances
    /\ ReadIsCurrent
    /\ RowsAreCounted

-----------------------------------------------------------------------------
LEMMA InitCInv == Init => CInv
<1> SUFFICES ASSUME Init
             PROVE  CInv
  OBVIOUS
<1>1. IInv
  BY InitIInv
<1>2. IsFiniteSet(requests) /\ Cardinality(requests) = 0
  BY FS_EmptySet DEF Init
<1>3. Len(iterations) = 0 /\ clock = 0 /\ MaxIterations \in Nat
  BY BoundsAssumption DEF Init
<1>4. DOMAIN to_poll = {} /\ pc = "idle"
  BY DEF Init
<1> QED
  BY <1>1, <1>2, <1>3, <1>4
     DEF CInv, ListedAreCurrent, FoundAdvances, ReadIsCurrent, RowsAreCounted

\* Steps of the handlers and of GitLab, which at most add iterations.
LEMMA CurrentStays ==
    ASSUME CInv, UNCHANGED loop,
           \A i \in DOMAIN iterations :
                iterations'[i].packages_to_be_built = iterations[i].packages_to_be_built
    PROVE  ListedAreCurrent' /\ FoundAdvances' /\ ReadIsCurrent'
<1> USE DEF loop, polling, scheduling, CInv
<1>1. ListedAreCurrent'
  BY DEF ListedAreCurrent, IInv, Polling
<1>2. FoundAdvances'
  BY DEF FoundAdvances
<1>3. pc \in {"schedule", "record", "update"} => iteration.id \in DOMAIN iterations
  BY DEF IInv, Scheduling
<1>4. ReadIsCurrent'
  BY <1>3 DEF ReadIsCurrent, Ready
<1> QED
  BY <1>1, <1>2, <1>4

\* A row that is added.
LEMMA InsertedRow ==
    ASSUME CInv, NEW ns, NEW time, NEW reason, NEW packages,
           InsertIteration(ns, time, reason, packages)
    PROVE  /\ Len(iterations') = Len(iterations) + 1
           /\ \A i \in DOMAIN iterations : iterations'[i] = iterations[i]
<1>1. iterations \in Seq(IterationRow)
  BY DEF CInv, IInv, Tables
<1> QED
  BY <1>1 DEF InsertIteration

\* A row that is written.
LEMMA UpdatedRow ==
    ASSUME CInv, NEW id \in DOMAIN iterations, NEW q, UpdatePackages(id, q)
    PROVE  /\ Len(iterations') = Len(iterations)
           /\ DOMAIN iterations' = DOMAIN iterations
           /\ iterations'[id].packages_to_be_built = q
           /\ \A i \in DOMAIN iterations : i # id => iterations'[i] = iterations[i]
<1>1. iterations \in Seq(IterationRow)
  BY DEF CInv, IInv, Tables
<1> DEFINE row == [iterations[id] EXCEPT !.packages_to_be_built = q]
<1>2. row.packages_to_be_built = q
  BY <1>1 DEF IterationRow
<1>3. iterations' = [iterations EXCEPT ![id] = row]
  BY <1>1 DEF UpdatePackages
<1> HIDE DEF row
<1>4. /\ DOMAIN iterations' = DOMAIN iterations
      /\ iterations'[id] = row
      /\ \A i \in DOMAIN iterations : i # id => iterations'[i] = iterations[i]
  BY <1>1, <1>3
<1>5. Len(iterations') = Len(iterations)
  BY <1>1, <1>3
<1> QED
  BY <1>2, <1>4, <1>5

-----------------------------------------------------------------------------
(***************************************************************************)
(* Counting                                                                *)
(***************************************************************************)

LEMMA ReservedIsNat == Reserved \in Nat
<1> DEFINE S == {ns \in Namespaces :
                    \/ OfNamespace(ns) = {}
                    \/ pc = "calculate" /\ namespace = ns /\ previous = 0}
<1>1. IsFiniteSet(S)
  BY BoundsAssumption, FS_Subset
<1> QED
  BY <1>1, FS_CardinalityType DEF Reserved

LEMMA StillCounted ==
    ASSUME CInv, UNCHANGED <<requests, clock>>, Len(iterations') = Len(iterations)
    PROVE  RowsAreCounted'
BY DEF CInv, RowsAreCounted

LEMMA CreationCounted ==
    ASSUME CInv, NEW packages \in BuildSets, CreateIterationIfNeeded(packages)
    PROVE  RowsAreCounted'
<1>1. /\ IsFiniteSet(requests) /\ Cardinality(requests) \in Nat
      /\ Len(iterations) + Cardinality(requests) <= clock /\ clock <= MaxIterations
      /\ clock \in Nat /\ Len(iterations) \in Nat /\ MaxIterations \in Nat
  BY FS_CardinalityType, BoundsAssumption DEF CInv, RowsAreCounted, IInv, Typed, Tables
<1>2. UNCHANGED requests
  BY DEF CreateIterationIfNeeded
<1>3. CASE NewIterationIsNeeded(packages)
  <2>1. clock < MaxIterations /\ clock' = clock + 1
    BY <1>3 DEF CreateIterationIfNeeded
  <2>2. Len(iterations') = Len(iterations) + 1
    BY <1>3, InsertedRow DEF CreateIterationIfNeeded
  <2> QED
    BY <1>1, <1>2, <2>1, <2>2 DEF RowsAreCounted
<1>4. CASE ~NewIterationIsNeeded(packages)
  BY <1>4, <1>2, StillCounted DEF CreateIterationIfNeeded
<1> QED
  BY <1>3, <1>4

LEMMA RequestsCounted ==
    ASSUME CInv,
           \/ \E ns \in Namespaces : RequestIteration(ns)
           \/ \E request \in requests, packages \in BuildSets :
                    AnswerRequest(request, packages)
           \/ \E request \in requests : RequestFails(request)
           \/ Crash
    PROVE  RowsAreCounted'
<1>1. /\ IsFiniteSet(requests) /\ Cardinality(requests) \in Nat
      /\ Len(iterations) + Cardinality(requests) <= clock /\ clock <= MaxIterations
      /\ clock \in Nat /\ Len(iterations) \in Nat /\ MaxIterations \in Nat
  BY FS_CardinalityType, BoundsAssumption DEF CInv, RowsAreCounted, IInv, Typed, Tables
<1>2. ASSUME NEW ns \in Namespaces, RequestIteration(ns)
      PROVE  RowsAreCounted'
  <2>1. /\ clock < MaxIterations /\ clock' = clock + 1
        /\ UNCHANGED iterations
    BY <1>1, <1>2, ReservedIsNat DEF RequestIteration, database
  <2>2. PICK r : requests' = requests \union {r}
    BY <1>2 DEF RequestIteration
  <2>3. /\ IsFiniteSet(requests')
        /\ Cardinality(requests') \in {Cardinality(requests), Cardinality(requests) + 1}
    BY <1>1, <2>2, FS_AddElement
  <2> QED
    BY <1>1, <2>1, <2>3 DEF RowsAreCounted
<1>3. ASSUME NEW request \in requests
      PROVE  /\ IsFiniteSet(requests \ {request})
             /\ Cardinality(requests \ {request}) = Cardinality(requests) - 1
  BY <1>1, <1>3, FS_RemoveElement
<1>4. ASSUME NEW request \in requests, NEW packages \in BuildSets,
             AnswerRequest(request, packages)
      PROVE  RowsAreCounted'
  <2>1. Len(iterations') = Len(iterations) + 1
    BY <1>4, InsertedRow DEF AnswerRequest
  <2>2. requests' = requests \ {request} /\ clock' = clock
    BY <1>4 DEF AnswerRequest, bounds
  <2> QED
    BY <1>1, <1>3, <2>1, <2>2 DEF RowsAreCounted
<1>5. ASSUME NEW request \in requests, RequestFails(request)
      PROVE  RowsAreCounted'
  <2>1. requests' = requests \ {request} /\ UNCHANGED <<clock, iterations>>
    BY <1>5 DEF RequestFails, bounds, database
  <2> QED
    BY <1>1, <1>3, <2>1 DEF RowsAreCounted
<1>6. ASSUME Crash
      PROVE  RowsAreCounted'
  <2>1. requests' = {} /\ UNCHANGED <<clock, iterations>>
    BY <1>6 DEF Crash, Fault, database
  <2> QED
    BY <1>1, <2>1, FS_EmptySet DEF RowsAreCounted
<1> QED
  BY <1>2, <1>4, <1>5, <1>6

-----------------------------------------------------------------------------
(***************************************************************************)
(* The copies                                                              *)
(***************************************************************************)

\* Polling: only PersistIteration writes, and it writes what it has listed.
LEMMA PollingKeepsCurrent ==
    ASSUME CInv,
           \/ StartPass
           \/ \E id \in DOMAIN iterations : PollIteration(id)
           \/ \E a \in Architectures, b \in Pkgbases : CheckPipeline(a, b)
           \/ PersistIteration
           \/ PollingFails
           \/ PassFails
           \/ ListActiveNamespaces
    PROVE  CInv'
<1>i. IInv'
  BY NextIInv DEF CInv, Next, LoopStep, Failure
<1>p. Polling(iterations, gitlab_pipelines, pipelines, pc, to_poll, polled,
              unchecked, new_packages)
  BY DEF CInv, IInv
<1> USE DEF database, polling, scheduling, bounds
<1>1. ASSUME StartPass
      PROVE  CInv'
  <2>1. RowsAreCounted'
    BY <1>1, StillCounted DEF StartPass
  <2>2. ListedAreCurrent' /\ FoundAdvances' /\ ReadIsCurrent'
    BY <1>1 DEF StartPass, ListedAreCurrent, FoundAdvances, ReadIsCurrent
  <2> QED
    BY <1>i, <2>1, <2>2 DEF CInv
<1>2. ASSUME NEW id \in DOMAIN iterations, PollIteration(id)
      PROVE  CInv'
  <2>1. RowsAreCounted'
    BY <1>2, StillCounted DEF PollIteration
  <2>2. ListedAreCurrent' /\ ReadIsCurrent'
    BY <1>2 DEF PollIteration, CInv, ListedAreCurrent, ReadIsCurrent
  <2>3. \A a, b : <<a, b>> \in unchecked' => to_poll[id][a].status[b] \in InProgress
    BY <1>2 DEF PollIteration, InProgressBuilds
  <2>4. FoundAdvances'
    BY <1>2, <2>3 DEF PollIteration, FoundAdvances, Advances
  <2> QED
    BY <1>i, <2>1, <2>2, <2>4 DEF CInv
<1>3. ASSUME NEW a \in Architectures, NEW b \in Pkgbases, CheckPipeline(a, b)
      PROVE  CInv'
  <2>1. RowsAreCounted'
    BY <1>3, StillCounted DEF CheckPipeline
  <2>2. ListedAreCurrent' /\ ReadIsCurrent'
    BY <1>3 DEF CheckPipeline, CInv, ListedAreCurrent, ReadIsCurrent
  <2>3. /\ polled \in DOMAIN to_poll
        /\ to_poll[polled] \in Packages /\ new_packages \in Packages
        /\ SameShape(to_poll[polled], new_packages)
        /\ a \in DOMAIN to_poll[polled] /\ b \in Nodes(to_poll[polled][a])
        /\ Advances(to_poll[polled], new_packages)
        /\ to_poll[polled][a].status[b] \in InProgress
    BY <1>3, <1>p DEF CheckPipeline, Polling, Copy, SameShape, CInv, FoundAdvances
  <2>4. Advances(to_poll[polled], new_packages')
    <3>1. CASE UNCHANGED new_packages
      BY <2>3, <3>1
    <3>2. ASSUME NEW row \in PipelineRows(polled, a, b),
                 NoteStatus(a, b, pipelines[row.gitlab_iid].status)
          PROVE  Advances(to_poll[polled], new_packages')
      <4> DEFINE current == FromPipelineStatus(pipelines[row.gitlab_iid].status)
                 p == to_poll[polled]
                 g == SetBuildStatus(p[a], b, current)
      <4>1. current \in InProgress \union Settled
        BY DEF FromPipelineStatus, InProgress, Settled
      <4>2. \/ new_packages' = new_packages
            \/ new_packages' = [new_packages EXCEPT ![a] = g]
        BY <3>2 DEF NoteStatus
      <4>3. current \in PackageBuildStatus
        BY <4>1 DEF InProgress, Settled, PackageBuildStatus
      <4> HIDE DEF current
      <4>4. g.status = [p[a].status EXCEPT ![b] = current]
        <5>1. SetBuildStatus(p[a], b, current) = ReserveBuild(p[a], b, current)
              /\ ReserveBuild(p[a], b, current).status = [p[a].status EXCEPT ![b] = current]
          BY <2>3, <4>3, PackagesShape, ReservedGraph
        <5> QED
          BY <5>1
      <4>5. p[a].status \in [Nodes(p[a]) -> PackageBuildStatus]
        BY <2>3, PackagesShape
      <4>6. new_packages = [c \in DOMAIN new_packages |-> new_packages[c]]
            /\ DOMAIN new_packages = DOMAIN p
        <5>1. new_packages \in [DOMAIN new_packages -> Graphs]
          BY <2>3 DEF Packages
        <5> QED
          BY <5>1, <2>3 DEF SameShape
      <4>7. p[a].status[b] \in InProgress /\ a \in DOMAIN p /\ b \in Nodes(p[a])
            /\ Advances(p, new_packages)
        BY <2>3
      <4> HIDE DEF g, p
      <4>8. CASE new_packages' = [new_packages EXCEPT ![a] = g]
        <5>1. new_packages'[a] = g /\ \A c \in DOMAIN p : c # a => new_packages'[c] = new_packages[c]
          BY <4>6, <4>7, <4>8
        <5>2. \A n \in Nodes(p[a]) : g.status[n] = IF n = b THEN current ELSE p[a].status[n]
          BY <4>4, <4>5
        <5>3. Advances(p, new_packages')
          BY <4>1, <4>7, <5>1, <5>2 DEF Advances
        <5> QED
          BY <5>3 DEF p
      <4>9. CASE new_packages' = new_packages
        BY <4>9, <2>3
      <4> QED
        BY <4>2, <4>8, <4>9
    <3> QED
      BY <1>3, <3>1, <3>2 DEF CheckPipeline
  <2>5. FoundAdvances'
    BY <1>3, <2>4 DEF CheckPipeline, CInv, FoundAdvances
  <2> QED
    BY <1>i, <2>1, <2>2, <2>5 DEF CInv
<1>4. ASSUME PersistIteration
      PROVE  CInv'
  <2>1. polled \in DOMAIN iterations
    BY <1>4, <1>p DEF PersistIteration, Polling
  <2>2. /\ Len(iterations') = Len(iterations)
        /\ \A i \in DOMAIN iterations : i # polled => iterations'[i] = iterations[i]
    BY <1>4, <2>1, UpdatedRow DEF PersistIteration
  <2>3. RowsAreCounted'
    BY <1>4, <2>2, StillCounted DEF PersistIteration
  <2>4. ListedAreCurrent'
    BY <1>4, <1>p, <2>2 DEF PersistIteration, CInv, ListedAreCurrent, Polling
  <2>5. FoundAdvances' /\ ReadIsCurrent'
    BY <1>4 DEF PersistIteration, FoundAdvances, ReadIsCurrent
  <2> QED
    BY <1>i, <2>3, <2>4, <2>5 DEF CInv
<1>5. ASSUME PollingFails \/ PassFails \/ ListActiveNamespaces
      PROVE  CInv'
  <2>1. UNCHANGED <<requests, clock, iterations>>
    BY <1>5 DEF PollingFails, PassFails, ListActiveNamespaces, Fault
  <2>2. RowsAreCounted'
    BY <2>1, StillCounted
  <2>3. /\ to_poll' = <<>>
        /\ pc' \in {"poll", "idle", "namespaces"}
    BY <1>5 DEF PollingFails, PassFails, ListActiveNamespaces
  <2>4. ListedAreCurrent' /\ FoundAdvances' /\ ReadIsCurrent'
    BY <2>3 DEF ListedAreCurrent, FoundAdvances, ReadIsCurrent
  <2> QED
    BY <1>i, <2>2, <2>4 DEF CInv
<1> QED
  BY <1>1, <1>2, <1>3, <1>4, <1>5

\* Scheduling: only UpdateIteration writes, and it writes what it has read.
LEMMA SchedulingKeepsCurrent ==
    ASSUME CInv,
           \/ \E ns \in Namespaces : UpdateNextNamespace(ns)
           \/ \E packages \in BuildSets : CreateIterationIfNeeded(packages)
           \/ \E id \in DOMAIN iterations : ReadNewestIteration(id)
           \/ \E a \in architectures : NothingToSchedule(a)
           \/ \E a \in architectures : \E b \in Ready(a) : CreatePipeline(a, b)
           \/ \E a \in architectures : \E b \in Ready(a) : SchedulingFails(a, b)
           \/ RecordPipeline
           \/ UpdateIteration
           \/ FinishNamespace
           \/ NamespaceFails
           \/ FinishPass
    PROVE  CInv'
<1>i. IInv'
  BY NextIInv DEF CInv, Next, LoopStep, Failure
<1>s. Scheduling(iterations, gitlab_pipelines, pipelines, pc, namespace,
                 iteration, architectures, build)
  BY DEF CInv, IInv
<1> USE DEF database, polling, scheduling, bounds
<1>1. ASSUME NEW ns \in Namespaces, UpdateNextNamespace(ns)
      PROVE  CInv'
  <2>1. RowsAreCounted'
    BY <1>1, StillCounted DEF UpdateNextNamespace, Fault
  <2>2. ListedAreCurrent' /\ FoundAdvances' /\ ReadIsCurrent'
    BY <1>1 DEF UpdateNextNamespace, CInv, ListedAreCurrent, FoundAdvances, ReadIsCurrent
  <2> QED
    BY <1>i, <2>1, <2>2 DEF CInv
<1>2. ASSUME NEW packages \in BuildSets, CreateIterationIfNeeded(packages)
      PROVE  CInv'
  <2>1. RowsAreCounted'
    BY <1>2, CreationCounted
  <2>2. ListedAreCurrent' /\ FoundAdvances' /\ ReadIsCurrent'
    BY <1>2 DEF CreateIterationIfNeeded, CInv, ListedAreCurrent, FoundAdvances, ReadIsCurrent
  <2> QED
    BY <1>i, <2>1, <2>2 DEF CInv
<1>3. ASSUME NEW id \in DOMAIN iterations, ReadNewestIteration(id)
      PROVE  CInv'
  <2>1. RowsAreCounted'
    BY <1>3, StillCounted DEF ReadNewestIteration
  <2>2. ListedAreCurrent' /\ FoundAdvances' /\ ReadIsCurrent'
    BY <1>3 DEF ReadNewestIteration, CInv, ListedAreCurrent, FoundAdvances, ReadIsCurrent
  <2> QED
    BY <1>i, <2>1, <2>2 DEF CInv
<1>4. ASSUME NEW a \in architectures, NothingToSchedule(a)
      PROVE  CInv'
  <2>1. RowsAreCounted'
    BY <1>4, StillCounted DEF NothingToSchedule
  <2>2. ListedAreCurrent' /\ FoundAdvances' /\ ReadIsCurrent'
    BY <1>4 DEF NothingToSchedule, CInv, ListedAreCurrent, FoundAdvances, ReadIsCurrent
  <2> QED
    BY <1>i, <2>1, <2>2 DEF CInv
<1>5. ASSUME NEW a \in architectures, NEW b \in Ready(a), CreatePipeline(a, b)
      PROVE  CInv'
  <2>1. RowsAreCounted'
    BY <1>5, StillCounted DEF CreatePipeline
  <2>2. build'.architecture = a /\ build'.pkgbase = b
    BY <1>5 DEF CreatePipeline
  <2>3. ListedAreCurrent' /\ FoundAdvances' /\ ReadIsCurrent'
    BY <1>5, <2>2
       DEF CreatePipeline, CInv, ListedAreCurrent, FoundAdvances, ReadIsCurrent, Ready
  <2> QED
    BY <1>i, <2>1, <2>3 DEF CInv
<1>6. ASSUME NEW a \in architectures, NEW b \in Ready(a), SchedulingFails(a, b)
      PROVE  CInv'
  <2>1. RowsAreCounted'
    BY <1>6, StillCounted DEF SchedulingFails, Fault
  <2>2. pc = "schedule" /\ UNCHANGED <<iterations, pc, to_poll, iteration>>
    BY <1>6 DEF SchedulingFails
  <2>3. ListedAreCurrent' /\ FoundAdvances' /\ ReadIsCurrent'
    BY <2>2 DEF CInv, ListedAreCurrent, FoundAdvances, ReadIsCurrent
  <2> QED
    BY <1>i, <2>1, <2>3 DEF CInv
<1>7. ASSUME RecordPipeline
      PROVE  CInv'
  <2>1. RowsAreCounted'
    BY <1>7, StillCounted DEF RecordPipeline
  <2>2. ListedAreCurrent' /\ FoundAdvances' /\ ReadIsCurrent'
    BY <1>7 DEF RecordPipeline, CInv, ListedAreCurrent, FoundAdvances, ReadIsCurrent, Ready
  <2> QED
    BY <1>i, <2>1, <2>2 DEF CInv
<1>8. ASSUME UpdateIteration
      PROVE  CInv'
  <2> DEFINE q == [iteration.packages_to_be_built EXCEPT
                    ![build.architecture] = ReserveBuild(@, build.pkgbase, "Scheduled")]
  <2>1. /\ pc = "update" /\ pc' = "schedule"
        /\ iteration' = [iteration EXCEPT !.packages_to_be_built = q]
        /\ UpdatePackages(iteration.id, q)
        /\ UNCHANGED <<to_poll, requests, clock>>
    BY <1>8 DEF UpdateIteration
  <2>2. /\ iteration.id \in DOMAIN iterations
        /\ iteration = [id |-> iteration.id,
                        packages_to_be_built |-> iteration.packages_to_be_built]
    BY <1>s, <2>1 DEF Scheduling
  <2> HIDE DEF q
  <2>3. iteration'.id = iteration.id /\ iteration'.packages_to_be_built = q
    BY <2>1, <2>2
  <2>4. /\ Len(iterations') = Len(iterations)
        /\ iterations'[iteration.id].packages_to_be_built = q
    BY <2>1, <2>2, UpdatedRow
  <2>5. RowsAreCounted'
    BY <2>1, <2>4, StillCounted
  <2>6. ListedAreCurrent' /\ FoundAdvances' /\ ReadIsCurrent'
    BY <2>1, <2>3, <2>4 DEF CInv, ListedAreCurrent, FoundAdvances, ReadIsCurrent
  <2> QED
    BY <1>i, <2>5, <2>6 DEF CInv
<1>9. ASSUME FinishNamespace \/ NamespaceFails \/ FinishPass
      PROVE  CInv'
  <2>1. /\ pc \in {"namespaces", "calculate", "read", "schedule", "update"}
        /\ pc' \in {"namespaces", "idle"}
        /\ UNCHANGED <<iterations, to_poll, requests, clock>>
    BY <1>9 DEF FinishNamespace, NamespaceFails, FinishPass, LeaveNamespace, Fault
  <2>2. RowsAreCounted'
    BY <2>1, StillCounted
  <2>3. ListedAreCurrent' /\ FoundAdvances' /\ ReadIsCurrent'
    BY <2>1 DEF CInv, ListedAreCurrent, FoundAdvances, ReadIsCurrent
  <2> QED
    BY <1>i, <2>2, <2>3 DEF CInv
<1> QED
  BY <1>1, <1>2, <1>3, <1>4, <1>5, <1>6, <1>7, <1>8, <1>9

\* Crashes, handlers and GitLab.
LEMMA OthersKeepCurrent ==
    ASSUME CInv, Crash \/ Handlers \/ Gitlab
    PROVE  CInv'
<1>i. IInv'
  BY NextIInv DEF CInv, Next, Failure
<1>1. ASSUME UNCHANGED <<iterations, requests, clock>>, UNCHANGED loop
      PROVE  CInv'
  BY <1>i, <1>1, CurrentStays, StillCounted DEF CInv
<1>2. CASE Gitlab
  <2>1. UNCHANGED <<iterations, requests, clock>> /\ UNCHANGED loop
    BY <1>2 DEF Gitlab, FinishPipeline, MovePipeline, DeletePipeline, Fault, server,
       database, bounds
  <2> QED
    BY <1>1, <2>1
<1>3. CASE \/ \E ns \in Namespaces : CreateNamespace(ns)
           \/ \E ns \in Namespaces, status \in {"Active", "Cancelled"} :
                    UpdateNamespace(ns, status)
  <2>1. UNCHANGED <<iterations, requests, clock>> /\ UNCHANGED loop
    BY <1>3 DEF CreateNamespace, UpdateNamespace, bounds
  <2> QED
    BY <1>1, <2>1
<1>4. CASE Crash
  <2>1. RowsAreCounted'
    BY <1>4, RequestsCounted
  <2>2. ListedAreCurrent' /\ FoundAdvances' /\ ReadIsCurrent'
    BY <1>4 DEF Crash, ListedAreCurrent, FoundAdvances, ReadIsCurrent
  <2> QED
    BY <1>i, <2>1, <2>2 DEF CInv
<1>5. ASSUME \/ \E ns \in Namespaces : RequestIteration(ns)
             \/ \E request \in requests : RequestFails(request)
      PROVE  CInv'
  <2>1. UNCHANGED iterations /\ UNCHANGED loop
    BY <1>5 DEF RequestIteration, RequestFails, database
  <2>2. RowsAreCounted'
    BY <1>5, RequestsCounted
  <2> QED
    BY <1>i, <2>1, <2>2, CurrentStays DEF CInv
<1>6. ASSUME NEW request \in requests, NEW packages \in BuildSets,
             AnswerRequest(request, packages)
      PROVE  CInv'
  <2>1. UNCHANGED loop /\ \A i \in DOMAIN iterations : iterations'[i] = iterations[i]
    BY <1>6, InsertedRow DEF AnswerRequest
  <2>2. RowsAreCounted'
    BY <1>6, RequestsCounted
  <2> QED
    BY <1>i, <2>1, <2>2, CurrentStays DEF CInv
<1> QED
  BY <1>2, <1>3, <1>4, <1>5, <1>6 DEF Handlers

LEMMA NextCInv == CInv /\ [Next]_vars => CInv'
<1> SUFFICES ASSUME CInv, [Next]_vars
             PROVE  CInv'
  OBVIOUS
<1>1. CASE LoopStep
  BY <1>1, PollingKeepsCurrent, SchedulingKeepsCurrent DEF LoopStep
<1>2. CASE Failure
  BY <1>2, PollingKeepsCurrent, SchedulingKeepsCurrent, OthersKeepCurrent DEF Failure
<1>3. CASE Handlers \/ Gitlab
  BY <1>3, OthersKeepCurrent
<1>4. CASE UNCHANGED vars
  <2>1. IInv'
    BY <1>4, NextIInv DEF CInv
  <2>2. UNCHANGED <<iterations, requests, clock>> /\ UNCHANGED loop
    BY <1>4 DEF vars, database, bounds, loop
  <2> QED
    BY <2>1, <2>2, CurrentStays, StillCounted DEF CInv
<1> QED
  BY <1>1, <1>2, <1>3, <1>4 DEF Next

LEMMA CurrentInvariance == Spec => []CInv
BY InitCInv, NextCInv, PTL DEF Spec

-----------------------------------------------------------------------------
(***************************************************************************)
(* What a step does to the table of iterations                             *)
(***************************************************************************)

Stored(i) == iterations[i].packages_to_be_built

Inserts(ns, time, reason, packages) ==
    /\ Len(iterations) < MaxIterations
    /\ packages \in BuildSets
    /\ InsertIteration(ns, time, reason, packages)

Reports(i, q) ==
    /\ i \in DOMAIN iterations
    /\ q \in Packages
    /\ SameShape(Stored(i), q)
    /\ Advances(Stored(i), q)
    /\ UpdatePackages(i, q)

Reserves(i, a, b) ==
    /\ i \in DOMAIN iterations
    /\ a \in DOMAIN Stored(i)
    /\ b \in Nodes(Stored(i)[a])
    /\ Stored(i)[a].status[b] = "Blocked"
    /\ \A d \in Dependencies(Stored(i)[a], b) : Stored(i)[a].status[d] = "Built"
    /\ UpdatePackages(i, [Stored(i) EXCEPT ![a] = ReserveBuild(@, b, "Scheduled")])

LEMMA InsertionIsCounted ==
    ASSUME CInv
    PROVE  /\ \A packages \in BuildSets :
                CreateIterationIfNeeded(packages) =>
                    \/ UNCHANGED iterations
                    \/ Inserts(namespace, clock', NewIterationReason, packages)
           /\ \A request \in requests : \A packages \in BuildSets :
                AnswerRequest(request, packages) =>
                    Inserts(request.namespace, request.created_at, "CreatedByUser", packages)
<1>1. /\ IsFiniteSet(requests) /\ Cardinality(requests) \in Nat
      /\ Len(iterations) + Cardinality(requests) <= clock /\ clock <= MaxIterations
      /\ clock \in Nat /\ Len(iterations) \in Nat /\ MaxIterations \in Nat
  BY FS_CardinalityType, BoundsAssumption DEF CInv, RowsAreCounted, IInv, Typed, Tables
<1>2. ASSUME NEW packages \in BuildSets, CreateIterationIfNeeded(packages)
      PROVE  UNCHANGED iterations \/ Inserts(namespace, clock', NewIterationReason, packages)
  <2>1. CASE NewIterationIsNeeded(packages)
    BY <1>1, <1>2, <2>1 DEF CreateIterationIfNeeded, Inserts
  <2>2. CASE ~NewIterationIsNeeded(packages)
    BY <1>2, <2>2 DEF CreateIterationIfNeeded
  <2> QED
    BY <2>1, <2>2
<1>3. ASSUME NEW request \in requests, NEW packages \in BuildSets,
             AnswerRequest(request, packages)
      PROVE  Inserts(request.namespace, request.created_at, "CreatedByUser", packages)
  <2>1. Cardinality(requests) # 0
    BY <1>1, FS_EmptySet
  <2>2. Len(iterations) < MaxIterations
    BY <1>1, <2>1
  <2> QED
    BY <1>3, <2>2 DEF AnswerRequest, Inserts
<1> QED
  BY <1>2, <1>3

LEMMA PersistReports ==
    ASSUME CInv, PersistIteration
    PROVE  Reports(polled, new_packages)
<1>1. /\ polled \in DOMAIN to_poll /\ polled \in DOMAIN iterations
      /\ Copy(iterations, gitlab_pipelines, pipelines, polled, new_packages)
  BY DEF CInv, IInv, Polling, PersistIteration
<1>2. Advances(to_poll[polled], new_packages) /\ to_poll[polled] = Stored(polled)
  BY <1>1 DEF CInv, FoundAdvances, ListedAreCurrent, PersistIteration, Stored
<1> QED
  BY <1>1, <1>2 DEF Reports, Copy, PersistIteration, Stored

LEMMA UpdateReserves ==
    ASSUME CInv, UpdateIteration
    PROVE  Reserves(iteration.id, build.architecture, build.pkgbase)
<1> DEFINE a == build.architecture
           b == build.pkgbase
           q == iteration.packages_to_be_built
<1>1. /\ iteration.id \in DOMAIN iterations
      /\ Copy(iterations, gitlab_pipelines, pipelines, iteration.id, q)
      /\ a \in DOMAIN q
      /\ b \in Nodes(q[a])
  BY DEF CInv, IInv, Scheduling, InHand, UpdateIteration
<1>2. q = Stored(iteration.id) /\ b \in ReadyBuilds(q[a])
  BY DEF CInv, ReadIsCurrent, UpdateIteration, Ready, Stored
<1>3. q[a].status[b] # "Pending"
  BY <1>1 DEF Copy, Justified
<1>4. q[a].status[b] = "Blocked"
  BY <1>2, <1>3 DEF ReadyBuilds
<1>5. \A d \in Dependencies(q[a], b) : q[a].status[d] = "Built"
  BY <1>2, <1>3, ReadyHasBuiltDependencies
<1>6. UpdatePackages(iteration.id, [q EXCEPT ![a] = ReserveBuild(@, b, "Scheduled")])
  BY DEF UpdateIteration
<1> HIDE DEF a, b, q
<1> QED
  BY <1>1, <1>2, <1>4, <1>5, <1>6 DEF Reserves, a, b

LEMMA StepsOnIterations ==
    ASSUME CInv, [Next]_vars
    PROVE  \/ UNCHANGED iterations
           \/ \E ns, time, reason, packages : Inserts(ns, time, reason, packages)
           \/ \E i, q : Reports(i, q)
           \/ \E i, a, b : Reserves(i, a, b)
<1>1. CASE PersistIteration
  BY <1>1, PersistReports
<1>2. CASE UpdateIteration
  BY <1>2, UpdateReserves
<1>3. CASE \E packages \in BuildSets : CreateIterationIfNeeded(packages)
  BY <1>3, InsertionIsCounted
<1>4. CASE \E request \in requests, packages \in BuildSets :
                AnswerRequest(request, packages)
  BY <1>4, InsertionIsCounted
<1>5. CASE \/ StartPass
           \/ \E id \in DOMAIN iterations : PollIteration(id)
           \/ \E a \in Architectures, b \in Pkgbases : CheckPipeline(a, b)
           \/ PollingFails
           \/ PassFails
           \/ ListActiveNamespaces
  BY <1>5 DEF StartPass, PollIteration, CheckPipeline, PollingFails, PassFails,
     ListActiveNamespaces, database
<1>6. CASE \/ \E ns \in Namespaces : UpdateNextNamespace(ns)
           \/ \E id \in DOMAIN iterations : ReadNewestIteration(id)
           \/ \E a \in architectures : NothingToSchedule(a)
           \/ \E a \in architectures : \E b \in Ready(a) : CreatePipeline(a, b)
           \/ \E a \in architectures : \E b \in Ready(a) : SchedulingFails(a, b)
           \/ RecordPipeline
           \/ FinishNamespace
           \/ NamespaceFails
           \/ FinishPass
           \/ Crash
  BY <1>6 DEF UpdateNextNamespace, ReadNewestIteration, NothingToSchedule,
     CreatePipeline, SchedulingFails, RecordPipeline, FinishNamespace, NamespaceFails,
     LeaveNamespace, FinishPass, Crash, database
<1>7. CASE \/ \E ns \in Namespaces : CreateNamespace(ns)
           \/ \E ns \in Namespaces, status \in {"Active", "Cancelled"} :
                    UpdateNamespace(ns, status)
           \/ \E ns \in Namespaces : RequestIteration(ns)
           \/ \E request \in requests : RequestFails(request)
  BY <1>7 DEF CreateNamespace, UpdateNamespace, RequestIteration, RequestFails, database
<1>8. CASE Gitlab \/ UNCHANGED vars
  BY <1>8 DEF Gitlab, FinishPipeline, MovePipeline, DeletePipeline, server, vars, database
<1> QED
  BY <1>1, <1>2, <1>3, <1>4, <1>5, <1>6, <1>7, <1>8
     DEF Next, LoopStep, Failure, Handlers

-----------------------------------------------------------------------------
(***************************************************************************)
(* Results are not taken back                                              *)
(***************************************************************************)

LEMMA StepsAdvance ==
    ASSUME CInv, [Next]_vars, NEW j \in Jobs
    PROVE  /\ JobStatus(j) \in Settled => JobStatus(j)' = JobStatus(j)
           /\ JobStatus(j) \in InProgress => JobStatus(j)' # "Blocked"
<1>1. /\ j[1] \in DOMAIN iterations
      /\ j[2] \in DOMAIN Stored(j[1])
      /\ j[3] \in Nodes(Stored(j[1])[j[2]])
  BY DEF Jobs, Ids, Graph, Stored
<1>2. Stored(j[1]) \in Packages
  BY <1>1 DEF CInv, IInv, Tables, Copy, Stored
<1>3. JobStatus(j) = Stored(j[1])[j[2]].status[j[3]]
      /\ JobStatus(j)' = iterations'[j[1]].packages_to_be_built[j[2]].status[j[3]]
  BY DEF JobStatus, Graph, Stored
<1>4. ASSUME iterations'[j[1]].packages_to_be_built = Stored(j[1])
      PROVE  JobStatus(j)' = JobStatus(j)
  BY <1>3, <1>4
<1>5. JobStatus(j) \in Settled \union InProgress => JobStatus(j) # "Blocked"
  BY DEF Settled, InProgress
<1>6. CASE UNCHANGED iterations
  BY <1>4, <1>5, <1>6 DEF Stored
<1>7. ASSUME NEW ns, NEW time, NEW reason, NEW packages, Inserts(ns, time, reason, packages)
      PROVE  JobStatus(j)' = JobStatus(j)
  BY <1>1, <1>4, <1>7, InsertedRow DEF Inserts, Stored
<1>8. ASSUME NEW i, NEW q, Reports(i, q)
      PROVE  /\ JobStatus(j) \in Settled => JobStatus(j)' = JobStatus(j)
             /\ JobStatus(j) \in InProgress => JobStatus(j)' # "Blocked"
  <2>1. CASE j[1] = i
    <3>1. iterations'[i].packages_to_be_built = q
      BY <1>8, UpdatedRow DEF Reports
    <3>2. JobStatus(j)' = q[j[2]].status[j[3]]
      BY <1>3, <2>1, <3>1
    <3> QED
      BY <1>1, <1>3, <1>8, <2>1, <3>2 DEF Reports, Advances, Settled, InProgress
  <2>2. CASE j[1] # i
    BY <1>1, <1>4, <1>5, <1>8, <2>2, UpdatedRow DEF Reports, Stored
  <2> QED
    BY <2>1, <2>2
<1>9. ASSUME NEW i, NEW a, NEW b, Reserves(i, a, b)
      PROVE  JobStatus(j) \in Settled \union InProgress => JobStatus(j)' = JobStatus(j)
  <2> DEFINE q == [Stored(i) EXCEPT ![a] = ReserveBuild(@, b, "Scheduled")]
  <2>1. CASE j[1] = i
    <3>1. iterations'[i].packages_to_be_built = q
      BY <1>9, UpdatedRow DEF Reserves
    <3>2. /\ Stored(i) \in Packages
          /\ Stored(i) = [c \in DOMAIN Stored(i) |-> Stored(i)[c]]
          /\ Stored(i)[a].status \in [Nodes(Stored(i)[a]) -> PackageBuildStatus]
          /\ IsBuildSetGraph(Stored(i)[a], Pkgbases, CommitHashes)
      <4>1. Stored(i) \in Packages /\ a \in DOMAIN Stored(i)
        BY <1>2, <1>9, <2>1 DEF Reserves
      <4> QED
        BY <4>1, PackagesShape
    <3>3. q[a] = ReserveBuild(Stored(i)[a], b, "Scheduled")
          /\ \A c \in DOMAIN Stored(i) : c # a => q[c] = Stored(i)[c]
      BY <1>9, <3>2 DEF Reserves
    <3>4. ReserveBuild(Stored(i)[a], b, "Scheduled").status
            = [Stored(i)[a].status EXCEPT ![b] = "Scheduled"]
      BY <1>9, <3>2, ReservedGraph DEF Reserves, PackageBuildStatus
    <3> HIDE DEF q
    <3>5. JobStatus(j)' = q[j[2]].status[j[3]]
      BY <1>3, <2>1, <3>1
    <3>6. CASE j[2] = a /\ j[3] = b
      BY <1>3, <1>5, <1>9, <2>1, <3>6 DEF Reserves
    <3>7. CASE j[2] = a /\ j[3] # b
      BY <1>1, <1>3, <2>1, <3>2, <3>3, <3>4, <3>5, <3>7
    <3>8. CASE j[2] # a
      BY <1>1, <1>3, <2>1, <3>3, <3>5, <3>8
    <3> QED
      BY <3>6, <3>7, <3>8
  <2>2. CASE j[1] # i
    BY <1>1, <1>4, <1>9, <2>2, UpdatedRow DEF Reserves, Stored
  <2> QED
    BY <2>1, <2>2
<1> QED
  BY <1>5, <1>6, <1>7, <1>8, <1>9, StepsOnIterations

\* No step takes a result back or blocks a build again that was dispatched,
\* though whole rows are overwritten with what was read earlier.
THEOREM DispatchOnlyAdvances == Spec => BuildsOnlyAdvance
<1>1. CInv /\ [Next]_vars =>
        [\A j \in Jobs :
            /\ JobStatus(j) \in Settled => JobStatus(j)' = JobStatus(j)
            /\ JobStatus(j) \in InProgress => JobStatus(j)' # "Blocked"]_vars
  BY StepsAdvance
<1> QED
  BY <1>1, CurrentInvariance, PTL DEF Spec, BuildsOnlyAdvance

-----------------------------------------------------------------------------
(***************************************************************************)
(* Every step is a step of BuildProgress                                   *)
(***************************************************************************)

LEMMA KeysAre ==
    ASSUME NEW p
    PROVE  /\ \A k \in KeysOf(p) : /\ k = <<k[1], k[2]>>
                                  /\ k[1] \in DOMAIN p
                                  /\ k[2] \in Nodes(p[k[1]])
           /\ \A a \in DOMAIN p : \A b \in Nodes(p[a]) : <<a, b>> \in KeysOf(p)
BY DEF KeysOf

LEMMA SamePlan ==
    ASSUME NEW p, NEW q, SameShape(p, q)
    PROVE  KeysOf(p) = KeysOf(q) /\ PlanOf(p) = PlanOf(q)
<1>1. \A k : k \in KeysOf(p) => k \in KeysOf(q)
  <2> SUFFICES ASSUME NEW k \in KeysOf(p)
               PROVE  k \in KeysOf(q)
    OBVIOUS
  <2>1. k = <<k[1], k[2]>> /\ k[1] \in DOMAIN p /\ k[2] \in Nodes(p[k[1]])
    BY KeysAre
  <2>2. k[1] \in DOMAIN q /\ k[2] \in Nodes(q[k[1]])
    BY <2>1 DEF SameShape
  <2>3. <<k[1], k[2]>> \in KeysOf(q)
    BY <2>2, KeysAre
  <2> QED
    BY <2>1, <2>3
<1>2. \A k : k \in KeysOf(q) => k \in KeysOf(p)
  <2> SUFFICES ASSUME NEW k \in KeysOf(q)
               PROVE  k \in KeysOf(p)
    OBVIOUS
  <2>1. k = <<k[1], k[2]>> /\ k[1] \in DOMAIN q /\ k[2] \in Nodes(q[k[1]])
    BY KeysAre
  <2>2. k[1] \in DOMAIN p /\ k[2] \in Nodes(p[k[1]])
    BY <2>1 DEF SameShape
  <2>3. <<k[1], k[2]>> \in KeysOf(p)
    BY <2>2, KeysAre
  <2> QED
    BY <2>1, <2>3
<1>3. KeysOf(p) = KeysOf(q)
  BY <1>1, <1>2
<1> DEFINE E(r) == {e \in KeysOf(r) \X KeysOf(r) :
                        /\ e[1][1] = e[2][1]
                        /\ <<e[1][2], e[2][2]>> \in r[e[1][1]].edges}
<1>4. E(p) = E(q)
  <2>1. \A e \in KeysOf(p) \X KeysOf(p) : p[e[1][1]].edges = q[e[1][1]].edges
    BY KeysAre DEF SameShape
  <2> QED
    BY <1>3, <2>1
<1> QED
  BY <1>3, <1>4 DEF PlanOf

LEMMA PhaseOfStatus ==
    /\ PhaseOf("Blocked") = "waiting"
    /\ \A status \in InProgress : PhaseOf(status) = "running"
    /\ PhaseOf("Built") = "built"
    /\ PhaseOf("Failed") = "failed"
BY DEF PhaseOf, InProgress

LEMMA PhasesAre ==
    ASSUME NEW p \in Packages, NEW k \in KeysOf(p)
    PROVE  /\ PhasesOf(p) \in [KeysOf(p) -> Progress!Phases]
           /\ PhasesOf(p)[k] = PhaseOf(p[k[1]].status[k[2]])
<1>1. \A x \in KeysOf(p) : p[x[1]].status[x[2]] \in PackageBuildStatus
  BY KeysAre, PackagesShape
<1>2. \A s \in PackageBuildStatus : PhaseOf(s) \in Progress!Phases
  BY DEF PackageBuildStatus, PhaseOf, InProgress, Progress!Phases
<1> QED
  BY <1>1, <1>2 DEF PhasesOf

LEMMA BuildSetsOfTable ==
    ASSUME CInv
    PROVE  /\ DOMAIN ProgressBuilds = DOMAIN iterations
           /\ ProgressBuilds \in Seq({ProgressBuilds[i] : i \in DOMAIN iterations})
           /\ Len(ProgressBuilds) = Len(iterations)
           /\ \A i \in DOMAIN iterations :
                /\ Stored(i) \in Packages
                /\ ProgressBuilds[i] = [plan |-> PlanOf(Stored(i)),
                                        phase |-> PhasesOf(Stored(i))]
                /\ PlanOf(Stored(i)).keys = KeysOf(Stored(i))
<1>1. iterations \in Seq(IterationRow)
  BY DEF CInv, IInv, Tables
<1>2. \A i \in DOMAIN iterations : Stored(i) \in Packages
  BY DEF CInv, IInv, Tables, Copy, Stored
<1>3. /\ DOMAIN ProgressBuilds = 1 .. Len(iterations)
      /\ \A i \in DOMAIN iterations : ProgressBuilds[i] =
            [plan |-> PlanOf(Stored(i)), phase |-> PhasesOf(Stored(i))]
  BY <1>1 DEF ProgressBuilds, Stored
<1>4. ProgressBuilds \in Seq({ProgressBuilds[i] : i \in DOMAIN iterations})
      /\ Len(ProgressBuilds) = Len(iterations)
  <2>1. ProgressBuilds = [i \in 1 .. Len(iterations) |-> ProgressBuilds[i]]
    BY <1>1 DEF ProgressBuilds
  <2>2. Len(iterations) \in Nat
    BY <1>1
  <2> QED
    BY <1>1, <1>3, <2>1, <2>2
<1>5. \A p : PlanOf(p).keys = KeysOf(p)
  BY DEF PlanOf
<1> QED
  BY <1>1, <1>2, <1>3, <1>4, <1>5

\* A step that writes row i, seen as a step of the build sets.
LEMMA RowWrittenMaps ==
    ASSUME CInv, CInv', NEW i \in DOMAIN iterations, NEW q \in Packages,
           SameShape(Stored(i), q), UpdatePackages(i, q)
    PROVE  ProgressBuilds' = [ProgressBuilds EXCEPT ![i].phase = PhasesOf(q)]
<1>1. /\ DOMAIN iterations' = DOMAIN iterations
      /\ iterations'[i].packages_to_be_built = q
      /\ \A n \in DOMAIN iterations : n # i => iterations'[n] = iterations[n]
  BY UpdatedRow
<1>2. PlanOf(q) = PlanOf(Stored(i))
  BY SamePlan
<1>3. ProgressBuilds' = [n \in DOMAIN iterations |->
            [plan |-> PlanOf(iterations'[n].packages_to_be_built),
             phase |-> PhasesOf(iterations'[n].packages_to_be_built)]]
  BY <1>1 DEF ProgressBuilds
<1>4. ProgressBuilds = [n \in DOMAIN iterations |->
            [plan |-> PlanOf(Stored(n)), phase |-> PhasesOf(Stored(n))]]
  BY DEF ProgressBuilds, Stored
<1>5. [ProgressBuilds EXCEPT ![i].phase = PhasesOf(q)] = [n \in DOMAIN iterations |->
            IF n = i THEN [plan |-> PlanOf(Stored(i)), phase |-> PhasesOf(q)]
            ELSE [plan |-> PlanOf(Stored(n)), phase |-> PhasesOf(Stored(n))]]
  BY <1>4
<1>6. \A n \in DOMAIN iterations :
        [plan |-> PlanOf(iterations'[n].packages_to_be_built),
         phase |-> PhasesOf(iterations'[n].packages_to_be_built)]
        = IF n = i THEN [plan |-> PlanOf(Stored(i)), phase |-> PhasesOf(q)]
          ELSE [plan |-> PlanOf(Stored(n)), phase |-> PhasesOf(Stored(n))]
  BY <1>1, <1>2 DEF Stored
<1> QED
  BY <1>3, <1>5, <1>6

LEMMA InsertMaps ==
    ASSUME CInv, NEW ns, NEW time, NEW reason, NEW packages,
           Inserts(ns, time, reason, packages)
    PROVE  Progress!Add(PlanOf(packages))
<1> DEFINE row == [namespace |-> ns, created_at |-> time, create_reason |-> reason,
                   packages_to_be_built |-> packages]
           new == [plan |-> PlanOf(packages),
                   phase |-> [k \in PlanOf(packages).keys |-> "waiting"]]
           Image(r) == [plan |-> PlanOf(r.packages_to_be_built),
                        phase |-> PhasesOf(r.packages_to_be_built)]
<1>1. iterations \in Seq(IterationRow) /\ packages \in BuildSets
  BY DEF CInv, IInv, Tables, Inserts
<1>2. PhasesOf(packages) = [k \in PlanOf(packages).keys |-> "waiting"]
  <2>1. \A k \in KeysOf(packages) : packages[k[1]].status[k[2]] = "Blocked"
    BY <1>1, KeysAre, BuildSetsAssumption
  <2>2. PhaseOf("Blocked") = "waiting"
    BY PhaseOfStatus
  <2>3. PlanOf(packages).keys = KeysOf(packages)
    BY DEF PlanOf
  <2> QED
    BY <2>1, <2>2, <2>3 DEF PhasesOf
<1>3. Image(row) = new
  BY <1>2
<1>4. iterations' = Append(iterations, row)
  BY DEF Inserts, InsertIteration
<1>5. /\ ProgressBuilds = [i \in DOMAIN iterations |-> Image(iterations[i])]
      /\ ProgressBuilds' = [i \in DOMAIN iterations' |-> Image(iterations'[i])]
  BY DEF ProgressBuilds
<1> HIDE DEF row, new, Image
<1>6. ProgressBuilds' = Append(ProgressBuilds, Image(row))
  BY <1>1, <1>4, <1>5
<1>7. Len(ProgressBuilds) < MaxIterations
  BY BuildSetsOfTable DEF Inserts
<1>8. ProgressBuilds' = Append(ProgressBuilds, new)
  BY <1>3, <1>6
<1> QED
  BY <1>7, <1>8 DEF Progress!Add, new

LEMMA ReportMaps ==
    ASSUME CInv, CInv', NEW i, NEW q, Reports(i, q)
    PROVE  /\ i \in DOMAIN ProgressBuilds
           /\ PhasesOf(q) \in [ProgressBuilds[i].plan.keys -> Progress!Phases]
           /\ Progress!Report(i, PhasesOf(q))
<1>1. /\ i \in DOMAIN iterations /\ q \in Packages
      /\ SameShape(Stored(i), q) /\ Advances(Stored(i), q)
      /\ UpdatePackages(i, q)
  BY DEF Reports
<1>2. /\ Stored(i) \in Packages
      /\ DOMAIN ProgressBuilds = DOMAIN iterations
      /\ ProgressBuilds[i].plan.keys = KeysOf(Stored(i))
      /\ ProgressBuilds[i].phase = PhasesOf(Stored(i))
  BY <1>1, BuildSetsOfTable
<1>3. KeysOf(q) = KeysOf(Stored(i))
  BY <1>1, SamePlan
<1>4. DOMAIN PhasesOf(q) = ProgressBuilds[i].plan.keys
      /\ PhasesOf(q) \in [ProgressBuilds[i].plan.keys -> Progress!Phases]
  <2>1. PhasesOf(q) \in [KeysOf(q) -> Progress!Phases]
    <3>1. CASE KeysOf(q) = {}
      BY <3>1 DEF PhasesOf
    <3>2. CASE KeysOf(q) # {}
      BY <1>1, <3>2, PhasesAre
    <3> QED
      BY <3>1, <3>2
  <2> QED
    BY <1>2, <1>3, <2>1
<1>5. ASSUME NEW k \in KeysOf(q)
      PROVE  \/ PhasesOf(q)[k] = PhasesOf(Stored(i))[k]
             \/ /\ PhasesOf(Stored(i))[k] = "running"
                /\ PhasesOf(q)[k] \in {"built", "failed"}
  <2> DEFINE old == Stored(i)[k[1]].status[k[2]]
             new == q[k[1]].status[k[2]]
  <2>1. PhasesOf(q)[k] = PhaseOf(new) /\ PhasesOf(Stored(i))[k] = PhaseOf(old)
    BY <1>1, <1>2, <1>3, PhasesAre
  <2>2. k[1] \in DOMAIN Stored(i) /\ k[2] \in Nodes(Stored(i)[k[1]])
    BY <1>3, KeysAre
  <2>3. new = old \/ (old \in InProgress /\ new \in InProgress \union Settled)
    BY <1>1, <2>2 DEF Advances
  <2> HIDE DEF old, new
  <2> QED
    <3>1. CASE new = old
      BY <2>1, <3>1
    <3>2. CASE old \in InProgress /\ new \in InProgress
      BY <2>1, <3>2, PhaseOfStatus
    <3>3. CASE old \in InProgress /\ new \in Settled
      <4>1. PhaseOf(new) \in {"built", "failed"}
        BY <3>3, PhaseOfStatus DEF Settled
      <4>2. PhaseOf(old) = "running"
        BY <3>3, PhaseOfStatus
      <4> QED
        BY <2>1, <4>1, <4>2
    <3> QED
      BY <2>3, <3>1, <3>2, <3>3
<1>6. ProgressBuilds' = [ProgressBuilds EXCEPT ![i].phase = PhasesOf(q)]
  BY <1>1, RowWrittenMaps
<1> QED
  BY <1>1, <1>2, <1>3, <1>4, <1>5, <1>6 DEF Progress!Report, Progress!Phase

LEMMA ReserveMaps ==
    ASSUME CInv, CInv', NEW i, NEW a, NEW b, Reserves(i, a, b)
    PROVE  /\ i \in DOMAIN ProgressBuilds
           /\ <<a, b>> \in ProgressBuilds[i].plan.keys
           /\ Progress!Start(i, <<a, b>>)
<1> DEFINE p == Stored(i)
           q == [p EXCEPT ![a] = ReserveBuild(@, b, "Scheduled")]
           k == <<a, b>>
<1>1. /\ i \in DOMAIN iterations /\ a \in DOMAIN p /\ b \in Nodes(p[a])
      /\ p[a].status[b] = "Blocked"
      /\ \A d \in Dependencies(p[a], b) : p[a].status[d] = "Built"
      /\ UpdatePackages(i, q)
  BY DEF Reserves
<1>2. /\ p \in Packages
      /\ DOMAIN ProgressBuilds = DOMAIN iterations
      /\ ProgressBuilds[i] = [plan |-> PlanOf(p), phase |-> PhasesOf(p)]
      /\ PlanOf(p).keys = KeysOf(p)
  BY <1>1, BuildSetsOfTable
<1>3. /\ IsBuildSetGraph(p[a], Pkgbases, CommitHashes)
      /\ p[a].status \in [Nodes(p[a]) -> PackageBuildStatus]
      /\ p = [c \in DOMAIN p |-> p[c]]
  BY <1>1, <1>2, PackagesShape
<1> DEFINE g == ReserveBuild(p[a], b, "Scheduled")
<1>4. /\ IsBuildSetGraph(g, Pkgbases, CommitHashes)
      /\ Nodes(g) = Nodes(p[a]) /\ g.edges = p[a].edges
      /\ g.commit_hash = p[a].commit_hash
      /\ g.status = [p[a].status EXCEPT ![b] = "Scheduled"]
  BY <1>1, <1>3, ReservedGraph DEF PackageBuildStatus
<1>5. q = [p EXCEPT ![a] = g]
  BY <1>1, <1>3
<1> HIDE DEF q, g
<1>6. q \in Packages
  BY <1>1, <1>2, <1>4, <1>5, ReplacedGraph
<1>7. DOMAIN q = DOMAIN p /\ q[a] = g /\ \A c \in DOMAIN p : c # a => q[c] = p[c]
  BY <1>1, <1>3, <1>5
<1>8. SameShape(p, q)
  BY <1>4, <1>7 DEF SameShape
<1>9. k \in KeysOf(p) /\ KeysOf(q) = KeysOf(p)
  BY <1>1, <1>8, KeysAre, SamePlan
<1>10. PhasesOf(q) = [PhasesOf(p) EXCEPT ![k] = "running"]
  <2>1. /\ DOMAIN PhasesOf(q) = KeysOf(p) /\ DOMAIN PhasesOf(p) = KeysOf(p)
        /\ PhasesOf(q) = [x \in KeysOf(p) |-> PhaseOf(q[x[1]].status[x[2]])]
        /\ PhasesOf(p) = [x \in KeysOf(p) |-> PhaseOf(p[x[1]].status[x[2]])]
    BY <1>9 DEF PhasesOf
  <2>2. ASSUME NEW x \in KeysOf(p)
        PROVE  PhaseOf(q[x[1]].status[x[2]])
                = IF x = k THEN "running" ELSE PhaseOf(p[x[1]].status[x[2]])
    <3>1. x = <<x[1], x[2]>> /\ x[1] \in DOMAIN p /\ x[2] \in Nodes(p[x[1]])
      BY KeysAre
    <3>2. CASE x[1] # a
      BY <1>7, <3>1, <3>2
    <3>3. CASE x[1] = a /\ x[2] # b
      BY <1>3, <1>4, <1>7, <3>1, <3>3
    <3>4. CASE x[1] = a /\ x[2] = b
      <4>1. q[x[1]].status[x[2]] = "Scheduled"
        BY <1>1, <1>3, <1>4, <1>7, <3>4
      <4>2. PhaseOf("Scheduled") = "running"
        BY PhaseOfStatus DEF InProgress
      <4>3. x = k
        BY <3>1, <3>4
      <4> QED
        BY <4>1, <4>2, <4>3
    <3> QED
      BY <3>2, <3>3, <3>4
  <2> HIDE DEF k
  <2> QED
    BY <1>9, <2>1, <2>2
<1>11. PhasesOf(p)[k] = "waiting"
  <2>1. PhasesOf(p)[k] = PhaseOf(p[a].status[b])
    BY <1>2, <1>9, PhasesAre
  <2> QED
    BY <1>1, <2>1, PhaseOfStatus
<1>12. ASSUME NEW d \in KeysOf(p), <<d, k>> \in PlanOf(p).edges
       PROVE  PhasesOf(p)[d] = "built"
  <2>1. d = <<d[1], d[2]>> /\ d[1] \in DOMAIN p /\ d[2] \in Nodes(p[d[1]])
    BY KeysAre
  <2>2. d[1] = a /\ <<d[2], b>> \in p[d[1]].edges
    BY <1>12 DEF PlanOf
  <2>3. p[a].status[d[2]] = "Built"
    BY <1>1, <2>1, <2>2 DEF Dependencies
  <2>4. PhasesOf(p)[d] = PhaseOf(p[d[1]].status[d[2]])
    BY <1>2, PhasesAre
  <2> QED
    BY <2>2, <2>3, <2>4, PhaseOfStatus
<1>13. ProgressBuilds' = [ProgressBuilds EXCEPT ![i].phase = PhasesOf(q)]
  BY <1>1, <1>6, <1>8, RowWrittenMaps
<1>14. ProgressBuilds' = [ProgressBuilds EXCEPT ![i].phase[k] = "running"]
  BY <1>1, <1>2, <1>10, <1>13
<1> HIDE DEF p, k
<1>15. Progress!MayStart(i, k)
  BY <1>2, <1>9, <1>11, <1>12 DEF Progress!MayStart, Progress!Phase
<1>16. Progress!Start(i, k)
  BY <1>14, <1>15 DEF Progress!Start
<1> QED
  BY <1>1, <1>2, <1>9, <1>16 DEF k

\* Every step of the server, GitLab and the handlers is a step of BuildProgress
\* on the table of iterations, or leaves it alone.
THEOREM DispatchImplementsProgress == Spec => ImplementsBuildProgress
<1>1. Init => Progress!Init
  BY DEF Init, Progress!Init, ProgressBuilds
<1>2. CInv /\ CInv' /\ [Next]_vars => [Progress!Next]_ProgressBuilds
  <2> SUFFICES ASSUME CInv, CInv', [Next]_vars
               PROVE  Progress!Next \/ UNCHANGED ProgressBuilds
    OBVIOUS
  <2>1. CASE UNCHANGED iterations
    BY <2>1 DEF ProgressBuilds
  <2>2. ASSUME NEW ns, NEW time, NEW reason, NEW packages, Inserts(ns, time, reason, packages)
        PROVE  Progress!Next
    <3>1. PlanOf(packages) \in {PlanOf(p) : p \in BuildSets}
      BY <2>2 DEF Inserts
    <3> QED
      BY <2>2, <3>1, InsertMaps DEF Progress!Next
  <2>3. ASSUME NEW i, NEW q, Reports(i, q)
        PROVE  Progress!Next
    BY <2>3, ReportMaps DEF Progress!Next
  <2>4. ASSUME NEW i, NEW a, NEW b, Reserves(i, a, b)
        PROVE  Progress!Next
    BY <2>4, ReserveMaps DEF Progress!Next
  <2> QED
    BY <2>1, <2>2, <2>3, <2>4, StepsOnIterations
<1> QED
  BY <1>1, <1>2, CurrentInvariance, PTL
     DEF Spec, ImplementsBuildProgress, Progress!Spec

-----------------------------------------------------------------------------
(***************************************************************************)
(* Pipelines of a build                                                    *)
(***************************************************************************)

PipelinesFor(pls, i, a, b) == {p \in DOMAIN pls : IsFor(pls[p], i, a, b)}

IsInHand(i, a, b) ==
    /\ pc \in {"record", "update"}
    /\ iteration.id = i /\ build.architecture = a /\ build.pkgbase = b

\* Of the pipelines a build may have, one is for its having been dispatched.
Counted(i, a, b) ==
    /\ Cardinality(PipelinesFor(pipelines, i, a, b)) <= faults + 1
    /\ Stored(i)[a].status[b] = "Blocked" /\ ~IsInHand(i, a, b) =>
            Cardinality(PipelinesFor(pipelines, i, a, b)) <= faults

PipelinesAreCounted ==
    \A i \in DOMAIN iterations : \A a \in DOMAIN Stored(i) :
        \A b \in Nodes(Stored(i)[a]) : Counted(i, a, b)

CountInv == CInv /\ PipelinesAreCounted

LEMMA PipelinesForFinite ==
    ASSUME CInv, NEW i, NEW a, NEW b
    PROVE  /\ IsFiniteSet(PipelinesFor(pipelines, i, a, b))
           /\ Cardinality(PipelinesFor(pipelines, i, a, b)) \in Nat
<1>1. pipelines \in Seq(Pipeline)
  BY DEF CInv, IInv, Tables
<1>2. DOMAIN pipelines = 1 .. Len(pipelines) /\ Len(pipelines) \in Nat
  BY <1>1
<1>3. IsFiniteSet(DOMAIN pipelines)
  BY <1>2, FS_Interval
<1> QED
  BY <1>3, FS_Subset, FS_CardinalityType DEF PipelinesFor

\* Pipelines are accepted for iterations that exist.
LEMMA NoPipelinesYet ==
    ASSUME CInv, NEW i, i \notin DOMAIN iterations, NEW a, NEW b
    PROVE  PipelinesFor(pipelines, i, a, b) = {}
BY DEF CInv, IInv, Tables, InOrder, PipelinesFor, IsFor

LEMMA PipelineAdded ==
    ASSUME CInv, NEW x, pipelines' = Append(pipelines, x), NEW i, NEW a, NEW b
    PROVE  /\ ~IsFor(x, i, a, b) =>
                PipelinesFor(pipelines', i, a, b) = PipelinesFor(pipelines, i, a, b)
           /\ Cardinality(PipelinesFor(pipelines', i, a, b))
                <= Cardinality(PipelinesFor(pipelines, i, a, b)) + 1
<1> DEFINE old == PipelinesFor(pipelines, i, a, b)
           p == Len(pipelines) + 1
<1>1. pipelines \in Seq(Pipeline)
  BY DEF CInv, IInv, Tables
<1>2. /\ DOMAIN pipelines' = DOMAIN pipelines \union {p}
      /\ p \notin DOMAIN pipelines
      /\ pipelines'[p] = x
      /\ \A r \in DOMAIN pipelines : pipelines'[r] = pipelines[r]
  BY <1>1
<1> HIDE DEF p
<1>3. PipelinesFor(pipelines', i, a, b) = IF IsFor(x, i, a, b) THEN old \union {p} ELSE old
  BY <1>2 DEF PipelinesFor
<1>4. IsFiniteSet(old) /\ Cardinality(old) \in Nat
  BY PipelinesForFinite
<1> HIDE DEF old
<1>5. Cardinality(old \union {p}) <= Cardinality(old) + 1
  <2>1. Cardinality(old \union {p})
            = IF p \in old THEN Cardinality(old) ELSE Cardinality(old) + 1
    BY <1>4, FS_AddElement
  <2> QED
    BY <1>4, <2>1
<1>6. CASE IsFor(x, i, a, b)
  BY <1>3, <1>5, <1>6 DEF old
<1>7. CASE ~IsFor(x, i, a, b)
  BY <1>3, <1>4, <1>7 DEF old
<1> QED
  BY <1>6, <1>7

\* A row that is written has the builds it had.
LEMMA StepsExtend ==
    ASSUME CInv, [Next]_vars
    PROVE  Extends(iterations, iterations')
<1>1. \A i \in DOMAIN iterations :
        Copy(iterations, gitlab_pipelines, pipelines, i, Stored(i))
  BY DEF CInv, IInv, Tables, Stored
<1>2. CASE UNCHANGED iterations
  BY <1>2, NothingChanged
<1>3. ASSUME NEW ns, NEW time, NEW reason, NEW packages, Inserts(ns, time, reason, packages)
      PROVE  Extends(iterations, iterations')
  <2>1. \A i \in DOMAIN iterations : i \in DOMAIN iterations'
    <3>1. iterations \in Seq(IterationRow)
      BY DEF CInv, IInv, Tables
    <3> QED
      BY <1>3, <3>1 DEF Inserts, InsertIteration
  <2> QED
    BY <1>3, <2>1, InsertedRow DEF Inserts, Extends, SameShape
<1>4. ASSUME NEW i, NEW q, Reports(i, q)
      PROVE  Extends(iterations, iterations')
  BY <1>4, UpdatedRow DEF Reports, Extends, SameShape, Stored
<1>5. ASSUME NEW i, NEW a, NEW b, Reserves(i, a, b)
      PROVE  Extends(iterations, iterations')
  <2> DEFINE p == Stored(i)
             g == ReserveBuild(p[a], b, "Scheduled")
             q == [p EXCEPT ![a] = g]
  <2>1. /\ i \in DOMAIN iterations /\ a \in DOMAIN p /\ b \in Nodes(p[a])
        /\ UpdatePackages(i, q)
    BY <1>5 DEF Reserves
  <2>2. p \in Packages /\ p = [c \in DOMAIN p |-> p[c]]
        /\ IsBuildSetGraph(p[a], Pkgbases, CommitHashes)
    <3>1. p \in Packages
      BY <1>1, <2>1 DEF Copy
    <3> QED
      BY <2>1, <3>1, PackagesShape
  <2>3. /\ Nodes(g) = Nodes(p[a]) /\ g.edges = p[a].edges
        /\ g.commit_hash = p[a].commit_hash
    BY <2>1, <2>2, ReservedGraph DEF PackageBuildStatus
  <2> HIDE DEF g
  <2>4. SameShape(p, q)
    BY <2>1, <2>2, <2>3 DEF SameShape
  <2> HIDE DEF p, q
  <2> QED
    BY <2>1, <2>4, UpdatedRow DEF Extends, SameShape, Stored, p
<1> QED
  BY <1>2, <1>3, <1>4, <1>5, StepsOnIterations

\* A build is blocked after a step only if it was before it.
LEMMA BlockedBefore ==
    ASSUME CInv, [Next]_vars, NEW i \in DOMAIN iterations,
           NEW a \in DOMAIN Stored(i)', NEW b \in Nodes(Stored(i)[a])'
    PROVE  /\ a \in DOMAIN Stored(i) /\ b \in Nodes(Stored(i)[a])
           /\ (Stored(i)[a].status[b])' = "Blocked" => Stored(i)[a].status[b] = "Blocked"
<1>1. a \in DOMAIN Stored(i) /\ b \in Nodes(Stored(i)[a])
  BY StepsExtend DEF Extends, SameShape, Stored
<1>2. <<i, a, b>> \in Jobs
  <2> DEFINE K == UNION {{c} \X Nodes(Graph(i, c)) :
                            c \in DOMAIN iterations[i].packages_to_be_built}
  <2>1. <<a, b>> \in K
    BY <1>1 DEF Graph, Stored
  <2> HIDE DEF K
  <2>2. <<i, a, b>> \in {<<i, j[1], j[2]>> : j \in K}
    BY <2>1
  <2> QED
    BY <2>2 DEF Jobs, Ids, K
<1>3. /\ JobStatus(<<i, a, b>>) = Stored(i)[a].status[b]
      /\ JobStatus(<<i, a, b>>)' = (Stored(i)[a].status[b])'
  BY DEF JobStatus, Graph, Stored
<1>4. /\ Stored(i)[a].status[b] \in PackageBuildStatus
      /\ Stored(i)[a].status[b] # "Pending"
  <2>1. Copy(iterations, gitlab_pipelines, pipelines, i, Stored(i))
    BY DEF CInv, IInv, Tables, Stored
  <2>2. Stored(i)[a].status \in [Nodes(Stored(i)[a]) -> PackageBuildStatus]
    BY <1>1, <2>1, PackagesShape DEF Copy
  <2> QED
    BY <1>1, <2>1, <2>2 DEF Copy, Justified
<1>5. /\ JobStatus(<<i, a, b>>) \in Settled =>
            JobStatus(<<i, a, b>>)' = JobStatus(<<i, a, b>>)
      /\ JobStatus(<<i, a, b>>) \in InProgress => JobStatus(<<i, a, b>>)' # "Blocked"
  BY <1>2, StepsAdvance
<1> QED
  BY <1>1, <1>3, <1>4, <1>5 DEF PackageBuildStatus, Settled, InProgress

-----------------------------------------------------------------------------
\* Pipelines do not change what they are for.
LEMMA PipelinesStay ==
    ASSUME CInv, Gitlab \/ UNCHANGED pipelines
    PROVE  \A i, a, b : PipelinesFor(pipelines', i, a, b) = PipelinesFor(pipelines, i, a, b)
<1>1. pipelines \in Seq(Pipeline)
  BY DEF CInv, IInv, Tables
<1>2. /\ DOMAIN pipelines' = DOMAIN pipelines
      /\ \A p \in DOMAIN pipelines :
            /\ pipelines'[p].iteration = pipelines[p].iteration
            /\ pipelines'[p].architecture = pipelines[p].architecture
            /\ pipelines'[p].pkgbase = pipelines[p].pkgbase
  <2>1. CASE UNCHANGED pipelines
    BY <2>1
  <2>2. ASSUME NEW p \in DOMAIN pipelines, NEW status,
               \/ pipelines' = [pipelines EXCEPT ![p].status = status]
               \/ pipelines' = [pipelines EXCEPT ![p].deleted = status]
        PROVE  /\ DOMAIN pipelines' = DOMAIN pipelines
               /\ \A r \in DOMAIN pipelines :
                    /\ pipelines'[r].iteration = pipelines[r].iteration
                    /\ pipelines'[r].architecture = pipelines[r].architecture
                    /\ pipelines'[r].pkgbase = pipelines[r].pkgbase
    <3> DEFINE x == [pipelines[p] EXCEPT !.status = status]
               y == [pipelines[p] EXCEPT !.deleted = status]
    <3>1. /\ x.iteration = pipelines[p].iteration /\ y.iteration = pipelines[p].iteration
          /\ x.architecture = pipelines[p].architecture
          /\ y.architecture = pipelines[p].architecture
          /\ x.pkgbase = pipelines[p].pkgbase /\ y.pkgbase = pipelines[p].pkgbase
      BY <1>1 DEF Pipeline
    <3>2. \/ pipelines' = [pipelines EXCEPT ![p] = x]
          \/ pipelines' = [pipelines EXCEPT ![p] = y]
      BY <2>2
    <3> HIDE DEF x, y
    <3> QED
      BY <1>1, <3>1, <3>2
  <2>3. CASE Gitlab
    BY <2>2, <2>3 DEF Gitlab, FinishPipeline, MovePipeline, DeletePipeline
  <2> QED
    BY <2>1, <2>3
<1> QED
  BY <1>2 DEF PipelinesFor, IsFor

\* A step that starts nothing, and lets go of no build unless it saves it or
\* is a fault.
LEMMA StaysCounted ==
    ASSUME CountInv, [Next]_vars, CInv',
           \A i, a, b : PipelinesFor(pipelines', i, a, b) = PipelinesFor(pipelines, i, a, b),
           \/ /\ UNCHANGED faults
              /\ \A i, a, b : i \in DOMAIN iterations /\ IsInHand(i, a, b) =>
                    \/ IsInHand(i, a, b)'
                    \/ (Stored(i)[a].status[b])' # "Blocked"
           \/ faults' = faults + 1
    PROVE  PipelinesAreCounted'
<1> SUFFICES ASSUME NEW i \in DOMAIN iterations', NEW a \in DOMAIN Stored(i)',
                    NEW b \in Nodes(Stored(i)[a])'
             PROVE  Counted(i, a, b)'
  BY DEF PipelinesAreCounted
<1> DEFINE n == Cardinality(PipelinesFor(pipelines, i, a, b))
<1>1. n \in Nat /\ faults \in Nat /\ faults' \in Nat
  BY PipelinesForFinite DEF CountInv, CInv, IInv, Typed
<1>2. Cardinality(PipelinesFor(pipelines', i, a, b)) = n
  OBVIOUS
<1> HIDE DEF n
<1>3. CASE i \notin DOMAIN iterations
  <2>1. n = 0
    BY <1>3, NoPipelinesYet, FS_EmptySet DEF CountInv, n
  <2>2. n <= faults' /\ n <= faults' + 1
    <3>1. \A k \in Nat : 0 <= k /\ 0 <= k + 1
      OBVIOUS
    <3> QED
      BY <1>1, <2>1, <3>1
  <2>3. Cardinality(PipelinesFor(pipelines', i, a, b)) <= faults'
    BY <1>2, <2>2
  <2>4. Cardinality(PipelinesFor(pipelines', i, a, b)) <= faults' + 1
    BY <1>2, <2>2
  <2> QED
    BY <2>3, <2>4 DEF Counted
<1>4. CASE i \in DOMAIN iterations
  <2>1. /\ a \in DOMAIN Stored(i) /\ b \in Nodes(Stored(i)[a])
        /\ (Stored(i)[a].status[b])' = "Blocked" => Stored(i)[a].status[b] = "Blocked"
    BY <1>4, BlockedBefore DEF CountInv
  <2>2. Counted(i, a, b)
    BY <1>4, <2>1 DEF CountInv, PipelinesAreCounted
  <2>3. /\ n <= faults + 1
        /\ Stored(i)[a].status[b] = "Blocked" /\ ~IsInHand(i, a, b) => n <= faults
    BY <2>2 DEF Counted, n
  <2>4. /\ n <= faults' + 1
        /\ (Stored(i)[a].status[b])' = "Blocked" /\ ~IsInHand(i, a, b)' => n <= faults'
    <3>1. CASE faults' = faults + 1
      BY <1>1, <2>3, <3>1
    <3>2. CASE UNCHANGED faults
      <4>1. IsInHand(i, a, b) => IsInHand(i, a, b)' \/ (Stored(i)[a].status[b])' # "Blocked"
        BY <1>1, <1>4, <3>2
      <4> QED
        BY <1>1, <2>1, <2>3, <3>2, <4>1
    <3> QED
      BY <3>1, <3>2
  <2> QED
    BY <1>2, <2>4 DEF Counted
<1> QED
  BY <1>3, <1>4

LEMMA ReservedIsScheduled ==
    ASSUME CInv, NEW i, NEW a, NEW b, Reserves(i, a, b)
    PROVE  (Stored(i)[a].status[b])' = "Scheduled"
<1> DEFINE g == ReserveBuild(Stored(i)[a], b, "Scheduled")
<1>1. /\ i \in DOMAIN iterations /\ a \in DOMAIN Stored(i) /\ b \in Nodes(Stored(i)[a])
      /\ UpdatePackages(i, [Stored(i) EXCEPT ![a] = g])
  BY DEF Reserves
<1>2. Stored(i) \in Packages
  BY <1>1 DEF CInv, IInv, Tables, Copy, Stored
<1>3. /\ IsBuildSetGraph(Stored(i)[a], Pkgbases, CommitHashes)
      /\ Stored(i) \in [DOMAIN Stored(i) -> Graphs]
      /\ Stored(i)[a].status \in [Nodes(Stored(i)[a]) -> PackageBuildStatus]
  BY <1>1, <1>2, PackagesShape
<1>4. g.status = [Stored(i)[a].status EXCEPT ![b] = "Scheduled"]
  BY <1>1, <1>3, ReservedGraph DEF PackageBuildStatus
<1>5. iterations'[i].packages_to_be_built = [Stored(i) EXCEPT ![a] = g]
  BY <1>1, UpdatedRow
<1> HIDE DEF g
<1>6. Stored(i)[a]' = g
  BY <1>1, <1>3, <1>5 DEF Stored
<1> QED
  BY <1>1, <1>3, <1>4, <1>6

\* A pipeline is created for a blocked build, which is in the loop's hand then,
\* or the call counts as a fault.
LEMMA DispatchStaysCounted ==
    ASSUME CountInv, [Next]_vars, CInv', pc = "schedule", UNCHANGED iterations,
           NEW a \in architectures, NEW b \in Ready(a),
           NEW status, GitlabCreates(a, b, status),
           \/ /\ UNCHANGED <<iteration, faults>>
              /\ pc' = "record" /\ build'.architecture = a /\ build'.pkgbase = b
           \/ faults' = faults + 1
    PROVE  PipelinesAreCounted'
<1> SUFFICES ASSUME NEW i \in DOMAIN iterations, NEW c \in DOMAIN Stored(i),
                    NEW d \in Nodes(Stored(i)[c])
             PROVE  Counted(i, c, d)'
  BY DEF PipelinesAreCounted, Stored
<1> DEFINE n == Cardinality(PipelinesFor(pipelines, i, c, d))
           m == Cardinality(PipelinesFor(pipelines', i, c, d))
           x == [iteration |-> iteration.id, architecture |-> a, pkgbase |-> b,
                 status |-> status, deleted |-> FALSE]
<1>1. n \in Nat /\ m \in Nat /\ faults \in Nat /\ faults' \in Nat
  <2>1. n \in Nat /\ faults \in Nat /\ faults' \in Nat
    BY PipelinesForFinite DEF CountInv, CInv, IInv, Typed
  <2>2. pipelines' \in Seq(Pipeline)
    BY DEF CInv, IInv, Tables
  <2>3. IsFiniteSet(DOMAIN pipelines')
    BY <2>2, FS_Interval
  <2> QED
    BY <2>1, <2>3, FS_Subset, FS_CardinalityType DEF PipelinesFor
<1>2. Counted(i, c, d) /\ ~IsInHand(i, c, d)
  BY DEF CountInv, PipelinesAreCounted, IsInHand
<1>3. pipelines' = Append(pipelines, x)
  BY DEF GitlabCreates
<1>4. m <= n + 1 /\ (~IsFor(x, i, c, d) => m = n)
  BY <1>3, PipelineAdded DEF CountInv
<1>5. IsFor(x, i, c, d) <=> iteration.id = i /\ a = c /\ b = d
  BY DEF IsFor
<1>6. UNCHANGED Stored(i)
  BY DEF Stored
<1>7. IsFor(x, i, c, d) => Stored(i)[c].status[d] = "Blocked"
  <2> SUFFICES ASSUME iteration.id = i, a = c, b = d
               PROVE  Stored(i)[c].status[d] = "Blocked"
    BY <1>5
  <2>1. /\ iteration.packages_to_be_built = Stored(i)
        /\ Copy(iterations, gitlab_pipelines, pipelines, i, Stored(i))
    BY DEF CountInv, CInv, ReadIsCurrent, IInv, Scheduling, Stored
  <2>2. Stored(i)[c].status[d] # "Pending"
    BY <2>1 DEF Copy, Justified
  <2> QED
    BY <2>1, <2>2 DEF Ready, ReadyBuilds
<1> HIDE DEF n, m, x
<1>8. UNCHANGED faults /\ IsFor(x, i, c, d) => IsInHand(i, c, d)'
  BY <1>1, <1>5 DEF IsInHand
<1>9. /\ n <= faults + 1
      /\ Stored(i)[c].status[d] = "Blocked" => n <= faults
  BY <1>2 DEF Counted, n
<1>10. /\ m <= faults' + 1
       /\ Stored(i)[c].status[d] = "Blocked" /\ ~IsInHand(i, c, d)' => m <= faults'
  <2>1. CASE IsFor(x, i, c, d)
    <3>1. n <= faults /\ m <= n + 1
      BY <1>4, <1>7, <1>9, <2>1
    <3>2. m <= faults + 1
      BY <1>1, <3>1
    <3>3. CASE UNCHANGED faults
      BY <1>8, <2>1, <3>2, <3>3
    <3>4. CASE faults' = faults + 1
      <4>1. m <= (faults + 1) + 1
        BY <1>1, <3>2
      <4> QED
        BY <3>2, <3>4, <4>1
    <3> QED
      BY <3>3, <3>4
  <2>2. CASE ~IsFor(x, i, c, d)
    <3>1. m = n
      BY <1>4, <2>2
    <3>2. \A k \in Nat : \A f \in Nat : k <= f => k <= f + 1
      OBVIOUS
    <3>3. CASE UNCHANGED faults
      BY <1>9, <3>1, <3>3
    <3>4. CASE faults' = faults + 1
      <4>1. m <= faults + 1
        BY <1>9, <3>1
      <4>2. m <= (faults + 1) + 1
        BY <1>1, <3>2, <4>1
      <4> QED
        BY <3>4, <4>1, <4>2
    <3> QED
      BY <3>3, <3>4
  <2> QED
    BY <2>1, <2>2
<1>11. (Stored(i)[c].status[d])' = "Blocked" => Stored(i)[c].status[d] = "Blocked"
  BY DEF Stored
<1>12. Cardinality(PipelinesFor(pipelines', i, c, d)) = m
  BY DEF m
<1> QED
  BY <1>10, <1>11, <1>12 DEF Counted

LEMMA NextCountInv == CountInv /\ [Next]_vars => CountInv'
<1> SUFFICES ASSUME CountInv, [Next]_vars
             PROVE  CountInv'
  OBVIOUS
<1>i. CInv'
  BY NextCInv DEF CountInv
<1> SUFFICES PipelinesAreCounted'
  BY <1>i DEF CountInv
<1> USE DEF database, polling, scheduling, bounds, server
<1>1. CASE \E a \in architectures : \E b \in Ready(a) : CreatePipeline(a, b)
  <2>1. PICK a \in architectures : \E b \in Ready(a) : CreatePipeline(a, b)
    BY <1>1
  <2>2. PICK b \in Ready(a) : CreatePipeline(a, b)
    BY <2>1
  <2>3. /\ pc = "schedule" /\ pc' = "record"
        /\ build'.architecture = a /\ build'.pkgbase = b
        /\ UNCHANGED <<iterations, iteration, faults>>
        /\ \E status \in {"Created", "Pending"} : GitlabCreates(a, b, status)
    BY <2>2 DEF CreatePipeline
  <2> QED
    BY <1>i, <2>3, DispatchStaysCounted
<1>2. CASE \E a \in architectures : \E b \in Ready(a) : SchedulingFails(a, b)
  <2>1. PICK a \in architectures : \E b \in Ready(a) : SchedulingFails(a, b)
    BY <1>2
  <2>2. PICK b \in Ready(a) : SchedulingFails(a, b)
    BY <2>1
  <2>3. /\ pc = "schedule" /\ UNCHANGED iterations /\ faults' = faults + 1
        /\ GitlabCreates(a, b, "Created") \/ UNCHANGED pipelines
    BY <2>2 DEF SchedulingFails, Fault
  <2>4. CASE UNCHANGED pipelines
    BY <1>i, <2>3, <2>4, StaysCounted
  <2>5. CASE GitlabCreates(a, b, "Created")
    BY <1>i, <2>3, <2>5, DispatchStaysCounted
  <2> QED
    BY <2>3, <2>4, <2>5
<1>3. CASE UpdateIteration
  <2>1. UNCHANGED <<pipelines, faults>>
    BY <1>3 DEF UpdateIteration
  <2>2. Reserves(iteration.id, build.architecture, build.pkgbase)
    BY <1>3, UpdateReserves DEF CountInv
  <2>3. \A i, a, b : IsInHand(i, a, b) => Reserves(i, a, b)
    BY <2>2 DEF IsInHand
  <2>4. \A i, a, b : i \in DOMAIN iterations /\ IsInHand(i, a, b) =>
            (Stored(i)[a].status[b])' # "Blocked"
    BY <2>3, ReservedIsScheduled DEF CountInv
  <2> QED
    BY <1>i, <2>1, <2>4, StaysCounted
<1>4. CASE RecordPipeline
  <2>1. UNCHANGED <<pipelines, faults>>
    BY <1>4 DEF RecordPipeline
  <2>2. \A i, a, b : IsInHand(i, a, b) => IsInHand(i, a, b)'
    BY <1>4 DEF RecordPipeline, IsInHand
  <2> QED
    BY <1>i, <2>1, <2>2, StaysCounted
<1>5. CASE NamespaceFails \/ Crash
  <2>1. UNCHANGED pipelines /\ faults' = faults + 1
    BY <1>5 DEF NamespaceFails, LeaveNamespace, Crash, Fault
  <2> QED
    BY <1>i, <2>1, StaysCounted
<1>6. CASE \/ StartPass
           \/ \E id \in DOMAIN iterations : PollIteration(id)
           \/ \E a \in Architectures, b \in Pkgbases : CheckPipeline(a, b)
           \/ PersistIteration
           \/ PollingFails
           \/ PassFails
           \/ ListActiveNamespaces
  <2>1. /\ UNCHANGED pipelines /\ (UNCHANGED faults \/ faults' = faults + 1)
        /\ pc \notin {"record", "update"}
    BY <1>6 DEF StartPass, PollIteration, CheckPipeline, PersistIteration, PollingFails,
       PassFails, ListActiveNamespaces, Fault
  <2> QED
    BY <1>i, <2>1, StaysCounted DEF IsInHand
<1>7. CASE \/ \E ns \in Namespaces : UpdateNextNamespace(ns)
           \/ \E packages \in BuildSets : CreateIterationIfNeeded(packages)
           \/ \E id \in DOMAIN iterations : ReadNewestIteration(id)
           \/ \E a \in architectures : NothingToSchedule(a)
           \/ FinishNamespace
           \/ FinishPass
  <2>1. /\ UNCHANGED pipelines /\ (UNCHANGED faults \/ faults' = faults + 1)
        /\ pc \notin {"record", "update"}
    BY <1>7 DEF UpdateNextNamespace, CreateIterationIfNeeded, ReadNewestIteration,
       NothingToSchedule, FinishNamespace, LeaveNamespace, FinishPass, Fault
  <2> QED
    BY <1>i, <2>1, StaysCounted DEF IsInHand
<1>8. CASE Handlers \/ UNCHANGED vars
  <2>1. UNCHANGED <<pipelines, faults, pc, iteration, build>>
    BY <1>8 DEF Handlers, CreateNamespace, UpdateNamespace, RequestIteration,
       AnswerRequest, RequestFails, loop, vars
  <2> QED
    BY <1>i, <2>1, StaysCounted DEF IsInHand
<1>9. CASE Gitlab
  <2>1. /\ UNCHANGED <<pc, iteration, build>>
        /\ UNCHANGED faults \/ faults' = faults + 1
    BY <1>9 DEF Gitlab, FinishPipeline, MovePipeline, DeletePipeline, Fault, loop
  <2> QED
    BY <1>i, <1>9, <2>1, PipelinesStay, StaysCounted DEF IsInHand, CountInv
<1> QED
  BY <1>1, <1>2, <1>3, <1>4, <1>5, <1>6, <1>7, <1>8, <1>9 DEF Next, LoopStep, Failure

\* Without a failed call or a crash no build ever gets a second pipeline, and
\* each of those costs one at most.
THEOREM DispatchIsNotRepeated == Spec => []NoNeedlessPipelines
<1>1. Init => CountInv
  <2> SUFFICES ASSUME Init
               PROVE  CountInv
    OBVIOUS
  <2>1. CInv /\ DOMAIN iterations = {}
    BY InitCInv DEF Init
  <2> QED
    BY <2>1 DEF CountInv, PipelinesAreCounted
<1>2. CountInv => NoNeedlessPipelines
  <2> SUFFICES ASSUME CountInv, NEW j \in Jobs
               PROVE  Cardinality(PipelinesOf(j)) <= 1 + faults
    BY DEF NoNeedlessPipelines
  <2>1. /\ j[1] \in DOMAIN iterations /\ j[2] \in DOMAIN Stored(j[1])
        /\ j[3] \in Nodes(Stored(j[1])[j[2]])
    BY DEF Jobs, Ids, Graph, Stored
  <2>2. PipelinesOf(j) = PipelinesFor(pipelines, j[1], j[2], j[3])
    BY DEF PipelinesOf, PipelinesFor, IsFor
  <2>3. faults \in Nat /\ Cardinality(PipelinesOf(j)) \in Nat
    BY <2>2, PipelinesForFinite DEF CountInv, CInv, IInv, Typed
  <2> QED
    BY <2>1, <2>2, <2>3 DEF CountInv, PipelinesAreCounted, Counted
<1> QED
  BY <1>1, <1>2, NextCountInv, PTL DEF Spec

-----------------------------------------------------------------------------
(***************************************************************************)
(* No iteration stops half-way                                             *)
(***************************************************************************)

IsAcyclic(packages) ==
    \A a \in DOMAIN packages : \A c \in SUBSET Nodes(packages[a]) :
        c # {} => \E b \in c : Dependencies(packages[a], b) \intersect c = {}

RowsAreAcyclic == \A i \in DOMAIN iterations : IsAcyclic(Stored(i))

LEMMA ShapeIsAcyclic ==
    ASSUME NEW p, NEW q, SameShape(p, q), IsAcyclic(p)
    PROVE  IsAcyclic(q)
<1> SUFFICES ASSUME NEW a \in DOMAIN q, NEW c \in SUBSET Nodes(q[a]), c # {}
             PROVE  \E b \in c : Dependencies(q[a], b) \intersect c = {}
  BY DEF IsAcyclic
<1>1. a \in DOMAIN p /\ c \in SUBSET Nodes(p[a])
  BY DEF SameShape
<1>2. \A b : Dependencies(p[a], b) = Dependencies(q[a], b)
  BY <1>1, ShapeDependencies
<1> QED
  BY <1>1, <1>2 DEF IsAcyclic

\* The row that an insertion adds.
LEMMA AddedRow ==
    ASSUME CInv, NEW ns, NEW time, NEW reason, NEW packages,
           InsertIteration(ns, time, reason, packages)
    PROVE  /\ DOMAIN iterations' = DOMAIN iterations \union {Len(iterations) + 1}
           /\ Len(iterations) + 1 \notin DOMAIN iterations
           /\ iterations'[Len(iterations) + 1] =
                [namespace |-> ns, created_at |-> time, create_reason |-> reason,
                 packages_to_be_built |-> packages]
           /\ \A i \in DOMAIN iterations : iterations'[i] = iterations[i]
<1>1. iterations \in Seq(IterationRow)
  BY DEF CInv, IInv, Tables
<1> QED
  BY <1>1 DEF InsertIteration

LEMMA NextRowsAreAcyclic ==
    ASSUME CInv, RowsAreAcyclic, [Next]_vars
    PROVE  RowsAreAcyclic'
<1>1. \A i \in DOMAIN iterations : IsAcyclic(iterations'[i].packages_to_be_built)
  BY StepsExtend, ShapeIsAcyclic DEF Extends, RowsAreAcyclic, Stored
<1>2. CASE DOMAIN iterations' = DOMAIN iterations
  BY <1>1, <1>2 DEF RowsAreAcyclic, Stored
<1>3. ASSUME NEW ns, NEW time, NEW reason, NEW packages,
             Inserts(ns, time, reason, packages)
      PROVE  RowsAreAcyclic'
  <2>1. packages \in BuildSets /\ InsertIteration(ns, time, reason, packages)
    BY <1>3 DEF Inserts
  <2>2. IsAcyclic(packages)
    BY <2>1, AcyclicAssumption DEF IsAcyclic
  <2>3. iterations'[Len(iterations) + 1].packages_to_be_built = packages
    <3>1. iterations'[Len(iterations) + 1] =
            [namespace |-> ns, created_at |-> time, create_reason |-> reason,
             packages_to_be_built |-> packages]
      BY <2>1, AddedRow
    <3> QED
      BY <3>1
  <2>4. DOMAIN iterations' = DOMAIN iterations \union {Len(iterations) + 1}
    BY <2>1, AddedRow
  <2> QED
    BY <1>1, <2>2, <2>3, <2>4 DEF RowsAreAcyclic, Stored
<1>4. ASSUME NEW i, NEW q, Reports(i, q)
      PROVE  DOMAIN iterations' = DOMAIN iterations
  BY <1>4, UpdatedRow DEF Reports
<1>5. ASSUME NEW i, NEW a, NEW b, Reserves(i, a, b)
      PROVE  DOMAIN iterations' = DOMAIN iterations
  BY <1>5, UpdatedRow DEF Reserves
<1> QED
  BY <1>2, <1>3, <1>4, <1>5, StepsOnIterations

\* Without cycles the searches come across every node, and the blocked nodes
\* cannot all wait for each other.
LEMMA NothingReadyMeansBuilt ==
    ASSUME NEW packages \in Packages, IsAcyclic(packages), NEW a \in DOMAIN packages,
           ReadyBuilds(packages[a]) = {},
           \A b \in Nodes(packages[a]) :
                packages[a].status[b] \notin InProgress \union {"Failed"}
    PROVE  \A b \in Nodes(packages[a]) : packages[a].status[b] = "Built"
<1> DEFINE graph == packages[a]
           missed == Nodes(graph) \ VisitedNodes(graph)
           blocked == {b \in Nodes(graph) : graph.status[b] = "Blocked"}
<1>1. graph.status \in [Nodes(graph) -> PackageBuildStatus]
  BY PackagesShape
<1>2. \A c \in SUBSET Nodes(graph) :
            c # {} => \E b \in c : Dependencies(graph, b) \intersect c = {}
  BY DEF IsAcyclic
<1>3. \A b \in Nodes(graph) : graph.status[b] \notin InProgress \union {"Failed"}
  OBVIOUS
<1>4. ReadyBuilds(graph) = {}
  OBVIOUS
<1> HIDE DEF graph
<1>5. missed = {}
  <2> SUFFICES ASSUME missed # {}
               PROVE  FALSE
    OBVIOUS
  <2>1. PICK b \in missed : Dependencies(graph, b) \intersect missed = {}
    BY <1>2
  <2>2. CASE Dependencies(graph, b) = {}
    <3>1. b \in RootNodes(graph)
      BY <2>2 DEF RootNodes
    <3>2. b \in VisitedNodes(graph)
      BY <3>1 DEF VisitedNodes, RootNodes
    <3> QED
      BY <3>2
  <2>3. ASSUME NEW d \in Dependencies(graph, b)
        PROVE  FALSE
    <3>1. d \in VisitedNodes(graph) /\ <<d, b>> \in graph.edges
      BY <2>1 DEF Dependencies
    <3>2. b \in VisitedNodes(graph)
      BY <3>1 DEF VisitedNodes
    <3> QED
      BY <3>2
  <2> QED
    BY <2>2, <2>3
<1>6. VisitedNodes(graph) = Nodes(graph)
  BY <1>5 DEF VisitedNodes
<1>7. \A b \in Nodes(graph) : graph.status[b] \in {"Blocked", "Built"}
  BY <1>1, <1>3, <1>4, <1>6 DEF ReadyBuilds, InProgress, PackageBuildStatus
<1>8. blocked = {}
  <2> SUFFICES ASSUME blocked # {}
               PROVE  FALSE
    OBVIOUS
  <2>1. PICK b \in blocked : Dependencies(graph, b) \intersect blocked = {}
    BY <1>2
  <2>2. ~StillBlocked(graph, b)
    BY <1>7, <2>1 DEF StillBlocked, Dependencies
  <2> QED
    BY <1>4, <1>6, <2>1, <2>2 DEF ReadyBuilds
<1> QED
  BY <1>7, <1>8 DEF graph

\* Whatever is written into a graph, its edges stay those of an acyclic build
\* set and its builds stay tracked: one can be started, or one is waited for, or
\* one has failed, or all are built (schedule_next_build_in_graph).
THEOREM DispatchIsNeverStuck == Spec => []SchedulerIsNeverStuck
<1>1. Init => RowsAreAcyclic
  BY DEF Init, RowsAreAcyclic
<1>2. CInv /\ RowsAreAcyclic /\ [Next]_vars => RowsAreAcyclic'
  BY NextRowsAreAcyclic
<1>3. CInv /\ RowsAreAcyclic => SchedulerIsNeverStuck
  <2> SUFFICES ASSUME CInv, RowsAreAcyclic, NEW i \in DOMAIN iterations,
                      NEW a \in DOMAIN Stored(i), ReadyBuilds(Stored(i)[a]) = {},
                      \A b \in Nodes(Stored(i)[a]) :
                        /\ Stored(i)[a].status[b] # "Failed"
                        /\ Stored(i)[a].status[b] \in InProgress =>
                                PipelineRows(i, a, b) = {}
               PROVE  \A b \in Nodes(Stored(i)[a]) : Stored(i)[a].status[b] = "Built"
    BY DEF SchedulerIsNeverStuck, Ids, Graph, Stored
  <2>1. Copy(iterations, gitlab_pipelines, pipelines, i, Stored(i))
    BY DEF CInv, IInv, Tables, Stored
  <2>2. \A b \in Nodes(Stored(i)[a]) : Stored(i)[a].status[b] \notin InProgress
    BY <2>1 DEF Copy, Justified, HasRow, IsFor, PipelineRows, InProgress
  <2>3. Stored(i) \in Packages /\ IsAcyclic(Stored(i))
    BY <2>1 DEF Copy, RowsAreAcyclic
  <2> QED
    BY <2>2, <2>3, NothingReadyMeansBuilt
<1> QED
  BY <1>1, <1>2, <1>3, CurrentInvariance, PTL DEF Spec

-----------------------------------------------------------------------------
(***************************************************************************)
(* Iterations have reasons                                                 *)
(***************************************************************************)

\* What is decided when a row is inserted.
SameOrigin(r, s) ==
    /\ r.namespace = s.namespace
    /\ r.created_at = s.created_at
    /\ r.create_reason = s.create_reason

CommitsIn(its, i) ==
    [a \in DOMAIN its[i].packages_to_be_built |->
        its[i].packages_to_be_built[a].commit_hash]

\* Rows are added, and written with other statuses only.
Continues(its, its2) ==
    \A i \in DOMAIN its :
        /\ i \in DOMAIN its2
        /\ SameOrigin(its[i], its2[i])
        /\ CommitsIn(its, i) = CommitsIn(its2, i)

\* The loop made no row of the namespace of j after j, or after j and before the
\* given time.
IsLast(its, j) ==
    \A k \in DOMAIN its : its[k].namespace = its[j].namespace =>
        \/ its[k].create_reason = "CreatedByUser"
        \/ its[k].created_at <= its[j].created_at

IsLastBefore(its, j, time) ==
    \A k \in DOMAIN its : its[k].namespace = its[j].namespace =>
        \/ its[k].create_reason = "CreatedByUser"
        \/ its[k].created_at <= its[j].created_at
        \/ its[k].created_at >= time

IsReason(its, i, j) ==
    /\ its[j].namespace = its[i].namespace
    /\ its[j].created_at < its[i].created_at
    /\ CommitsIn(its, j) # CommitsIn(its, i)
    /\ IsLastBefore(its, j, its[i].created_at)

HasReason(its, i) ==
    its[i].create_reason = "BuildSetGraphChanged" => \E j \in DOMAIN its : IsReason(its, i, j)

Firsts(its, ns) ==
    {i \in DOMAIN its : its[i].namespace = ns /\ its[i].create_reason = "FirstIteration"}

\* The loop is about to insert a first iteration.
StartsOver(c, current, read, ns) == c = "calculate" /\ current = ns /\ read = 0

TimesWereHandedOut ==
    /\ \A i \in DOMAIN iterations : iterations[i].created_at <= clock
    /\ \A request \in requests : request.created_at <= clock

\* No row made by the loop is newer than the one it compares with.
PreviousIsLast ==
    pc = "calculate" /\ previous # 0 =>
        /\ iterations[previous].namespace = namespace
        /\ IsLast(iterations, previous)

FirstsAreCounted ==
    \A ns \in Namespaces :
        /\ Cardinality(Firsts(iterations, ns)) <= 1 + faults
        /\ StartsOver(pc, namespace, previous, ns) =>
                Cardinality(Firsts(iterations, ns)) <= faults

ReasonsInv ==
    /\ CInv
    /\ TimesWereHandedOut
    /\ PreviousIsLast
    /\ \A i \in DOMAIN iterations : HasReason(iterations, i)
    /\ FirstsAreCounted

-----------------------------------------------------------------------------
LEMMA RowTypes ==
    ASSUME CInv
    PROVE  /\ clock \in Nat /\ faults \in Nat
           /\ iterations \in Seq(IterationRow)
           /\ \A i \in DOMAIN iterations :
                /\ iterations[i] \in IterationRow
                /\ iterations[i].created_at \in Nat
                /\ iterations[i].packages_to_be_built \in Packages
<1>1. clock \in Nat /\ faults \in Nat /\ iterations \in Seq(IterationRow)
  BY DEF CInv, IInv, Typed, Tables
<1>2. \A i \in DOMAIN iterations : iterations[i] \in IterationRow
  BY <1>1
<1>3. \A row \in IterationRow : row.created_at \in Nat /\ row.packages_to_be_built \in Packages
  BY DEF IterationRow
<1> QED
  BY <1>1, <1>2, <1>3

LEMMA FirstsFinite ==
    ASSUME NEW its \in Seq(IterationRow), NEW ns
    PROVE  /\ IsFiniteSet(Firsts(its, ns))
           /\ Cardinality(Firsts(its, ns)) \in Nat
<1>1. IsFiniteSet(DOMAIN its)
  <2>1. DOMAIN its = 1 .. Len(its) /\ Len(its) \in Nat
    OBVIOUS
  <2> QED
    BY <2>1, FS_Interval
<1>2. Firsts(its, ns) \in SUBSET DOMAIN its
  BY DEF Firsts
<1> QED
  BY <1>1, <1>2, FS_Subset, FS_CardinalityType

\* Graphs of one shape have the same commits.
LEMMA ShapeCommits ==
    ASSUME NEW p, NEW q, SameShape(p, q)
    PROVE  [a \in DOMAIN p |-> p[a].commit_hash] = [a \in DOMAIN q |-> q[a].commit_hash]
BY DEF SameShape

LEMMA UpdatedRowKeepsOrigin ==
    ASSUME CInv, NEW id \in DOMAIN iterations, NEW q, UpdatePackages(id, q)
    PROVE  \A i \in DOMAIN iterations : SameOrigin(iterations[i], iterations'[i])
<1>1. iterations \in Seq(IterationRow) /\ iterations[id] \in IterationRow
  BY RowTypes
<1> DEFINE row == [iterations[id] EXCEPT !.packages_to_be_built = q]
<1>2. SameOrigin(iterations[id], row)
  BY <1>1 DEF IterationRow, SameOrigin
<1>3. iterations' = [iterations EXCEPT ![id] = row]
  BY <1>1 DEF UpdatePackages
<1> HIDE DEF row
<1>4. /\ iterations'[id] = row
      /\ \A i \in DOMAIN iterations : i # id => iterations'[i] = iterations[i]
  BY <1>1, <1>3
<1> QED
  BY <1>2, <1>4 DEF SameOrigin

LEMMA StepsContinue ==
    ASSUME CInv, [Next]_vars
    PROVE  Continues(iterations, iterations')
<1>1. \A i \in DOMAIN iterations :
        /\ i \in DOMAIN iterations'
        /\ CommitsIn(iterations, i) = CommitsIn(iterations', i)
  BY StepsExtend, ShapeCommits DEF Extends, CommitsIn
<1> SUFFICES \A i \in DOMAIN iterations : SameOrigin(iterations[i], iterations'[i])
  BY <1>1 DEF Continues
<1>2. CASE UNCHANGED iterations
  BY <1>2 DEF SameOrigin
<1>3. ASSUME NEW ns, NEW time, NEW reason, NEW packages, Inserts(ns, time, reason, packages)
      PROVE  \A i \in DOMAIN iterations : SameOrigin(iterations[i], iterations'[i])
  BY <1>3, InsertedRow DEF Inserts, SameOrigin
<1>4. ASSUME NEW i, NEW q, Reports(i, q)
      PROVE  \A k \in DOMAIN iterations : SameOrigin(iterations[k], iterations'[k])
  BY <1>4, UpdatedRowKeepsOrigin DEF Reports
<1>5. ASSUME NEW i, NEW a, NEW b, Reserves(i, a, b)
      PROVE  \A k \in DOMAIN iterations : SameOrigin(iterations[k], iterations'[k])
  BY <1>5, UpdatedRowKeepsOrigin DEF Reserves
<1> QED
  BY <1>2, <1>3, <1>4, <1>5, StepsOnIterations

\* A new row does not come between an iteration and its reason.
LEMMA ReasonStays ==
    ASSUME NEW its, NEW its2, Continues(its, its2), NEW i \in DOMAIN its, HasReason(its, i),
           \A k \in DOMAIN its2 \ DOMAIN its :
                \/ its2[k].create_reason = "CreatedByUser"
                \/ its2[k].created_at >= its[i].created_at
    PROVE  HasReason(its2, i)
<1> SUFFICES ASSUME its2[i].create_reason = "BuildSetGraphChanged"
             PROVE  \E j \in DOMAIN its2 : IsReason(its2, i, j)
  BY DEF HasReason
<1>1. PICK j \in DOMAIN its : IsReason(its, i, j)
  BY DEF HasReason, Continues, SameOrigin
<1>2. j \in DOMAIN its2
  BY DEF Continues
<1>3. /\ its2[j].namespace = its2[i].namespace
      /\ its2[j].created_at < its2[i].created_at
      /\ CommitsIn(its2, j) # CommitsIn(its2, i)
  BY <1>1 DEF IsReason, Continues, SameOrigin
<1>4. IsLastBefore(its2, j, its2[i].created_at)
  BY <1>1 DEF IsReason, IsLastBefore, Continues, SameOrigin
<1> QED
  BY <1>2, <1>3, <1>4 DEF IsReason

\* When no row is added and the loop does not look for a new previous one.
LEMMA QuietStepKeepsReasons ==
    ASSUME ReasonsInv, [Next]_vars,
           DOMAIN iterations' = DOMAIN iterations,
           requests' \subseteq requests, UNCHANGED clock, faults' \in {faults, faults + 1},
           pc' # "calculate" \/ UNCHANGED <<pc, namespace, previous>>
    PROVE  ReasonsInv'
<1>1. CInv' /\ Continues(iterations, iterations')
  BY NextCInv, StepsContinue DEF ReasonsInv
<1>2. TimesWereHandedOut'
  BY <1>1 DEF ReasonsInv, TimesWereHandedOut, Continues, SameOrigin
<1>3. PreviousIsLast'
  <2>1. previous \in DOMAIN iterations \union {0}
    BY DEF ReasonsInv, CInv, IInv, Typed
  <2>2. ASSUME pc' = "calculate", previous' # 0
        PROVE  /\ iterations'[previous'].namespace = namespace'
               /\ IsLast(iterations', previous')
    <3>1. /\ previous' = previous /\ namespace' = namespace /\ pc = "calculate"
          /\ previous \in DOMAIN iterations /\ clock' = clock
      BY <2>1, <2>2
    <3>2. /\ iterations[previous].namespace = namespace
          /\ IsLast(iterations, previous)
      BY <2>2, <3>1 DEF ReasonsInv, PreviousIsLast
    <3>3. IsLast(iterations', previous)
      BY <1>1, <3>1, <3>2 DEF IsLast, Continues, SameOrigin
    <3> QED
      BY <1>1, <3>1, <3>2, <3>3 DEF Continues, SameOrigin
  <2> QED
    BY <2>2 DEF PreviousIsLast
<1>4. \A i \in DOMAIN iterations' : HasReason(iterations', i)
  BY <1>1, ReasonStays DEF ReasonsInv
<1>5. FirstsAreCounted'
  <2> SUFFICES ASSUME NEW ns \in Namespaces
               PROVE  /\ Cardinality(Firsts(iterations', ns)) <= 1 + faults'
                      /\ StartsOver(pc', namespace', previous', ns) =>
                            Cardinality(Firsts(iterations', ns)) <= faults'
    BY DEF FirstsAreCounted
  <2>1. Firsts(iterations', ns) = Firsts(iterations, ns)
    BY <1>1 DEF Firsts, Continues, SameOrigin
  <2>2. /\ Cardinality(Firsts(iterations, ns)) <= 1 + faults
        /\ StartsOver(pc, namespace, previous, ns) =>
                Cardinality(Firsts(iterations, ns)) <= faults
    BY DEF ReasonsInv, FirstsAreCounted
  <2>3. faults \in Nat /\ Cardinality(Firsts(iterations, ns)) \in Nat
    BY RowTypes, FirstsFinite DEF ReasonsInv
  <2>4. StartsOver(pc', namespace', previous', ns) => StartsOver(pc, namespace, previous, ns)
    BY DEF StartsOver
  <2> DEFINE n == Cardinality(Firsts(iterations, ns))
  <2> HIDE DEF n
  <2>5. \A m, f, g \in Nat : g \in {f, f + 1} => (m <= 1 + f => m <= 1 + g) /\ (m <= f => m <= g)
    OBVIOUS
  <2>6. faults' \in Nat
    BY <2>3
  <2> QED
    BY <2>1, <2>2, <2>3, <2>4, <2>5, <2>6
<1> QED
  BY <1>1, <1>2, <1>3, <1>4, <1>5 DEF ReasonsInv

\* The timestamps of all rows are from before a step that hands one out.
LEMMA TimesAreInOrder ==
    ASSUME ReasonsInv
    PROVE  \A i \in DOMAIN iterations :
                /\ iterations[i].created_at \in Nat
                /\ iterations[i].created_at <= clock
                /\ iterations[i].created_at < clock + 1
<1>1. \A i \in DOMAIN iterations :
        iterations[i].created_at \in Nat /\ iterations[i].created_at <= clock
  BY RowTypes DEF ReasonsInv, TimesWereHandedOut
<1>2. \A m, n \in Nat : m <= n => m < n + 1
  OBVIOUS
<1> QED
  BY <1>1, <1>2, RowTypes DEF ReasonsInv

LEMMA RequestKeepsReasons ==
    ASSUME ReasonsInv, [Next]_vars, NEW ns \in Namespaces, RequestIteration(ns)
    PROVE  ReasonsInv'
<1>1. CInv' /\ Continues(iterations, iterations')
  BY NextCInv, StepsContinue DEF ReasonsInv
<1>2. /\ UNCHANGED <<iterations, pc, namespace, previous, faults>>
      /\ clock' = clock + 1
      /\ requests' = requests \union {[namespace |-> ns, created_at |-> clock']}
  BY DEF RequestIteration, database, loop, scheduling
<1>3. TimesWereHandedOut'
  <2>1. \A request \in requests : request.created_at \in Nat /\ request.created_at <= clock
    BY DEF ReasonsInv, TimesWereHandedOut, CInv, IInv, Typed
  <2>2. clock \in Nat /\ \A m, n \in Nat : m <= n => m <= n + 1
    BY RowTypes DEF ReasonsInv
  <2>3. \A i \in DOMAIN iterations : iterations[i].created_at <= clock + 1
    BY <2>2, TimesAreInOrder
  <2>4. \A request \in requests' : request.created_at <= clock + 1
    BY <1>2, <2>1, <2>2
  <2> QED
    BY <1>2, <2>3, <2>4 DEF TimesWereHandedOut
<1>4. PreviousIsLast' /\ FirstsAreCounted'
  BY <1>2 DEF ReasonsInv, PreviousIsLast, FirstsAreCounted
<1>5. \A i \in DOMAIN iterations' : HasReason(iterations', i)
  BY <1>2 DEF ReasonsInv
<1> QED
  BY <1>1, <1>3, <1>4, <1>5 DEF ReasonsInv

LEMMA NextNamespaceKeepsReasons ==
    ASSUME ReasonsInv, [Next]_vars, NEW ns \in Namespaces, UpdateNextNamespace(ns)
    PROVE  ReasonsInv'
<1>1. CInv'
  BY NextCInv DEF ReasonsInv
<1>2. /\ UNCHANGED <<iterations, requests, clock>>
      /\ pc' = "calculate" /\ namespace' = ns
  BY DEF UpdateNextNamespace, database, bounds, Fault
<1>3. \/ /\ \E newest \in OfNamespace(ns) : IsNewest(newest, ns) /\ previous' = newest
         /\ faults' = faults
      \/ OfNamespace(ns) = {} /\ previous' = 0 /\ faults' = faults
      \/ previous' = 0 /\ faults' = faults + 1
  BY DEF UpdateNextNamespace, Fault, bounds
<1>4. TimesWereHandedOut' /\ \A i \in DOMAIN iterations' : HasReason(iterations', i)
  BY <1>2 DEF ReasonsInv, TimesWereHandedOut
<1>5. PreviousIsLast'
  <2> SUFFICES ASSUME previous' # 0
               PROVE  /\ iterations[previous'].namespace = ns
                      /\ IsLast(iterations, previous')
    BY <1>2 DEF PreviousIsLast
  <2>1. previous' \in OfNamespace(ns) /\ IsNewest(previous', ns)
    BY <1>3
  <2> QED
    BY <2>1 DEF IsNewest, OfNamespace, IsLast
<1>6. FirstsAreCounted'
  <2> SUFFICES ASSUME NEW s \in Namespaces
               PROVE  /\ Cardinality(Firsts(iterations, s)) <= 1 + faults'
                      /\ previous' = 0 /\ s = ns =>
                            Cardinality(Firsts(iterations, s)) <= faults'
    BY <1>2 DEF FirstsAreCounted, StartsOver
  <2> DEFINE n == Cardinality(Firsts(iterations, s))
  <2>1. n <= 1 + faults
    BY DEF ReasonsInv, FirstsAreCounted
  <2>2. n \in Nat /\ faults \in Nat
    BY RowTypes, FirstsFinite DEF ReasonsInv
  <2>3. OfNamespace(s) = {} => n = 0
    <3>1. OfNamespace(s) = {} => Firsts(iterations, s) = {}
      BY DEF OfNamespace, Firsts
    <3> QED
      BY <3>1, FS_EmptySet
  <2>4. ~(\E i \in OfNamespace(ns) : i = 0)
    <3>1. iterations \in Seq(IterationRow)
      BY RowTypes DEF ReasonsInv
    <3>2. DOMAIN iterations = 1 .. Len(iterations)
      BY <3>1
    <3>3. 0 \notin DOMAIN iterations
      BY <3>2
    <3> QED
      BY <3>3 DEF OfNamespace
  <2> HIDE DEF n
  <2>5. faults' = faults \/ faults' = faults + 1
    BY <1>3
  <2>6. n <= 1 + faults'
    BY <2>1, <2>2, <2>5
  <2>7. ASSUME previous' = 0, s = ns
        PROVE  n <= faults'
    <3>1. CASE OfNamespace(ns) = {}
      BY <2>2, <2>3, <2>5, <2>7, <3>1
    <3>2. CASE faults' = faults + 1
      BY <2>1, <2>2, <3>2
    <3> QED
      BY <1>3, <2>4, <2>7, <3>1, <3>2
  <2> QED
    BY <2>6, <2>7 DEF n
<1> QED
  BY <1>1, <1>4, <1>5, <1>6 DEF ReasonsInv

-----------------------------------------------------------------------------
\* A build set with other packages or other commits: Diff::is_empty compares
\* nothing else.
LEMMA DiffMeansCommits ==
    ASSUME NEW p \in Packages, NEW q \in Packages, ~IterationDiffIsEmpty(p, q)
    PROVE  [a \in DOMAIN p |-> p[a].commit_hash] # [a \in DOMAIN q |-> q[a].commit_hash]
<1> SUFFICES ASSUME [a \in DOMAIN p |-> p[a].commit_hash] = [a \in DOMAIN q |-> q[a].commit_hash]
             PROVE  FALSE
  OBVIOUS
<1>1. DOMAIN p = DOMAIN q
  OBVIOUS
<1>2. ASSUME NEW a \in DOMAIN q
      PROVE  DiffIsEmpty(p[a], q[a])
  <2>1. p[a].commit_hash = q[a].commit_hash
    BY <1>1, <1>2
  <2>2. /\ Nodes(p[a]) = DOMAIN p[a].commit_hash
        /\ Nodes(q[a]) = DOMAIN q[a].commit_hash
    <3>1. /\ IsBuildSetGraph(p[a], Pkgbases, CommitHashes)
          /\ IsBuildSetGraph(q[a], Pkgbases, CommitHashes)
      BY <1>1, <1>2, PackagesShape
    <3> QED
      BY <3>1 DEF IsBuildSetGraph
  <2> QED
    BY <2>1, <2>2 DEF DiffIsEmpty, DiffNodes
<1> QED
  BY <1>1, <1>2 DEF IterationDiffIsEmpty

\* Users insert rows with any timestamp that was handed out; the loop inserts
\* with a new one, for the namespace it is at.
LEMMA InsertionKeepsReasons ==
    ASSUME ReasonsInv, [Next]_vars,
           NEW ns \in Namespaces, NEW time \in Nat, NEW reason, NEW packages \in Packages,
           InsertIteration(ns, time, reason, packages),
           clock' \in {clock, clock + 1}, time <= clock',
           requests' \subseteq requests, UNCHANGED faults,
           reason # "CreatedByUser" => time = clock + 1 /\ pc' # "calculate",
           reason = "CreatedByUser" => UNCHANGED <<pc, namespace, previous>>,
           reason = "FirstIteration" => StartsOver(pc, namespace, previous, ns),
           reason = "BuildSetGraphChanged" =>
                /\ pc = "calculate" /\ previous # 0 /\ namespace = ns
                /\ CommitsIn(iterations, previous) #
                        [a \in DOMAIN packages |-> packages[a].commit_hash]
    PROVE  ReasonsInv'
<1> DEFINE n == Len(iterations) + 1
           row == [namespace |-> ns, created_at |-> time, create_reason |-> reason,
                   packages_to_be_built |-> packages]
<1>1. CInv' /\ Continues(iterations, iterations')
  BY NextCInv, StepsContinue DEF ReasonsInv
<1>2. /\ DOMAIN iterations' = DOMAIN iterations \union {n}
      /\ n \notin DOMAIN iterations
      /\ iterations'[n] = row
      /\ \A i \in DOMAIN iterations : iterations'[i] = iterations[i]
  BY AddedRow DEF ReasonsInv
<1>3. /\ row.namespace = ns /\ row.created_at = time /\ row.create_reason = reason
      /\ row.packages_to_be_built = packages
  OBVIOUS
<1> HIDE DEF n, row
<1>4. /\ clock \in Nat /\ faults \in Nat
      /\ previous \in DOMAIN iterations \union {0}
  BY RowTypes DEF ReasonsInv, CInv, IInv, Typed
<1>5. TimesWereHandedOut'
  <2>1. \A request \in requests : request.created_at \in Nat /\ request.created_at <= clock
    BY DEF ReasonsInv, TimesWereHandedOut, CInv, IInv, Typed
  <2>2. \A m \in Nat : m <= clock => m <= clock'
    BY <1>4
  <2>3. \A i \in DOMAIN iterations : iterations'[i].created_at <= clock'
    BY <1>2, <2>2, TimesAreInOrder
  <2>4. \A request \in requests' : request.created_at <= clock'
    BY <2>1, <2>2
  <2> QED
    BY <1>2, <1>3, <2>3, <2>4 DEF TimesWereHandedOut
<1>6. PreviousIsLast'
  <2> SUFFICES ASSUME pc' = "calculate", previous' # 0
               PROVE  /\ iterations'[previous'].namespace = namespace'
                      /\ IsLast(iterations', previous')
    BY DEF PreviousIsLast
  <2>1. /\ reason = "CreatedByUser" /\ pc = "calculate"
        /\ previous' = previous /\ namespace' = namespace
        /\ previous \in DOMAIN iterations
    BY <1>4
  <2>2. iterations[previous].namespace = namespace /\ IsLast(iterations, previous)
    BY <2>1 DEF ReasonsInv, PreviousIsLast
  <2>3. IsLast(iterations', previous)
    BY <1>2, <1>3, <2>1, <2>2 DEF IsLast
  <2> QED
    BY <1>2, <2>1, <2>2, <2>3
<1>7. \A i \in DOMAIN iterations : HasReason(iterations', i)
  <2> SUFFICES ASSUME NEW i \in DOMAIN iterations
               PROVE  HasReason(iterations', i)
    OBVIOUS
  <2>1. HasReason(iterations, i)
    BY DEF ReasonsInv
  <2>2. reason = "CreatedByUser" \/ time >= iterations[i].created_at
    BY TimesAreInOrder, <1>4
  <2>3. \A k \in DOMAIN iterations' \ DOMAIN iterations :
            \/ iterations'[k].create_reason = "CreatedByUser"
            \/ iterations'[k].created_at >= iterations[i].created_at
    BY <1>2, <1>3, <2>2
  <2> QED
    BY <1>1, <2>1, <2>3, ReasonStays
<1>8. HasReason(iterations', n)
  <2> SUFFICES ASSUME reason = "BuildSetGraphChanged"
               PROVE  IsReason(iterations', n, previous) /\ previous \in DOMAIN iterations'
    BY <1>2, <1>3 DEF HasReason
  <2>1. /\ previous \in DOMAIN iterations /\ pc = "calculate" /\ namespace = ns
        /\ time = clock + 1
        /\ iterations[previous].namespace = ns /\ IsLast(iterations, previous)
    BY <1>4 DEF ReasonsInv, PreviousIsLast
  <2>2. iterations'[previous] = iterations[previous] /\ iterations[previous].created_at < time
    BY <1>2, <2>1, TimesAreInOrder
  <2>3. CommitsIn(iterations', previous) # CommitsIn(iterations', n)
    BY <1>2, <1>3, <2>2 DEF CommitsIn
  <2>4. IsLastBefore(iterations', previous, time)
    <3>1. time >= time
      OBVIOUS
    <3> QED
      BY <1>2, <1>3, <2>1, <2>2, <3>1 DEF IsLast, IsLastBefore
  <2> QED
    BY <1>2, <1>3, <2>1, <2>2, <2>3, <2>4 DEF IsReason
<1>9. FirstsAreCounted'
  <2> SUFFICES ASSUME NEW s \in Namespaces
               PROVE  /\ Cardinality(Firsts(iterations', s)) <= 1 + faults
                      /\ StartsOver(pc', namespace', previous', s) =>
                            Cardinality(Firsts(iterations', s)) <= faults
    BY DEF FirstsAreCounted
  <2> DEFINE m == Cardinality(Firsts(iterations, s))
  <2>1. m \in Nat /\ IsFiniteSet(Firsts(iterations, s))
    BY RowTypes, FirstsFinite DEF ReasonsInv
  <2>2. /\ m <= 1 + faults
        /\ StartsOver(pc, namespace, previous, s) => m <= faults
    BY DEF ReasonsInv, FirstsAreCounted
  <2>3. CASE reason = "FirstIteration" /\ s = ns
    <3>1. Firsts(iterations', s) = Firsts(iterations, s) \union {n}
      BY <1>2, <1>3, <2>3 DEF Firsts
    <3>2. n \notin Firsts(iterations, s)
      BY <1>2 DEF Firsts
    <3>3. Cardinality(Firsts(iterations', s)) = m + 1
      BY <2>1, <3>1, <3>2, FS_AddElement
    <3>4. m <= faults /\ pc' # "calculate"
      BY <2>2, <2>3
    <3> HIDE DEF m
    <3>5. m + 1 <= 1 + faults
      BY <1>4, <2>1, <3>4
    <3> QED
      BY <3>3, <3>4, <3>5 DEF StartsOver
  <2>4. CASE ~(reason = "FirstIteration" /\ s = ns)
    <3>1. Firsts(iterations', s) = Firsts(iterations, s)
      BY <1>2, <1>3, <2>4 DEF Firsts
    <3>2. StartsOver(pc', namespace', previous', s) => StartsOver(pc, namespace, previous, s)
      BY DEF StartsOver
    <3> QED
      BY <2>2, <3>1, <3>2
  <2> QED
    BY <2>3, <2>4
<1> QED
  BY <1>1, <1>2, <1>5, <1>6, <1>7, <1>8, <1>9 DEF ReasonsInv

LEMMA CreationKeepsReasons ==
    ASSUME ReasonsInv, [Next]_vars, NEW packages \in BuildSets, CreateIterationIfNeeded(packages)
    PROVE  ReasonsInv'
<1>1. /\ pc = "calculate" /\ pc' = "read"
      /\ UNCHANGED <<requests, faults>>
  BY DEF CreateIterationIfNeeded
<1>2. CASE ~NewIterationIsNeeded(packages)
  <2>1. UNCHANGED <<iterations, clock>>
    BY <1>2 DEF CreateIterationIfNeeded
  <2> QED
    BY <1>1, <2>1, QuietStepKeepsReasons
<1>3. CASE NewIterationIsNeeded(packages)
  <2>1. /\ clock' = clock + 1
        /\ InsertIteration(namespace, clock + 1, NewIterationReason, packages)
    BY <1>3 DEF CreateIterationIfNeeded
  <2>2. packages \in Packages
    BY BuildSetsAssumption, PackagesAre
  <2>3. namespace \in Namespaces /\ clock + 1 \in Nat /\ clock + 1 <= clock'
    <3>1. clock \in Nat
      BY RowTypes DEF ReasonsInv
    <3> QED
      BY <1>1, <2>1, <3>1 DEF ReasonsInv, CInv, IInv, Scheduling
  <2>4. CASE previous = 0
    <3>1. NewIterationReason = "FirstIteration" /\ StartsOver(pc, namespace, previous, namespace)
      BY <1>1, <2>4 DEF NewIterationReason, StartsOver
    <3> QED
      BY <1>1, <2>1, <2>2, <2>3, <3>1, InsertionKeepsReasons
  <2>5. CASE previous # 0
    <3>1. NewIterationReason = "BuildSetGraphChanged"
      BY <2>5 DEF NewIterationReason
    <3>2. /\ previous \in DOMAIN iterations
          /\ ~IterationDiffIsEmpty(iterations[previous].packages_to_be_built, packages)
      BY <1>3, <2>5 DEF NewIterationIsNeeded, ReasonsInv, CInv, IInv, Typed
    <3>3. iterations[previous].packages_to_be_built \in Packages
      BY <3>2, RowTypes DEF ReasonsInv
    <3>4. CommitsIn(iterations, previous) #
                [a \in DOMAIN packages |-> packages[a].commit_hash]
      BY <2>2, <3>2, <3>3, DiffMeansCommits DEF CommitsIn
    <3> QED
      BY <1>1, <2>1, <2>2, <2>3, <2>5, <3>1, <3>4, InsertionKeepsReasons
  <2> QED
    BY <2>4, <2>5
<1> QED
  BY <1>2, <1>3

LEMMA AnswerKeepsReasons ==
    ASSUME ReasonsInv, [Next]_vars, NEW request \in requests, NEW packages \in BuildSets,
           AnswerRequest(request, packages)
    PROVE  ReasonsInv'
<1>1. /\ InsertIteration(request.namespace, request.created_at, "CreatedByUser", packages)
      /\ requests' \subseteq requests
      /\ UNCHANGED <<pc, namespace, previous, clock, faults>>
  BY DEF AnswerRequest, loop, scheduling, bounds
<1>2. packages \in Packages
  BY BuildSetsAssumption, PackagesAre
<1>3. /\ request.namespace \in Namespaces /\ request.created_at \in Nat
      /\ request.created_at <= clock'
  BY <1>1 DEF ReasonsInv, TimesWereHandedOut, CInv, IInv, Typed
<1> QED
  BY <1>1, <1>2, <1>3, InsertionKeepsReasons

\* Everything else the loop, the handlers and GitLab do.
LEMMA OthersKeepReasons ==
    ASSUME ReasonsInv, [Next]_vars,
           ~(\E ns \in Namespaces : UpdateNextNamespace(ns)),
           ~(\E packages \in BuildSets : CreateIterationIfNeeded(packages)),
           ~(\E ns \in Namespaces : RequestIteration(ns)),
           ~(\E request \in requests, packages \in BuildSets :
                    AnswerRequest(request, packages))
    PROVE  ReasonsInv'
<1> DEFINE Quiet ==
        /\ requests' \subseteq requests
        /\ UNCHANGED clock
        /\ faults' \in {faults, faults + 1}
        /\ pc' # "calculate" \/ UNCHANGED <<pc, namespace, previous>>
<1> USE DEF database, scheduling, polling, loop, bounds, Fault
<1>1. CASE PersistIteration
  <2>1. DOMAIN iterations' = DOMAIN iterations
    BY <1>1, PersistReports, UpdatedRow DEF Reports, ReasonsInv
  <2> QED
    BY <1>1, <2>1, QuietStepKeepsReasons DEF PersistIteration
<1>2. CASE UpdateIteration
  <2>1. DOMAIN iterations' = DOMAIN iterations
    BY <1>2, UpdateReserves, UpdatedRow DEF Reserves, ReasonsInv
  <2> QED
    BY <1>2, <2>1, QuietStepKeepsReasons DEF UpdateIteration
<1>3. CASE \/ StartPass
           \/ \E id \in DOMAIN iterations : PollIteration(id)
           \/ \E a \in Architectures, b \in Pkgbases : CheckPipeline(a, b)
           \/ PollingFails
           \/ PassFails
           \/ ListActiveNamespaces
  <2>1. UNCHANGED iterations /\ Quiet
    BY <1>3 DEF StartPass, PollIteration, CheckPipeline, PollingFails, PassFails,
       ListActiveNamespaces
  <2> QED
    BY <2>1, QuietStepKeepsReasons
<1>4. CASE \/ \E id \in DOMAIN iterations : ReadNewestIteration(id)
           \/ \E a \in architectures : NothingToSchedule(a)
           \/ \E a \in architectures : \E b \in Ready(a) : CreatePipeline(a, b)
           \/ \E a \in architectures : \E b \in Ready(a) : SchedulingFails(a, b)
           \/ RecordPipeline
  <2>1. UNCHANGED iterations /\ Quiet
    BY <1>4 DEF ReadNewestIteration, NothingToSchedule, CreatePipeline, SchedulingFails,
       RecordPipeline
  <2> QED
    BY <2>1, QuietStepKeepsReasons
<1>5. CASE FinishNamespace \/ NamespaceFails \/ FinishPass \/ Crash
  <2>1. UNCHANGED iterations /\ Quiet
    BY <1>5 DEF FinishNamespace, NamespaceFails, LeaveNamespace, FinishPass, Crash
  <2> QED
    BY <2>1, QuietStepKeepsReasons
<1>6. CASE \/ \E ns \in Namespaces : CreateNamespace(ns)
           \/ \E ns \in Namespaces, status \in {"Active", "Cancelled"} :
                    UpdateNamespace(ns, status)
           \/ \E request \in requests : RequestFails(request)
  <2>1. UNCHANGED iterations /\ Quiet
    BY <1>6 DEF CreateNamespace, UpdateNamespace, RequestFails
  <2> QED
    BY <2>1, QuietStepKeepsReasons
<1>7. CASE Gitlab \/ UNCHANGED vars
  <2>1. UNCHANGED iterations /\ Quiet
    BY <1>7 DEF Gitlab, FinishPipeline, MovePipeline, DeletePipeline, server, vars
  <2> QED
    BY <2>1, QuietStepKeepsReasons
<1> QED
  BY <1>1, <1>2, <1>3, <1>4, <1>5, <1>6, <1>7 DEF Next, LoopStep, Failure, Handlers

LEMMA NextReasonsInv == ReasonsInv /\ [Next]_vars => ReasonsInv'
BY NextNamespaceKeepsReasons, CreationKeepsReasons, RequestKeepsReasons,
   AnswerKeepsReasons, OthersKeepReasons

LEMMA InitReasonsInv == Init => ReasonsInv
<1> SUFFICES ASSUME Init
             PROVE  ReasonsInv
  OBVIOUS
<1>1. CInv
  BY InitCInv
<1>2. DOMAIN iterations = {} /\ requests = {} /\ pc = "idle" /\ faults = 0
  BY DEF Init
<1>3. TimesWereHandedOut /\ PreviousIsLast
  BY <1>2 DEF TimesWereHandedOut, PreviousIsLast
<1>4. \A ns : Cardinality(Firsts(iterations, ns)) = 0
  BY <1>2, FS_EmptySet DEF Firsts
<1>5. FirstsAreCounted
  BY <1>2, <1>4 DEF FirstsAreCounted, StartsOver
<1> QED
  BY <1>1, <1>2, <1>3, <1>5 DEF ReasonsInv

\* The loop makes an iteration for a reason that holds among the rows of the
\* table (new_build_set_iteration_is_needed), whatever is inserted while it
\* calculates, and a second first iteration costs a fault.
THEOREM DispatchHasReasons == Spec => []IterationsHaveReasons
<1>1. ReasonsInv => IterationsHaveReasons
  <2> SUFFICES ASSUME ReasonsInv, NEW ns \in Namespaces
               PROVE  /\ Cardinality({i \in OfNamespace(ns) :
                                iterations[i].create_reason = "FirstIteration"}) <= 1 + faults
                      /\ \A i \in OfNamespace(ns) :
                            iterations[i].create_reason = "BuildSetGraphChanged" =>
                                \E j \in OfNamespace(ns) :
                                    /\ iterations[j].created_at < iterations[i].created_at
                                    /\ CommitsOf(j) # CommitsOf(i)
                                    /\ \A k \in OfNamespace(ns) :
                                        \/ iterations[k].create_reason = "CreatedByUser"
                                        \/ iterations[k].created_at <= iterations[j].created_at
                                        \/ iterations[k].created_at >= iterations[i].created_at
    BY DEF IterationsHaveReasons
  <2>1. {i \in OfNamespace(ns) : iterations[i].create_reason = "FirstIteration"}
            = Firsts(iterations, ns)
    BY DEF OfNamespace, Firsts
  <2>2. Cardinality(Firsts(iterations, ns)) <= 1 + faults
    BY DEF ReasonsInv, FirstsAreCounted
  <2>3. ASSUME NEW i \in OfNamespace(ns),
               iterations[i].create_reason = "BuildSetGraphChanged"
        PROVE  \E j \in OfNamespace(ns) :
                    /\ iterations[j].created_at < iterations[i].created_at
                    /\ CommitsOf(j) # CommitsOf(i)
                    /\ \A k \in OfNamespace(ns) :
                        \/ iterations[k].create_reason = "CreatedByUser"
                        \/ iterations[k].created_at <= iterations[j].created_at
                        \/ iterations[k].created_at >= iterations[i].created_at
    <3>1. PICK j \in DOMAIN iterations : IsReason(iterations, i, j)
      BY <2>3 DEF ReasonsInv, HasReason, OfNamespace
    <3>2. j \in OfNamespace(ns)
      BY <3>1 DEF IsReason, OfNamespace
    <3>3. CommitsOf(j) = CommitsIn(iterations, j) /\ CommitsOf(i) = CommitsIn(iterations, i)
      BY DEF CommitsOf, CommitsIn
    <3> QED
      BY <3>1, <3>2, <3>3 DEF IsReason, IsLastBefore, OfNamespace
  <2> QED
    BY <2>1, <2>2, <2>3
<1> QED
  BY <1>1, InitReasonsInv, NextReasonsInv, PTL DEF Spec
=============================================================================
