------------------------- MODULE WorkerDispatchProofs ------------------------
(***************************************************************************)
(* WorkerDispatch for any build set, any number of architectures, builds   *)
(* and faults.                                                             *)
(*                                                                         *)
(* The loop and the PATCH handler overwrite each other's rows, so a row    *)
(* may lose a result or become as old as a copy somebody still holds. What *)
(* stays true is said of every copy alike: it has the shape of the row,    *)
(* and each result in it is one the worker arrived at. The worker's        *)
(* results only grow, so it does not matter which copy is written when.    *)
(***************************************************************************)
EXTENDS WorkerDispatch, TLAPS

SameShape(p, q) ==
    /\ DOMAIN p = DOMAIN q
    /\ \A a \in DOMAIN p :
        Nodes(p[a]) = Nodes(q[a]) /\ p[a].edges = q[a].edges

JobFor(a, b) == [architecture |-> a, pkgbase |-> b]

Justified(res, a, b, status) ==
    /\ status # "Pending"
    /\ status \in Settled => <<JobFor(a, b), status>> \in res

\* q may be written over the row p.
Copy(p, res, q) ==
    /\ ArePackages(q)
    /\ SameShape(p, q)
    /\ \A a \in DOMAIN q : \A b \in Nodes(q[a]) : Justified(res, a, b, q[a].status[b])

\* The builds of the row p.
Known(p) ==
    {j \in Job : j.architecture \in DOMAIN p /\ j.pkgbase \in Nodes(p[j.architecture])}

InOrder(p, res, j) ==
    \A d \in Dependencies(p[j.architecture], j.pkgbase) :
        <<JobFor(j.architecture, d), "Built">> \in res

LoopIsSound(p, res, c, it, archs, bld) ==
    /\ c \in {"idle", "schedule", "update"}
    /\ IF c = "idle"
       THEN it = <<>> /\ archs = {}
       ELSE Copy(p, res, it) /\ archs \subseteq DOMAIN it
    /\ IF c = "update" THEN bld \in Known(p) ELSE bld = NoJob

WorkerIsSound(p, res, q, job, status) ==
    /\ q \in Seq(Known(p))
    /\ job \in Known(p) \union {NoJob}
    /\ \/ status = ""
       \/ job \in Known(p) /\ status \in Settled /\ <<job, status>> \in res

PatchIsSound(p, res, q, status) == q = <<>> \/ (Copy(p, res, q) /\ status # "")

SentInOrder(p, res, jobs) ==
    /\ jobs \in Seq(Known(p))
    /\ \A s \in DOMAIN jobs : InOrder(p, res, jobs[s])

IInv ==
    /\ Copy(packages_to_be_built, results, packages_to_be_built)
    /\ LoopIsSound(packages_to_be_built, results, pc, iteration, architectures, build)
    /\ WorkerIsSound(packages_to_be_built, results, queue, building, outcome)
    /\ PatchIsSound(packages_to_be_built, results, patched, outcome)
    /\ SentInOrder(packages_to_be_built, results, sent)
    /\ results \subseteq Job \X Settled
    /\ faults \in Nat

-----------------------------------------------------------------------------
(***************************************************************************)
(* Copies                                                                  *)
(***************************************************************************)

LEMMA PackagesShape ==
    ASSUME NEW q, ArePackages(q), NEW a \in DOMAIN q
    PROVE  /\ a \in Architectures
           /\ IsBuildSetGraph(q[a], Pkgbases, CommitHashes)
           /\ Nodes(q[a]) \subseteq Pkgbases
           /\ q[a].status \in [Nodes(q[a]) -> PackageBuildStatus]
           /\ q = [c \in DOMAIN q |-> q[c]]
BY DEF ArePackages, ArePackagesToBeBuilt, IsBuildSetGraph

LEMMA EmptyPackages == ArePackages(<<>>)
<1>1. DOMAIN <<>> = {}
  OBVIOUS
<1>2. <<>> = [a \in DOMAIN <<>> |-> <<>>[a]]
  <2>1. <<>> \in [{} -> {}]
    OBVIOUS
  <2> QED
    BY <2>1
<1> QED
  BY <1>1, <1>2 DEF ArePackages, ArePackagesToBeBuilt

\* Reserving a node and setting its status do the same.
LEMMA StatusWritten ==
    ASSUME NEW g, IsBuildSetGraph(g, Pkgbases, CommitHashes),
           NEW b \in Nodes(g), NEW status \in PackageBuildStatus
    PROVE  LET r == ReserveBuild(g, b, status)
           IN  /\ IsBuildSetGraph(r, Pkgbases, CommitHashes)
               /\ Nodes(r) = Nodes(g)
               /\ r.edges = g.edges
               /\ r.status = [g.status EXCEPT ![b] = status]
               /\ SetBuildStatus(g, b, status) = r
<1> USE DEF IsBuildSetGraph, ReserveBuild, Nodes
<1>1. g.status \in [Nodes(g) -> PackageBuildStatus]
  OBVIOUS
<1>2. [g.status EXCEPT ![b] = status]
        = [n \in Nodes(g) |-> IF n = b THEN status ELSE g.status[n]]
  BY <1>1
<1> QED
  BY <1>1, <1>2 DEF SetBuildStatus

LEMMA CopyUpdated ==
    ASSUME NEW p, NEW res, NEW q, Copy(p, res, q), NEW j \in Known(p),
           NEW status \in PackageBuildStatus,
           Justified(res, j.architecture, j.pkgbase, status)
    PROVE  LET g == q[j.architecture]
           IN  /\ Copy(p, res, [q EXCEPT ![j.architecture] =
                                    ReserveBuild(@, j.pkgbase, status)])
               /\ SetBuildStatus(g, j.pkgbase, status)
                    = ReserveBuild(g, j.pkgbase, status)
<1> DEFINE a == j.architecture
           b == j.pkgbase
           g == ReserveBuild(q[a], b, status)
           s == [q EXCEPT ![a] = g]
<1>1. /\ ArePackages(q) /\ SameShape(p, q)
      /\ a \in DOMAIN q /\ b \in Nodes(q[a])
  BY DEF Copy, SameShape, Known
<1>2. /\ IsBuildSetGraph(q[a], Pkgbases, CommitHashes)
      /\ q[a].status \in [Nodes(q[a]) -> PackageBuildStatus]
      /\ q = [c \in DOMAIN q |-> q[c]]
  BY <1>1, PackagesShape
<1>3. /\ IsBuildSetGraph(g, Pkgbases, CommitHashes)
      /\ Nodes(g) = Nodes(q[a])
      /\ g.edges = q[a].edges
      /\ g.status = [q[a].status EXCEPT ![b] = status]
      /\ SetBuildStatus(q[a], b, status) = g
  BY <1>1, <1>2, StatusWritten
<1> HIDE DEF g
<1>4. DOMAIN s = DOMAIN q /\ s[a] = g /\ \A c \in DOMAIN q : c # a => s[c] = q[c]
  BY <1>1, <1>2
<1>5. s = [c \in DOMAIN s |-> s[c]]
  BY <1>2
<1> HIDE DEF s
<1>6. ArePackages(s)
  BY <1>1, <1>3, <1>4, <1>5 DEF ArePackages, ArePackagesToBeBuilt
<1>7. SameShape(p, s)
  BY <1>1, <1>3, <1>4 DEF SameShape
<1>8. ASSUME NEW c \in DOMAIN s, NEW n \in Nodes(s[c])
      PROVE  Justified(res, c, n, s[c].status[n])
  <2>1. CASE c # a
    BY <1>4, <1>8, <2>1 DEF Copy
  <2>2. CASE c = a /\ n = b
    BY <1>1, <1>2, <1>3, <1>4, <2>2
  <2>3. CASE c = a /\ n # b
    <3>1. n \in Nodes(q[a]) /\ s[c].status[n] = q[a].status[n]
      BY <1>2, <1>3, <1>4, <1>8, <2>3
    <3> QED
      BY <1>1, <2>3, <3>1 DEF Copy
  <2> QED
    BY <2>1, <2>2, <2>3
<1>9. Copy(p, res, s)
  BY <1>6, <1>7, <1>8 DEF Copy
<1> QED
  BY <1>3, <1>9 DEF s, g

\* Rows keep their shape and results are added: nothing becomes unsound.
LEMMA StaysSound ==
    ASSUME NEW p, NEW p2, SameShape(p, p2), NEW res, NEW res2, res \subseteq res2
    PROVE  /\ Known(p2) = Known(p)
           /\ \A q : Copy(p, res, q) => Copy(p2, res2, q)
           /\ \A j \in Known(p) : InOrder(p, res, j) => InOrder(p2, res2, j)
<1>1. Known(p2) = Known(p)
  BY DEF SameShape, Known
<1>2. ASSUME NEW q, Copy(p, res, q)
      PROVE  Copy(p2, res2, q)
  BY <1>2 DEF SameShape, Copy, Justified
<1>3. ASSUME NEW j \in Known(p), InOrder(p, res, j)
      PROVE  InOrder(p2, res2, j)
  <2>1. Dependencies(p2[j.architecture], j.pkgbase)
            = Dependencies(p[j.architecture], j.pkgbase)
    BY DEF Known, SameShape, Dependencies
  <2> QED
    BY <1>3, <2>1 DEF InOrder
<1> QED
  BY <1>1, <1>2, <1>3

LEMMA AllStaySound ==
    ASSUME NEW p, NEW p2, SameShape(p, p2), NEW res, NEW res2, res \subseteq res2
    PROVE  /\ \A c, it, archs, bld : LoopIsSound(p, res, c, it, archs, bld) =>
                LoopIsSound(p2, res2, c, it, archs, bld)
           /\ \A q, job, status : WorkerIsSound(p, res, q, job, status) =>
                WorkerIsSound(p2, res2, q, job, status)
           /\ \A q, status : PatchIsSound(p, res, q, status) =>
                PatchIsSound(p2, res2, q, status)
           /\ \A jobs : SentInOrder(p, res, jobs) => SentInOrder(p2, res2, jobs)
<1>1. /\ Known(p2) = Known(p)
      /\ \A q : Copy(p, res, q) => Copy(p2, res2, q)
      /\ \A j \in Known(p) : InOrder(p, res, j) => InOrder(p2, res2, j)
  BY StaysSound
<1>2. \A c, it, archs, bld : LoopIsSound(p, res, c, it, archs, bld) =>
            LoopIsSound(p2, res2, c, it, archs, bld)
  BY <1>1 DEF LoopIsSound
<1>3. \A q, job, status : WorkerIsSound(p, res, q, job, status) =>
            WorkerIsSound(p2, res2, q, job, status)
  BY <1>1 DEF WorkerIsSound
<1>4. \A q, status : PatchIsSound(p, res, q, status) => PatchIsSound(p2, res2, q, status)
  BY <1>1 DEF PatchIsSound
<1>5. ASSUME NEW jobs, SentInOrder(p, res, jobs)
      PROVE  SentInOrder(p2, res2, jobs)
  <2>1. jobs \in Seq(Known(p)) /\ \A s \in DOMAIN jobs : jobs[s] \in Known(p)
    BY <1>5 DEF SentInOrder
  <2> QED
    BY <1>1, <1>5, <2>1 DEF SentInOrder
<1> QED
  BY <1>2, <1>3, <1>4, <1>5

-----------------------------------------------------------------------------
(***************************************************************************)
(* Steps                                                                   *)
(***************************************************************************)

LEMMA EmptySequence ==
    ASSUME NEW S
    PROVE  <<>> \in Seq(S) /\ DOMAIN <<>> = {}
OBVIOUS

LEMMA LargerSequences ==
    ASSUME NEW S, NEW T, S \subseteq T, NEW s \in Seq(S)
    PROVE  s \in Seq(T)
<1>1. /\ Len(s) \in Nat /\ s = [i \in 1 .. Len(s) |-> s[i]]
      /\ \A i \in 1 .. Len(s) : s[i] \in T
  OBVIOUS
<1>2. [i \in 1 .. Len(s) |-> s[i]] \in Seq(T)
  BY <1>1
<1> QED
  BY <1>1, <1>2

LEMMA InitIInv == Init => IInv
<1> SUFFICES ASSUME Init
             PROVE  IInv
  OBVIOUS
<1> DEFINE p == packages_to_be_built
<1>1. /\ ArePackages(p)
      /\ \A a \in DOMAIN p : \A b \in Nodes(p[a]) : p[a].status[b] = "Blocked"
  BY WorkerAssumption DEF Init, ArePackages
<1>2. Copy(p, results, p)
  BY <1>1 DEF Copy, SameShape, Justified, Settled
<1>3. pc = "idle" /\ iteration = <<>> /\ architectures = {} /\ build = NoJob
  BY DEF Init
<1>4. queue = <<>> /\ building = NoJob /\ outcome = "" /\ patched = <<>>
      /\ sent = <<>> /\ results = {} /\ faults = 0
  BY DEF Init
<1> HIDE DEF p
<1>5. SentInOrder(p, results, sent)
  BY <1>4, EmptySequence DEF SentInOrder
<1>6. WorkerIsSound(p, results, queue, building, outcome)
  BY <1>4, EmptySequence DEF WorkerIsSound
<1>7. LoopIsSound(p, results, pc, iteration, architectures, build)
  BY <1>3 DEF LoopIsSound
<1>8. PatchIsSound(p, results, patched, outcome)
  BY <1>4 DEF PatchIsSound
<1> QED
  BY <1>2, <1>4, <1>5, <1>6, <1>7, <1>8 DEF IInv, p

\* The worker accepts a ready build of the loop's copy.
LEMMA Accepted ==
    ASSUME IInv, pc = "schedule", NEW a \in architectures, NEW b \in Ready(a)
    PROVE  /\ JobFor(a, b) \in Known(packages_to_be_built)
           /\ Enqueue(JobFor(a, b)) =>
                /\ queue' \in Seq(Known(packages_to_be_built))
                /\ SentInOrder(packages_to_be_built, results, sent')
<1> DEFINE p == packages_to_be_built
           j == JobFor(a, b)
<1>1. /\ Copy(p, results, iteration) /\ a \in DOMAIN iteration
      /\ ArePackages(iteration) /\ SameShape(p, iteration)
  BY DEF IInv, LoopIsSound, Copy
<1>2. /\ b \in Nodes(iteration[a])
      /\ a \in Architectures /\ b \in Pkgbases
      /\ a \in DOMAIN p /\ b \in Nodes(p[a])
  <2>1. b \in Nodes(iteration[a])
    BY DEF Ready, ReadyBuilds, VisitedNodes
  <2> QED
    BY <1>1, <2>1, PackagesShape DEF SameShape
<1>3. j \in Known(p) /\ j.architecture = a /\ j.pkgbase = b
  BY <1>2 DEF Known, Job, JobFor
<1>4. iteration[a].status[b] # "Pending"
  BY <1>1, <1>2 DEF Copy, Justified
<1>5. InOrder(p, results, j)
  <2> SUFFICES ASSUME NEW d \in Dependencies(p[a], b)
               PROVE  <<JobFor(a, d), "Built">> \in results
    BY <1>3 DEF InOrder
  <2>1. d \in Dependencies(iteration[a], b) /\ d \in Nodes(iteration[a])
    BY <1>1, <1>2 DEF SameShape, Dependencies
  <2>2. iteration[a].status[d] = "Built"
    BY <1>4, <2>1 DEF Ready, ReadyBuilds, StillBlocked
  <2> QED
    BY <1>1, <2>1, <2>2 DEF Copy, Justified, Settled
<1> HIDE DEF p, j
<1>6. ASSUME Enqueue(j)
      PROVE  queue' \in Seq(Known(p)) /\ SentInOrder(p, results, sent')
  <2>1. /\ queue \in Seq(Known(p)) /\ sent \in Seq(Known(p))
        /\ queue' = Append(queue, j) /\ sent' = Append(sent, j)
        /\ \A s \in DOMAIN sent : InOrder(p, results, sent[s])
    BY <1>6 DEF IInv, WorkerIsSound, SentInOrder, Enqueue, p
  <2>2. /\ sent' \in Seq(Known(p))
        /\ \A s \in DOMAIN sent' :
                sent'[s] = j \/ (s \in DOMAIN sent /\ sent'[s] = sent[s])
    BY <1>3, <2>1
  <2> QED
    BY <1>3, <1>5, <2>1, <2>2 DEF SentInOrder
<1> QED
  BY <1>3, <1>6 DEF p, j

LEMMA LoopSteps ==
    ASSUME IInv, LoopStep \/ \E a \in architectures : \E b \in Ready(a) : SendFails(a, b)
    PROVE  IInv'
<1> DEFINE p == packages_to_be_built
<1>1. CASE Sleep
  BY <1>1 DEF Sleep, vars, loop, worker, IInv
<1>2. CASE ReadNewestIteration
  BY <1>2 DEF ReadNewestIteration, worker, IInv, LoopIsSound
<1>3. ASSUME NEW a \in architectures, NothingToSchedule(a)
      PROVE  IInv'
  BY <1>3 DEF NothingToSchedule, worker, IInv, LoopIsSound
<1>4. ASSUME NEW a \in architectures, NEW b \in Ready(a), SendBuild(a, b)
      PROVE  IInv'
  <2>1. /\ pc = "schedule" /\ pc' = "update" /\ build' = JobFor(a, b)
        /\ Enqueue(JobFor(a, b)) /\ architectures' \subseteq architectures
        /\ UNCHANGED <<packages_to_be_built, iteration, building, outcome, patched,
                       results, faults>>
    BY <1>4 DEF SendBuild, JobFor
  <2>2. /\ build' \in Known(p) /\ queue' \in Seq(Known(p))
        /\ SentInOrder(p, results, sent')
    BY <2>1, Accepted
  <2> QED
    BY <2>1, <2>2 DEF IInv, LoopIsSound, WorkerIsSound
<1>5. ASSUME NEW a \in architectures, NEW b \in Ready(a), SendFails(a, b)
      PROVE  IInv'
  <2>1. /\ pc = "schedule" /\ architectures' \subseteq architectures
        /\ Enqueue(JobFor(a, b)) \/ UNCHANGED <<queue, sent>>
        /\ faults' \in Nat
        /\ UNCHANGED <<packages_to_be_built, pc, iteration, build, building, outcome,
                       patched, results>>
    BY <1>5 DEF SendFails, JobFor, Fault, IInv
  <2>2. queue' \in Seq(Known(p)) /\ SentInOrder(p, results, sent')
    BY <2>1, Accepted DEF IInv, WorkerIsSound
  <2> QED
    BY <2>1, <2>2 DEF IInv, LoopIsSound, WorkerIsSound
<1>6. CASE UpdateIteration
  <2> DEFINE q == [iteration EXCEPT
                    ![build.architecture] = ReserveBuild(@, build.pkgbase, "Building")]
  <2>1. /\ pc = "update" /\ pc' = "schedule" /\ build' = NoJob
        /\ iteration' = q /\ packages_to_be_built' = q
        /\ UNCHANGED <<architectures, queue, building, outcome, patched, sent, results,
                       faults>>
    BY <1>6 DEF UpdateIteration, worker
  <2>2. /\ Copy(p, results, iteration) /\ architectures \subseteq DOMAIN iteration
        /\ build \in Known(p)
    BY <2>1 DEF IInv, LoopIsSound
  <2>3. Copy(p, results, q)
    <3>1. /\ "Building" \in PackageBuildStatus
          /\ Justified(results, build.architecture, build.pkgbase, "Building")
      BY DEF PackageBuildStatus, Justified, Settled
    <3> QED
      BY <2>2, <3>1, CopyUpdated
  <2>4. DOMAIN q = DOMAIN iteration
    OBVIOUS
  <2> HIDE DEF q
  <2>5. SameShape(p, q)
    BY <2>3 DEF Copy
  <2>6. Copy(q, results, q)
    BY <2>3, <2>5, StaysSound
  <2>7. /\ WorkerIsSound(q, results, queue, building, outcome)
        /\ PatchIsSound(q, results, patched, outcome)
        /\ SentInOrder(q, results, sent)
    BY <2>5, AllStaySound DEF IInv
  <2>8. LoopIsSound(q, results, pc', iteration', architectures', build')
    BY <2>1, <2>2, <2>4, <2>6 DEF LoopIsSound
  <2> QED
    BY <2>1, <2>6, <2>7, <2>8 DEF IInv
<1>7. CASE FinishPass
  BY <1>7 DEF FinishPass, worker, IInv, LoopIsSound
<1> QED
  BY <1>1, <1>2, <1>3, <1>4, <1>5, <1>6, <1>7 DEF LoopStep

LEMMA WorkerSteps ==
    ASSUME IInv, WorkerStep \/ ReportFails \/ ServerCrash \/ WorkerCrash
    PROVE  IInv'
<1> DEFINE p == packages_to_be_built
<1>1. CASE TakeBuild
  <2>1. /\ building' = Head(queue) /\ queue' = Tail(queue) /\ queue # <<>>
        /\ building = NoJob
        /\ UNCHANGED <<packages_to_be_built, loop, outcome, patched, sent, results,
                       faults>>
    BY <1>1 DEF TakeBuild
  <2>2. queue' \in Seq(Known(p)) /\ building' \in Known(p)
    <3>1. queue \in Seq(Known(p))
      BY DEF IInv, WorkerIsSound
    <3> QED
      BY <2>1, <3>1
  <2>3. outcome = ""
    <3>1. NoJob \notin Known(p)
      BY WorkerAssumption DEF Known
    <3> QED
      BY <2>1, <3>1 DEF IInv, WorkerIsSound
  <2> QED
    BY <2>1, <2>2, <2>3 DEF IInv, WorkerIsSound, loop
<1>2. CASE FinishBuild
  <2>1. /\ building \in Known(p) /\ outcome' \in Settled
        /\ results' = results \union {<<building, outcome'>>}
        /\ outcome = ""
        /\ UNCHANGED <<packages_to_be_built, loop, queue, building, patched, sent,
                       faults>>
    BY <1>2 DEF FinishBuild, Outcomes, Settled, IInv, WorkerIsSound
  <2>2. results \subseteq results' /\ SameShape(p, p)
    BY <2>1 DEF SameShape
  <2>3. results' \subseteq Job \X Settled
    <3>1. building \in Job
      BY <2>1 DEF Known
    <3>2. results \subseteq Job \X Settled
      BY DEF IInv
    <3>3. <<building, outcome'>> \in Job \X Settled
      BY <2>1, <3>1
    <3> QED
      BY <2>1, <3>2, <3>3
  <2>4. /\ Copy(p, results', p)
        /\ LoopIsSound(p, results', pc, iteration, architectures, build)
        /\ PatchIsSound(p, results', patched, outcome)
        /\ SentInOrder(p, results', sent)
    BY <2>2, StaysSound, AllStaySound DEF IInv
  <2>5. WorkerIsSound(p, results', queue, building, outcome')
    BY <2>1 DEF IInv, WorkerIsSound
  <2>6. PatchIsSound(p, results', patched, outcome')
    BY <2>1, <2>4 DEF PatchIsSound
  <2> QED
    BY <2>1, <2>3, <2>4, <2>5, <2>6 DEF IInv, loop
<1>3. CASE ReadForPatch
  BY <1>3 DEF ReadForPatch, loop, worker, IInv, PatchIsSound
<1>4. CASE WritePatch
  <2> DEFINE q == [patched EXCEPT
                    ![building.architecture] = ReserveBuild(@, building.pkgbase, outcome)]
  <2>1. /\ patched # <<>> /\ patched' = <<>>
        /\ packages_to_be_built' = [patched EXCEPT ![building.architecture] =
                SetBuildStatus(@, building.pkgbase, outcome)]
        /\ building' = NoJob /\ outcome' = ""
        /\ UNCHANGED <<loop, queue, sent, results, faults>>
    BY <1>4 DEF WritePatch, NextBuild
  <2>2. /\ Copy(p, results, patched)
        /\ building \in Known(p) /\ outcome \in Settled
        /\ <<building, outcome>> \in results
    BY <2>1 DEF IInv, PatchIsSound, WorkerIsSound
  <2>3. /\ outcome \in PackageBuildStatus
        /\ Justified(results, building.architecture, building.pkgbase, outcome)
    <3>1. building = JobFor(building.architecture, building.pkgbase)
      BY <2>2 DEF Known, Job, JobFor
    <3> QED
      BY <2>2, <3>1 DEF Settled, PackageBuildStatus, Justified
  <2>4. /\ Copy(p, results, q)
        /\ SetBuildStatus(patched[building.architecture], building.pkgbase, outcome)
            = ReserveBuild(patched[building.architecture], building.pkgbase, outcome)
    BY <2>2, <2>3, CopyUpdated
  <2>5. packages_to_be_built' = q
    BY <2>1, <2>4
  <2> HIDE DEF q
  <2>6. SameShape(p, q)
    BY <2>4 DEF Copy
  <2>7. /\ Copy(q, results, q)
        /\ LoopIsSound(q, results, pc, iteration, architectures, build)
        /\ WorkerIsSound(q, results, queue, building, outcome)
        /\ SentInOrder(q, results, sent)
    BY <2>4, <2>6, StaysSound, AllStaySound DEF IInv
  <2>8. WorkerIsSound(q, results, queue, NoJob, "")
    BY <2>7 DEF WorkerIsSound
  <2> QED
    BY <2>1, <2>5, <2>7, <2>8 DEF IInv, PatchIsSound, loop
<1>5. CASE ReportFails \/ ServerCrash \/ WorkerCrash
  <2>1. /\ UNCHANGED <<packages_to_be_built, sent, results>>
        /\ patched' = <<>> /\ faults' \in Nat
    <3>1. faults' = faults + 1
      BY <1>5 DEF ReportFails, ServerCrash, WorkerCrash, Fault
    <3>2. faults' \in Nat
      BY <3>1 DEF IInv
    <3> QED
      BY <1>5, <3>2 DEF ReportFails, ServerCrash, WorkerCrash
  <2>2. LoopIsSound(p, results, pc', iteration', architectures', build')
    <3>1. CASE UNCHANGED loop
      BY <3>1 DEF IInv, loop
    <3>2. CASE ServerCrash
      BY <3>2 DEF ServerCrash, LoopIsSound
    <3> QED
      BY <1>5, <3>1, <3>2 DEF ReportFails, WorkerCrash
  <2>3. WorkerIsSound(p, results, queue', building', outcome')
    <3>1. \/ UNCHANGED worker
          \/ building' = NoJob /\ outcome' = "" /\ queue' \in {queue, <<>>}
      BY <1>5 DEF ReportFails, ServerCrash, WorkerCrash, NextBuild
    <3>2. <<>> \in Seq(Known(p))
      OBVIOUS
    <3> QED
      BY <3>1, <3>2 DEF IInv, WorkerIsSound, worker
  <2> QED
    BY <2>1, <2>2, <2>3 DEF IInv, PatchIsSound
<1> QED
  BY <1>1, <1>2, <1>3, <1>4, <1>5 DEF WorkerStep

LEMMA Invariance == Spec => []IInv
<1>1. IInv /\ [Next]_vars => IInv'
  <2> SUFFICES ASSUME IInv, [Next]_vars
               PROVE  IInv'
    OBVIOUS
  <2>1. CASE Next
    BY <2>1, LoopSteps, WorkerSteps DEF Next, Failure
  <2>2. CASE UNCHANGED vars
    BY <2>2 DEF vars, loop, worker, IInv
  <2> QED
    BY <2>1, <2>2
<1> QED
  BY <1>1, InitIInv, PTL DEF Spec

-----------------------------------------------------------------------------
(***************************************************************************)
(* What follows from the invariant                                         *)
(***************************************************************************)

\* Every variable of the loop, the worker and the handler has its type.
THEOREM WorkerTypeCorrect == Spec => []TypeOK
<1>1. IInv => TypeOK
  <2> SUFFICES ASSUME IInv
               PROVE  TypeOK
    OBVIOUS
  <2>1. Known(packages_to_be_built) \subseteq Job
    BY DEF Known
  <2>2. queue \in Seq(Job) /\ sent \in Seq(Job)
    <3>1. queue \in Seq(Known(packages_to_be_built)) /\ sent \in Seq(Known(packages_to_be_built))
      BY DEF IInv, WorkerIsSound, SentInOrder
    <3> QED
      BY <2>1, <3>1, LargerSequences
  <2>3. ArePackages(iteration) /\ architectures \subseteq DOMAIN iteration
    BY EmptyPackages DEF IInv, LoopIsSound, Copy
  <2> QED
    BY <2>1, <2>2, <2>3, EmptyPackages
       DEF IInv, LoopIsSound, WorkerIsSound, PatchIsSound, Copy, Settled, TypeOK
<1> QED
  BY <1>1, Invariance, PTL

\* Whatever is overwritten or lost, the worker never gets a build before each of
\* its dependencies was built.
THEOREM WorkerBuildsInOrder == Spec => []DependenciesBuiltFirst
<1>1. IInv => DependenciesBuiltFirst
  <2> SUFFICES ASSUME IInv, NEW s \in DOMAIN sent,
                      NEW d \in Dependencies(packages_to_be_built[sent[s].architecture],
                                             sent[s].pkgbase)
               PROVE  <<[sent[s] EXCEPT !.pkgbase = d], "Built">> \in results
    BY DEF DependenciesBuiltFirst
  <2>1. sent[s] \in Job
    BY DEF IInv, SentInOrder, Known
  <2>2. [sent[s] EXCEPT !.pkgbase = d] = JobFor(sent[s].architecture, d)
    BY <2>1 DEF Job, JobFor
  <2> QED
    BY <2>2 DEF IInv, SentInOrder, InOrder
<1> QED
  BY <1>1, Invariance, PTL

\* Every result in the row is one the worker arrived at.
THEOREM WorkerResultsAreReal == Spec => []ResultsAreReal
<1>1. IInv => ResultsAreReal
  <2> SUFFICES ASSUME IInv, NEW j \in Job,
                      j.architecture \in DOMAIN packages_to_be_built,
                      j.pkgbase \in Nodes(packages_to_be_built[j.architecture]),
                      packages_to_be_built[j.architecture].status[j.pkgbase] \in Settled
               PROVE  <<j, packages_to_be_built[j.architecture].status[j.pkgbase]>> \in results
    BY DEF ResultsAreReal
  <2>1. j = JobFor(j.architecture, j.pkgbase)
    BY DEF Job, JobFor
  <2> QED
    BY <2>1 DEF IInv, Copy, Justified
<1> QED
  BY <1>1, Invariance, PTL

-----------------------------------------------------------------------------
(***************************************************************************)
(* Builds that are waited for                                              *)
(*                                                                         *)
(* WaitsForRunningBuild does not hold. It fails in four ways only: the     *)
(* loop writes a row that is older than the one in the database, the       *)
(* worker dies, its report gets lost, or the server dies over the report.  *)
(* A handler that writes an old row does no harm to it.                    *)
(***************************************************************************)

LosesBuild ==
    \/ UpdateIteration /\ iteration # packages_to_be_built
    \/ ReportFails
    \/ WorkerCrash
    \/ ServerCrash /\ patched # <<>>

KeepingSpec == Init /\ [][Next /\ ~LosesBuild]_vars

StatusOf(p, j) == p[j.architecture].status[j.pkgbase]

\* The worker has the job in its queue q or is busy with it.
Held(q, current, j) == j = current \/ \E i \in DOMAIN q : q[i] = j

\* In progress, or about to be recorded as such by the loop.
Awaited(p, c, bld, j) ==
    \/ StatusOf(p, j) \in InProgress
    \/ c = "update" /\ bld = j /\ StatusOf(p, j) \notin Settled

AwaitedAreHeld(p, c, bld, q, current) ==
    \A j \in Known(p) : Awaited(p, c, bld, j) => Held(q, current, j)

WaitInv ==
    /\ IInv
    /\ AwaitedAreHeld(packages_to_be_built, pc, build, queue, building)
    /\ patched # <<>> => AwaitedAreHeld(patched, pc, build, queue, building)
    /\ pc = "update" => StatusOf(iteration, build) \notin Settled

\* The status of one job in a copy is that of no other.
LEMMA StatusAfter ==
    ASSUME NEW p, NEW res, NEW q, Copy(p, res, q), NEW k \in Known(p), NEW j \in Known(p),
           NEW status \in PackageBuildStatus
    PROVE  LET r == [q EXCEPT ![k.architecture] = ReserveBuild(@, k.pkgbase, status)]
           IN  StatusOf(r, j) = IF j = k THEN status ELSE StatusOf(q, j)
<1> DEFINE a == k.architecture
           b == k.pkgbase
           g == ReserveBuild(q[a], b, status)
           r == [q EXCEPT ![a] = g]
<1>1. /\ ArePackages(q) /\ a \in DOMAIN q /\ b \in Nodes(q[a])
      /\ j.architecture \in DOMAIN q /\ j.pkgbase \in Nodes(q[j.architecture])
  BY DEF Copy, SameShape, Known
<1>2. /\ IsBuildSetGraph(q[a], Pkgbases, CommitHashes)
      /\ q[a].status \in [Nodes(q[a]) -> PackageBuildStatus]
      /\ q = [c \in DOMAIN q |-> q[c]]
  BY <1>1, PackagesShape
<1>3. g.status = [q[a].status EXCEPT ![b] = status]
  BY <1>1, <1>2, StatusWritten
<1> HIDE DEF g
<1>4. r[a] = g /\ \A c \in DOMAIN q : c # a => r[c] = q[c]
  BY <1>1, <1>2
<1>5. r[a].status = [q[a].status EXCEPT ![b] = status]
  BY <1>3, <1>4
<1>6. /\ r[a].status[b] = status
      /\ \A n \in Nodes(q[a]) : n # b => r[a].status[n] = q[a].status[n]
  BY <1>1, <1>2, <1>5
<1>7. j = k <=> j.architecture = a /\ j.pkgbase = b
  BY DEF Known, Job
<1> HIDE DEF a, b, r
<1>8. r[j.architecture].status[j.pkgbase] =
        IF j = k THEN status ELSE q[j.architecture].status[j.pkgbase]
  <2>1. CASE j.architecture # a
    BY <1>1, <1>4, <1>7, <2>1
  <2>2. CASE j.architecture = a
    BY <1>1, <1>6, <1>7, <2>2
  <2> QED
    BY <2>1, <2>2
<1>9. StatusOf(r, j) = IF j = k THEN status ELSE StatusOf(q, j)
  BY <1>8 DEF StatusOf
<1> QED
  BY <1>9 DEF r, g, a, b

\* A build stays with the worker when another one is appended, and when it is
\* taken out of the queue.
LEMMA HeldStays ==
    ASSUME NEW S, NEW q \in Seq(S), NEW j
    PROVE  /\ \A k \in S : \A current :
                /\ Held(q, current, j) => Held(Append(q, k), current, j)
                /\ Held(Append(q, k), current, k)
           /\ q # <<>> => \A current :
                Held(q, current, j) /\ current # j => Held(Tail(q), Head(q), j)
<1>1. ASSUME NEW k \in S, NEW current
      PROVE  /\ Held(q, current, j) => Held(Append(q, k), current, j)
             /\ Held(Append(q, k), current, k)
  <2>1. /\ \A i \in DOMAIN q : i \in DOMAIN Append(q, k) /\ Append(q, k)[i] = q[i]
        /\ Len(q) + 1 \in DOMAIN Append(q, k) /\ Append(q, k)[Len(q) + 1] = k
    OBVIOUS
  <2> QED
    BY <2>1 DEF Held
<1>2. ASSUME q # <<>>, NEW current, Held(q, current, j), current # j
      PROVE  Held(Tail(q), Head(q), j)
  <2>1. PICK i \in DOMAIN q : q[i] = j
    BY <1>2 DEF Held
  <2>2. CASE i = 1
    BY <1>2, <2>1, <2>2 DEF Held
  <2>3. CASE i # 1
    <3>1. i \in 2 .. Len(q)
      BY <2>1, <2>3
    <3>2. i - 1 \in DOMAIN Tail(q) /\ Tail(q)[i - 1] = q[i]
      BY <1>2, <3>1
    <3> QED
      BY <2>1, <3>2 DEF Held
  <2> QED
    BY <2>2, <2>3
<1> QED
  BY <1>1, <1>2

\* Steps that write nothing and let go of no build.
LEMMA HoldingStep ==
    ASSUME WaitInv, IInv', UNCHANGED packages_to_be_built,
           \A j \in Job : Held(queue, building, j) => Held(queue', building', j),
           patched' \in {<<>>, patched, packages_to_be_built},
           pc' # "update" \/ UNCHANGED <<pc, iteration, build>>
    PROVE  WaitInv'
<1>1. \A p : Known(p) \subseteq Job
  BY DEF Known
<1>2. \A p, j : Awaited(p, pc', build', j) => Awaited(p, pc, build, j)
  BY DEF Awaited
<1>3. ASSUME NEW p, AwaitedAreHeld(p, pc, build, queue, building)
      PROVE  AwaitedAreHeld(p, pc', build', queue', building')
  BY <1>1, <1>2, <1>3 DEF AwaitedAreHeld
<1>4. AwaitedAreHeld(packages_to_be_built', pc', build', queue', building')
  BY <1>3 DEF WaitInv
<1>5. patched' # <<>> => AwaitedAreHeld(patched', pc', build', queue', building')
  BY <1>3 DEF WaitInv
<1>6. pc' = "update" => StatusOf(iteration', build') \notin Settled
  BY DEF WaitInv
<1> QED
  BY <1>4, <1>5, <1>6 DEF WaitInv

LEMMA KeepingLoopSteps ==
    ASSUME WaitInv, IInv', ~LosesBuild,
           LoopStep \/ \E a \in architectures : \E b \in Ready(a) : SendFails(a, b)
    PROVE  WaitInv'
<1> DEFINE p == packages_to_be_built
<1>q. queue \in Seq(Known(p))
  BY DEF WaitInv, IInv, WorkerIsSound
<1>1. CASE \/ Sleep
           \/ ReadNewestIteration
           \/ \E a \in architectures : NothingToSchedule(a)
           \/ FinishPass
  <2>1. /\ UNCHANGED <<packages_to_be_built, queue, building, patched>>
        /\ pc' # "update" \/ UNCHANGED <<pc, iteration, build>>
    BY <1>1 DEF Sleep, ReadNewestIteration, NothingToSchedule, FinishPass, vars, loop, worker
  <2> QED
    BY <2>1, HoldingStep
<1>2. ASSUME NEW a \in architectures, NEW b \in Ready(a), SendFails(a, b)
      PROVE  WaitInv'
  <2>1. /\ pc = "schedule"
        /\ Enqueue(JobFor(a, b)) \/ UNCHANGED <<queue, sent>>
        /\ UNCHANGED <<packages_to_be_built, pc, iteration, build, building, patched>>
    BY <1>2 DEF SendFails, JobFor
  <2>2. \A j \in Job : Held(queue, building, j) => Held(queue', building', j)
    <3>1. CASE UNCHANGED queue
      BY <2>1, <3>1
    <3>2. CASE Enqueue(JobFor(a, b))
      <4>1. queue' = Append(queue, JobFor(a, b)) /\ JobFor(a, b) \in Known(p)
        BY <2>1, <3>2, Accepted DEF Enqueue, WaitInv
      <4> QED
        BY <1>q, <2>1, <4>1, HeldStays
    <3> QED
      BY <2>1, <3>1, <3>2
  <2> QED
    BY <2>1, <2>2, HoldingStep
<1>3. ASSUME NEW a \in architectures, NEW b \in Ready(a), SendBuild(a, b)
      PROVE  WaitInv'
  <2>1. /\ pc = "schedule" /\ pc' = "update" /\ build' = JobFor(a, b)
        /\ Enqueue(JobFor(a, b))
        /\ UNCHANGED <<packages_to_be_built, iteration, building, patched>>
    BY <1>3 DEF SendBuild, JobFor
  <2>2. queue' = Append(queue, build') /\ build' \in Known(p)
    BY <2>1, Accepted DEF Enqueue, WaitInv
  <2>3. /\ \A j : Held(queue, building, j) => Held(queue', building, j)
        /\ Held(queue', building, build')
    BY <1>q, <2>2, HeldStays
  <2>4. ASSUME NEW r, AwaitedAreHeld(r, pc, build, queue, building)
        PROVE  AwaitedAreHeld(r, pc', build', queue', building')
    BY <2>1, <2>3, <2>4 DEF AwaitedAreHeld, Awaited
  <2>5. StatusOf(iteration', build') \notin Settled
    <3>1. iteration[a].status[b] \in {"Blocked", "Pending"}
      BY <1>3 DEF Ready, ReadyBuilds
    <3> QED
      BY <2>1, <3>1 DEF StatusOf, JobFor, Settled
  <2> QED
    BY <2>1, <2>4, <2>5 DEF WaitInv
<1>4. CASE UpdateIteration
  <2> DEFINE q == [iteration EXCEPT
                    ![build.architecture] = ReserveBuild(@, build.pkgbase, "Building")]
  <2>1. /\ pc = "update" /\ pc' = "schedule"
        /\ packages_to_be_built' = q /\ iteration = p
        /\ UNCHANGED <<queue, building, patched>>
    BY <1>4 DEF UpdateIteration, worker, LosesBuild
  <2>2. Copy(p, results, iteration) /\ build \in Known(p)
    BY <2>1 DEF WaitInv, IInv, LoopIsSound
  <2>3. \A j \in Known(p) : StatusOf(q, j) = IF j = build THEN "Building" ELSE StatusOf(p, j)
    <3>1. "Building" \in PackageBuildStatus
      BY DEF PackageBuildStatus
    <3>2. \A j \in Known(p) :
            StatusOf(q, j) = IF j = build THEN "Building" ELSE StatusOf(iteration, j)
      BY <2>2, <3>1, StatusAfter
    <3> HIDE DEF q
    <3> QED
      BY <2>1, <3>2
  <2>4. Known(q) = Known(p)
    <3>1. Copy(p, results, q)
      <4>1. /\ "Building" \in PackageBuildStatus
            /\ Justified(results, build.architecture, build.pkgbase, "Building")
        BY DEF PackageBuildStatus, Justified, Settled
      <4> QED
        BY <2>2, <4>1, CopyUpdated
    <3> HIDE DEF q
    <3> QED
      BY <3>1 DEF Copy, SameShape, Known
  <2> HIDE DEF q
  <2>5. Held(queue, building, build)
    BY <2>1, <2>2 DEF WaitInv, AwaitedAreHeld, Awaited
  <2>6. AwaitedAreHeld(q, pc', build', queue, building)
    BY <2>1, <2>3, <2>4, <2>5 DEF WaitInv, AwaitedAreHeld, Awaited
  <2>7. patched # <<>> => AwaitedAreHeld(patched, pc', build', queue, building)
    BY <2>1 DEF WaitInv, AwaitedAreHeld, Awaited
  <2> QED
    BY <2>1, <2>6, <2>7 DEF WaitInv
<1> QED
  BY <1>1, <1>2, <1>3, <1>4 DEF LoopStep

LEMMA KeepingWorkerSteps ==
    ASSUME WaitInv, IInv', ~LosesBuild, WorkerStep \/ ServerCrash
    PROVE  WaitInv'
<1> DEFINE p == packages_to_be_built
<1>1. CASE TakeBuild
  <2>1. /\ building' = Head(queue) /\ queue' = Tail(queue) /\ queue # <<>>
        /\ building = NoJob
        /\ UNCHANGED <<packages_to_be_built, loop, patched>>
    BY <1>1 DEF TakeBuild
  <2>2. queue \in Seq(Known(p)) /\ NoJob \notin Job
    BY WorkerAssumption DEF WaitInv, IInv, WorkerIsSound
  <2>3. \A j \in Job : Held(queue, building, j) => Held(queue', building', j)
    BY <2>1, <2>2, HeldStays
  <2> QED
    BY <2>1, <2>3, HoldingStep DEF loop
<1>2. CASE FinishBuild \/ ReadForPatch
  <2>1. /\ UNCHANGED <<packages_to_be_built, loop, queue, building>>
        /\ patched' \in {patched, packages_to_be_built}
    BY <1>2 DEF FinishBuild, ReadForPatch, worker
  <2> QED
    BY <2>1, HoldingStep DEF loop
<1>3. CASE ServerCrash
  <2>1. /\ UNCHANGED <<packages_to_be_built, queue, building>>
        /\ patched' = <<>> /\ pc' = "idle"
    BY <1>3 DEF ServerCrash, LosesBuild, worker
  <2> QED
    BY <2>1, HoldingStep
<1>4. CASE WritePatch
  <2> DEFINE q == [patched EXCEPT
                    ![building.architecture] = ReserveBuild(@, building.pkgbase, outcome)]
  <2>1. /\ patched # <<>> /\ patched' = <<>>
        /\ packages_to_be_built' = [patched EXCEPT ![building.architecture] =
                SetBuildStatus(@, building.pkgbase, outcome)]
        /\ building' = NoJob
        /\ UNCHANGED <<loop, queue>>
    BY <1>4 DEF WritePatch, NextBuild
  <2>2. /\ Copy(p, results, patched)
        /\ building \in Known(p) /\ outcome \in Settled
        /\ <<building, outcome>> \in results
    BY <2>1 DEF WaitInv, IInv, PatchIsSound, WorkerIsSound
  <2>3. /\ outcome \in PackageBuildStatus
        /\ Justified(results, building.architecture, building.pkgbase, outcome)
    <3>1. building = JobFor(building.architecture, building.pkgbase)
      BY <2>2 DEF Known, Job, JobFor
    <3> QED
      BY <2>2, <3>1 DEF Settled, PackageBuildStatus, Justified
  <2>4. /\ Copy(p, results, q)
        /\ SetBuildStatus(patched[building.architecture], building.pkgbase, outcome)
            = ReserveBuild(patched[building.architecture], building.pkgbase, outcome)
    BY <2>2, <2>3, CopyUpdated
  <2>5. packages_to_be_built' = q
    BY <2>1, <2>4
  <2>6. \A j \in Known(p) :
            StatusOf(q, j) = IF j = building THEN outcome ELSE StatusOf(patched, j)
    BY <2>2, <2>3, StatusAfter
  <2> HIDE DEF q
  <2>7. Known(q) = Known(p) /\ Known(patched) = Known(p)
    BY <2>2, <2>4 DEF Copy, SameShape, Known
  <2>8. ASSUME NEW j \in Known(q), Awaited(q, pc', build', j)
        PROVE  Held(queue', building', j)
    <3>1. j # building
      BY <2>2, <2>6, <2>7, <2>8 DEF Awaited, InProgress, Settled
    <3>2. Awaited(patched, pc, build, j)
      BY <2>1, <2>6, <2>7, <2>8, <3>1 DEF Awaited, loop
    <3>3. Held(queue, building, j)
      BY <2>1, <2>7, <2>8, <3>2 DEF WaitInv, AwaitedAreHeld
    <3> QED
      BY <2>1, <3>1, <3>3 DEF Held
  <2>9. pc' = "update" => StatusOf(iteration', build') \notin Settled
    BY <2>1 DEF WaitInv, loop
  <2> QED
    BY <2>1, <2>5, <2>8, <2>9 DEF WaitInv, AwaitedAreHeld
<1> QED
  BY <1>1, <1>2, <1>3, <1>4 DEF WorkerStep

\* When the scheduler is told to wait ("skip nodes that building and tell the
\* scheduler to wait for them to complete"), the worker has that build, as long
\* as none of the four things happens.
THEOREM WorkerWaitsWhenNothingIsLost == KeepingSpec => []WaitsForRunningBuild
<1>1. Init => WaitInv
  <2> SUFFICES ASSUME Init
               PROVE  WaitInv
    OBVIOUS
  <2>1. IInv /\ pc = "idle" /\ patched = <<>> /\ packages_to_be_built \in BuildSets
    BY InitIInv DEF Init
  <2>2. \A j \in Known(packages_to_be_built) : StatusOf(packages_to_be_built, j) = "Blocked"
    BY <2>1, WorkerAssumption DEF Known, StatusOf
  <2> QED
    BY <2>1, <2>2 DEF WaitInv, AwaitedAreHeld, Awaited, InProgress
<1>2. WaitInv /\ [Next /\ ~LosesBuild]_vars => WaitInv'
  <2> SUFFICES ASSUME WaitInv, [Next /\ ~LosesBuild]_vars
               PROVE  WaitInv'
    OBVIOUS
  <2>1. CASE Next /\ ~LosesBuild
    <3>1. IInv'
      BY <2>1, LoopSteps, WorkerSteps DEF Next, Failure, WaitInv
    <3>2. ~ReportFails /\ ~WorkerCrash
      BY <2>1 DEF LosesBuild
    <3> QED
      BY <2>1, <3>1, <3>2, KeepingLoopSteps, KeepingWorkerSteps DEF Next, Failure
  <2>2. CASE UNCHANGED vars
    BY <2>2 DEF vars, loop, worker, WaitInv, IInv
  <2> QED
    BY <2>1, <2>2
<1>3. WaitInv => WaitsForRunningBuild
  <2> SUFFICES ASSUME WaitInv, NEW a \in DOMAIN packages_to_be_built,
                      FallbackStatus(packages_to_be_built[a]) = "NoPendingPackages"
               PROVE  queue # <<>> \/ building # NoJob
    BY DEF WaitsForRunningBuild
  <2>1. PICK b \in VisitedNodes(packages_to_be_built[a]) :
            packages_to_be_built[a].status[b] \in InProgress
    BY DEF FallbackStatus
  <2>2. b \in Nodes(packages_to_be_built[a])
    BY DEF VisitedNodes
  <2>3. a \in Architectures /\ b \in Pkgbases
    BY <2>2, PackagesShape DEF WaitInv, IInv, Copy
  <2>4. JobFor(a, b) \in Known(packages_to_be_built)
    BY <2>2, <2>3 DEF Known, Job, JobFor
  <2>5. Held(queue, building, JobFor(a, b))
    BY <2>1, <2>4 DEF WaitInv, AwaitedAreHeld, Awaited, StatusOf, JobFor
  <2>6. NoJob \notin Known(packages_to_be_built)
    BY WorkerAssumption DEF Known
  <2> QED
    BY <2>4, <2>5, <2>6 DEF Held
<1> QED
  BY <1>1, <1>2, <1>3, PTL DEF KeepingSpec
=============================================================================
