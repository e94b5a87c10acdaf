-------------------------- MODULE PackageRepoProofs --------------------------
(***************************************************************************)
(* PackageRepo keeps its type, and lists whole packages only when no two   *)
(* runs of a pkgbase can upload at the same time.                          *)
(*                                                                         *)
(* The invariant follows a package file through the awaits of the upload   *)
(* handler: what the handler found out about the file before an await is   *)
(* still true after it, because nobody else uploads the same package.      *)
(*                                                                         *)
(* The second part, from StoreInv on, follows a package into the pacman    *)
(* database: the first run of a pkgbase finds none of its packages, writes *)
(* and, when no lock is in the way, lists all of them itself; later runs   *)
(* find whole files and leave them alone.                                  *)
(*                                                                         *)
(* The last part, from LosesPackage on, says in which ways a completed     *)
(* build may lack a package in the database.                               *)
(***************************************************************************)
EXTENDS PackageRepo, TLAPS

\* What the environment has to provide: runners build every pkgbase once.
RunsDoNotOverlap ==
    \A s \in Settings : s.builder = "worker" \/ s.runs <= 1

Uploads(j) == jobs[j] \in {"uploading", "uploading failed"}

\* Requests belong to jobs that upload, and name a package of their pkgbase.
RequestsAreOfJobs ==
    \A j \in Jobs :
        /\ left[j] \subseteq PackagesOf[j[1]]
        /\ step[j] # "" => Uploads(j) /\ uploading[j] \in left[j]

\* The worker is busy with one job; nobody with two runs of a pkgbase.
OneAtATime ==
    \A j, k \in Jobs :
        (/\ Busy(j) /\ Busy(k)
         /\ setting.builder = "worker" \/ j[1] = k[1])
        => j = k

\* The file is as the handler left it before the await it is at.
FilesMatchSteps ==
    \A j \in Jobs :
        /\ step[j] = "create" => files[uploading[j]] = "none"
        /\ step[j] = "write" => files[uploading[j]] = "partial"
        /\ step[j] \in {"add", "adding"} => files[uploading[j]] = "whole"

\* A repo-add works on a whole package, also when its request is gone.
AddsWholePackages == adding # NoPackage => files[adding] = "whole"

IInv ==
    /\ TypeOK
    /\ RequestsAreOfJobs
    /\ OneAtATime
    /\ FilesMatchSteps
    /\ AddsWholePackages
    /\ ListedPackagesAreWhole

-----------------------------------------------------------------------------
LEMMA JobsAreRuns ==
    ASSUME NEW j \in Jobs
    PROVE  /\ j[1] \in Pkgbases
           /\ j[2] \in 1 .. setting.runs
           /\ j = <<j[1], j[2]>>
BY DEF Jobs

\* Two requests for the same package are one request.
LEMMA OneUploader ==
    ASSUME IInv, NEW j \in Jobs, NEW k \in Jobs,
           step[j] # "", step[k] # "", uploading[j] = uploading[k]
    PROVE  j = k
<1>1. Busy(j) /\ Busy(k)
  BY DEF IInv, RequestsAreOfJobs, Uploads, Busy
<1>2. uploading[j] \in PackagesOf[j[1]] /\ uploading[j] \in PackagesOf[k[1]]
  BY DEF IInv, RequestsAreOfJobs
<1>3. j[1] = k[1]
  BY <1>2, JobsAreRuns, PackageRepoAssumption
<1> QED
  BY <1>1, <1>3 DEF IInv, OneAtATime

LEMMA InitIInv == Init => IInv
<1> SUFFICES ASSUME Init
             PROVE  IInv
  OBVIOUS
<1>1. \A j \in Jobs : jobs[j] = "none" /\ step[j] = "" /\ left[j] = {}
  BY DEF Init
<1>2. \A j \in Jobs : ~Busy(j)
  BY <1>1 DEF Busy
<1>3. TypeOK
  BY DEF Init, TypeOK, Contents
<1> QED
  BY <1>1, <1>2, <1>3 DEF Init, IInv, RequestsAreOfJobs, OneAtATime, FilesMatchSteps,
     AddsWholePackages, ListedPackagesAreWhole

-----------------------------------------------------------------------------
(***************************************************************************)
(* The steps of a request leave every job as busy as it was.               *)
(***************************************************************************)

LEMMA BusyStays ==
    ASSUME UNCHANGED <<setting, jobs>>, OneAtATime
    PROVE  /\ OneAtATime'
           /\ \A j \in Jobs : Uploads(j) <=> Uploads(j)'
BY DEF OneAtATime, Busy, Uploads, Jobs

\* A request goes from one await to the next without touching its file.
LEMMA Continues ==
    ASSUME IInv, NEW j \in Jobs, NEW next, Continue(j, next),
           step[j] # "", next \in {"create", "adding", "answered"},
           next = "create" => files[uploading[j]] = "none",
           next = "adding" => files[uploading[j]] = "whole",
           UNCHANGED <<setting, jobs, left, uploading, files, faults>>,
           \/ UNCHANGED repository
           \/ TakeLock(uploading[j]) /\ files[uploading[j]] = "whole"
    PROVE  IInv'
<1> USE DEF Continue
<1>b. OneAtATime' /\ \A k \in Jobs : Uploads(k) <=> Uploads(k)'
  BY BusyStays DEF IInv
<1>j. Jobs' = Jobs
  BY DEF Jobs
<1>1. TypeOK'
  BY <1>j DEF IInv, TypeOK, repository, TakeLock
<1>2. RequestsAreOfJobs'
  BY <1>b, <1>j DEF IInv, RequestsAreOfJobs, TypeOK
<1>3. FilesMatchSteps'
  BY <1>j DEF IInv, FilesMatchSteps, TypeOK
<1>4. AddsWholePackages' /\ ListedPackagesAreWhole'
  BY DEF IInv, AddsWholePackages, ListedPackagesAreWhole, repository, TakeLock
<1> QED
  BY <1>b, <1>1, <1>2, <1>3, <1>4 DEF IInv

\* The only request for a package changes its file.
LEMMA Writes ==
    ASSUME IInv, NEW j \in Jobs, NEW next, NEW content,
           Continue(j, next),
           files' = [files EXCEPT ![uploading[j]] = content],
           \/ step[j] = "create" /\ next = "write" /\ content = "partial"
           \/ step[j] = "write" /\ next = "add" /\ content = "whole",
           UNCHANGED <<setting, jobs, left, uploading, repository, faults>>
    PROVE  IInv'
<1> USE DEF Continue
<1>b. OneAtATime' /\ \A k \in Jobs : Uploads(k) <=> Uploads(k)'
  BY BusyStays DEF IInv
<1>j. Jobs' = Jobs
  BY DEF Jobs
<1>u. uploading[j] \in Packages
  BY DEF IInv, TypeOK
<1>f. files[uploading[j]] # "whole"
  BY DEF IInv, FilesMatchSteps
<1>1. TypeOK'
  BY <1>j DEF IInv, TypeOK, repository, Contents
<1>2. RequestsAreOfJobs'
  BY <1>b, <1>j DEF IInv, RequestsAreOfJobs, TypeOK
<1>3. FilesMatchSteps'
  <2> SUFFICES ASSUME NEW k \in Jobs
               PROVE  /\ step'[k] = "create" => files'[uploading'[k]] = "none"
                      /\ step'[k] = "write" => files'[uploading'[k]] = "partial"
                      /\ step'[k] \in {"add", "adding"}
                            => files'[uploading'[k]] = "whole"
    BY <1>j DEF FilesMatchSteps
  <2>1. CASE k = j
    BY <2>1, <1>u DEF IInv, TypeOK
  <2>2. CASE k # j /\ step[k] # ""
    <3>1. uploading[k] # uploading[j]
      BY <2>2, OneUploader
    <3> QED
      BY <2>2, <3>1 DEF IInv, TypeOK, FilesMatchSteps
  <2>3. CASE k # j /\ step[k] = ""
    BY <2>3 DEF IInv, TypeOK
  <2> QED
    BY <2>1, <2>2, <2>3
<1>4. AddsWholePackages' /\ ListedPackagesAreWhole'
  BY <1>f, <1>u DEF IInv, TypeOK, AddsWholePackages, ListedPackagesAreWhole, repository
<1> QED
  BY <1>b, <1>1, <1>2, <1>3, <1>4 DEF IInv

LEMMA UploadSteps ==
    ASSUME IInv, NEW j \in Jobs,
           \/ FileExists(j) \/ FileIsMissing(j) \/ CreateFile(j)
           \/ FinishWriting(j) \/ AddToRepo(j)
    PROVE  IInv'
<1>1. CASE FileExists(j)
  BY <1>1, Continues DEF FileExists
<1>2. CASE FileIsMissing(j)
  BY <1>2, Continues DEF FileIsMissing
<1>3. CASE CreateFile(j)
  <2>1. \A k \in Writers(uploading[j]) : step[k] = "write" /\ step[j] = "create" /\ k = j
    BY <1>3, OneUploader DEF Writers, CreateFile
  <2>2. Writers(uploading[j]) = {}
    BY <2>1
  <2> QED
    BY <1>3, <2>2, Writes DEF CreateFile
<1>4. CASE FinishWriting(j)
  <2>1. files[uploading[j]] = "partial"
    BY <1>4 DEF FinishWriting, IInv, FilesMatchSteps
  <2> QED
    BY <1>4, <2>1, Writes DEF FinishWriting
<1>5. CASE AddToRepo(j)
  <2>1. files[uploading[j]] = "whole"
    BY <1>5 DEF AddToRepo, IInv, FilesMatchSteps
  <2>2. CASE TakeLock(uploading[j]) /\ Continue(j, "adding")
    BY <1>5, <2>1, <2>2, Continues DEF AddToRepo
  <2>3. CASE Locked /\ Continue(j, "answered")
    BY <1>5, <2>3, Continues DEF AddToRepo, Locked
  <2> QED
    BY <1>5, <2>2, <2>3 DEF AddToRepo
<1> QED
  BY <1>1, <1>2, <1>3, <1>4, <1>5

-----------------------------------------------------------------------------
(***************************************************************************)
(* Steps that end requests, or change the phase of jobs.                   *)
(***************************************************************************)

\* Requests may end, and jobs may become less busy.
LEMMA Ends ==
    ASSUME IInv, UNCHANGED <<setting, files>>, TypeOK',
           \A j \in Jobs : Busy(j)' => Busy(j),
           \A j \in Jobs : left'[j] \subseteq left[j],
           \A j \in Jobs : step'[j] # "" =>
                /\ Uploads(j)'
                /\ uploading'[j] = uploading[j]
                /\ left'[j] = left[j]
                /\ step'[j] \in {step[j], "answered"}
                /\ step[j] # "",
           listed' \subseteq listed \union ({adding} \ {NoPackage}),
           adding' \in {adding, NoPackage}
    PROVE  IInv'
<1>j. Jobs' = Jobs
  BY DEF Jobs
<1>1. RequestsAreOfJobs'
  BY <1>j DEF IInv, RequestsAreOfJobs
<1>2. OneAtATime'
  BY <1>j DEF IInv, OneAtATime
<1>3. FilesMatchSteps'
  BY <1>j DEF IInv, FilesMatchSteps
<1>4. AddsWholePackages' /\ ListedPackagesAreWhole'
  BY DEF IInv, AddsWholePackages, ListedPackagesAreWhole
<1> QED
  BY <1>1, <1>2, <1>3, <1>4 DEF IInv

LEMMA RequestEnds ==
    ASSUME IInv, NEW j \in Jobs, NEW remaining \in SUBSET left[j], NEW phase,
           EndRequest(j, remaining),
           jobs' = [jobs EXCEPT ![j] = phase],
           phase \in {jobs[j], "failed"},
           UNCHANGED <<setting, files, repository>>,
           faults' \in Nat
    PROVE  IInv'
<1>j. Jobs' = Jobs
  BY DEF Jobs
<1>1. TypeOK'
  BY <1>j DEF IInv, TypeOK, EndRequest, repository
<1>2. \A k \in Jobs : /\ Busy(k)' => Busy(k)
                      /\ step'[k] # "" =>
                            /\ k # j
                            /\ Uploads(k)' <=> Uploads(k)
                            /\ uploading'[k] = uploading[k]
                            /\ left'[k] = left[k]
                            /\ step'[k] = step[k]
                      /\ left'[k] \subseteq left[k]
  BY DEF IInv, TypeOK, EndRequest, Busy, Uploads
<1>3. \A k \in Jobs : step[k] # "" => Uploads(k)
  BY DEF IInv, RequestsAreOfJobs
<1> QED
  BY <1>1, <1>2, <1>3, Ends DEF repository

LEMMA FaultsAreCounted ==
    ASSUME faults \in Nat, Fault
    PROVE  faults' \in Nat
<1>1. faults' = faults + 1
  BY DEF Fault
<1> QED
  BY <1>1

LEMMA BuilderSteps ==
    ASSUME IInv, RunsDoNotOverlap, Builder
    PROVE  IInv'
<1>j. setting' = setting /\ Jobs' = Jobs
  BY DEF Builder, Start, FinishBuild, RequestUpload, ReceiveAnswer, FinishJob, Jobs
<1>1. ASSUME NEW j \in Jobs, Start(j)
      PROVE  IInv'
  <2> USE <1>1 DEF Start
  <2>1. TypeOK'
    BY <1>j DEF IInv, TypeOK, requests, repository
  <2>2. \A k \in Jobs : Uploads(k) => Uploads(k)'
    BY DEF IInv, TypeOK, Uploads
  <2>3. RequestsAreOfJobs'
    BY <1>j, <2>2 DEF IInv, RequestsAreOfJobs, requests
  <2>4. \A k \in Jobs : k # j => (Busy(k)' <=> Busy(k))
    BY DEF IInv, TypeOK, Busy
  <2>5. ASSUME setting.builder = "worker"
        PROVE  OneAtATime'
    <3>1. \A k \in Jobs : ~Busy(k)
      BY <2>5
    <3>2. \A k \in Jobs : Busy(k)' => k = j
      BY <2>4, <3>1
    <3>3. \A k, l \in Jobs : Busy(k)' /\ Busy(l)' => k = l
      BY <3>2
    <3> QED
      BY <1>j, <3>3 DEF OneAtATime
  <2>6. ASSUME setting.builder # "worker"
        PROVE  OneAtATime'
    <3>1. setting \in Settings /\ setting.runs \in Nat /\ setting.runs <= 1
      BY <2>6, PackageRepoAssumption DEF IInv, TypeOK, RunsDoNotOverlap
    <3>2. \A k \in Jobs : k = <<k[1], 1>>
      <4> SUFFICES ASSUME NEW k \in Jobs
                   PROVE  k = <<k[1], 1>>
        OBVIOUS
      <4>1. k = <<k[1], k[2]>> /\ k[2] \in 1 .. setting.runs
        BY JobsAreRuns
      <4>2. k[2] = 1
        BY <3>1, <4>1
      <4> QED
        BY <4>1, <4>2
    <3>3. \A k, l \in Jobs : k[1] = l[1] => k = l
      BY <3>2
    <3> QED
      BY <1>j, <2>6, <3>3 DEF OneAtATime
  <2>7. FilesMatchSteps' /\ AddsWholePackages' /\ ListedPackagesAreWhole'
    BY <1>j DEF IInv, FilesMatchSteps, AddsWholePackages, ListedPackagesAreWhole,
       requests, repository
  <2> QED
    BY <2>1, <2>3, <2>5, <2>6, <2>7 DEF IInv
<1>2. ASSUME NEW j \in Jobs, NEW phase \in {"uploading", "uploading failed", "failed"},
             FinishBuild(j, phase)
      PROVE  IInv'
  <2> USE <1>2 DEF FinishBuild
  <2>0. j[1] \in Pkgbases /\ PackagesOf[j[1]] \subseteq Packages
    BY JobsAreRuns, PackageRepoAssumption
  <2>1. TypeOK'
    BY <1>j, <2>0 DEF IInv, TypeOK, repository
  <2>2. step[j] = ""
    BY DEF IInv, RequestsAreOfJobs, Uploads
  <2>3. \A k \in Jobs : /\ Busy(k)' => Busy(k)
                        /\ step[k] # "" => (Uploads(k)' <=> Uploads(k))
    BY <2>2 DEF IInv, TypeOK, Busy, Uploads
  <2>4. RequestsAreOfJobs'
    BY <1>j, <2>0, <2>2, <2>3 DEF IInv, TypeOK, RequestsAreOfJobs
  <2>5. OneAtATime'
    BY <1>j, <2>3 DEF IInv, OneAtATime
  <2>6. FilesMatchSteps' /\ AddsWholePackages' /\ ListedPackagesAreWhole'
    BY <1>j DEF IInv, FilesMatchSteps, AddsWholePackages, ListedPackagesAreWhole,
       repository
  <2> QED
    BY <2>1, <2>4, <2>5, <2>6 DEF IInv
<1>3. ASSUME NEW j \in Jobs, NEW package \in Packages, RequestUpload(j, package)
      PROVE  IInv'
  <2> USE <1>3 DEF RequestUpload
  <2>0. package # NoPackage
    BY PackageRepoAssumption
  <2>a. /\ uploading' \in [Jobs -> Packages \union {NoPackage}]
        /\ step' \in [Jobs -> {"", "check", "create", "write", "add", "adding",
                               "answered"}]
    BY DEF IInv, TypeOK
  <2>b. \A k \in Jobs : step'[k] = "" <=> uploading'[k] = NoPackage
    BY <2>0 DEF IInv, TypeOK
  <2>1. TypeOK'
    BY <1>j, <2>a, <2>b DEF IInv, TypeOK, repository, Contents
  <2>2. RequestsAreOfJobs'
    BY <1>j DEF IInv, TypeOK, RequestsAreOfJobs, Uploads
  <2>3. OneAtATime'
    BY BusyStays DEF IInv
  <2>4. FilesMatchSteps'
    BY <1>j DEF IInv, TypeOK, FilesMatchSteps
  <2>5. AddsWholePackages' /\ ListedPackagesAreWhole'
    BY DEF IInv, AddsWholePackages, ListedPackagesAreWhole, repository
  <2> QED
    BY <2>1, <2>2, <2>3, <2>4, <2>5 DEF IInv
<1>4. ASSUME NEW j \in Jobs, ReceiveAnswer(j)
      PROVE  IInv'
  <2>1. left[j] \ {uploading[j]} \in SUBSET left[j]
    OBVIOUS
  <2>2. jobs' = [jobs EXCEPT ![j] = jobs[j]] /\ faults' \in Nat
    BY <1>4 DEF ReceiveAnswer, IInv, TypeOK
  <2> QED
    BY <1>4, <2>1, <2>2, RequestEnds DEF ReceiveAnswer
<1>5. ASSUME NEW j \in Jobs, FinishJob(j)
      PROVE  IInv'
  <2> USE <1>5 DEF FinishJob
  <2>1. TypeOK'
    BY <1>j DEF IInv, TypeOK, requests, repository
  <2>2. step[j] = ""
    BY DEF IInv, RequestsAreOfJobs
  <2>3. \A k \in Jobs : /\ Busy(k)' => Busy(k)
                        /\ step[k] # "" => Uploads(k) /\ Uploads(k)'
    BY <2>2 DEF IInv, TypeOK, RequestsAreOfJobs, Busy, Uploads
  <2> QED
    BY <2>1, <2>3, Ends DEF requests, repository
<1> QED
  BY <1>1, <1>2, <1>3, <1>4, <1>5 DEF Builder

LEMMA RepoAddEndsKeeps ==
    ASSUME IInv, RepoAddEnds
    PROVE  IInv'
<1> USE DEF RepoAddEnds
<1>j. Jobs' = Jobs
  BY DEF Jobs
<1>1. TypeOK'
  BY <1>j DEF IInv, TypeOK, Contents
<1>2. \A k \in Jobs : /\ Busy(k)' => Busy(k)
                      /\ Uploads(k) => Uploads(k)'
                      /\ step'[k] \in {step[k], "answered"}
                      /\ step'[k] # "" => step[k] # ""
  BY DEF IInv, TypeOK, Busy, Uploads
<1>3. \A k \in Jobs : step[k] # "" => Uploads(k)
  BY DEF IInv, RequestsAreOfJobs
<1> QED
  BY <1>1, <1>2, <1>3, Ends

LEMMA ScheduleKeeps ==
    ASSUME IInv, NEW j \in Jobs, Schedule(j)
    PROVE  IInv'
<1> USE DEF Schedule
<1>j. Jobs' = Jobs
  BY DEF Jobs
<1>1. TypeOK'
  BY <1>j DEF IInv, TypeOK, requests, repository, TakeLock, Contents
<1>2. \A k \in Jobs : (Busy(k)' <=> Busy(k)) /\ (Uploads(k)' <=> Uploads(k))
  BY DEF IInv, TypeOK, Busy, Uploads
<1>3. \A k \in Jobs : step[k] # "" => Uploads(k)
  BY DEF IInv, RequestsAreOfJobs
<1>4. listed' = listed /\ adding' \in {adding, NoPackage}
  BY DEF repository, TakeLock
<1> QED
  BY <1>1, <1>2, <1>3, <1>4, Ends DEF requests

LEMMA FailureSteps ==
    ASSUME IInv, Failure
    PROVE  IInv'
<1>1. ASSUME NEW j \in Jobs, UploadErrors(j)
      PROVE  IInv'
  <2>1. faults' \in Nat
    <3>1. faults \in Nat
      BY DEF IInv, TypeOK
    <3> QED
      BY <1>1, <3>1, FaultsAreCounted DEF UploadErrors
  <2>2. {} \in SUBSET left[j] /\ left[j] \ {uploading[j]} \in SUBSET left[j]
    OBVIOUS
  <2>3. CASE setting.builder = "worker"
    BY <1>1, <2>1, <2>2, <2>3, RequestEnds DEF UploadErrors
  <2>4. CASE setting.builder # "worker"
    <3>1. jobs' = [jobs EXCEPT ![j] = jobs[j]]
      BY <1>1, <2>4 DEF UploadErrors, IInv, TypeOK
    <3> QED
      BY <1>1, <2>1, <2>2, <2>4, <3>1, RequestEnds DEF UploadErrors
  <2> QED
    BY <2>3, <2>4
<1>2. ASSUME NEW j \in Jobs, ConnectionLost(j)
      PROVE  IInv'
  <2>1. faults' \in Nat
    <3>1. faults \in Nat
      BY DEF IInv, TypeOK
    <3> QED
      BY <1>2, <3>1, FaultsAreCounted DEF ConnectionLost
  <2>2. {} \in SUBSET left[j]
    OBVIOUS
  <2> QED
    BY <1>2, <2>1, <2>2, RequestEnds DEF ConnectionLost
<1>3. ASSUME ServerCrash
      PROVE  IInv'
  <2> USE <1>3 DEF ServerCrash
  <2>j. Jobs' = Jobs
    BY DEF Jobs
  <2>f. faults \in Nat
    BY DEF IInv, TypeOK
  <2>g. faults' \in Nat
    BY <2>f, FaultsAreCounted
  <2>h. /\ lock' \in {"free", "held", "stale"}
        /\ adding' \in {adding, NoPackage}
    BY DEF IInv, TypeOK
  <2>1. TypeOK'
    BY <2>j, <2>g, <2>h DEF IInv, TypeOK, Contents
  <2>2. \A k \in Jobs : /\ Busy(k)' => Busy(k)
                        /\ step'[k] = ""
                        /\ left'[k] \subseteq left[k]
    BY DEF IInv, TypeOK, Busy
  <2> QED
    BY <2>h, <2>1, <2>2, Ends
<1> QED
  BY <1>1, <1>2, <1>3 DEF Failure

LEMMA NextIInv == RunsDoNotOverlap /\ IInv /\ [Next]_vars => IInv'
<1> SUFFICES ASSUME RunsDoNotOverlap, IInv, [Next]_vars
             PROVE  IInv'
  OBVIOUS
<1>1. CASE UNCHANGED vars
  BY <1>1 DEF vars, requests, repository, IInv, TypeOK, RequestsAreOfJobs, OneAtATime,
     FilesMatchSteps, AddsWholePackages, ListedPackagesAreWhole, Busy, Uploads, Jobs
<1>2. CASE Server
  <2>1. CASE Sleep
    BY <1>1, <2>1 DEF Sleep
  <2>2. CASE RepoAddEnds
    BY <2>2, RepoAddEndsKeeps
  <2>3. ASSUME NEW j \in Jobs, Schedule(j)
        PROVE  IInv'
    BY <2>3, ScheduleKeeps
  <2>4. ASSUME NEW j \in Jobs,
               \/ FileExists(j) \/ FileIsMissing(j) \/ CreateFile(j)
               \/ FinishWriting(j) \/ AddToRepo(j)
        PROVE  IInv'
    BY <2>4, UploadSteps
  <2> QED
    BY <1>2, <2>1, <2>2, <2>3, <2>4 DEF Server
<1>3. CASE Builder
  BY <1>3, BuilderSteps
<1>4. CASE Failure
  BY <1>4, FailureSteps
<1> QED
  BY <1>1, <1>2, <1>3, <1>4 DEF Next

-----------------------------------------------------------------------------
(***************************************************************************)
(* The results                                                             *)
(***************************************************************************)

THEOREM RepoInvariant == RunsDoNotOverlap /\ Spec => []IInv
<1> SUFFICES ASSUME RunsDoNotOverlap
             PROVE  Spec => []IInv
  OBVIOUS
<1>1. IInv /\ [Next]_vars => IInv'
  BY NextIInv
<1> QED
  BY InitIInv, <1>1, PTL DEF Spec

\* The state of uploads is well formed: a request is open exactly when a
\* package is being uploaded (upload_packages and upload_package).
THEOREM RepoTypeCorrect == RunsDoNotOverlap /\ Spec => []TypeOK
<1>1. IInv => TypeOK
  BY DEF IInv
<1> QED
  BY RepoInvariant, <1>1, PTL

\* Whatever uploads break off and whatever repo-add does, only whole packages
\* are in the repository's database, for any number of pkgbases, packages,
\* jobs and faults (upload_package, add_to_repo).
THEOREM RepoListsWholePackages == RunsDoNotOverlap /\ Spec => []ListedPackagesAreWhole
<1>1. IInv => ListedPackagesAreWhole
  BY DEF IInv
<1> QED
  BY RepoInvariant, <1>1, PTL

-----------------------------------------------------------------------------
(***************************************************************************)
(* Where packages end up                                                   *)
(*                                                                         *)
(* The first run of a pkgbase finds none of its packages in the directory, *)
(* so it writes all of them itself. Later runs start when it is over, and  *)
(* whole files are never touched again.                                    *)
(***************************************************************************)

First(j) == <<j[1], 1>>

NotStarted == {"none", "creating", "queued"}
Running == {"building", "uploading", "uploading failed"}
Over == {"success", "failed"}

RunsInOrder ==
    \A j \in Jobs : j[2] > 1 =>
        /\ jobs[j] # "none" => jobs[First(j)] \notin {"none", "creating"}
        /\ jobs[j] \notin NotStarted => jobs[First(j)] \in Over

\* Whom errors do not escape: the worker, or anybody as long as there are none.
Trusted == setting.builder = "worker" \/ faults = 0

Stored(j) ==
    /\ jobs[j] \in NotStarted \union {"building"}
            => \A p \in PackagesOf[j[1]] : files[p] = "none"
    /\ Trusted =>
        /\ jobs[j] = "success" => \A p \in PackagesOf[j[1]] : files[p] = "whole"
        /\ Uploads(j) => \A p \in PackagesOf[j[1]] :
            /\ p \notin left[j] => files[p] = "whole"
            /\ p \in left[j] /\ p # uploading[j] => files[p] = "none"
        /\ step[j] = "check" => files[uploading[j]] = "none"
        /\ step[j] = "answered" => files[uploading[j]] = "whole"

FirstRunsStore == \A j \in Jobs : j[2] = 1 => Stored(j)

\* As long as nothing fails, builds wait for the repository to be created.
CreatedFirst ==
    faults = 0 /\ ~db_exists =>
        /\ \A j \in Jobs : jobs[j] \in {"none", "creating"}
        /\ lock # "free" => \E j \in Jobs : jobs[j] = "creating"

\* The worker, when nothing fails: no repo-add ever meets another one.
LockIsUsed ==
    lock # "free" => lock = "held" /\ (~db_exists \/ \E j \in Jobs : step[j] = "adding")

FilesAreListed ==
    \A p \in Packages : files[p] # "none" =>
        \/ p \in listed
        \/ \E j \in Jobs : uploading[j] = p /\ step[j] \in {"write", "add", "adding"}

Listed(j) ==
    /\ jobs[j] = "success" => PackagesOf[j[1]] \subseteq listed
    /\ Uploads(j) => PackagesOf[j[1]] \ left[j] \subseteq listed
    /\ step[j] = "answered" => uploading[j] \in listed
    /\ step[j] = "adding" => lock = "held" /\ adding = uploading[j]

PackagesAreListed ==
    setting.builder = "worker" /\ faults = 0 =>
        /\ LockIsUsed
        /\ FilesAreListed
        /\ \A j \in Jobs : Listed(j)

StoreInv ==
    /\ RunsInOrder
    /\ FirstRunsStore
    /\ CreatedFirst
    /\ PackagesAreListed

-----------------------------------------------------------------------------
(***************************************************************************)
(* The order of runs                                                       *)
(***************************************************************************)

LEMMA FirstIsRun ==
    ASSUME TypeOK, NEW j \in Jobs
    PROVE  /\ First(j) \in Jobs
           /\ First(j)[1] = j[1] /\ First(j)[2] = 1
           /\ j[2] \in Nat /\ j[2] >= 1
           /\ j[2] = 1 => j = First(j)
           /\ ~(j[2] > 1) => j[2] = 1
<1>1. setting.runs \in Nat
  BY PackageRepoAssumption DEF TypeOK
<1>2. j[1] \in Pkgbases /\ j[2] \in 1 .. setting.runs /\ j = <<j[1], j[2]>>
  BY JobsAreRuns
<1>3. 1 \in 1 .. setting.runs /\ j[2] \in Nat /\ j[2] >= 1 /\ (~(j[2] > 1) => j[2] = 1)
  BY <1>1, <1>2
<1> QED
  BY <1>2, <1>3 DEF First, Jobs

\* Jobs that go on, or are created again, keep their order.
LEMMA OrderKept ==
    ASSUME TypeOK, RunsInOrder, UNCHANGED setting,
           \A j \in Jobs :
                \/ jobs'[j] = jobs[j]
                \/ jobs[j] = "creating" /\ jobs'[j] \in {"none", "queued"}
                \/ jobs[j] \in Running /\ jobs'[j] \in Running \union Over
    PROVE  RunsInOrder'
<1>j. Jobs' = Jobs
  BY DEF Jobs
<1> SUFFICES ASSUME NEW j \in Jobs, j[2] > 1
             PROVE  /\ jobs'[j] # "none" => jobs'[First(j)] \notin {"none", "creating"}
                    /\ jobs'[j] \notin NotStarted => jobs'[First(j)] \in Over
  BY <1>j DEF RunsInOrder, First
<1>1. First(j) \in Jobs
  BY FirstIsRun
<1> QED
  BY <1>1 DEF RunsInOrder, NotStarted, Running, Over

LEMMA ScheduleOrder ==
    ASSUME TypeOK, RunsInOrder, NEW k \in Jobs, Schedule(k)
    PROVE  RunsInOrder'
<1>j. setting' = setting /\ Jobs' = Jobs
  BY DEF Schedule, Jobs
<1>1. /\ jobs[k] = "none" /\ jobs'[k] \in {"queued", "creating"}
      /\ \A j \in Jobs : j # k => jobs'[j] = jobs[j]
      /\ \A j \in Jobs : jobs[j] # "creating"
  BY DEF Schedule, TypeOK
<1> SUFFICES ASSUME NEW j \in Jobs, j[2] > 1
             PROVE  /\ jobs'[j] # "none" => jobs'[First(j)] \notin {"none", "creating"}
                    /\ jobs'[j] \notin NotStarted => jobs'[First(j)] \in Over
  BY <1>j DEF RunsInOrder, First
<1>2. First(j) \in Jobs /\ First(j)[2] = 1 /\ First(j)[1] = j[1]
  BY FirstIsRun
<1>3. CASE j # k
  <2>1. CASE First(j) # k
    BY <1>1, <1>2, <1>3, <2>1 DEF RunsInOrder
  <2>2. CASE First(j) = k
    BY <1>1, <1>2, <1>3, <2>2 DEF RunsInOrder, NotStarted, Over
  <2> QED BY <2>1, <2>2
<1>4. CASE j = k
  <2> DEFINE before == <<k[1], k[2] - 1>>
  <2>1. /\ before \in Jobs /\ jobs[before] # "none" /\ k[2] \in Nat
        /\ before[2] = k[2] - 1 /\ First(before) = First(k)
    <3>1. setting.runs \in Nat
      BY PackageRepoAssumption DEF TypeOK
    <3>2. k[1] \in Pkgbases /\ k[2] \in 1 .. setting.runs
      BY JobsAreRuns
    <3>3. k[2] - 1 \in 1 .. setting.runs /\ k[2] \in Nat
      BY <1>4, <3>1, <3>2
    <3>4. jobs[before] # "none"
      BY <1>4 DEF Schedule
    <3> QED BY <3>2, <3>3, <3>4 DEF Jobs, First
  <2>2. jobs[First(k)] \notin {"none", "creating"}
    <3>1. CASE before[2] > 1
      BY <2>1, <3>1 DEF RunsInOrder
    <3>2. CASE ~(before[2] > 1)
      BY <1>1, <2>1, <3>2, FirstIsRun
    <3> QED BY <3>1, <3>2
  <2>3. First(k) # k
    BY <1>2, <1>4
  <2> QED BY <1>1, <1>2, <1>4, <2>2, <2>3 DEF NotStarted
<1> QED BY <1>3, <1>4

LEMMA StartOrder ==
    ASSUME IInv, RunsDoNotOverlap, RunsInOrder, NEW k \in Jobs, Start(k)
    PROVE  RunsInOrder'
<1>t. TypeOK
  BY DEF IInv
<1>j. setting' = setting /\ Jobs' = Jobs
  BY DEF Start, Jobs
<1>1. /\ jobs[k] = "queued" /\ jobs'[k] = "building"
      /\ \A j \in Jobs : j # k => jobs'[j] = jobs[j]
  BY <1>t DEF Start, TypeOK
<1> SUFFICES ASSUME NEW j \in Jobs, j[2] > 1
             PROVE  /\ jobs'[j] # "none" => jobs'[First(j)] \notin {"none", "creating"}
                    /\ jobs'[j] \notin NotStarted => jobs'[First(j)] \in Over
  BY <1>j DEF RunsInOrder, First
<1>2. First(j) \in Jobs /\ First(j)[2] = 1 /\ First(j)[1] = j[1] /\ First(j) # j
  BY <1>t, FirstIsRun
<1>3. CASE j # k
  BY <1>1, <1>2, <1>3 DEF RunsInOrder, NotStarted, Over
<1>4. CASE j = k
  <2>1. jobs[First(k)] \notin {"none", "creating"}
    BY <1>1, <1>4 DEF RunsInOrder
  <2>2. setting.builder = "worker"
    <3>1. setting \in Settings
      BY <1>t DEF TypeOK
    <3>2. setting.runs \in Nat /\ k[2] \in 1 .. setting.runs
      BY <3>1, PackageRepoAssumption, JobsAreRuns
    <3>3. ~(setting.runs <= 1)
      BY <1>4, <3>2
    <3> QED BY <3>1, <3>3 DEF RunsDoNotOverlap
  <2>3. jobs[First(k)] # "queued" /\ ~Busy(First(k))
    BY <1>2, <1>4, <2>2, FirstIsRun, <1>t DEF Start
  <2>4. jobs[First(k)] \in {"none", "creating", "queued", "building", "uploading",
                            "uploading failed", "success", "failed"}
    BY <1>2, <1>4, <1>t DEF TypeOK
  <2>5. jobs[First(k)] \in Over
    BY <2>1, <2>3, <2>4 DEF Busy, Over
  <2> QED BY <1>1, <1>2, <1>4, <2>5 DEF Over
<1> QED BY <1>3, <1>4

-----------------------------------------------------------------------------
(***************************************************************************)
(* Steps of one run                                                        *)
(***************************************************************************)

OnlyRun(k) ==
    /\ UNCHANGED setting
    /\ \A j \in Jobs : j # k =>
        /\ jobs'[j] = jobs[j]
        /\ left'[j] = left[j]
        /\ uploading'[j] = uploading[j]
        /\ step'[j] = step[j]
    /\ \A p \in Packages :
        \/ files'[p] = files[p]
        \/ p = uploading[k] /\ step[k] \in {"create", "write"}

NoNewFaults == (faults' = 0 => faults = 0)

LEMMA RequestsNamed ==
    ASSUME IInv, NEW j \in Jobs
    PROVE  /\ PackagesOf[j[1]] \subseteq Packages
           /\ left[j] \subseteq PackagesOf[j[1]]
           /\ step[j] # "" => Uploads(j) /\ uploading[j] \in left[j]
           /\ step[j] = "" <=> uploading[j] = NoPackage
           /\ NoPackage \notin Packages
           /\ jobs[j] \in NotStarted \union Running \union Over
<1>1. j[1] \in Pkgbases
  BY JobsAreRuns
<1>2. PackagesOf[j[1]] \subseteq Packages /\ NoPackage \notin Packages
  BY <1>1, PackageRepoAssumption
<1>3. jobs[j] \in NotStarted \union Running \union Over
  BY DEF IInv, TypeOK, NotStarted, Running, Over
<1> QED
  BY <1>2, <1>3 DEF IInv, RequestsAreOfJobs, TypeOK

\* What the first run of a pkgbase has found out is not disturbed by others:
\* those of the same pkgbase start when it is over.
LEMMA OthersStayStored ==
    ASSUME IInv, StoreInv, NEW k \in Jobs, OnlyRun(k), NoNewFaults,
           NEW j \in Jobs, j # k, j[2] = 1
    PROVE  Stored(j)'
<1>1. Stored(j)
  BY DEF StoreInv, FirstRunsStore
<1>2. Trusted' => Trusted
  BY DEF OnlyRun, NoNewFaults, Trusted
<1>3. /\ jobs'[j] = jobs[j] /\ left'[j] = left[j]
      /\ uploading'[j] = uploading[j] /\ step'[j] = step[j]
      /\ Uploads(j)' <=> Uploads(j)
  BY DEF OnlyRun, Uploads
<1>4. /\ PackagesOf[j[1]] \subseteq Packages
      /\ step[j] # "" => uploading[j] \in PackagesOf[j[1]] /\ Uploads(j)
  BY RequestsNamed
<1>5. CASE \A p \in PackagesOf[j[1]] : files'[p] = files[p]
  BY <1>1, <1>2, <1>3, <1>4, <1>5 DEF Stored
<1>6. CASE \E p \in PackagesOf[j[1]] : files'[p] # files[p]
  <2>1. uploading[k] \in PackagesOf[j[1]] /\ step[k] \in {"create", "write"}
    BY <1>4, <1>6 DEF OnlyRun
  <2>2. uploading[k] \in PackagesOf[k[1]] /\ Uploads(k)
    BY <2>1, RequestsNamed
  <2>3. k[1] = j[1]
    BY <2>1, <2>2, JobsAreRuns, PackageRepoAssumption
  <2>4. k[2] > 1 /\ First(k) = j
    <3>1. TypeOK
      BY DEF IInv
    <3>2. j = First(j)
      BY <3>1, FirstIsRun
    <3>3. First(k) = First(j)
      BY <2>3 DEF First
    <3> QED BY <3>1, <3>2, <3>3, FirstIsRun
  <2>5. jobs[j] \in Over
    BY <2>2, <2>4 DEF StoreInv, RunsInOrder, Uploads, NotStarted
  <2>6. files[uploading[k]] # "whole"
    BY <2>1 DEF IInv, FilesMatchSteps
  <2>7. ~Uploads(j)
    BY <2>5 DEF Over, Uploads
  <2>8. Trusted => jobs[j] # "success"
    BY <1>1, <2>1, <2>6 DEF Stored
  <2> QED BY <1>2, <1>3, <1>4, <2>5, <2>7, <2>8 DEF Stored, Over, NotStarted
<1> QED BY <1>5, <1>6

LEMMA OneRunStores ==
    ASSUME IInv, StoreInv, NEW k \in Jobs, OnlyRun(k), NoNewFaults,
           k[2] = 1 => Stored(k)'
    PROVE  FirstRunsStore'
<1>1. Jobs' = Jobs
  BY DEF OnlyRun, Jobs
<1>2. \A j \in Jobs : j[2] = 1 => Stored(j)'
  BY OthersStayStored
<1> QED BY <1>1, <1>2 DEF FirstRunsStore

\* A run that does not add anything leaves the packages of others listed.
LEMMA OneRunLists ==
    ASSUME IInv, StoreInv, NEW k \in Jobs, OnlyRun(k), NoNewFaults,
           listed' = listed, lock' = lock, adding' = adding, db_exists' = db_exists,
           setting.builder = "worker" /\ faults = 0 => Listed(k)',
           step[k] \in {"write", "add", "adding"} =>
                step'[k] \in {"write", "add", "adding"} /\ uploading'[k] = uploading[k],
           step[k] = "adding" => step'[k] = "adding",
           step[k] = "create" => step'[k] = "write" /\ uploading'[k] = uploading[k]
    PROVE  PackagesAreListed'
<1>1. Jobs' = Jobs /\ setting' = setting
  BY DEF OnlyRun, Jobs
<1> SUFFICES ASSUME setting.builder = "worker", faults' = 0
             PROVE  LockIsUsed' /\ FilesAreListed' /\ \A j \in Jobs : Listed(j)'
  BY <1>1 DEF PackagesAreListed
<1>2. LockIsUsed /\ FilesAreListed /\ \A j \in Jobs : Listed(j)
  BY DEF NoNewFaults, StoreInv, PackagesAreListed
<1>3. LockIsUsed'
  BY <1>1, <1>2 DEF LockIsUsed, OnlyRun
<1>4. FilesAreListed'
  <2> SUFFICES ASSUME NEW p \in Packages, files'[p] # "none", p \notin listed
               PROVE  \E j \in Jobs : uploading'[j] = p /\ step'[j] \in {"write", "add", "adding"}
    BY <1>1 DEF FilesAreListed
  <2>1. CASE files'[p] = files[p]
    <3>1. PICK j \in Jobs : uploading[j] = p /\ step[j] \in {"write", "add", "adding"}
      BY <1>2, <2>1 DEF FilesAreListed
    <3>2. uploading'[j] = p /\ step'[j] \in {"write", "add", "adding"}
      BY <3>1 DEF OnlyRun
    <3> QED BY <3>2
  <2>2. CASE files'[p] # files[p]
    <3>1. p = uploading[k] /\ step[k] \in {"create", "write"}
      BY <2>2 DEF OnlyRun
    <3> QED BY <3>1
  <2> QED BY <2>1, <2>2
<1>5. \A j \in Jobs : Listed(j)'
  BY <1>2 DEF Listed, OnlyRun, Uploads, NoNewFaults
<1> QED BY <1>3, <1>4, <1>5

\* The repository is there before anybody builds.
LEMMA CreatedKept ==
    ASSUME IInv, StoreInv, NoNewFaults, UNCHANGED setting,
           db_exists' = db_exists,
           faults = 0 => db_exists
    PROVE  CreatedFirst'
BY DEF NoNewFaults, CreatedFirst

LEMMA ExistsForBuilds ==
    ASSUME IInv, StoreInv, NEW k \in Jobs, jobs[k] \notin {"none", "creating"}
    PROVE  faults = 0 => db_exists
BY DEF IInv, TypeOK, StoreInv, CreatedFirst

\* Together: what has to be shown of a step of one run that adds nothing.
LEMMA OneRunKeeps ==
    ASSUME IInv, StoreInv, NEW k \in Jobs, OnlyRun(k), NoNewFaults, RunsInOrder',
           UNCHANGED repository,
           jobs[k] \notin {"none", "creating"},
           k[2] = 1 => Stored(k)',
           setting.builder = "worker" /\ faults = 0 => Listed(k)',
           step[k] \in {"write", "add", "adding"} =>
                step'[k] \in {"write", "add", "adding"} /\ uploading'[k] = uploading[k],
           step[k] = "adding" => step'[k] = "adding",
           step[k] = "create" => step'[k] = "write" /\ uploading'[k] = uploading[k]
    PROVE  StoreInv'
<1>1. FirstRunsStore'
  BY OneRunStores
<1>2. PackagesAreListed'
  BY OneRunLists DEF repository
<1>3. CreatedFirst'
  BY CreatedKept, ExistsForBuilds DEF OnlyRun, repository
<1> QED BY <1>1, <1>2, <1>3 DEF StoreInv

\* What a run has done, when its job does not change phase.
LEMMA SamePhase ==
    ASSUME IInv, StoreInv, UNCHANGED <<setting, jobs>>
    PROVE  RunsInOrder' /\ \A j \in Jobs : Uploads(j)' <=> Uploads(j)
<1>1. RunsInOrder'
  BY OrderKept DEF IInv, StoreInv
<1> QED BY <1>1 DEF Uploads

\* What is known of a run.
LEMMA RunFacts ==
    ASSUME IInv, StoreInv, NEW k \in Jobs
    PROVE  /\ k[2] = 1 => Stored(k)
           /\ setting.builder = "worker" /\ faults = 0 => Listed(k)
           /\ k \in DOMAIN jobs /\ k \in DOMAIN left /\ k \in DOMAIN uploading
           /\ k \in DOMAIN step
BY DEF IInv, StoreInv, FirstRunsStore, PackagesAreListed, TypeOK

\* upload_package, as far as nothing is added to the repository.
LEMMA HandlerStores ==
    ASSUME IInv, StoreInv, NEW k \in Jobs,
           \/ FileExists(k) \/ FileIsMissing(k) \/ CreateFile(k) \/ FinishWriting(k)
    PROVE  StoreInv'
<1>1. /\ UNCHANGED <<setting, jobs, left, uploading, repository, faults>>
      /\ step[k] # ""
      /\ \A j \in Jobs : j # k => step'[j] = step[j]
      /\ \A p \in Packages :
            \/ files'[p] = files[p]
            \/ p = uploading[k] /\ step[k] \in {"create", "write"}
  BY DEF FileExists, FileIsMissing, CreateFile, FinishWriting, Continue, IInv, TypeOK
<1>2. OnlyRun(k) /\ NoNewFaults
  BY <1>1 DEF OnlyRun, NoNewFaults
<1>3. RunsInOrder' /\ (Uploads(k)' <=> Uploads(k))
  BY <1>1, SamePhase
<1>4. /\ step[k] \in {"check", "create", "write"}
      /\ step[k] = "check" => step'[k] \in {"create", "answered"}
      /\ step[k] = "create" => step'[k] = "write"
      /\ step[k] = "write" => step'[k] = "add"
  BY RunFacts DEF FileExists, FileIsMissing, CreateFile, FinishWriting, Continue
<1>5. /\ Uploads(k) /\ uploading[k] \in left[k] /\ left[k] \subseteq PackagesOf[k[1]]
      /\ PackagesOf[k[1]] \subseteq Packages
      /\ jobs[k] \in {"uploading", "uploading failed"}
  BY <1>1, RequestsNamed DEF Uploads
<1>6. step'[k] = "answered" => files[uploading[k]] # "none" /\ step[k] = "check"
  BY <1>4, RunFacts DEF FileExists, FileIsMissing, CreateFile, FinishWriting, Continue
<1>7. ASSUME k[2] = 1
      PROVE  Stored(k)'
  <2>1. Stored(k)
    BY <1>7, RunFacts
  <2>2. jobs[k] \notin NotStarted \union {"building", "success"}
    BY <1>5 DEF NotStarted
  <2>3. Trusted' => Trusted
    BY <1>1 DEF Trusted
  <2>4. \A p \in PackagesOf[k[1]] : p # uploading[k] => files'[p] = files[p]
    BY <1>1, <1>5
  <2>5. Trusted => step'[k] # "answered"
    BY <1>6, <2>1 DEF Stored
  <2>6. step'[k] # "check"
    BY <1>4
  <2> QED BY <1>1, <1>3, <1>5, <2>1, <2>2, <2>3, <2>4, <2>5, <2>6 DEF Stored
<1>8. ASSUME setting.builder = "worker", faults = 0
      PROVE  Listed(k)'
  <2>1. Listed(k) /\ FilesAreListed
    BY <1>8, RunFacts DEF StoreInv, PackagesAreListed
  <2>2. ASSUME step'[k] = "answered"
        PROVE  uploading[k] \in listed
    <3>1. uploading[k] \notin listed =>
            \E j \in Jobs : uploading[j] = uploading[k] /\ step[j] \in {"write", "add", "adding"}
      BY <1>5, <1>6, <2>1, <2>2 DEF FilesAreListed
    <3>2. \A j \in Jobs : uploading[j] = uploading[k] /\ step[j] # "" => j = k
      BY <1>1, OneUploader
    <3> QED BY <1>6, <2>2, <3>1, <3>2
  <2> QED BY <1>1, <1>3, <1>4, <1>5, <2>1, <2>2 DEF Listed, repository
<1> QED
  BY <1>1, <1>2, <1>3, <1>4, <1>5, <1>7, <1>8, OneRunKeeps

\* The steps of a builder.
LEMMA BuilderStores ==
    ASSUME IInv, StoreInv, RunsDoNotOverlap, Builder
    PROVE  StoreInv'
<1>1. ASSUME NEW k \in Jobs, Start(k)
      PROVE  StoreInv'
  <2>1. /\ UNCHANGED <<setting, requests, files, repository, faults>>
        /\ jobs[k] = "queued" /\ jobs'[k] = "building"
        /\ \A j \in Jobs : j # k => jobs'[j] = jobs[j]
    BY <1>1 DEF Start, IInv, TypeOK
  <2>2. OnlyRun(k) /\ NoNewFaults /\ RunsInOrder'
    BY <1>1, <2>1, StartOrder DEF OnlyRun, NoNewFaults, requests, StoreInv
  <2>3. step[k] = ""
    BY <2>1, RequestsNamed DEF Uploads
  <2>4. ASSUME k[2] = 1
        PROVE  Stored(k)'
    <3>1. \A p \in PackagesOf[k[1]] : files[p] = "none"
      BY <2>1, <2>4, RunFacts DEF Stored, NotStarted
    <3>2. /\ ~Uploads(k)' /\ step'[k] = "" /\ jobs'[k] # "success"
          /\ files' = files
      BY <2>1, <2>3 DEF Uploads, requests
    <3> QED BY <3>1, <3>2 DEF Stored
  <2>5. Listed(k)'
    BY <2>1, <2>3 DEF Listed, Uploads, requests
  <2> QED
    BY <2>1, <2>2, <2>3, <2>4, <2>5, OneRunKeeps
<1>2. ASSUME NEW k \in Jobs, NEW phase \in {"uploading", "uploading failed", "failed"},
             FinishBuild(k, phase)
      PROVE  StoreInv'
  <2>1. /\ UNCHANGED <<setting, uploading, step, files, repository, faults>>
        /\ jobs[k] = "building" /\ jobs'[k] = phase
        /\ left'[k] = (IF phase = "failed" THEN {} ELSE PackagesOf[k[1]])
        /\ \A j \in Jobs : j # k => jobs'[j] = jobs[j] /\ left'[j] = left[j]
    BY <1>2 DEF FinishBuild, IInv, TypeOK
  <2>2. OnlyRun(k) /\ NoNewFaults
    BY <2>1 DEF OnlyRun, NoNewFaults
  <2>3. RunsInOrder'
    BY <2>1, OrderKept DEF IInv, StoreInv, Running, Over
  <2>4. step[k] = ""
    BY <2>1, RequestsNamed DEF Uploads
  <2>5. k[2] = 1 => Stored(k)'
    BY <2>1, <2>4, RunFacts DEF Stored, Uploads, NotStarted, Trusted
  <2>6. Listed(k)'
    BY <2>1, <2>4 DEF Listed, Uploads
  <2> QED
    BY <2>1, <2>2, <2>3, <2>4, <2>5, <2>6, OneRunKeeps
<1>3. ASSUME NEW k \in Jobs, NEW package \in Packages, RequestUpload(k, package)
      PROVE  StoreInv'
  <2>1. /\ UNCHANGED <<setting, jobs, left, files, repository, faults>>
        /\ jobs[k] \in {"uploading", "uploading failed"}
        /\ uploading[k] = NoPackage /\ package \in left[k]
        /\ uploading'[k] = package /\ step'[k] = "check"
        /\ \A j \in Jobs : j # k => uploading'[j] = uploading[j] /\ step'[j] = step[j]
    BY <1>3 DEF RequestUpload, IInv, TypeOK
  <2>2. OnlyRun(k) /\ NoNewFaults
    BY <2>1 DEF OnlyRun, NoNewFaults
  <2>3. RunsInOrder' /\ (Uploads(k)' <=> Uploads(k))
    BY <2>1, SamePhase
  <2>4. /\ step[k] = "" /\ package # NoPackage /\ package \in PackagesOf[k[1]]
    BY <2>1, RequestsNamed
  <2>5. ASSUME k[2] = 1
        PROVE  Stored(k)'
    <3>1. Stored(k) /\ Uploads(k)
      BY <2>1, <2>5, RunFacts DEF Uploads
    <3>2. Trusted => /\ files[package] = "none"
                     /\ \A p \in PackagesOf[k[1]] :
                            /\ p \notin left[k] => files[p] = "whole"
                            /\ p \in left[k] => files[p] = "none"
      <4>1. \A p \in left[k] : p # NoPackage
        BY RequestsNamed
      <4> QED BY <2>1, <2>4, <3>1, <4>1 DEF Stored
    <3>3. (Trusted' <=> Trusted) /\ files' = files /\ left' = left
          /\ jobs'[k] \notin NotStarted \union {"building", "success"}
      BY <2>1 DEF Trusted, NotStarted
    <3> QED BY <2>1, <3>2, <3>3 DEF Stored
  <2>6. setting.builder = "worker" /\ faults = 0 => Listed(k)'
    BY <2>1, <2>3, RunFacts DEF Listed, Uploads, repository
  <2> QED
    BY <2>1, <2>2, <2>3, <2>4, <2>5, <2>6, OneRunKeeps
<1>4. ASSUME NEW k \in Jobs, ReceiveAnswer(k)
      PROVE  StoreInv'
  <2>1. /\ UNCHANGED <<setting, jobs, files, repository, faults>>
        /\ step[k] = "answered" /\ step'[k] = ""
        /\ uploading'[k] = NoPackage /\ left'[k] = left[k] \ {uploading[k]}
        /\ \A j \in Jobs : j # k =>
                left'[j] = left[j] /\ uploading'[j] = uploading[j] /\ step'[j] = step[j]
    BY <1>4 DEF ReceiveAnswer, EndRequest, IInv, TypeOK
  <2>2. OnlyRun(k) /\ NoNewFaults
    BY <2>1 DEF OnlyRun, NoNewFaults
  <2>3. RunsInOrder' /\ (Uploads(k)' <=> Uploads(k))
    BY <2>1, SamePhase
  <2>4. /\ jobs[k] \in {"uploading", "uploading failed"}
        /\ uploading[k] \in left[k]
    BY <2>1, RequestsNamed DEF Uploads
  <2>5. k[2] = 1 => Stored(k)'
    BY <2>1, <2>3, <2>4, RunFacts DEF Stored, Uploads, NotStarted, Trusted
  <2>6. setting.builder = "worker" /\ faults = 0 => Listed(k)'
    <3> SUFFICES ASSUME setting.builder = "worker", faults = 0
                 PROVE  Listed(k)'
      OBVIOUS
    <3>1. /\ Uploads(k) /\ PackagesOf[k[1]] \ left[k] \subseteq listed
          /\ uploading[k] \in listed
      BY <2>1, <2>4, RunFacts DEF Listed, Uploads
    <3>2. PackagesOf[k[1]] \ left'[k] \subseteq listed
      BY <2>1, <3>1
    <3>3. listed' = listed /\ jobs'[k] # "success" /\ step'[k] = ""
      BY <2>1, <2>4 DEF repository
    <3> QED BY <3>2, <3>3 DEF Listed
  <2> QED
    BY <2>1, <2>2, <2>3, <2>4, <2>5, <2>6, OneRunKeeps
<1>5. ASSUME NEW k \in Jobs, FinishJob(k)
      PROVE  StoreInv'
  <2>1. /\ UNCHANGED <<setting, requests, files, repository, faults>>
        /\ jobs[k] \in {"uploading", "uploading failed"} /\ left[k] = {}
        /\ jobs'[k] \in {"success", "failed"}
        /\ \A j \in Jobs : j # k => jobs'[j] = jobs[j]
    BY <1>5 DEF FinishJob, IInv, TypeOK
  <2>2. OnlyRun(k) /\ NoNewFaults
    BY <2>1 DEF OnlyRun, NoNewFaults, requests
  <2>3. RunsInOrder'
    BY <2>1, OrderKept DEF IInv, StoreInv, Running, Over
  <2>4. step[k] = ""
    BY <2>1, RequestsNamed
  <2>5. k[2] = 1 => Stored(k)'
    BY <2>1, <2>4, RunFacts DEF Stored, Uploads, NotStarted, Trusted, requests
  <2>6. setting.builder = "worker" /\ faults = 0 => Listed(k)'
    BY <2>1, <2>4, RunFacts DEF Listed, Uploads, repository, requests
  <2> QED
    BY <2>1, <2>2, <2>3, <2>4, <2>5, <2>6, OneRunKeeps
<1> QED
  BY <1>1, <1>2, <1>3, <1>4, <1>5 DEF Builder

-----------------------------------------------------------------------------
(***************************************************************************)
(* Steps that change the repository                                        *)
(***************************************************************************)

LEMMA ScheduleStores ==
    ASSUME IInv, StoreInv, NEW k \in Jobs, Schedule(k)
    PROVE  StoreInv'
<1>1. /\ UNCHANGED <<setting, requests, files, faults>>
      /\ jobs[k] = "none" /\ jobs'[k] \in {"queued", "creating"}
      /\ \A j \in Jobs : j # k => jobs'[j] = jobs[j]
      /\ \A j \in Jobs : jobs[j] # "creating"
      /\ \/ UNCHANGED repository /\ jobs'[k] = "queued" /\ (db_exists \/ lock # "free")
         \/ ~db_exists /\ TakeLock(NoPackage) /\ jobs'[k] = "creating"
  BY DEF Schedule, IInv, TypeOK
<1>j. Jobs' = Jobs
  BY <1>1 DEF Jobs
<1>2. OnlyRun(k) /\ NoNewFaults
  BY <1>1 DEF OnlyRun, NoNewFaults, requests
<1>3. RunsInOrder'
  BY ScheduleOrder DEF IInv, StoreInv
<1>4. step[k] = ""
  BY <1>1, RequestsNamed DEF Uploads
<1>5. ASSUME k[2] = 1
      PROVE  Stored(k)'
  <2>1. \A p \in PackagesOf[k[1]] : files[p] = "none"
    BY <1>1, <1>5, RunFacts DEF Stored, NotStarted
  <2>2. ~Uploads(k)' /\ step'[k] = "" /\ jobs'[k] # "success" /\ files' = files
    BY <1>1, <1>4 DEF Uploads, requests
  <2> QED BY <2>1, <2>2 DEF Stored
<1>6. FirstRunsStore'
  BY <1>2, <1>5, OneRunStores
<1>7. CreatedFirst'
  <2> SUFFICES ASSUME faults = 0, ~db_exists'
               PROVE  /\ \A j \in Jobs : jobs'[j] \in {"none", "creating"}
                      /\ lock' # "free" => \E j \in Jobs : jobs'[j] = "creating"
    BY <1>1, <1>j DEF CreatedFirst
  <2>1. ~db_exists
    BY <1>1 DEF TakeLock, repository
  <2>2. /\ \A j \in Jobs : jobs[j] \in {"none", "creating"}
        /\ lock = "free"
    BY <1>1, <2>1 DEF StoreInv, CreatedFirst
  <2>3. jobs'[k] = "creating"
    BY <1>1, <2>1, <2>2
  <2> QED BY <1>1, <2>2, <2>3
<1>8. PackagesAreListed'
  <2>1. CASE UNCHANGED repository
    <3>1. Listed(k)'
      BY <1>1, <1>4 DEF Listed, Uploads, requests
    <3> QED BY <1>2, <1>4, <2>1, <3>1, OneRunLists DEF repository
  <2>2. CASE ~db_exists /\ TakeLock(NoPackage) /\ jobs'[k] = "creating"
    <3> SUFFICES ASSUME setting.builder = "worker", faults = 0
                 PROVE  LockIsUsed' /\ FilesAreListed' /\ \A j \in Jobs : Listed(j)'
      BY <1>1, <1>j DEF PackagesAreListed
    <3>1. \A j \in Jobs : jobs[j] \in {"none", "creating"}
      BY <2>2 DEF StoreInv, CreatedFirst
    <3>2. \A j \in Jobs : jobs'[j] \in {"none", "creating"} /\ step[j] = ""
      BY <1>1, <2>2, <3>1, RequestsNamed DEF Uploads
    <3>3. \A j \in Jobs : Listed(j)'
      BY <1>1, <3>2 DEF Listed, Uploads, requests
    <3>4. FilesAreListed
      BY DEF StoreInv, PackagesAreListed
    <3>5. FilesAreListed'
      BY <1>1, <1>j, <2>2, <3>4 DEF FilesAreListed, requests, TakeLock
    <3>6. LockIsUsed'
      BY <2>2 DEF LockIsUsed, TakeLock
    <3> QED BY <3>3, <3>5, <3>6
  <2> QED BY <1>1, <2>1, <2>2
<1> QED BY <1>3, <1>6, <1>7, <1>8 DEF StoreInv

LEMMA AddToRepoStores ==
    ASSUME IInv, StoreInv, NEW k \in Jobs, AddToRepo(k)
    PROVE  StoreInv'
<1>1. /\ UNCHANGED <<setting, jobs, left, uploading, files, faults>>
      /\ step[k] = "add"
      /\ \A j \in Jobs : j # k => step'[j] = step[j]
      /\ \/ TakeLock(uploading[k]) /\ step'[k] = "adding"
         \/ Locked /\ step'[k] = "answered"
  BY DEF AddToRepo, Continue, IInv, TypeOK
<1>j. Jobs' = Jobs
  BY <1>1 DEF Jobs
<1>2. OnlyRun(k) /\ NoNewFaults
  BY <1>1 DEF OnlyRun, NoNewFaults
<1>3. RunsInOrder' /\ \A j \in Jobs : Uploads(j)' <=> Uploads(j)
  BY <1>1, SamePhase
<1>4. Uploads(k) /\ jobs[k] \in {"uploading", "uploading failed"}
  BY <1>1, RequestsNamed DEF Uploads
<1>5. files[uploading[k]] = "whole"
  BY <1>1 DEF IInv, FilesMatchSteps
<1>6. ASSUME k[2] = 1
      PROVE  Stored(k)'
  <2>1. Stored(k) /\ (Trusted' <=> Trusted)
    BY <1>1, <1>6, RunFacts DEF Trusted
  <2> QED BY <1>1, <1>3, <1>4, <1>5, <2>1 DEF Stored
<1>7. FirstRunsStore'
  BY <1>2, <1>6, OneRunStores
<1>8. db_exists' = db_exists
  BY <1>1 DEF TakeLock, Locked, repository
<1>9. CreatedFirst'
  BY <1>1, <1>2, <1>4, <1>8, CreatedKept, ExistsForBuilds
<1>10. ASSUME setting.builder = "worker", faults = 0
       PROVE  LockIsUsed' /\ FilesAreListed' /\ \A j \in Jobs : Listed(j)'
  <2>1. LockIsUsed /\ FilesAreListed /\ \A j \in Jobs : Listed(j)
    BY <1>10 DEF StoreInv, PackagesAreListed
  <2>2. ASSUME NEW j \in Jobs, step[j] # ""
        PROVE  j = k
    <3>1. Busy(j) /\ Busy(k)
      BY <1>4, <2>2, RequestsNamed DEF Busy, Uploads
    <3> QED BY <1>10, <3>1 DEF IInv, OneAtATime
  <2>3. \A j \in Jobs : step[j] # "adding"
    BY <1>1, <2>2
  <2>4. db_exists
    BY <1>4, <1>10, ExistsForBuilds
  <2>5. lock = "free"
    BY <2>1, <2>3, <2>4 DEF LockIsUsed
  <2>6. TakeLock(uploading[k]) /\ step'[k] = "adding"
    BY <1>1, <2>5 DEF Locked
  <2>7. LockIsUsed'
    BY <1>j, <2>6 DEF LockIsUsed, TakeLock
  <2>8. FilesAreListed'
    <3> SUFFICES ASSUME NEW p \in Packages, files[p] # "none", p \notin listed
                 PROVE  \E j \in Jobs : uploading'[j] = p
                                        /\ step'[j] \in {"write", "add", "adding"}
      BY <1>1, <1>j, <2>6 DEF FilesAreListed, TakeLock
    <3>1. PICK j \in Jobs : uploading[j] = p /\ step[j] \in {"write", "add", "adding"}
      BY <2>1 DEF FilesAreListed
    <3>2. j = k
      BY <2>2, <3>1
    <3> QED BY <1>1, <2>6, <3>1, <3>2
  <2>9. ASSUME NEW j \in Jobs
        PROVE  Listed(j)'
    <3>1. listed' = listed /\ lock' = "held" /\ adding' = uploading[k]
      BY <2>6 DEF TakeLock
    <3>2. step'[j] = "adding" => j = k
      BY <1>1, <2>3
    <3>3. step'[j] = "answered" => step[j] = "answered"
      BY <1>1, <2>6
    <3> QED BY <1>1, <1>3, <2>1, <3>1, <3>2, <3>3 DEF Listed
  <2> QED BY <2>7, <2>8, <2>9
<1>11. PackagesAreListed'
  BY <1>1, <1>j, <1>10 DEF PackagesAreListed
<1> QED BY <1>3, <1>7, <1>9, <1>11 DEF StoreInv

LEMMA RepoAddEndsStores ==
    ASSUME IInv, StoreInv, RepoAddEnds
    PROVE  StoreInv'
<1>1. /\ UNCHANGED <<setting, left, uploading, files, faults>>
      /\ lock = "held" /\ lock' = "free" /\ db_exists' = TRUE
      /\ \A j \in Jobs :
            /\ jobs'[j] = (IF jobs[j] = "creating" THEN "queued" ELSE jobs[j])
            /\ step'[j] = (IF step[j] = "adding" THEN "answered" ELSE step[j])
      /\ listed \subseteq listed'
  \* a whole package is not rejected
  BY DEF RepoAddEnds, IInv, AddsWholePackages
<1>j. Jobs' = Jobs
  BY <1>1 DEF Jobs
<1>2. RunsInOrder'
  BY <1>1, OrderKept DEF IInv, StoreInv
<1>3. \A j \in Jobs : /\ Uploads(j)' <=> Uploads(j)
                      /\ jobs'[j] = "success" <=> jobs[j] = "success"
                      /\ jobs'[j] \in NotStarted \union {"building"}
                            => jobs[j] \in NotStarted \union {"building"}
  BY <1>1 DEF Uploads, NotStarted
<1>4. \A j \in Jobs : step[j] = "adding" => files[uploading[j]] = "whole"
  BY DEF IInv, FilesMatchSteps
<1>5. FirstRunsStore'
  <2> SUFFICES ASSUME NEW j \in Jobs, j[2] = 1
               PROVE  Stored(j)'
    BY <1>j DEF FirstRunsStore
  <2>1. Stored(j) /\ (Trusted' <=> Trusted)
    BY <1>1, RunFacts DEF Trusted
  <2>2. step'[j] = "answered" => step[j] \in {"answered", "adding"}
    BY <1>1
  <2>3. step'[j] = "check" => step[j] = "check"
    BY <1>1
  <2> QED BY <1>1, <1>3, <1>4, <2>1, <2>2, <2>3 DEF Stored
<1>6. CreatedFirst'
  BY <1>1 DEF CreatedFirst
<1>7. ASSUME setting.builder = "worker", faults = 0
      PROVE  LockIsUsed' /\ FilesAreListed' /\ \A j \in Jobs : Listed(j)'
  <2>1. FilesAreListed /\ \A j \in Jobs : Listed(j)
    BY <1>7 DEF StoreInv, PackagesAreListed
  <2>2. \A j \in Jobs : step[j] = "adding" => uploading[j] \in listed'
    <3> SUFFICES ASSUME NEW j \in Jobs, step[j] = "adding"
                 PROVE  uploading[j] \in listed'
      OBVIOUS
    <3>1. adding = uploading[j] /\ files[adding] = "whole"
      BY <1>4, <2>1 DEF Listed
    <3>2. adding # NoPackage
      BY <3>1, RequestsNamed
    <3> QED BY <3>1, <3>2 DEF RepoAddEnds
  <2>3. LockIsUsed'
    BY <1>1 DEF LockIsUsed
  <2>4. FilesAreListed'
    <3> SUFFICES ASSUME NEW p \in Packages, files[p] # "none", p \notin listed'
                 PROVE  \E j \in Jobs : uploading'[j] = p
                                        /\ step'[j] \in {"write", "add", "adding"}
      BY <1>1, <1>j DEF FilesAreListed
    <3>1. PICK j \in Jobs : uploading[j] = p /\ step[j] \in {"write", "add", "adding"}
      BY <1>1, <2>1 DEF FilesAreListed
    <3>2. step[j] # "adding"
      BY <2>2, <3>1
    <3> QED BY <1>1, <3>1, <3>2
  <2>5. ASSUME NEW j \in Jobs
        PROVE  Listed(j)'
    <3>1. step'[j] # "adding"
      BY <1>1
    <3>2. step'[j] = "answered" => uploading'[j] \in listed'
      BY <1>1, <2>1, <2>2 DEF Listed
    <3> QED BY <1>1, <1>3, <2>1, <3>1, <3>2 DEF Listed
  <2> QED BY <2>3, <2>4, <2>5
<1>8. PackagesAreListed'
  BY <1>1, <1>j, <1>7 DEF PackagesAreListed
<1> QED BY <1>2, <1>5, <1>6, <1>8 DEF StoreInv

-----------------------------------------------------------------------------
(***************************************************************************)
(* Failures. They end the promises made about times without any.           *)
(***************************************************************************)

LEMMA FaultsAreSeen ==
    ASSUME IInv, Fault
    PROVE  faults' # 0 /\ faults \in Nat
<1>1. faults \in Nat /\ faults' = faults + 1
  BY DEF IInv, TypeOK, Fault
<1> QED
  BY <1>1

LEMMA RequestFails ==
    ASSUME IInv, StoreInv, NEW k \in Jobs, NEW remaining,
           step[k] # "", EndRequest(k, remaining), Fault,
           UNCHANGED <<setting, files, repository>>,
           jobs' = [jobs EXCEPT ![k] = "failed"]
             \/ (jobs' = jobs /\ setting.builder # "worker")
    PROVE  StoreInv'
<1>1. faults' # 0 /\ faults \in Nat
  BY FaultsAreSeen
<1>2. OnlyRun(k) /\ NoNewFaults
  BY <1>1 DEF OnlyRun, NoNewFaults, EndRequest, IInv, TypeOK
<1>3. /\ Uploads(k) /\ jobs[k] \in Running
      /\ step'[k] = ""
      /\ jobs'[k] = "failed" \/ (jobs'[k] = jobs[k] /\ setting.builder # "worker")
      /\ \A j \in Jobs : j # k => jobs'[j] = jobs[j]
  BY RequestsNamed DEF EndRequest, IInv, TypeOK, Uploads, Running
<1>4. RunsInOrder'
  BY <1>3, OrderKept DEF IInv, StoreInv, Over
<1>5. k[2] = 1 => Stored(k)'
  <2>1. jobs'[k] \notin NotStarted \union {"building"}
    BY <1>3 DEF Uploads, NotStarted
  <2>2. Trusted' => jobs'[k] = "failed"
    BY <1>1, <1>3 DEF Trusted
  <2> QED BY <1>3, <2>1, <2>2 DEF Stored, Uploads
<1>6. FirstRunsStore'
  BY <1>2, <1>5, OneRunStores
<1> QED BY <1>1, <1>4, <1>6 DEF StoreInv, CreatedFirst, PackagesAreListed

LEMMA FailureStores ==
    ASSUME IInv, StoreInv, Failure
    PROVE  StoreInv'
<1>1. ASSUME NEW k \in Jobs, UploadErrors(k) \/ ConnectionLost(k)
      PROVE  StoreInv'
  <2>1. step[k] # "" /\ Fault /\ UNCHANGED <<setting, files, repository>>
    BY <1>1 DEF UploadErrors, ConnectionLost
  <2>2. \E remaining : EndRequest(k, remaining)
    BY <1>1 DEF UploadErrors, ConnectionLost
  <2>3. jobs' = [jobs EXCEPT ![k] = "failed"]
            \/ (jobs' = jobs /\ setting.builder # "worker")
    BY <1>1 DEF UploadErrors, ConnectionLost
  <2> QED BY <2>1, <2>2, <2>3, RequestFails
<1>2. ASSUME ServerCrash
      PROVE  StoreInv'
  <2>1. faults' # 0
    BY <1>2, FaultsAreSeen DEF ServerCrash
  <2>2. /\ UNCHANGED <<setting, files>>
        /\ \A j \in Jobs :
            /\ jobs'[j] = (IF jobs[j] = "creating" THEN "none"
                           ELSE IF step[j] # "" THEN "failed" ELSE jobs[j])
            /\ step[j] = "" => left'[j] = left[j]
            /\ uploading'[j] = NoPackage /\ step'[j] = ""
    BY <1>2 DEF ServerCrash
  <2>3. \A j \in Jobs : step[j] # "" => jobs[j] \in {"uploading", "uploading failed"}
    BY RequestsNamed DEF Uploads
  <2>4. RunsInOrder'
    BY <2>2, <2>3, OrderKept DEF IInv, StoreInv, Running, Over
  <2>5. FirstRunsStore'
    <3>1. Jobs' = Jobs
      BY <2>2 DEF Jobs
    <3> SUFFICES ASSUME NEW j \in Jobs, j[2] = 1
                 PROVE  Stored(j)'
      BY <3>1 DEF FirstRunsStore
    <3>2. Stored(j) /\ (Trusted' => Trusted)
      BY <2>1, <2>2, RunFacts DEF Trusted
    <3>3. CASE step[j] # ""
      <4>1. jobs'[j] = "failed"
        BY <2>2, <2>3, <3>3
      <4> QED BY <2>2, <4>1 DEF Stored, Uploads, NotStarted
    <3>4. CASE step[j] = ""
      <4>1. uploading[j] = NoPackage
        BY <3>4, RequestsNamed
      <4>2. /\ (jobs'[j] = jobs[j] \/ (jobs'[j] = "none" /\ jobs[j] = "creating"))
            /\ left'[j] = left[j] /\ uploading'[j] = uploading[j] /\ step'[j] = ""
        BY <2>2, <3>4, <4>1
      <4>3. CASE jobs'[j] = jobs[j]
        BY <2>2, <3>2, <4>2, <4>3 DEF Stored, Uploads
      <4>4. CASE jobs'[j] = "none" /\ jobs[j] = "creating"
        BY <2>2, <3>2, <4>2, <4>4 DEF Stored, Uploads, NotStarted
      <4> QED BY <4>2, <4>3, <4>4
    <3> QED BY <3>3, <3>4
  <2> QED BY <2>1, <2>4, <2>5 DEF StoreInv, CreatedFirst, PackagesAreListed
<1> QED BY <1>1, <1>2 DEF Failure

LEMMA InitStoreInv == Init => StoreInv
<1> SUFFICES ASSUME Init
             PROVE  StoreInv
  OBVIOUS
<1>1. /\ \A j \in Jobs : jobs[j] = "none" /\ step[j] = "" /\ left[j] = {}
      /\ \A p \in Packages : files[p] = "none"
      /\ lock = "free"
  BY DEF Init
<1>2. \A j \in Jobs : ~Uploads(j) /\ Listed(j)
  BY <1>1 DEF Uploads, Listed
<1>3. \A j \in Jobs : Stored(j)
  BY <1>1, <1>2, JobsAreRuns, PackageRepoAssumption DEF Stored
<1>4. RunsInOrder
  BY <1>1 DEF RunsInOrder, NotStarted
<1> QED
  BY <1>1, <1>2, <1>3, <1>4
     DEF StoreInv, FirstRunsStore, CreatedFirst, PackagesAreListed, LockIsUsed,
         FilesAreListed

LEMMA NextStoreInv == RunsDoNotOverlap /\ IInv /\ StoreInv /\ [Next]_vars => StoreInv'
<1> SUFFICES ASSUME RunsDoNotOverlap, IInv, StoreInv, [Next]_vars
             PROVE  StoreInv'
  OBVIOUS
<1>1. CASE UNCHANGED vars
  <2>1. /\ setting' = setting /\ jobs' = jobs /\ left' = left
        /\ uploading' = uploading /\ step' = step /\ files' = files
        /\ db_exists' = db_exists /\ listed' = listed /\ lock' = lock
        /\ adding' = adding /\ faults' = faults
    BY <1>1 DEF vars, requests, repository
  <2>2. Jobs' = Jobs
    BY <2>1 DEF Jobs
  <2>3. RunsInOrder' /\ \A j \in Jobs : Uploads(j)' <=> Uploads(j)
    BY <2>1, SamePhase
  <2>4. FirstRunsStore'
    BY <2>1, <2>2, <2>3 DEF StoreInv, FirstRunsStore, Stored, Trusted
  <2>5. CreatedFirst'
    BY <2>1, <2>2 DEF StoreInv, CreatedFirst
  <2>6. PackagesAreListed'
    BY <2>1, <2>2, <2>3
       DEF StoreInv, PackagesAreListed, LockIsUsed, FilesAreListed, Listed
  <2> QED BY <2>3, <2>4, <2>5, <2>6 DEF StoreInv
<1>2. CASE Server
  <2>1. CASE Sleep
    BY <1>1, <2>1 DEF Sleep
  <2>2. CASE RepoAddEnds
    BY <2>2, RepoAddEndsStores
  <2>3. ASSUME NEW j \in Jobs, Schedule(j)
        PROVE  StoreInv'
    BY <2>3, ScheduleStores
  <2>4. ASSUME NEW j \in Jobs,
               FileExists(j) \/ FileIsMissing(j) \/ CreateFile(j) \/ FinishWriting(j)
        PROVE  StoreInv'
    BY <2>4, HandlerStores
  <2>5. ASSUME NEW j \in Jobs, AddToRepo(j)
        PROVE  StoreInv'
    BY <2>5, AddToRepoStores
  <2> QED
    BY <1>2, <2>1, <2>2, <2>3, <2>4, <2>5 DEF Server
<1>3. CASE Builder
  BY <1>3, BuilderStores
<1>4. CASE Failure
  BY <1>4, FailureStores
<1> QED
  BY <1>1, <1>2, <1>3, <1>4 DEF Next

THEOREM StoreInvariant == RunsDoNotOverlap /\ Spec => []StoreInv
<1> SUFFICES ASSUME RunsDoNotOverlap
             PROVE  Spec => []StoreInv
  OBVIOUS
<1>1. IInv /\ StoreInv /\ [Next]_vars => StoreInv'
  BY NextStoreInv
<1>2. Spec => []IInv
  BY RepoInvariant
<1> QED
  BY InitStoreInv, <1>1, <1>2, PTL DEF Spec

\* A successful first run of a build has stored all of its packages: for the
\* worker whatever fails, for runners as long as nothing does.
THEOREM RepoStoresPackages == RunsDoNotOverlap /\ Spec => []FirstBuildsAreStored
<1>1. TypeOK /\ StoreInv => FirstBuildsAreStored
  <2> SUFFICES ASSUME TypeOK, StoreInv, NEW b \in Pkgbases,
                      1 <= setting.runs, jobs[<<b, 1>>] = "success",
                      setting.builder = "worker" \/ faults = 0
               PROVE  \A p \in PackagesOf[b] : files[p] = "whole"
    BY DEF FirstBuildsAreStored
  <2> DEFINE j == <<b, 1>>
  <2>1. j \in Jobs /\ j[1] = b /\ j[2] = 1
    <3>1. setting.runs \in Nat
      BY PackageRepoAssumption DEF TypeOK
    <3>2. 1 \in 1 .. setting.runs
      BY <3>1
    <3> QED BY <3>2 DEF Jobs
  <2>2. Stored(j) /\ Trusted
    BY <2>1 DEF StoreInv, FirstRunsStore, Trusted
  <2> QED BY <2>1, <2>2 DEF Stored
<1> QED
  BY <1>1, StoreInvariant, RepoTypeCorrect, PTL

\* With the worker and without failures, the packages of successful builds can
\* be installed: no repo-add finds the lock taken.
THEOREM RepoInstalls == RunsDoNotOverlap /\ Spec => []InstallableWhenBuilt
<1>1. StoreInv => InstallableWhenBuilt
  BY DEF StoreInv, PackagesAreListed, Listed, InstallableWhenBuilt
<1> QED
  BY <1>1, StoreInvariant, PTL

\* Without failures, a repository exists before anybody builds for it.
THEOREM RepoIsCreatedFirst == RunsDoNotOverlap /\ Spec => []RepositoryIsThere
<1>1. StoreInv => RepositoryIsThere
  <2> SUFFICES ASSUME StoreInv, faults = 0, NEW j \in Jobs, Busy(j)
               PROVE  db_exists
    BY DEF RepositoryIsThere
  <2> QED BY DEF StoreInv, CreatedFirst, Busy
<1> QED
  BY <1>1, StoreInvariant, PTL

-----------------------------------------------------------------------------
(***************************************************************************)
(* Completed builds, whoever builds                                        *)
(*                                                                         *)
(* CompletedBuildsAreInstallable does not hold. A package is lost on the   *)
(* way into the database in three ways only: its repo-add finds the lock   *)
(* taken, a runner overlooks that the server has failed, or something      *)
(* breaks off between the creation of its file and the end of its          *)
(* repo-add, which a later run takes for a stored package.                 *)
(***************************************************************************)

BreaksOff(j) == UploadErrors(j) \/ ConnectionLost(j) \/ ServerCrash

LosesPackage ==
    \E j \in Jobs :
        \/ AddToRepo(j) /\ lock # "free"
        \/ UploadErrors(j) /\ setting.builder # "worker"
        \/ BreaksOff(j) /\ step[j] \in {"write", "add", "adding"}

KeepingSpec == Init /\ [][Next /\ ~LosesPackage]_vars

\* A file that is there is listed, or the request that writes it goes on.
KeepInv == FilesAreListed /\ \A j \in Jobs : Listed(j)

\* What has to be shown of a step of one run that adds nothing.
LEMMA OneRunKeepsListed ==
    ASSUME IInv, KeepInv, NEW k \in Jobs, OnlyRun(k), UNCHANGED repository, Listed(k)',
           step[k] \in {"write", "add", "adding"} =>
                step'[k] \in {"write", "add", "adding"} /\ uploading'[k] = uploading[k],
           step[k] = "create" =>
                \/ step'[k] = "write" /\ uploading'[k] = uploading[k]
                \/ files' = files
    PROVE  KeepInv'
<1>1. Jobs' = Jobs
  BY DEF OnlyRun, Jobs
<1>2. FilesAreListed'
  <2> SUFFICES ASSUME NEW p \in Packages, files'[p] # "none", p \notin listed
               PROVE  \E j \in Jobs : uploading'[j] = p /\ step'[j] \in {"write", "add", "adding"}
    BY <1>1 DEF FilesAreListed, repository
  <2>1. CASE files'[p] = files[p]
    <3>1. PICK j \in Jobs : uploading[j] = p /\ step[j] \in {"write", "add", "adding"}
      BY <2>1 DEF KeepInv, FilesAreListed
    <3>2. uploading'[j] = p /\ step'[j] \in {"write", "add", "adding"}
      BY <3>1 DEF OnlyRun
    <3> QED BY <3>2
  <2>2. CASE files'[p] # files[p]
    <3>1. p = uploading[k] /\ step[k] \in {"create", "write"}
      BY <2>2 DEF OnlyRun
    <3> QED BY <2>2, <3>1
  <2> QED BY <2>1, <2>2
<1>3. ASSUME NEW j \in Jobs, j # k
      PROVE  Listed(j)'
  BY <1>3 DEF KeepInv, Listed, OnlyRun, Uploads, repository
<1>4. \A j \in Jobs : Listed(j)'
  BY <1>3
<1> QED BY <1>1, <1>2, <1>4 DEF KeepInv

LEMMA HandlerKeepsListed ==
    ASSUME IInv, KeepInv, NEW k \in Jobs,
           \/ FileExists(k) \/ FileIsMissing(k) \/ CreateFile(k) \/ FinishWriting(k)
    PROVE  KeepInv'
<1>1. /\ UNCHANGED <<setting, jobs, left, uploading, repository>>
      /\ step[k] # ""
      /\ \A j \in Jobs : j # k => step'[j] = step[j]
      /\ \A p \in Packages :
            \/ files'[p] = files[p]
            \/ p = uploading[k] /\ step[k] \in {"create", "write"}
  BY DEF FileExists, FileIsMissing, CreateFile, FinishWriting, Continue, IInv, TypeOK
<1>2. OnlyRun(k)
  BY <1>1 DEF OnlyRun
<1>3. /\ step[k] \in {"check", "create", "write"}
      /\ step[k] = "check" => step'[k] \in {"create", "answered"}
      /\ step[k] = "create" => step'[k] = "write"
      /\ step[k] = "write" => step'[k] = "add"
      /\ step'[k] = "answered" => files[uploading[k]] # "none" /\ step[k] = "check"
  BY DEF FileExists, FileIsMissing, CreateFile, FinishWriting, Continue, IInv, TypeOK
<1>4. uploading[k] \in Packages
  BY <1>1, RequestsNamed
<1>5. step'[k] = "answered" => uploading[k] \in listed
  <2> SUFFICES ASSUME step'[k] = "answered"
               PROVE  uploading[k] \in listed
    OBVIOUS
  <2>1. \A j \in Jobs : uploading[j] = uploading[k] /\ step[j] # "" => j = k
    BY <1>1, OneUploader
  <2> QED BY <1>3, <1>4, <2>1 DEF KeepInv, FilesAreListed
<1>6. Listed(k)'
  BY <1>1, <1>3, <1>5 DEF KeepInv, Listed, Uploads, repository
<1> QED
  BY <1>1, <1>2, <1>3, <1>6, OneRunKeepsListed

LEMMA BuilderKeepsListed ==
    ASSUME IInv, KeepInv, Builder
    PROVE  KeepInv'
<1>1. ASSUME NEW k \in Jobs, Start(k)
      PROVE  KeepInv'
  <2>1. /\ UNCHANGED <<setting, requests, files, repository>>
        /\ jobs[k] = "queued" /\ jobs'[k] = "building"
        /\ \A j \in Jobs : j # k => jobs'[j] = jobs[j]
    BY <1>1 DEF Start, IInv, TypeOK
  <2>2. OnlyRun(k) /\ step[k] = ""
    BY <2>1, RequestsNamed DEF OnlyRun, requests, Uploads
  <2>3. Listed(k)'
    BY <2>1, <2>2 DEF Listed, Uploads, requests
  <2> QED BY <2>1, <2>2, <2>3, OneRunKeepsListed
<1>2. ASSUME NEW k \in Jobs, NEW phase \in {"uploading", "uploading failed", "failed"},
             FinishBuild(k, phase)
      PROVE  KeepInv'
  <2>1. /\ UNCHANGED <<setting, uploading, step, files, repository>>
        /\ jobs[k] = "building" /\ jobs'[k] = phase
        /\ left'[k] = (IF phase = "failed" THEN {} ELSE PackagesOf[k[1]])
        /\ \A j \in Jobs : j # k => jobs'[j] = jobs[j] /\ left'[j] = left[j]
    BY <1>2 DEF FinishBuild, IInv, TypeOK
  <2>2. OnlyRun(k) /\ step[k] = ""
    BY <2>1, RequestsNamed DEF OnlyRun, Uploads
  <2>3. Listed(k)'
    BY <2>1, <2>2 DEF Listed, Uploads
  <2> QED BY <2>1, <2>2, <2>3, OneRunKeepsListed
<1>3. ASSUME NEW k \in Jobs, NEW package \in Packages, RequestUpload(k, package)
      PROVE  KeepInv'
  <2>1. /\ UNCHANGED <<setting, jobs, left, files, repository>>
        /\ uploading[k] = NoPackage /\ step'[k] = "check"
        /\ \A j \in Jobs : j # k => uploading'[j] = uploading[j] /\ step'[j] = step[j]
    BY <1>3 DEF RequestUpload, IInv, TypeOK
  <2>2. OnlyRun(k) /\ step[k] = ""
    BY <2>1, RequestsNamed DEF OnlyRun
  <2>3. Listed(k)'
    BY <2>1 DEF KeepInv, Listed, Uploads, repository
  <2> QED BY <2>1, <2>2, <2>3, OneRunKeepsListed
<1>4. ASSUME NEW k \in Jobs, ReceiveAnswer(k)
      PROVE  KeepInv'
  <2>1. /\ UNCHANGED <<setting, jobs, files, repository>>
        /\ step[k] = "answered" /\ step'[k] = ""
        /\ left'[k] = left[k] \ {uploading[k]}
        /\ \A j \in Jobs : j # k =>
                left'[j] = left[j] /\ uploading'[j] = uploading[j] /\ step'[j] = step[j]
    BY <1>4 DEF ReceiveAnswer, EndRequest, IInv, TypeOK
  <2>2. OnlyRun(k)
    BY <2>1 DEF OnlyRun
  <2>3. Uploads(k) /\ uploading[k] \in listed
    BY <2>1, RequestsNamed DEF KeepInv, Listed
  <2>4. PackagesOf[k[1]] \ left'[k] \subseteq listed
    BY <2>1, <2>3 DEF KeepInv, Listed
  <2>5. Listed(k)'
    BY <2>1, <2>3, <2>4 DEF Listed, Uploads, repository
  <2> QED BY <2>1, <2>2, <2>5, OneRunKeepsListed
<1>5. ASSUME NEW k \in Jobs, FinishJob(k)
      PROVE  KeepInv'
  <2>1. /\ UNCHANGED <<setting, requests, files, repository>>
        /\ jobs[k] \in {"uploading", "uploading failed"} /\ left[k] = {}
        /\ jobs'[k] \in {"success", "failed"}
        /\ \A j \in Jobs : j # k => jobs'[j] = jobs[j]
    BY <1>5 DEF FinishJob, IInv, TypeOK
  <2>2. OnlyRun(k) /\ step[k] = ""
    BY <2>1, RequestsNamed DEF OnlyRun, requests
  <2>3. PackagesOf[k[1]] \subseteq listed
    BY <2>1 DEF KeepInv, Listed, Uploads
  <2>4. Listed(k)'
    BY <2>1, <2>2, <2>3 DEF Listed, Uploads, repository, requests
  <2> QED BY <2>1, <2>2, <2>4, OneRunKeepsListed
<1> QED
  BY <1>1, <1>2, <1>3, <1>4, <1>5 DEF Builder

\* Somebody takes the lock, and nobody else has it.
LEMMA RepositoryKeepsListed ==
    ASSUME IInv, KeepInv, NEW k \in Jobs, ~LosesPackage, Schedule(k) \/ AddToRepo(k)
    PROVE  KeepInv'
<1>1. CASE Schedule(k)
  <2>1. /\ UNCHANGED <<setting, requests, files>>
        /\ jobs[k] = "none" /\ jobs'[k] \in {"queued", "creating"}
        /\ \A j \in Jobs : j # k => jobs'[j] = jobs[j]
        /\ UNCHANGED repository \/ TakeLock(NoPackage)
    BY <1>1 DEF Schedule, IInv, TypeOK
  <2>2. Jobs' = Jobs
    BY <2>1 DEF Jobs
  <2>3. listed' = listed /\ (lock = "held" => lock' = lock /\ adding' = adding)
    BY <2>1 DEF TakeLock, repository
  <2>4. FilesAreListed'
    BY <2>1, <2>2, <2>3 DEF KeepInv, FilesAreListed, requests
  <2>5. \A j \in Jobs : Listed(j)'
    BY <2>1, <2>3 DEF KeepInv, Listed, Uploads, requests
  <2> QED BY <2>2, <2>4, <2>5 DEF KeepInv
<1>2. CASE AddToRepo(k)
  <2>1. /\ UNCHANGED <<setting, jobs, left, uploading, files>>
        /\ step[k] = "add" /\ step'[k] = "adding"
        /\ \A j \in Jobs : j # k => step'[j] = step[j]
        /\ TakeLock(uploading[k])
    BY <1>2 DEF AddToRepo, Continue, Locked, LosesPackage, IInv, TypeOK
  <2>2. Jobs' = Jobs
    BY <2>1 DEF Jobs
  <2>3. listed' = listed /\ lock = "free" /\ lock' = "held" /\ adding' = uploading[k]
    BY <2>1 DEF TakeLock
  <2>4. FilesAreListed'
    <3> SUFFICES ASSUME NEW p \in Packages, files[p] # "none", p \notin listed
                 PROVE  \E j \in Jobs : uploading'[j] = p /\ step'[j] \in {"write", "add", "adding"}
      BY <2>1, <2>2, <2>3 DEF FilesAreListed
    <3>1. PICK j \in Jobs : uploading[j] = p /\ step[j] \in {"write", "add", "adding"}
      BY DEF KeepInv, FilesAreListed
    <3> QED BY <2>1, <3>1
  <2>5. \A j \in Jobs : step[j] # "adding"
    BY <2>3 DEF KeepInv, Listed
  <2>6. \A j \in Jobs : Listed(j)'
    BY <2>1, <2>3, <2>5 DEF KeepInv, Listed, Uploads
  <2> QED BY <2>2, <2>4, <2>6 DEF KeepInv
<1> QED BY <1>1, <1>2

LEMMA RepoAddEndsKeepsListed ==
    ASSUME IInv, KeepInv, RepoAddEnds
    PROVE  KeepInv'
<1>1. /\ UNCHANGED <<setting, left, uploading, files>>
      /\ \A j \in Jobs :
            /\ jobs'[j] = (IF jobs[j] = "creating" THEN "queued" ELSE jobs[j])
            /\ step'[j] = (IF step[j] = "adding" THEN "answered" ELSE step[j])
      /\ listed \subseteq listed'
  BY DEF RepoAddEnds
<1>2. Jobs' = Jobs
  BY <1>1 DEF Jobs
<1>3. \A j \in Jobs : step[j] = "adding" => uploading[j] \in listed'
  <2> SUFFICES ASSUME NEW j \in Jobs, step[j] = "adding"
               PROVE  uploading[j] \in listed'
    OBVIOUS
  <2>1. adding = uploading[j] /\ files[adding] = "whole"
    BY DEF KeepInv, Listed, IInv, FilesMatchSteps
  <2>2. adding # NoPackage
    BY <2>1, RequestsNamed
  <2> QED BY <2>1, <2>2 DEF RepoAddEnds
<1>4. FilesAreListed'
  <2> SUFFICES ASSUME NEW p \in Packages, files[p] # "none", p \notin listed'
               PROVE  \E j \in Jobs : uploading'[j] = p /\ step'[j] \in {"write", "add", "adding"}
    BY <1>1, <1>2 DEF FilesAreListed
  <2>1. PICK j \in Jobs : uploading[j] = p /\ step[j] \in {"write", "add", "adding"}
    BY <1>1 DEF KeepInv, FilesAreListed
  <2>2. step[j] # "adding"
    BY <1>3, <2>1
  <2> QED BY <1>1, <2>1, <2>2
<1>5. ASSUME NEW j \in Jobs
      PROVE  Listed(j)'
  <2>1. step'[j] # "adding"
    BY <1>1
  <2>2. step'[j] = "answered" => uploading'[j] \in listed'
    BY <1>1, <1>3 DEF KeepInv, Listed
  <2>3. (Uploads(j)' <=> Uploads(j)) /\ (jobs'[j] = "success" <=> jobs[j] = "success")
    BY <1>1 DEF Uploads
  <2> QED BY <1>1, <2>1, <2>2, <2>3 DEF KeepInv, Listed
<1> QED BY <1>2, <1>4, <1>5 DEF KeepInv

\* What breaks off has not begun with its file, or is done with it.
LEMMA FailureKeepsListed ==
    ASSUME IInv, KeepInv, ~LosesPackage, Failure
    PROVE  KeepInv'
<1>1. ASSUME NEW k \in Jobs, UploadErrors(k) \/ ConnectionLost(k)
      PROVE  KeepInv'
  <2>1. /\ UNCHANGED <<setting, files, repository>>
        /\ step[k] \notin {"", "write", "add", "adding"}
        /\ jobs' = [jobs EXCEPT ![k] = "failed"]
        /\ \E remaining : EndRequest(k, remaining)
    BY <1>1 DEF LosesPackage, BreaksOff, UploadErrors, ConnectionLost
  <2>2. /\ jobs'[k] = "failed" /\ step'[k] = ""
        /\ \A j \in Jobs : j # k =>
                /\ jobs'[j] = jobs[j] /\ left'[j] = left[j]
                /\ uploading'[j] = uploading[j] /\ step'[j] = step[j]
    BY <2>1 DEF EndRequest, IInv, TypeOK
  <2>3. OnlyRun(k)
    BY <2>1, <2>2 DEF OnlyRun
  <2>4. Listed(k)'
    BY <2>2 DEF Listed, Uploads
  <2> QED BY <2>1, <2>3, <2>4, OneRunKeepsListed
<1>2. CASE ServerCrash
  <2>1. /\ UNCHANGED <<setting, files, listed>>
        /\ \A j \in Jobs :
            /\ jobs'[j] = (IF jobs[j] = "creating" THEN "none"
                           ELSE IF step[j] # "" THEN "failed" ELSE jobs[j])
            /\ step[j] = "" => left'[j] = left[j]
            /\ step'[j] = ""
    BY <1>2 DEF ServerCrash
  <2>2. Jobs' = Jobs
    BY <2>1 DEF Jobs
  <2>3. \A j \in Jobs : step[j] \notin {"write", "add", "adding"}
    BY <1>2 DEF LosesPackage, BreaksOff
  <2>4. FilesAreListed'
    BY <2>1, <2>2, <2>3 DEF KeepInv, FilesAreListed
  <2>5. \A j \in Jobs : Listed(j)'
    BY <2>1 DEF KeepInv, Listed, Uploads
  <2> QED BY <2>2, <2>4, <2>5 DEF KeepInv
<1> QED BY <1>1, <1>2 DEF Failure

LEMMA NextKeepsListed ==
    ASSUME IInv, KeepInv, [Next /\ ~LosesPackage]_vars
    PROVE  KeepInv'
<1>1. CASE UNCHANGED vars
  <2>1. Jobs' = Jobs
    BY <1>1 DEF vars, Jobs
  <2>2. FilesAreListed'
    BY <1>1, <2>1 DEF KeepInv, FilesAreListed, vars, requests, repository
  <2>3. \A j \in Jobs : Listed(j)'
    BY <1>1 DEF KeepInv, Listed, Uploads, vars, requests, repository
  <2> QED BY <2>1, <2>2, <2>3 DEF KeepInv
<1>2. CASE Server /\ ~LosesPackage
  BY <1>1, <1>2, RepoAddEndsKeepsListed, RepositoryKeepsListed, HandlerKeepsListed
     DEF Server, Sleep
<1>3. CASE Builder
  BY <1>3, BuilderKeepsListed
<1>4. CASE Failure /\ ~LosesPackage
  BY <1>4, FailureKeepsListed
<1> QED BY <1>1, <1>2, <1>3, <1>4 DEF Next

\* "Once a build has completed, you can install packages from the build
\* namespace", whoever builds and whatever else fails, as long as none of the
\* three things happens to a package.
THEOREM RepoInstallsWhatIsKept ==
    RunsDoNotOverlap /\ KeepingSpec => []CompletedBuildsAreInstallable
<1> SUFFICES ASSUME RunsDoNotOverlap
             PROVE  KeepingSpec => []CompletedBuildsAreInstallable
  OBVIOUS
<1>1. Init => KeepInv
  BY DEF Init, KeepInv, FilesAreListed, Listed, Uploads
<1>2. IInv /\ [Next /\ ~LosesPackage]_vars => IInv'
  BY NextIInv
<1>3. IInv /\ KeepInv /\ [Next /\ ~LosesPackage]_vars => KeepInv'
  BY NextKeepsListed
<1>4. KeepInv => CompletedBuildsAreInstallable
  BY DEF KeepInv, Listed, CompletedBuildsAreInstallable
<1> QED
  BY InitIInv, <1>1, <1>2, <1>3, <1>4, PTL DEF KeepingSpec
=============================================================================
