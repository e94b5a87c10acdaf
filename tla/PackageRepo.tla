----------------------------- MODULE PackageRepo -----------------------------
(***************************************************************************)
(* The pacman repository of one iteration and one architecture: the server *)
(* creates it before it starts a build, and builds upload their packages   *)
(* to it (upload_package in buildbtw-poc/src/bin/server/routes.rs,         *)
(* pacman_repo.rs, stream_to_file.rs). Packages are built and uploaded by  *)
(* the local worker, one build after the other, or by GitLab runners with  *)
(* infrastructure/buildbtw-executor.sh, all at the same time.              *)
(*                                                                         *)
(* The database of the repository is only changed by repo-add, a child     *)
(* process that takes a lock file, and whose exit status nobody looks at.  *)
(***************************************************************************)
EXTENDS Naturals, FiniteSets

CONSTANTS
    Pkgbases,
    Packages,       \* package files
    PackagesOf,     \* pkgbase -> the files of its packages
    Settings,       \* who builds, and how often a pkgbase may be built
    NoPackage,
    MaxFaults       \* bound on failed requests and crashes

ASSUME PackageRepoAssumption ==
    /\ PackagesOf \in [Pkgbases -> SUBSET Packages]
    /\ \A b, c \in Pkgbases : b # c => PackagesOf[b] \intersect PackagesOf[c] = {}
    /\ Settings \subseteq [builder : {"worker", "executor"}, runs : Nat]
    /\ NoPackage \notin Packages
    /\ MaxFaults \in Nat

VARIABLES
    setting,    \* drawn in Init, never changed
    jobs,       \* phase of every run of every pkgbase
    left,       \* packages the run still has to upload
    uploading,  \* the package the run is uploading, or NoPackage
    step,       \* where the server is with that request
    files,      \* the package files in the repository's directory
    db_exists,  \* whether the repository has a database,
    listed,     \* and the packages in it
    lock,       \* the lock file of repo-add
    adding,     \* what the repo-add that holds it adds, or NoPackage
    faults

repository == <<db_exists, listed, lock, adding>>
requests == <<left, uploading, step>>
vars == <<setting, jobs, requests, files, repository, faults>>

\* Runs are told apart: a build that was started twice runs twice.
Jobs == Pkgbases \X (1 .. setting.runs)

Init ==
    /\ setting \in Settings
    /\ jobs = [j \in Jobs |-> "none"]
    /\ left = [j \in Jobs |-> {}]
    /\ uploading = [j \in Jobs |-> NoPackage]
    /\ step = [j \in Jobs |-> ""]
    /\ files = [p \in Packages |-> "none"]
    /\ db_exists = FALSE /\ listed = {}
    /\ lock = "free" /\ adding = NoPackage
    /\ faults = 0

Fault == faults < MaxFaults /\ faults' = faults + 1

-----------------------------------------------------------------------------
(***************************************************************************)
(* repo-add                                                                *)
(***************************************************************************)

TakeLock(package) ==
    /\ lock = "free"
    /\ lock' = "held"
    /\ adding' = package
    /\ UNCHANGED <<db_exists, listed>>

\* Mutant: repo-add waits for the lock.
WaitForLock == FALSE

\* Somebody else's lock, or one left behind, makes repo-add fail at once.
Locked == lock # "free" /\ UNCHANGED repository

\* repo-add replaces the database and removes its lock. It may reject a file
\* that is no package, and leaves the database alone then.
RepoAddEnds ==
    /\ lock = "held"
    /\ lock' = "free"
    /\ \/ /\ db_exists' = TRUE
          /\ listed' = listed \union ({adding} \ {NoPackage})
       \/ /\ adding # NoPackage
          /\ files[adding] # "whole"
          /\ UNCHANGED <<db_exists, listed>>
    /\ adding' = NoPackage
    \* whoever has waited for it goes on
    /\ jobs' = [j \in Jobs |-> IF jobs[j] = "creating" THEN "queued" ELSE jobs[j]]
    /\ step' = [j \in Jobs |-> IF step[j] = "adding" THEN "answered" ELSE step[j]]
    /\ UNCHANGED <<setting, left, uploading, files, faults>>

-----------------------------------------------------------------------------
(***************************************************************************)
(* schedule_build, as far as the repository is concerned                   *)
(***************************************************************************)

\* The loop sleeps between two passes.
Sleep == (\A j \in Jobs : jobs[j] # "creating") /\ UNCHANGED vars

\* Mutant: the server does not wait for the repo-add that creates the
\* repository.
DispatchWhileCreating(j) ==
    /\ jobs[j] = "none"
    /\ \A k \in Jobs : jobs[k] # "creating"
    /\ j[2] > 1 => jobs[<<j[1], j[2] - 1>>] # "none"
    /\ \/ db_exists /\ UNCHANGED repository
       \/ ~db_exists /\ (Locked \/ TakeLock(NoPackage))
    /\ jobs' = [jobs EXCEPT ![j] = "queued"]
    /\ UNCHANGED <<setting, requests, files, faults>>

\* ensure_repo_exists, then the build is handed over. Builds are started one
\* after the other.
Schedule(j) ==
    /\ jobs[j] = "none"
    /\ \A k \in Jobs : jobs[k] # "creating"
    /\ j[2] > 1 => jobs[<<j[1], j[2] - 1>>] # "none"
    /\ \/ /\ db_exists \/ lock # "free"
          /\ jobs' = [jobs EXCEPT ![j] = "queued"]
          /\ UNCHANGED repository
       \/ /\ ~db_exists
          /\ TakeLock(NoPackage)
          /\ jobs' = [jobs EXCEPT ![j] = "creating"]
    /\ UNCHANGED <<setting, requests, files, faults>>

-----------------------------------------------------------------------------
(***************************************************************************)
(* Builders                                                                *)
(***************************************************************************)

Busy(j) == jobs[j] \in {"building", "uploading", "uploading failed"}

\* Mutant: the worker builds several packages at a time.
StartWithoutWaiting(j) ==
    /\ jobs[j] = "queued"
    /\ jobs' = [jobs EXCEPT ![j] = "building"]
    /\ UNCHANGED <<setting, requests, files, repository, faults>>

\* The worker takes the next build when it is done with the last one. Its
\* queue keeps the runs of a pkgbase in order, which is all that matters here.
Start(j) ==
    /\ jobs[j] = "queued"
    /\ setting.builder = "worker" =>
            /\ \A k \in Jobs : ~Busy(k)
            /\ \A k \in Jobs : k[1] = j[1] /\ k[2] < j[2] => jobs[k] # "queued"
    /\ jobs' = [jobs EXCEPT ![j] = "building"]
    /\ UNCHANGED <<setting, requests, files, repository, faults>>

\* The packages are uploaded. The worker does so after a failed build as well,
\* which may have left packages behind, and marks it as failed if it cannot.
FinishBuild(j, phase) ==
    /\ jobs[j] = "building"
    /\ \/ phase \in {"uploading", "failed"}
       \/ phase = "uploading failed" /\ setting.builder = "worker"
    /\ jobs' = [jobs EXCEPT ![j] = phase]
    /\ left' = [left EXCEPT ![j] = IF phase = "failed" THEN {} ELSE PackagesOf[j[1]]]
    /\ UNCHANGED <<setting, uploading, step, files, repository, faults>>

RequestUpload(j, package) ==
    /\ jobs[j] \in {"uploading", "uploading failed"}
    /\ uploading[j] = NoPackage
    /\ package \in left[j]
    /\ uploading' = [uploading EXCEPT ![j] = package]
    /\ step' = [step EXCEPT ![j] = "check"]
    /\ UNCHANGED <<setting, jobs, left, files, repository, faults>>

\* Mutant: the builder does not notice that the request is over.
EndRequestUnnoticed(j, remaining) ==
    /\ left' = [left EXCEPT ![j] = remaining]
    /\ uploading' = [uploading EXCEPT ![j] = NoPackage]
    /\ UNCHANGED step

\* An answer came: the next package, if there is one.
EndRequest(j, remaining) ==
    /\ left' = [left EXCEPT ![j] = remaining]
    /\ uploading' = [uploading EXCEPT ![j] = NoPackage]
    /\ step' = [step EXCEPT ![j] = ""]

ReceiveAnswer(j) ==
    /\ step[j] = "answered"
    /\ EndRequest(j, left[j] \ {uploading[j]})
    /\ UNCHANGED <<setting, jobs, files, repository, faults>>

FinishJob(j) ==
    /\ jobs[j] \in {"uploading", "uploading failed"}
    /\ left[j] = {}
    /\ jobs' = [jobs EXCEPT ![j] = IF @ = "uploading" THEN "success" ELSE "failed"]
    /\ UNCHANGED <<setting, requests, files, repository, faults>>

-----------------------------------------------------------------------------
(***************************************************************************)
(* upload_package                                                          *)
(***************************************************************************)

Continue(j, next) == step' = [step EXCEPT ![j] = next]

\* "We assume that written files are correct, so we can ignore this"
FileExists(j) ==
    /\ step[j] = "check"
    /\ files[uploading[j]] # "none"
    /\ Continue(j, "answered")
    /\ UNCHANGED <<setting, jobs, left, uploading, files, repository, faults>>

FileIsMissing(j) ==
    /\ step[j] = "check"
    /\ files[uploading[j]] = "none"
    /\ Continue(j, "create")
    /\ UNCHANGED <<setting, jobs, left, uploading, files, repository, faults>>

\* Requests that are writing the same file.
Writers(package) == {j \in Jobs : uploading[j] = package /\ step[j] = "write"}

\* File::create truncates what another request may have written meanwhile.
CreateFile(j) ==
    /\ step[j] = "create"
    /\ files' = [files EXCEPT ![uploading[j]] =
            IF Writers(uploading[j]) = {} THEN "partial" ELSE "mixed"]
    /\ Continue(j, "write")
    /\ UNCHANGED <<setting, jobs, left, uploading, repository, faults>>

\* Mutant: an upload that is cut short is added like a whole one.
FinishAnyWriting(j) ==
    /\ step[j] = "write"
    /\ \E content \in {"partial", "whole"} :
            files' = [files EXCEPT ![uploading[j]] = content]
    /\ Continue(j, "add")
    /\ UNCHANGED <<setting, jobs, left, uploading, repository, faults>>

FinishWriting(j) ==
    /\ step[j] = "write"
    /\ files' = [files EXCEPT ![uploading[j]] = IF @ = "mixed" THEN @ ELSE "whole"]
    /\ Continue(j, "add")
    /\ UNCHANGED <<setting, jobs, left, uploading, repository, faults>>

\* add_to_repo runs repo-add, and answers OK when it has ended, however.
AddToRepo(j) ==
    /\ step[j] = "add"
    /\ \/ TakeLock(uploading[j]) /\ Continue(j, "adding")
       \/ Locked /\ Continue(j, "answered")
    /\ UNCHANGED <<setting, jobs, left, uploading, files, faults>>

-----------------------------------------------------------------------------
(***************************************************************************)
(* Failures                                                                *)
(***************************************************************************)

\* Mutant: the worker ignores that an upload failed.
UploadErrorsIgnored(j) ==
    /\ step[j] \in {"check", "create", "write", "add"}
    /\ Fault
    /\ EndRequest(j, left[j] \ {uploading[j]})
    /\ UNCHANGED <<setting, jobs, files, repository>>

\* The server answers with an error status, because the database fails, its
\* disk is full or repo-add cannot be run. The worker gives up; curl, called
\* without --fail, is content.
UploadErrors(j) ==
    /\ step[j] \in {"check", "create", "write", "add"}
    /\ Fault
    /\ IF setting.builder = "worker"
       THEN EndRequest(j, {}) /\ jobs' = [jobs EXCEPT ![j] = "failed"]
       ELSE EndRequest(j, left[j] \ {uploading[j]}) /\ UNCHANGED jobs
    /\ UNCHANGED <<setting, files, repository>>

\* The connection breaks: the job has failed, and the server stops working on
\* the request. A repo-add it has started goes on.
ConnectionLost(j) ==
    /\ step[j] # ""
    /\ Fault
    /\ EndRequest(j, {})
    /\ jobs' = [jobs EXCEPT ![j] = "failed"]
    /\ UNCHANGED <<setting, files, repository>>

\* The server dies and is started again. All uploads break off; a running
\* repo-add goes on, is stopped, or is killed and leaves its lock file.
ServerCrash ==
    /\ Fault
    /\ jobs' = [j \in Jobs |->
            IF jobs[j] = "creating" THEN "none"
            ELSE IF step[j] # "" THEN "failed" ELSE jobs[j]]
    /\ left' = [j \in Jobs |-> IF step[j] # "" THEN {} ELSE left[j]]
    /\ uploading' = [j \in Jobs |-> NoPackage]
    /\ step' = [j \in Jobs |-> ""]
    /\ \/ UNCHANGED <<lock, adding>>
       \/ /\ lock = "held"
          /\ lock' \in {"free", "stale"}
          /\ adding' = NoPackage
    /\ UNCHANGED <<setting, files, db_exists, listed>>

-----------------------------------------------------------------------------
Server ==
    \/ Sleep
    \/ RepoAddEnds
    \/ \E j \in Jobs :
        \/ Schedule(j)
        \/ FileExists(j)
        \/ FileIsMissing(j)
        \/ CreateFile(j)
        \/ FinishWriting(j)
        \/ AddToRepo(j)

Builder ==
    \E j \in Jobs :
        \/ Start(j)
        \/ \E phase \in {"uploading", "uploading failed", "failed"} : FinishBuild(j, phase)
        \/ \E package \in Packages : RequestUpload(j, package)
        \/ ReceiveAnswer(j)
        \/ FinishJob(j)

Failure ==
    \/ \E j \in Jobs : UploadErrors(j) \/ ConnectionLost(j)
    \/ ServerCrash

Next == Server \/ Builder \/ Failure

Spec == Init /\ [][Next]_vars

\* The server's tasks, repo-add and the builders go on as long as one of them
\* can. Nothing is assumed about failures.
FairSpec == Spec /\ WF_vars(Server) /\ WF_vars(Builder)

-----------------------------------------------------------------------------
(***************************************************************************)
(* Properties                                                              *)
(***************************************************************************)

Contents == {"none", "partial", "whole", "mixed"}

TypeOK ==
    /\ setting \in Settings
    /\ jobs \in [Jobs -> {"none", "creating", "queued", "building", "uploading",
                          "uploading failed", "success", "failed"}]
    /\ left \in [Jobs -> SUBSET Packages]
    /\ uploading \in [Jobs -> Packages \union {NoPackage}]
    /\ step \in [Jobs -> {"", "check", "create", "write", "add", "adding",
                          "answered"}]
    /\ \A j \in Jobs : step[j] = "" <=> uploading[j] = NoPackage
    /\ files \in [Packages -> Contents]
    /\ db_exists \in BOOLEAN
    /\ listed \subseteq Packages
    /\ lock \in {"free", "held", "stale"}
    /\ adding \in Packages \union {NoPackage}
    /\ faults \in Nat

\* What pacman can install from the repository is a package from beginning to
\* end, whatever uploads broke off, as long as one build of a pkgbase at a time
\* uploads.
ListedPackagesAreWhole == \A p \in listed : files[p] = "whole"

\* The first run of a build only succeeds when its packages have arrived. A
\* runner ignores the server's errors, so for it that only holds without any.
\* A run that repeats a build may find a file that the last one has left; what
\* becomes of it is the question of RepeatedBuildsAreStored.
FirstBuildsAreStored ==
    \A b \in Pkgbases :
        (/\ 1 <= setting.runs /\ jobs[<<b, 1>>] = "success"
         /\ setting.builder = "worker" \/ faults = 0)
        => \A p \in PackagesOf[b] : files[p] = "whole"

\* With the worker, and when nothing fails, the builds that depend on a
\* successful one can install its packages: nobody else holds the lock.
InstallableWhenBuilt ==
    \A j \in Jobs :
        (/\ jobs[j] = "success"
         /\ setting.builder = "worker" /\ faults = 0)
        => PackagesOf[j[1]] \subseteq listed

\* When nothing fails, a builder that adds the repository to its pacman.conf
\* finds it.
RepositoryIsThere ==
    faults = 0 => \A j \in Jobs : Busy(j) => db_exists

\* A build that was handed over ends, although its uploads share a lock with
\* others that a killed repo-add leaves behind for good.
BuildsEnd ==
    \A b \in Pkgbases :
        \A r \in UNION {1 .. s.runs : s \in Settings} :
            LET j == <<b, r>>
            IN  (j \in Jobs /\ jobs[j] = "queued")
                    ~> (j \in Jobs /\ jobs[j] \in {"success", "failed"})

\* upload_package, of a file that is there already: "We assume that written
\* files are correct, so we can ignore this". Then a build that was scheduled
\* once more succeeds only if its packages are there from beginning to end.
RepeatedBuildsAreStored ==
    \A j \in Jobs :
        (/\ jobs[j] = "success"
         /\ setting.builder = "worker" \/ faults = 0)
        => \A p \in PackagesOf[j[1]] : files[p] = "whole"

\* The user guide: "Once a build has completed, you can install packages from
\* the build namespace".
CompletedBuildsAreInstallable ==
    \A j \in Jobs : jobs[j] = "success" => PackagesOf[j[1]] \subseteq listed
=============================================================================
