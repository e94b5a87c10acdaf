---------------------------- MODULE MCPackageRepo ----------------------------
(***************************************************************************)
(* Packages and bounds for model-checking PackageRepo.                     *)
(***************************************************************************)
EXTENDS PackageRepo, TLC

CONSTANTS a, b, a1, a2, b1

\* a is a split package.
SplitAndSingle == a :> {a1, a2} @@ b :> {b1}

\* The worker may be sent a build twice; runners build every package once.
WorkerTwiceRunnersOnce ==
    {[builder |-> "worker", runs |-> 2], [builder |-> "executor", runs |-> 1]}

WorkerTwice == {[builder |-> "worker", runs |-> 2]}

RunnersOnce == {[builder |-> "executor", runs |-> 1]}
=============================================================================
