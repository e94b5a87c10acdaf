---------------------------- MODULE BuildProgress ----------------------------
(***************************************************************************)
(* What the server promises about builds, whoever runs them: build sets    *)
(* are added and never taken away; a build starts once, after all of its   *)
(* dependencies were built; a running build gets one result and keeps it.  *)
(* GitlabDispatch is shown to implement this specification.                *)
(***************************************************************************)
EXTENDS Naturals, Sequences

CONSTANTS Keys,     \* what names a build inside a build set
          Plans,    \* the dependency relations a build set may come with
          MaxBuildSets  \* bound on the number of build sets

Phases == {"waiting", "running", "built", "failed"}

\* A plan is a set of builds and of pairs <<dependency, dependent>>. The theorems
\* have this as their hypothesis, because the module is only instantiated.
PlansAssumption ==
    /\ Plans \subseteq [keys : SUBSET Keys, edges : SUBSET (Keys \X Keys)]
    /\ MaxBuildSets \in Nat

VARIABLE
    builds  \* the sequence of build sets: a plan, and the phase of every build

Phase(i, k) == builds[i].phase[k]

Init == builds = <<>>

\* A new build set, in which everything waits.
Add(plan) ==
    /\ Len(builds) < MaxBuildSets
    /\ builds' = Append(builds,
        [plan |-> plan, phase |-> [k \in plan.keys |-> "waiting"]])

MayStart(i, k) ==
    /\ Phase(i, k) = "waiting"
    /\ \A d \in builds[i].plan.keys :
            <<d, k>> \in builds[i].plan.edges => Phase(i, d) = "built"

Start(i, k) ==
    /\ MayStart(i, k)
    /\ builds' = [builds EXCEPT ![i].phase[k] = "running"]

\* Results of any number of running builds of a build set come in.
Report(i, phase) ==
    /\ DOMAIN phase = builds[i].plan.keys
    /\ \A k \in DOMAIN phase :
        \/ phase[k] = Phase(i, k)
        \/ Phase(i, k) = "running" /\ phase[k] \in {"built", "failed"}
    /\ builds' = [builds EXCEPT ![i].phase = phase]

Next ==
    \/ \E plan \in Plans : Add(plan)
    \/ \E i \in DOMAIN builds :
        \/ \E k \in builds[i].plan.keys : Start(i, k)
        \/ \E phase \in [builds[i].plan.keys -> Phases] : Report(i, phase)

Spec == Init /\ [][Next]_builds

\* A build set knows the phase of exactly the builds of its plan.
BuildSet ==
    {s \in [plan : Plans, phase : UNION {[ks -> Phases] : ks \in SUBSET Keys}] :
        DOMAIN s.phase = s.plan.keys}

TypeOK == builds \in Seq(BuildSet)

\* A build that is running or has a result has had all of its dependencies
\* built, and they stay built: whatever comes in later, what a build was based
\* on is not taken back.
StartedInOrder ==
    \A i \in DOMAIN builds : \A k \in builds[i].plan.keys :
        Phase(i, k) # "waiting" =>
            \A d \in builds[i].plan.keys :
                <<d, k>> \in builds[i].plan.edges => Phase(i, d) = "built"
=============================================================================
