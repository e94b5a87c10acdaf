------------------------- MODULE BuildProgressProofs -------------------------
(***************************************************************************)
(* BuildProgress keeps its promise for every set of builds, every plan and *)
(* any number of build sets.                                               *)
(***************************************************************************)
EXTENDS BuildProgress, TLAPS

\* What the two properties say of one build set.
InOrder(s) ==
    \A k, d \in s.plan.keys :
        s.phase[k] # "waiting" /\ <<d, k>> \in s.plan.edges
            => s.phase[d] = "built"

IInv ==
    /\ TypeOK
    /\ \A i \in DOMAIN builds : InOrder(builds[i])

-----------------------------------------------------------------------------
\* A build set whose phases are replaced is a build set again.
LEMMA PhasesReplaced ==
    ASSUME PlansAssumption, NEW s \in BuildSet, NEW phase \in [s.plan.keys -> Phases]
    PROVE  /\ [s EXCEPT !.phase = phase] \in BuildSet
           /\ [s EXCEPT !.phase = phase].plan = s.plan
           /\ [s EXCEPT !.phase = phase].phase = phase
<1>1. s.plan.keys \in SUBSET Keys
  BY DEF BuildSet, PlansAssumption
<1> QED
  BY <1>1 DEF BuildSet

\* A plan in which everything waits is in order.
LEMMA AddedInOrder ==
    ASSUME PlansAssumption, NEW plan \in Plans
    PROVE  LET s == [plan |-> plan, phase |-> [k \in plan.keys |-> "waiting"]]
           IN  s \in BuildSet /\ InOrder(s)
<1>1. plan.keys \in SUBSET Keys
  BY DEF PlansAssumption
<1>2. [k \in plan.keys |-> "waiting"] \in [plan.keys -> Phases]
  BY DEF Phases
<1> QED
  BY <1>1, <1>2 DEF BuildSet, InOrder

\* A build starts when its dependencies are built, and nothing that was built
\* before stops being built.
LEMMA StartedBuildInOrder ==
    ASSUME PlansAssumption, NEW s \in BuildSet, InOrder(s), NEW k \in s.plan.keys,
           s.phase[k] = "waiting",
           \A d \in s.plan.keys : <<d, k>> \in s.plan.edges => s.phase[d] = "built"
    PROVE  LET t == [s EXCEPT !.phase[k] = "running"]
           IN  t \in BuildSet /\ InOrder(t)
<1> DEFINE phase == [s.phase EXCEPT ![k] = "running"]
<1>1. s.phase \in [s.plan.keys -> Phases]
  BY DEF BuildSet
<1>2. phase \in [s.plan.keys -> Phases]
  BY <1>1 DEF Phases
<1>3. [s EXCEPT !.phase[k] = "running"] = [s EXCEPT !.phase = phase]
  BY DEF BuildSet
<1>4. \A d \in s.plan.keys : s.phase[d] = "built" => phase[d] = "built"
  BY <1>1
<1>5. \A j \in s.plan.keys : phase[j] # "waiting" => j = k \/ s.phase[j] # "waiting"
  BY <1>1
<1> HIDE DEF phase
<1> QED
  BY <1>2, <1>3, <1>4, <1>5, PhasesReplaced DEF InOrder

\* A report changes running builds only.
LEMMA ReportInOrder ==
    ASSUME PlansAssumption, NEW s \in BuildSet, InOrder(s), NEW phase \in [s.plan.keys -> Phases],
           \A k \in s.plan.keys :
                \/ phase[k] = s.phase[k]
                \/ s.phase[k] = "running" /\ phase[k] \in {"built", "failed"}
    PROVE  [s EXCEPT !.phase = phase] \in BuildSet
           /\ InOrder([s EXCEPT !.phase = phase])
BY PhasesReplaced DEF InOrder

-----------------------------------------------------------------------------
LEMMA InitIInv == Init => IInv
BY DEF Init, IInv, TypeOK

LEMMA NextIInv == PlansAssumption /\ IInv /\ [Next]_builds => IInv'
<1> SUFFICES ASSUME PlansAssumption, IInv, [Next]_builds
             PROVE  IInv'
  OBVIOUS
<1>1. builds \in Seq(BuildSet) /\ \A i \in DOMAIN builds : InOrder(builds[i])
  BY DEF IInv, TypeOK
<1>2. ASSUME NEW i \in DOMAIN builds, NEW s \in BuildSet, InOrder(s),
             builds' = [builds EXCEPT ![i] = s]
      PROVE  IInv'
  <2>1. builds' \in Seq(BuildSet) /\ DOMAIN builds' = DOMAIN builds
    BY <1>1, <1>2
  <2>2. \A j \in DOMAIN builds' : InOrder(builds'[j])
    BY <1>1, <1>2, <2>1
  <2> QED
    BY <2>1, <2>2 DEF IInv, TypeOK
<1>3. ASSUME NEW plan \in Plans, Add(plan)
      PROVE  IInv'
  <2> DEFINE s == [plan |-> plan, phase |-> [k \in plan.keys |-> "waiting"]]
  <2>1. s \in BuildSet /\ InOrder(s)
    BY AddedInOrder
  <2>2. builds' = Append(builds, s)
    BY <1>3 DEF Add
  <2> HIDE DEF s
  <2>3. builds' \in Seq(BuildSet) /\ \A j \in DOMAIN builds' : InOrder(builds'[j])
    BY <1>1, <2>1, <2>2
  <2> QED
    BY <2>3 DEF IInv, TypeOK
<1>4. ASSUME NEW i \in DOMAIN builds, NEW k \in builds[i].plan.keys, Start(i, k)
      PROVE  IInv'
  <2>1. builds[i] \in BuildSet /\ InOrder(builds[i])
    BY <1>1
  <2>2. builds' = [builds EXCEPT ![i] = [builds[i] EXCEPT !.phase[k] = "running"]]
    BY <1>4 DEF Start
  <2>3. [builds[i] EXCEPT !.phase[k] = "running"] \in BuildSet
        /\ InOrder([builds[i] EXCEPT !.phase[k] = "running"])
    BY <1>4, <2>1, StartedBuildInOrder DEF Start, MayStart, Phase
  <2> QED
    BY <1>2, <2>2, <2>3
<1>5. ASSUME NEW i \in DOMAIN builds,
             NEW phase \in [builds[i].plan.keys -> Phases], Report(i, phase)
      PROVE  IInv'
  <2>1. builds[i] \in BuildSet /\ InOrder(builds[i])
    BY <1>1
  <2>2. builds' = [builds EXCEPT ![i] = [builds[i] EXCEPT !.phase = phase]]
    BY <1>5 DEF Report
  <2>3. [builds[i] EXCEPT !.phase = phase] \in BuildSet
        /\ InOrder([builds[i] EXCEPT !.phase = phase])
    BY <1>5, <2>1, ReportInOrder DEF Report, Phase
  <2> QED
    BY <1>2, <2>2, <2>3
<1>6. CASE UNCHANGED builds
  BY <1>6 DEF IInv, TypeOK
<1> QED
  BY <1>3, <1>4, <1>5, <1>6 DEF Next

-----------------------------------------------------------------------------
\* Every behaviour of BuildProgress has well-formed build sets.
THEOREM ProgressTypeCorrect == PlansAssumption => (Spec => []TypeOK)
<1> SUFFICES ASSUME PlansAssumption
             PROVE  Spec => []TypeOK
  OBVIOUS
<1>0. IInv /\ [Next]_builds => IInv'
  BY NextIInv
<1>1. IInv => TypeOK
  BY DEF IInv
<1> QED
  BY <1>0, <1>1, InitIInv, PTL DEF Spec

\* No build of any build set ever runs, or has a result, with a dependency
\* that is not built.
THEOREM ProgressInOrder == PlansAssumption => (Spec => []StartedInOrder)
<1> SUFFICES ASSUME PlansAssumption
             PROVE  Spec => []StartedInOrder
  OBVIOUS
<1>0. IInv /\ [Next]_builds => IInv'
  BY NextIInv
<1>1. IInv => StartedInOrder
  BY DEF IInv, InOrder, StartedInOrder, Phase
<1> QED
  BY <1>0, <1>1, InitIInv, PTL DEF Spec
=============================================================================
