-------------------------- MODULE SourceFetchProofs --------------------------
(***************************************************************************)
(* SourceFetch keeps its type and never misses a change, for any number of *)
(* projects, pages, tasks and faults.                                      *)
(*                                                                         *)
(* A date is safe when a query since it lists every project whose clone is *)
(* behind. Dates lie so far in the past that no push makes a safe date     *)
(* unsafe. In a round, every project that is behind is still to be listed, *)
(* still to be fetched, or found by the date the round will end with.      *)
(***************************************************************************)
EXTENDS SourceFetch, FiniteSetTheorems, WellFoundedInduction, TLAPS

Safe(date) == \A p \in Projects : Behind(p) => Finds(date, p)

\* What GitLab's dates tell about each other.
DatesOfProjects ==
    \A p \in Projects :
        /\ activity[p] <= time /\ updated_at[p] <= time
        /\ head[p] = 0 => clones[p] = 0
        /\ head[p] > 0 => activity[p] > 0 /\ updated_at[p] >= activity[p] - Inaccuracy

\* No date is so young that a push may still get an earlier updated_at.
DatesAreOld ==
    saved <= time - Slack /\ last_fetched <= time - Slack /\ until <= time - Slack

InResults(p) == \E r \in results : r.name = p

ToBeListed(p) == \A r \in results : activity[p] < r.activity

\* The date of the project listed first, if the round ends with it, finds p.
FoundByFirst(p) ==
    \A r \in results :
        (\A s \in results : s.activity <= r.activity) => Finds(r.updated_at - Slack, p)

RoundKeepsTrack ==
    /\ \A r \in results : r.updated_at <= time /\ r.activity <= time
    /\ pc = "idle" => results = {}
    /\ pc = "query" =>
        /\ results # {}
        /\ \A p \in Projects :
                Behind(p) => InResults(p) \/ ToBeListed(p) \/ FoundByFirst(p)
    /\ pc = "fetch" =>
        \A p \in Projects :
            Behind(p) => \/ InResults(p) \/ tasks[p] \in {"running", "failed"}
                         \/ Finds(until, p)

IInv ==
    /\ TypeOK
    /\ DatesOfProjects
    /\ DatesAreOld
    /\ NoChangeIsMissed
    /\ RoundKeepsTrack

-----------------------------------------------------------------------------
LEMMA InitIInv == Init => IInv
BY SourceFetchAssumption
   DEF Init, IInv, TypeOK, DatesOfProjects, DatesAreOld, NoChangeIsMissed, RoundKeepsTrack,
       Behind, NoTasks, None, Listings

-----------------------------------------------------------------------------
(***************************************************************************)
(* Types                                                                   *)
(***************************************************************************)

\* A set of listings has one with the latest activity.
LEMMA OneIsFirst ==
    ASSUME NEW S \in SUBSET Listings, S # {}, NEW bound \in Int,
           \A s \in S : s.activity <= bound
    PROVE  \E r \in S : \A s \in S : s.activity <= r.activity
<1> DEFINE T == {bound - s.activity : s \in S}
<1>1. T \subseteq Nat /\ T # {}
  BY DEF Listings
<1>2. IsWellFoundedOn(OpToRel(<, Nat), Nat)
  BY NatLessThanWellFounded
<1>3. PICK x \in T : \A y \in T : ~ (<<y, x>> \in OpToRel(<, Nat))
  <2> HIDE DEF T
  <2> QED
    BY <1>1, <1>2, WFMin, Zenon
<1>4. \A y \in T : ~ (y < x)
  <2> HIDE DEF T
  <2> QED
    BY <1>1, <1>3 DEF OpToRel
<1>5. PICK r \in S : x = bound - r.activity
  BY <1>3
<1>6. ASSUME NEW s \in S
      PROVE  s.activity <= r.activity
  <2>1. bound - s.activity \in T
    OBVIOUS
  <2>2. ~ (bound - s.activity < bound - r.activity)
    BY <1>4, <1>5, <2>1
  <2> QED
    BY <2>2 DEF Listings
<1> QED
  BY <1>6

LEMMA SinceType == TypeOK => Since \in Int
BY DEF TypeOK, Since

LEMMA NextDateIsOneOf ==
    ASSUME NEW S \in SUBSET Listings, S # {}, NEW bound \in Int,
           \A s \in S : s.activity <= bound
    PROVE  \E r \in S : /\ \A s \in S : s.activity <= r.activity
                        /\ NextDate(S) = r.updated_at - Slack
<1> DEFINE r == CHOOSE r \in S : \A s \in S : s.activity <= r.activity
<1>1. r \in S /\ \A s \in S : s.activity <= r.activity
  BY OneIsFirst
<1>2. NextDate(S) = r.updated_at - Slack
  BY DEF NextDate
<1> QED
  BY <1>1, <1>2

LEMMA ListedType ==
    ASSUME TypeOK, DatesOfProjects, RoundKeepsTrack, NEW page \in SUBSET Projects
    PROVE  /\ Listed(page) \in SUBSET Listings
           /\ \A r \in Listed(page) : r.updated_at <= time /\ r.activity <= time
BY DEF TypeOK, Listed, Changed, Listings, DatesOfProjects, RoundKeepsTrack

LEMMA NextDateType ==
    ASSUME IInv, NEW page \in SUBSET Projects
    PROVE  NextDate(Listed(page)) \in Int /\ NextDate(Listed(page)) <= time - Slack
<1>1. /\ Listed(page) \in SUBSET Listings
      /\ \A r \in Listed(page) : r.updated_at <= time /\ r.activity <= time
  BY ListedType DEF IInv
<1>2. time \in Int /\ Slack \in Int
  BY SourceFetchAssumption DEF IInv, TypeOK
<1>3. CASE Listed(page) = {}
  BY <1>3, SinceType DEF NextDate, IInv, Since, DatesAreOld
<1>4. CASE Listed(page) # {}
  <2>1. PICK r \in Listed(page) : NextDate(Listed(page)) = r.updated_at - Slack
    BY <1>1, <1>2, <1>4, NextDateIsOneOf
  <2> QED
    BY <1>1, <1>2, <2>1 DEF Listings
<1> QED
  BY <1>3, <1>4

\* Every step keeps the types.
LEMMA GitlabTypes ==
    ASSUME IInv, Gitlab
    PROVE  TypeOK' /\ DatesOfProjects' /\ DatesAreOld'
<1> USE SourceFetchAssumption
<1>1. ASSUME NEW p \in Projects, NEW updated \in -Inaccuracy .. MaxTime, Push(p, updated)
      PROVE  TypeOK' /\ DatesOfProjects' /\ DatesAreOld'
  <2>1. TypeOK'
    BY <1>1 DEF IInv, TypeOK, Push, disk, dates, round
  <2>2. DatesOfProjects'
    BY <1>1 DEF IInv, TypeOK, DatesOfProjects, Push, disk, dates, round
  <2>3. DatesAreOld'
    BY <1>1 DEF IInv, TypeOK, DatesAreOld, Push, disk, dates, round
  <2> QED
    BY <2>1, <2>2, <2>3
<1>2. ASSUME NEW p \in Projects, EditProject(p)
      PROVE  TypeOK' /\ DatesOfProjects' /\ DatesAreOld'
  BY <1>2 DEF IInv, TypeOK, DatesOfProjects, DatesAreOld, EditProject, disk, dates, round
<1> QED
  BY <1>1, <1>2 DEF Gitlab

\* A push or an edit leaves a date that is old and safe for a project safe.
LEMMA OldDatesStaySafe ==
    ASSUME IInv, Gitlab
    PROVE  \A date \in Int : \A p \in Projects :
            (/\ date <= time - Slack
             /\ Behind(p)'
             /\ Behind(p) /\ activity'[p] = activity[p] => Finds(date, p))
            => \A q \in Projects :
                    head'[q] > 0 /\ activity'[q] >= activity'[p] => updated_at'[q] > date
<1> USE SourceFetchAssumption
<1> SUFFICES ASSUME NEW date \in Int, NEW p \in Projects,
                    date <= time - Slack, Behind(p)',
                    Behind(p) /\ activity'[p] = activity[p] => Finds(date, p),
                    NEW q \in Projects, head'[q] > 0, activity'[q] >= activity'[p]
             PROVE  updated_at'[q] > date
  OBVIOUS
<1>1. ASSUME NEW s \in Projects, NEW updated \in -Inaccuracy .. MaxTime, Push(s, updated)
      PROVE  updated_at'[q] > date
  <2>1. CASE q = s
    BY <1>1, <2>1 DEF IInv, TypeOK, Push
  <2>2. CASE q # s
    <3>1. head'[q] = head[q] /\ activity'[q] = activity[q] /\ updated_at'[q] = updated_at[q]
      BY <1>1, <2>2 DEF IInv, TypeOK, Push
    <3>2. p # s
      BY <1>1, <3>1 DEF IInv, TypeOK, DatesOfProjects, Push
    <3>3. Behind(p) /\ activity'[p] = activity[p]
      BY <1>1, <3>2 DEF IInv, TypeOK, Push, Behind, disk
    <3> QED
      BY <3>1, <3>3 DEF Finds
  <2> QED
    BY <2>1, <2>2
<1>2. ASSUME NEW s \in Projects, EditProject(s)
      PROVE  updated_at'[q] > date
  <2>1. Finds(date, p) /\ head[q] > 0 /\ activity[q] >= activity[p]
    BY <1>2 DEF EditProject, Behind, disk
  <2>2. updated_at[q] > date
    BY <2>1 DEF Finds
  <2>3. updated_at'[q] = updated_at[q] \/ (q = s /\ updated_at'[q] = time)
    BY <1>2 DEF IInv, TypeOK, EditProject
  <2> QED
    BY <2>2, <2>3 DEF IInv, TypeOK, DatesOfProjects
<1> QED
  BY <1>1, <1>2 DEF Gitlab

LEMMA GitlabKeeps ==
    ASSUME IInv, Gitlab
    PROVE  IInv'
<1>1. TypeOK' /\ DatesOfProjects' /\ DatesAreOld'
  BY GitlabTypes
<1>2. /\ UNCHANGED <<disk, dates, round, keeper>>
      /\ time \in Nat /\ time' \in Nat /\ time' >= time
  BY SourceFetchAssumption DEF Gitlab, Push, EditProject, IInv, TypeOK
<1>3. NoChangeIsMissed'
  <2>1. ASSUME NEW p \in Projects, Behind(p)'
        PROVE  Finds(saved, p)' /\ (keeper' = "server" => Finds(last_fetched, p)')
    <3>1. Finds(saved, p)'
      BY <1>2, <2>1, OldDatesStaySafe
         DEF IInv, TypeOK, DatesAreOld, NoChangeIsMissed, Finds, dates
    <3>2. ASSUME keeper' = "server"
          PROVE  Finds(last_fetched, p)'
      BY <1>2, <2>1, <3>2, OldDatesStaySafe
         DEF IInv, TypeOK, DatesAreOld, NoChangeIsMissed, Finds, dates
    <3> QED
      BY <3>1, <3>2
  <2> QED
    BY <2>1 DEF NoChangeIsMissed
<1>4. RoundKeepsTrack'
  <2>1. results' = results /\ pc' = pc /\ tasks' = tasks /\ until' = until /\ clones' = clones
    BY <1>2 DEF round, disk
  <2>2. \A r \in results' : r.updated_at <= time' /\ r.activity <= time'
    <3> SUFFICES ASSUME NEW r \in results
                 PROVE  r.updated_at <= time' /\ r.activity <= time'
      BY <2>1
    <3>1. r.updated_at \in Int /\ r.activity \in Int
      BY DEF IInv, TypeOK, Listings
    <3>2. r.updated_at <= time /\ r.activity <= time
      BY DEF IInv, RoundKeepsTrack
    <3> QED
      BY <1>2, <3>1, <3>2
  <2>3. ASSUME pc' = "query", NEW p \in Projects, Behind(p)'
        PROVE  InResults(p)' \/ ToBeListed(p)' \/ FoundByFirst(p)'
    <3>1. CASE Behind(p) /\ InResults(p)
      BY <2>1, <3>1 DEF InResults
    <3>2. CASE Behind(p) /\ activity'[p] = activity[p] /\ ToBeListed(p)
      BY <2>1, <3>2 DEF ToBeListed
    <3>3. CASE Behind(p) /\ activity'[p] = activity[p] => FoundByFirst(p)
      <4>1. ASSUME NEW r \in results, \A s \in results : s.activity <= r.activity
            PROVE  Finds(r.updated_at - Slack, p)'
        <5>1. r.updated_at - Slack \in Int /\ r.updated_at - Slack <= time - Slack
          BY SourceFetchAssumption DEF IInv, TypeOK, RoundKeepsTrack, Listings
        <5>2. Behind(p) /\ activity'[p] = activity[p] => Finds(r.updated_at - Slack, p)
          BY <3>3, <4>1 DEF FoundByFirst
        <5> DEFINE date == r.updated_at - Slack
        <5>3. \A q \in Projects :
                head'[q] > 0 /\ activity'[q] >= activity'[p] => updated_at'[q] > date
          BY <2>3, <5>1, <5>2, OldDatesStaySafe
        <5>4. r' = r /\ Slack' = Slack
          OBVIOUS
        <5> QED
          BY <5>3, <5>4 DEF Finds
      <4> QED
        BY <2>1, <4>1 DEF FoundByFirst
    <3>4. Behind(p) => InResults(p) \/ ToBeListed(p) \/ FoundByFirst(p)
      BY <2>1, <2>3 DEF IInv, RoundKeepsTrack
    <3> QED
      BY <3>1, <3>2, <3>3, <3>4
  <2>4. ASSUME pc' = "fetch", NEW p \in Projects, Behind(p)'
        PROVE  InResults(p)' \/ tasks'[p] \in {"running", "failed"} \/ Finds(until, p)'
    <3>1. CASE Behind(p) /\ (InResults(p) \/ tasks[p] \in {"running", "failed"})
      BY <2>1, <3>1 DEF InResults
    <3>2. CASE Behind(p) => Finds(until, p)
      BY <2>1, <2>4, <3>2, OldDatesStaySafe DEF IInv, TypeOK, DatesAreOld, Finds
    <3> QED
      BY <2>1, <2>4, <3>1, <3>2 DEF IInv, RoundKeepsTrack
  <2>5. (pc' = "idle" => results' = {}) /\ (pc' = "query" => results' # {})
    BY <2>1 DEF IInv, RoundKeepsTrack
  <2> QED
    BY <2>2, <2>3, <2>4, <2>5 DEF RoundKeepsTrack
<1> QED
  BY <1>1, <1>3, <1>4 DEF IInv

-----------------------------------------------------------------------------
(***************************************************************************)
(* Listing                                                                 *)
(***************************************************************************)

\* The date a round starts from is safe.
LEMMA SinceIsSafe ==
    ASSUME IInv, NEW p \in Projects, Behind(p)
    PROVE  Finds(Since, p)
BY DEF IInv, NoChangeIsMissed, Since

LEMMA BehindExists ==
    ASSUME IInv, NEW p \in Projects, Behind(p)
    PROVE  head[p] > 0
BY DEF IInv, TypeOK, DatesOfProjects, Behind

\* A project that is behind and still to be listed is on the page, or behind
\* all of the page; then the page does not end the query.
LEMMA PageMissesNothing ==
    ASSUME IInv, NEW page, IsPage(page), NEW p \in Projects, Behind(p), ToBeListed(p)
    PROVE  \/ p \in Changed(page)
           \/ /\ Changed(page) = page /\ page # Unlisted
              /\ \A q \in page : activity[p] < activity[q]
<1>1. p \in Unlisted
  BY BehindExists DEF Unlisted, ToBeListed
<1>2. \A q \in page : q \in Projects /\ head[q] > 0
  BY DEF IsPage, Unlisted
<1>3. \A q \in Projects : head[q] > 0 /\ activity[q] >= activity[p] => updated_at[q] > Since
  BY SinceIsSafe DEF Finds
<1>4. CASE p \in page
  BY <1>2, <1>3, <1>4 DEF Changed
<1>5. CASE p \notin page
  <2>1. \A q \in page : activity[p] < activity[q]
    BY <1>1, <1>5 DEF IsPage
  <2>2. ASSUME NEW q \in page, NEW r \in page, activity[r] >= activity[q]
        PROVE  updated_at[r] > Since
    <3>1. activity[r] >= activity[p]
      BY <1>2, <2>1, <2>2 DEF IInv, TypeOK
    <3> QED
      BY <1>2, <1>3, <3>1
  <2>3. Changed(page) = page
    BY <1>2, <2>2 DEF Changed
  <2> QED
    BY <1>1, <1>5, <2>1, <2>3
<1> QED
  BY <1>4, <1>5

LEMMA PageKeepsFirst ==
    ASSUME IInv, NEW page, IsPage(page), results # {}, NEW r \in Listed(page),
           \A s \in Listed(page) : s.activity <= r.activity
    PROVE  r \in results /\ \A s \in results : s.activity <= r.activity
<1>1. results \subseteq Listed(page)
  BY DEF Listed
<1>2. ASSUME r \notin results
      PROVE  FALSE
  <2>1. PICK q \in Changed(page) : r.activity = activity[q]
    BY <1>2 DEF Listed
  <2>2. PICK s \in results : TRUE
    OBVIOUS
  <2>3. activity[q] < s.activity /\ q \in Projects
    BY <2>1 DEF Changed, IsPage, Unlisted
  <2>4. s.activity <= activity[q]
    BY <1>1, <2>1
  <2> QED
    BY <2>3, <2>4 DEF IInv, TypeOK, Listings
<1> QED
  BY <1>1, <1>2

LEMMA QueryPageKeeps ==
    ASSUME IInv, NEW page \in SUBSET Projects, QueryPage(page)
    PROVE  IInv'
<1>0. /\ UNCHANGED <<time, head, activity, updated_at, clones, broken, saved, readable,
                     last_fetched, tasks, keeper, faults>>
      /\ results' = Listed(page) /\ pc \in {"idle", "query"} /\ IsPage(page)
  BY DEF QueryPage, gitlab, disk, dates
<1>1. /\ Listed(page) \in SUBSET Listings
      /\ \A r \in Listed(page) : r.updated_at <= time /\ r.activity <= time
  BY ListedType DEF IInv
<1>2. until' \in Int /\ until' <= time - Slack
  BY <1>0, NextDateType DEF QueryPage, IInv, TypeOK, DatesAreOld
<1>3. pc' \in {"query", "fetch"}
  BY DEF QueryPage
<1>4. TypeOK'
  BY <1>0, <1>1, <1>2, <1>3 DEF IInv, TypeOK
<1>5. DatesOfProjects'
  BY <1>0 DEF IInv, DatesOfProjects
<1>6. DatesAreOld'
  BY <1>0, <1>2 DEF IInv, DatesAreOld
<1>7. NoChangeIsMissed'
  BY <1>0 DEF IInv, NoChangeIsMissed, Behind, Finds
<1>8. ASSUME NEW p \in Projects, Behind(p)
      PROVE  \/ InResults(p)'
             \/ FoundByFirst(p) /\ results # {}
             \/ /\ Changed(page) = page /\ page # Unlisted
                /\ ToBeListed(p)'
  <2>1. CASE InResults(p)
    BY <1>0, <2>1 DEF InResults, Listed
  <2>2. CASE ToBeListed(p)
    <3>1. CASE p \in Changed(page)
      <4> DEFINE r == [name |-> p, activity |-> activity[p], updated_at |-> updated_at[p]]
      <4>1. r \in results' /\ r.name = p
        BY <1>0, <3>1 DEF Listed
      <4> HIDE DEF r
      <4> QED
        BY <4>1 DEF InResults
    <3>2. CASE Changed(page) = page /\ page # Unlisted /\ \A q \in page : activity[p] < activity[q]
      BY <1>0, <2>2, <3>2 DEF ToBeListed, Listed
    <3> QED
      BY <1>0, <1>8, <2>2, <3>1, <3>2, PageMissesNothing
  <2>3. results = {} => ToBeListed(p)
    BY DEF ToBeListed
  <2> QED
    BY <1>0, <1>8, <2>1, <2>2, <2>3 DEF IInv, RoundKeepsTrack
<1>9. ASSUME NEW p \in Projects, FoundByFirst(p), results # {}
      PROVE  FoundByFirst(p)'
  BY <1>0, <1>9, PageKeepsFirst DEF FoundByFirst, Finds
<1>10. ASSUME NEW p \in Projects, FoundByFirst(p)', results' # {}, until' = NextDate(results')
       PROVE  Finds(until, p)'
  <2>1. PICK r \in results' : /\ \A s \in results' : s.activity <= r.activity
                              /\ NextDate(results') = r.updated_at - Slack
    <3>1. time \in Int
      BY DEF IInv, TypeOK
    <3> QED
      BY <1>0, <1>1, <1>10, <3>1, NextDateIsOneOf
  <2> QED
    BY <1>10, <2>1 DEF FoundByFirst
<1>11. CASE Changed(page) = page /\ page # Unlisted
  <2>1. pc' = "query"
    BY <1>11 DEF QueryPage
  <2>2. results' # {}
    <3>1. page # {}
      BY <1>0, <1>11, FS_EmptySet, SourceFetchAssumption DEF IsPage
    <3> QED
      BY <1>0, <1>11, <3>1 DEF Listed
  <2>3. ASSUME NEW p \in Projects, Behind(p)'
        PROVE  InResults(p)' \/ ToBeListed(p)' \/ FoundByFirst(p)'
    <3>1. Behind(p)
      BY <1>0, <2>3 DEF Behind
    <3> QED
      BY <1>8, <1>9, <3>1
  <2> QED
    BY <1>0, <1>1, <2>1, <2>2, <2>3, <1>4, <1>5, <1>6, <1>7 DEF RoundKeepsTrack, IInv
<1>12. CASE ~(Changed(page) = page /\ page # Unlisted)
  <2>1. pc' = "fetch" /\ until' = NextDate(results')
    BY <1>12 DEF QueryPage
  <2>2. ASSUME NEW p \in Projects, Behind(p)'
        PROVE  InResults(p)' \/ Finds(until, p)'
    <3>1. Behind(p)
      BY <1>0, <2>2 DEF Behind
    <3>2. CASE results # {} /\ FoundByFirst(p)
      <4>1. results' # {}
        BY <1>0, <3>2 DEF Listed
      <4> QED
        BY <1>9, <1>10, <2>1, <3>2, <4>1
    <3> QED
      BY <1>8, <1>12, <3>1, <3>2
  <2> QED
    BY <1>0, <1>1, <2>1, <2>2, <1>4, <1>5, <1>6, <1>7 DEF RoundKeepsTrack, IInv
<1> QED
  BY <1>11, <1>12

-----------------------------------------------------------------------------
(***************************************************************************)
(* Fetching                                                                *)
(***************************************************************************)

\* What a step that lists nothing leaves alone.
Quiet == UNCHANGED <<time, head, activity, updated_at, keeper>>

\* Clones only get newer, and what is found by a date stays found.
LEMMA QuietKeeps ==
    ASSUME IInv, Quiet, clones' \in [Projects -> Nat],
           \A p \in Projects : clones'[p] \in {clones[p], head[p]}
    PROVE  /\ DatesOfProjects'
           /\ \A p \in Projects : Behind(p)' => Behind(p)
           /\ \A p \in Projects : clones'[p] = head[p] => ~Behind(p)'
           /\ saved' = saved /\ last_fetched' = last_fetched => NoChangeIsMissed'
<1>1. DatesOfProjects'
  BY DEF IInv, TypeOK, DatesOfProjects, Quiet
<1>2. \A p \in Projects : Behind(p)' => Behind(p)
  BY DEF Behind, Quiet
<1>3. \A p \in Projects : clones'[p] = head[p] => ~Behind(p)'
  BY DEF Behind, Quiet
<1>4. ASSUME saved' = saved, last_fetched' = last_fetched
      PROVE  NoChangeIsMissed'
  BY <1>2, <1>4 DEF IInv, NoChangeIsMissed, Finds, Quiet
<1> QED
  BY <1>1, <1>2, <1>3, <1>4

LEMMA FaultIsCounted == TypeOK /\ (Fault \/ UNCHANGED faults) => faults' \in Nat
BY DEF TypeOK, Fault

\* A step that ends a round, in which fetches may be completed.
LEMMA EndedRoundKeeps ==
    ASSUME IInv, Quiet, clones' \in [Projects -> Nat],
           \A p \in Projects : clones'[p] \in {clones[p], head[p]},
           broken' \subseteq Projects, readable' \in BOOLEAN, faults' \in Nat,
           saved' \in Int, saved' <= time - Slack,
           last_fetched' \in Int, last_fetched' <= time - Slack, until' = until,
           pc' = "idle", results' = {}, tasks' = NoTasks,
           NoChangeIsMissed'
    PROVE  IInv'
<1>1. TypeOK'
  BY DEF IInv, TypeOK, Quiet, NoTasks
<1>2. DatesOfProjects'
  BY QuietKeeps
<1>3. DatesAreOld' /\ RoundKeepsTrack'
  BY DEF IInv, DatesAreOld, RoundKeepsTrack, Quiet
<1> QED
  BY <1>1, <1>2, <1>3 DEF IInv

\* A step in the middle of fetching: no project that is behind is forgotten.
LEMMA FetchingKeeps ==
    ASSUME IInv, Quiet, clones' \in [Projects -> Nat],
           \A p \in Projects : clones'[p] \in {clones[p], head[p]},
           UNCHANGED <<broken, saved, readable, last_fetched, until, pc>>, faults' \in Nat,
           pc = "fetch", results' \subseteq results,
           tasks' \in [Projects -> {"none", "running", "ok", "failed"}],
           \A p \in Projects :
                Behind(p)' /\ (InResults(p) \/ tasks[p] \in {"running", "failed"}) =>
                    InResults(p)' \/ tasks'[p] \in {"running", "failed"}
    PROVE  IInv'
<1>1. TypeOK'
  BY DEF IInv, TypeOK, Quiet
<1>2. DatesOfProjects' /\ NoChangeIsMissed'
  BY QuietKeeps
<1>3. DatesAreOld'
  BY DEF IInv, DatesAreOld, Quiet
<1>4. ASSUME NEW p \in Projects, Behind(p)'
      PROVE  InResults(p)' \/ tasks'[p] \in {"running", "failed"} \/ Finds(until, p)'
  <2>1. Behind(p)
    BY <1>4, QuietKeeps
  <2>2. Finds(until, p) => Finds(until, p)'
    BY DEF Finds, Quiet
  <2> QED
    BY <1>4, <2>1, <2>2 DEF IInv, RoundKeepsTrack
<1>5. \A r \in results' : r.updated_at <= time' /\ r.activity <= time'
  BY DEF IInv, RoundKeepsTrack, Quiet
<1>6. RoundKeepsTrack'
  BY <1>4, <1>5 DEF RoundKeepsTrack
<1> QED
  BY <1>1, <1>2, <1>3, <1>6 DEF IInv

\* Only a round that fetches has tasks.
LEMMA TasksAreFetches == IInv => \A p \in Projects : tasks[p] # "none" => pc = "fetch"
BY DEF IInv, TypeOK

LEMMA SpawnTaskKeeps ==
    ASSUME IInv, NEW r \in results, SpawnTask(r)
    PROVE  IInv'
<1>1. /\ Quiet /\ UNCHANGED <<clones, broken, saved, readable, last_fetched, until, pc, faults>>
      /\ pc = "fetch" /\ results' = results \ {r}
      /\ tasks' = [tasks EXCEPT ![r.name] = "running"] /\ r.name \in Projects
  BY DEF SpawnTask, Quiet, gitlab, disk, dates, IInv, TypeOK, Listings
<1>2. tasks' \in [Projects -> {"none", "running", "ok", "failed"}]
  BY <1>1 DEF IInv, TypeOK
<1>3. ASSUME NEW p \in Projects, InResults(p) \/ tasks[p] \in {"running", "failed"}
      PROVE  InResults(p)' \/ tasks'[p] \in {"running", "failed"}
  <2>1. CASE p = r.name
    BY <1>1, <2>1 DEF IInv, TypeOK
  <2>2. CASE p # r.name
    <3>1. tasks'[p] = tasks[p]
      BY <1>1, <2>2 DEF IInv, TypeOK
    <3>2. InResults(p) => InResults(p)'
      BY <1>1, <2>2 DEF InResults
    <3> QED
      BY <1>3, <3>1, <3>2
  <2> QED
    BY <2>1, <2>2
<1>4. clones' \in [Projects -> Nat] /\ faults' \in Nat
  BY <1>1 DEF IInv, TypeOK
<1>5. \A p \in Projects : clones'[p] \in {clones[p], head[p]}
  BY <1>1
<1> QED
  BY <1>1, <1>2, <1>3, <1>4, <1>5, FetchingKeeps

LEMMA TaskSteps ==
    ASSUME IInv, NEW p \in Projects, TaskFetches(p) \/ TaskFails(p) \/ JoinTask(p)
    PROVE  IInv'
<1>1. /\ Quiet /\ UNCHANGED <<broken, saved, readable, last_fetched, until, pc, results>>
      /\ tasks[p] # "none"
      /\ Fault \/ UNCHANGED faults
  BY DEF TaskFetches, TaskFails, JoinTask, Quiet, gitlab, disk, dates
<1>2. pc = "fetch" /\ faults' \in Nat
  BY <1>1, TasksAreFetches, FaultIsCounted DEF IInv
<1>3. clones' = [clones EXCEPT ![p] = head[p]] \/ clones' = clones
  BY DEF TaskFetches, TaskFails, JoinTask, disk
<1>4. /\ clones' \in [Projects -> Nat]
      /\ \A q \in Projects : clones'[q] \in {clones[q], head[q]}
  BY <1>3 DEF IInv, TypeOK
<1>5. \E phase \in {"none", "ok", "failed"} : tasks' = [tasks EXCEPT ![p] = phase]
  BY DEF TaskFetches, TaskFails, JoinTask
<1>6. tasks' \in [Projects -> {"none", "running", "ok", "failed"}]
  BY <1>5 DEF IInv, TypeOK
<1>7. ASSUME NEW q \in Projects, Behind(q)', InResults(q) \/ tasks[q] \in {"running", "failed"}
      PROVE  InResults(q)' \/ tasks'[q] \in {"running", "failed"}
  <2>1. CASE InResults(q)
    BY <1>1, <2>1 DEF InResults
  <2>2. CASE q # p
    BY <1>1, <1>5, <1>7, <2>2 DEF InResults, IInv, TypeOK
  <2>3. CASE q = p /\ tasks[p] \in {"running", "failed"}
    <3>1. CASE TaskFetches(p)
      <4>1. clones'[p] = head[p]
        BY <3>1 DEF TaskFetches, IInv, TypeOK
      <4> QED
        BY <1>1, <1>4, <1>7, <2>3, <4>1, QuietKeeps
    <3>2. CASE TaskFails(p)
      BY <2>3, <3>2 DEF TaskFails, IInv, TypeOK
    <3>3. CASE JoinTask(p)
      BY <2>3, <3>3 DEF JoinTask
    <3> QED
      BY <3>1, <3>2, <3>3
  <2> QED
    BY <1>7, <2>1, <2>2, <2>3
<1>8. results' \subseteq results
  BY <1>1
<1> QED
  BY <1>1, <1>2, <1>4, <1>6, <1>7, <1>8, FetchingKeeps

LEMMA JoinFailedTaskKeeps ==
    ASSUME IInv, NEW p \in Projects, JoinFailedTask(p)
    PROVE  IInv'
<1>1. /\ Quiet /\ UNCHANGED <<broken, saved, readable, last_fetched, until, faults>>
      /\ pc' = "idle" /\ results' = {} /\ tasks' = NoTasks
  BY DEF JoinFailedTask, Quiet, gitlab, dates
<1>2. /\ clones' \in [Projects -> Nat]
      /\ \A q \in Projects : clones'[q] \in {clones[q], head[q]}
  BY DEF JoinFailedTask, IInv, TypeOK
<1>3. NoChangeIsMissed'
  BY <1>1, <1>2, QuietKeeps
<1>4. /\ broken' \subseteq Projects /\ readable' \in BOOLEAN /\ faults' \in Nat
      /\ saved' \in Int /\ saved' <= time - Slack
      /\ last_fetched' \in Int /\ last_fetched' <= time - Slack /\ until' = until
  BY <1>1 DEF IInv, TypeOK, DatesAreOld
<1> QED
  BY <1>1, <1>2, <1>3, <1>4, EndedRoundKeeps

LEMMA QueryFailsKeeps == IInv /\ QueryFails => IInv'
<1> SUFFICES ASSUME IInv, QueryFails
             PROVE  IInv'
  OBVIOUS
<1>1. /\ Quiet /\ UNCHANGED <<clones, broken, saved, readable, last_fetched, until, tasks>>
      /\ pc' = "idle" /\ results' = {} /\ pc # "fetch" /\ Fault
  BY DEF QueryFails, Quiet, gitlab, disk, dates
<1>2. tasks' = NoTasks
  BY <1>1, TasksAreFetches DEF IInv, TypeOK, NoTasks
<1>3. /\ clones' \in [Projects -> Nat]
      /\ \A q \in Projects : clones'[q] \in {clones[q], head[q]}
  BY <1>1 DEF IInv, TypeOK
<1>4. NoChangeIsMissed'
  BY <1>1, <1>3, QuietKeeps
<1>5. faults' \in Nat
  BY <1>1, FaultIsCounted DEF IInv
<1>6. /\ broken' \subseteq Projects /\ readable' \in BOOLEAN
      /\ saved' \in Int /\ saved' <= time - Slack
      /\ last_fetched' \in Int /\ last_fetched' <= time - Slack /\ until' = until
  BY <1>1 DEF IInv, TypeOK, DatesAreOld
<1> QED
  BY <1>1, <1>2, <1>3, <1>4, <1>5, <1>6, EndedRoundKeeps

\* What is left to fetch when everything was fetched is found by the next date.
LEMMA NextDateIsSafe == IInv /\ AllFetched => Safe(until)
<1> SUFFICES ASSUME IInv, AllFetched, NEW p \in Projects, Behind(p)
             PROVE  Finds(until, p)
  BY DEF Safe
<1>1. pc = "fetch" /\ ~InResults(p) /\ tasks[p] = "none"
  BY DEF AllFetched, InJoinSet, InResults
<1> QED
  BY <1>1 DEF IInv, RoundKeepsTrack

LEMMA KeepsDateKeeps == IInv /\ (ServerKeepsDate \/ UpdaterKeepsDate) => IInv'
<1> SUFFICES ASSUME IInv, ServerKeepsDate \/ UpdaterKeepsDate
             PROVE  IInv'
  OBVIOUS
<1>1. /\ Quiet /\ UNCHANGED <<clones, broken, until>> /\ pc' = "idle"
      /\ tasks' = tasks /\ results' = results /\ AllFetched
      /\ saved' \in {saved, until} /\ last_fetched' \in {last_fetched, until}
      /\ readable' \in {readable, TRUE, FALSE} /\ (Fault \/ UNCHANGED faults)
  BY DEF ServerKeepsDate, UpdaterKeepsDate, Quiet, gitlab, disk, dates
<1>2. results' = {} /\ tasks' = NoTasks
  BY <1>1 DEF AllFetched, InJoinSet, NoTasks, IInv, TypeOK
<1>3. /\ clones' \in [Projects -> Nat]
      /\ \A q \in Projects : clones'[q] \in {clones[q], head[q]}
  BY <1>1 DEF IInv, TypeOK
<1>4. NoChangeIsMissed'
  <2>1. ASSUME NEW p \in Projects, Behind(p)'
        PROVE  Finds(saved, p)' /\ (keeper' = "server" => Finds(last_fetched, p)')
    <3>1. Behind(p)
      BY <1>1, <2>1 DEF Behind, Quiet
    <3>2. Finds(until, p) /\ Finds(saved, p) /\ (keeper = "server" => Finds(last_fetched, p))
      BY <1>1, <3>1, NextDateIsSafe DEF Safe, IInv, NoChangeIsMissed
    <3> QED
      BY <1>1, <3>2 DEF Finds, Quiet
  <2> QED
    BY <2>1 DEF NoChangeIsMissed
<1>5. faults' \in Nat
  BY <1>1, FaultIsCounted DEF IInv
<1>6. /\ broken' \subseteq Projects /\ readable' \in BOOLEAN
      /\ saved' \in Int /\ saved' <= time - Slack
      /\ last_fetched' \in Int /\ last_fetched' <= time - Slack /\ until' = until
  BY <1>1 DEF IInv, TypeOK, DatesAreOld
<1> QED
  BY <1>1, <1>2, <1>3, <1>4, <1>5, <1>6, EndedRoundKeeps

\* Without a date, everything is listed.
LEMMA NoneIsSafe == IInv => \A p \in Projects : Finds(None, p)
BY SourceFetchAssumption DEF IInv, TypeOK, DatesOfProjects, Finds, None

LEMMA CrashKeeps == IInv /\ Crash => IInv'
<1> SUFFICES ASSUME IInv, Crash
             PROVE  IInv'
  OBVIOUS
<1>1. /\ Quiet /\ UNCHANGED <<clones, saved, readable, until>>
      /\ pc' = "idle" /\ results' = {} /\ tasks' = NoTasks
      /\ last_fetched' \in {saved, None} /\ Fault
  BY DEF Crash, Quiet, gitlab
<1>2. broken' \subseteq Projects
  <2> DEFINE begun == {p \in InJoinSet : tasks[p] = "running" /\ clones[p] = 0}
  <2>1. begun \subseteq Projects
    BY DEF InJoinSet
  <2>2. PICK new \in SUBSET begun : broken' = broken \union new
    BY DEF Crash
  <2> HIDE DEF begun
  <2> QED
    BY <2>1, <2>2 DEF IInv, TypeOK
<1>3. /\ clones' \in [Projects -> Nat]
      /\ \A q \in Projects : clones'[q] \in {clones[q], head[q]}
  BY <1>1 DEF IInv, TypeOK
<1>4. NoChangeIsMissed'
  <2>1. ASSUME NEW p \in Projects, Behind(p)'
        PROVE  Finds(saved, p)' /\ (keeper' = "server" => Finds(last_fetched, p)')
    <3>1. Behind(p)
      BY <1>1, <2>1 DEF Behind, Quiet
    <3>2. Finds(None, p) /\ Finds(saved, p)
      BY <3>1, NoneIsSafe DEF IInv, NoChangeIsMissed
    <3> QED
      BY <1>1, <3>2 DEF Finds, Quiet
  <2> QED
    BY <2>1 DEF NoChangeIsMissed
<1>5. None \in Int /\ None <= time - Slack
  BY SourceFetchAssumption DEF None, IInv, TypeOK
<1>6. faults' \in Nat
  BY <1>1, FaultIsCounted DEF IInv
<1>7. /\ readable' \in BOOLEAN
      /\ saved' \in Int /\ saved' <= time - Slack
      /\ last_fetched' \in Int /\ last_fetched' <= time - Slack /\ until' = until
  BY <1>1, <1>5 DEF IInv, TypeOK, DatesAreOld
<1> QED
  BY <1>1, <1>2, <1>3, <1>4, <1>6, <1>7, EndedRoundKeeps

-----------------------------------------------------------------------------
(***************************************************************************)
(* The results                                                             *)
(***************************************************************************)

LEMMA NextIInv == IInv /\ [FetchNext]_fetch_vars => IInv'
<1> SUFFICES ASSUME IInv, [FetchNext]_fetch_vars
             PROVE  IInv'
  OBVIOUS
<1>1. CASE UNCHANGED fetch_vars
  BY <1>1 DEF fetch_vars, gitlab, disk, dates, round, IInv, TypeOK, DatesOfProjects,
     DatesAreOld, NoChangeIsMissed, RoundKeepsTrack, Behind, Finds, InResults, ToBeListed,
     FoundByFirst
<1>2. CASE Gitlab
  BY <1>2, GitlabKeeps
<1>3. CASE FetchLoop
  <2>1. ASSUME NEW page \in SUBSET Projects, QueryPage(page)
        PROVE  IInv'
    BY <2>1, QueryPageKeeps
  <2>2. CASE UpdaterFails
    BY <1>1, <2>2 DEF UpdaterFails
  <2>3. ASSUME NEW r \in results, SpawnTask(r)
        PROVE  IInv'
    BY <2>3, SpawnTaskKeeps
  <2>4. ASSUME NEW p \in Projects, TaskFetches(p) \/ JoinTask(p) \/ JoinFailedTask(p)
        PROVE  IInv'
    BY <2>4, TaskSteps, JoinFailedTaskKeeps
  <2>5. ASSUME NEW p \in Unfetchable \union broken, TaskFails(p)
        PROVE  IInv'
    <3>1. p \in Projects
      BY SourceFetchAssumption DEF IInv, TypeOK
    <3> QED
      BY <2>5, <3>1, TaskSteps
  <2>6. CASE ServerKeepsDate \/ UpdaterKeepsDate
    BY <2>6, KeepsDateKeeps
  <2> QED
    BY <1>3, <2>1, <2>2, <2>3, <2>4, <2>5, <2>6 DEF FetchLoop
<1>4. CASE FailedCall
  BY <1>4, QueryFailsKeeps, TaskSteps DEF FailedCall
<1>5. CASE Crash
  BY <1>5, CrashKeeps
<1> QED
  BY <1>1, <1>2, <1>3, <1>4, <1>5 DEF FetchNext

THEOREM FetchInvariant == Spec => []IInv
<1>1. IInv /\ [FetchNext]_fetch_vars => IInv'
  BY NextIInv
<1> QED
  BY InitIInv, <1>1, PTL DEF Spec

\* The state of rounds is well formed: there are fetches only in the last part
\* of a round, whatever fails or crashes (clone_or_fetch_repositories).
THEOREM FetchTypeCorrect == Spec => []TypeOK
<1>1. IInv => TypeOK
  BY DEF IInv
<1> QED
  BY FetchInvariant, <1>1, PTL

\* No commit is ever forgotten, for any number of projects, pages and tasks,
\* as long as updated_at lags behind by less than the slack of six minutes
\* (fetch_all_source_repo_changes).
THEOREM FetchMissesNoChange == Spec => []NoChangeIsMissed
<1>1. IInv => NoChangeIsMissed
  BY DEF IInv
<1> QED
  BY FetchInvariant, <1>1, PTL

-----------------------------------------------------------------------------
(***************************************************************************)
(* No clone is fetched twice                                               *)
(***************************************************************************)

\* A project is listed with an activity it has had: the cursor, which only
\* moves to older ones, never comes across it again.
OnceInv ==
    /\ ClonesAreFetchedOnce
    /\ \A r \in results : r.activity <= activity[r.name]

\* What a step leaves of the list, and what it does not start.
LEMMA RestIsFetchedOnce ==
    ASSUME OnceInv, IInv, results' \subseteq results,
           \A p \in Projects : activity'[p] \in Int /\ activity[p] <= activity'[p],
           \A r \in results' : tasks[r.name] = "none" => tasks'[r.name] = "none"
    PROVE  OnceInv'
<1>1. \A r \in results : r.name \in Projects /\ r.activity \in Int
  BY DEF IInv, TypeOK, Listings
<1>2. \A p \in Projects : activity[p] \in Int
  BY DEF IInv, TypeOK
<1>3. ASSUME NEW r \in results'
      PROVE  r.activity <= activity'[r.name]
  <2>1. r.activity <= activity[r.name] /\ r.name \in Projects
    BY <1>1, <1>3 DEF OnceInv
  <2> QED BY <1>1, <1>2, <1>3, <2>1
<1> QED BY <1>3 DEF OnceInv, ClonesAreFetchedOnce

\* A page names none of the projects listed before, and each of its own once.
LEMMA PageIsListedOnce ==
    ASSUME OnceInv, IInv, NEW page \in SUBSET Projects, QueryPage(page)
    PROVE  OnceInv'
<1>1. /\ results' = Listed(page)
      /\ tasks' = tasks /\ activity' = activity
      /\ pc # "fetch" /\ page \subseteq Unlisted
  BY DEF QueryPage, IsPage, gitlab
<1>2. \A p \in Projects : tasks[p] = "none" /\ activity[p] \in Int
  BY <1>1, TasksAreFetches DEF IInv, TypeOK
<1>3. \A r \in results : r.name \in Projects /\ r.activity \in Int
  BY DEF IInv, TypeOK, Listings
<1>4. \A p \in page : \A r \in results : r.name # p
  BY <1>1, <1>2, <1>3 DEF Unlisted, OnceInv
<1>5. \A r \in results' :
        \/ r \in results
        \/ \E p \in page : r = [name |-> p, activity |-> activity[p],
                                updated_at |-> updated_at[p]]
  BY <1>1 DEF Listed, Changed
<1>6. \A r, s \in results' : s.name = r.name => s = r
  BY <1>4, <1>5 DEF OnceInv, ClonesAreFetchedOnce
<1>7. \A r \in results' : r.name \in Projects /\ r.activity <= activity[r.name]
  BY <1>2, <1>3, <1>5 DEF OnceInv
<1> QED
  BY <1>1, <1>2, <1>6, <1>7 DEF OnceInv, ClonesAreFetchedOnce

LEMMA SpawnedTaskIsTheOnly ==
    ASSUME OnceInv, IInv, NEW r \in results, SpawnTask(r)
    PROVE  OnceInv'
<1>1. /\ results' = results \ {r} /\ activity' = activity
      /\ tasks' = [tasks EXCEPT ![r.name] = "running"]
  BY DEF SpawnTask, gitlab
<1>2. \A s \in results' : s.name # r.name /\ s.name \in Projects
  BY <1>1 DEF OnceInv, ClonesAreFetchedOnce, IInv, TypeOK, Listings
<1>3. tasks \in [Projects -> {"none", "running", "ok", "failed"}]
  BY DEF IInv, TypeOK
<1>4. \A s \in results' : tasks[s.name] = "none" => tasks'[s.name] = "none"
  BY <1>1, <1>2, <1>3
<1>5. \A p \in Projects : activity'[p] \in Int /\ activity[p] <= activity'[p]
  BY <1>1 DEF IInv, TypeOK
<1> QED
  BY <1>1, <1>4, <1>5, RestIsFetchedOnce

\* Other steps list nothing and start nothing, and activity only grows.
LEMMA OtherStepsListNothing ==
    ASSUME IInv,
           \/ Gitlab \/ UpdaterFails \/ FailedCall \/ Crash \/ UNCHANGED fetch_vars
           \/ ServerKeepsDate \/ UpdaterKeepsDate
           \/ \E p \in Projects : TaskFetches(p) \/ JoinTask(p) \/ JoinFailedTask(p) \/ TaskFails(p)
    PROVE  /\ results' \subseteq results
           /\ \A p \in Projects : activity'[p] \in Int /\ activity[p] <= activity'[p]
           /\ \A r \in results' : tasks[r.name] = "none" => tasks'[r.name] = "none"
<1>1. /\ tasks \in [Projects -> {"none", "running", "ok", "failed"}]
      /\ activity \in [Projects -> Nat] /\ time \in Nat
      /\ \A p \in Projects : activity[p] <= time
      /\ \A r \in results : r.name \in Projects
  BY DEF IInv, TypeOK, DatesOfProjects, Listings
<1>2. CASE Gitlab
  <2>1. results' = results /\ tasks' = tasks
    BY <1>2 DEF Gitlab, Push, EditProject, round
  <2>2. ASSUME NEW p \in Projects, NEW updated, Push(p, updated)
        PROVE  \A q \in Projects : activity'[q] \in Int /\ activity[q] <= activity'[q]
    <3>1. activity' = [activity EXCEPT ![p] = time'] /\ time' = time + 1
      BY <2>2 DEF Push
    <3>2. \A q \in Projects : activity'[q] = IF q = p THEN time + 1 ELSE activity[q]
      BY <1>1, <3>1
    <3> QED BY <1>1, <3>2
  <2>3. ASSUME NEW p \in Projects, EditProject(p)
        PROVE  \A q \in Projects : activity'[q] \in Int /\ activity[q] <= activity'[q]
    <3>1. activity' = activity
      BY <2>3 DEF EditProject
    <3> QED BY <1>1, <3>1
  <2> QED BY <1>2, <2>1, <2>2, <2>3 DEF Gitlab
<1>3. CASE ~Gitlab
  <2>1. activity' = activity
    BY <1>3 DEF UpdaterFails, FailedCall, QueryFails, Crash, fetch_vars, gitlab, ServerKeepsDate,
       UpdaterKeepsDate, TaskFetches, JoinTask, JoinFailedTask, TaskFails
  <2>2. results' = results \/ results' = {}
    BY <1>3 DEF UpdaterFails, FailedCall, QueryFails, Crash, fetch_vars, round, ServerKeepsDate,
       UpdaterKeepsDate, TaskFetches, JoinTask, JoinFailedTask, TaskFails
  <2>3. \A p \in Projects : tasks[p] = "none" => tasks'[p] = "none"
    <3>1. CASE tasks' = tasks \/ tasks' = NoTasks
      BY <3>1 DEF NoTasks
    <3>2. ASSUME NEW p \in Projects, TaskFetches(p) \/ JoinTask(p) \/ TaskFails(p)
          PROVE  \A q \in Projects : tasks[q] = "none" => tasks'[q] = "none"
      <4>1. tasks[p] # "none" /\ \E phase : tasks' = [tasks EXCEPT ![p] = phase]
        BY <3>2 DEF TaskFetches, JoinTask, TaskFails
      <4> QED BY <1>1, <4>1
    <3> QED
      BY <1>3, <3>1, <3>2 DEF UpdaterFails, FailedCall, QueryFails, Crash, fetch_vars, round,
         ServerKeepsDate, UpdaterKeepsDate, JoinFailedTask
  <2> QED BY <1>1, <2>1, <2>2, <2>3
<1> QED BY <1>2, <1>3

\* The pages of GitLab's list follow a cursor: a project that moves to the front
\* meanwhile is behind it, and never gets two tasks on one clone
\* (get_changed_projects_since, clone_or_fetch_repositories).
THEOREM FetchesClonesOnce == Spec => []ClonesAreFetchedOnce
<1>1. Init => OnceInv
  BY DEF Init, OnceInv, ClonesAreFetchedOnce
<1>2. IInv /\ OnceInv /\ [FetchNext]_fetch_vars => OnceInv'
  <2> SUFFICES ASSUME IInv, OnceInv, [FetchNext]_fetch_vars
               PROVE  OnceInv'
    OBVIOUS
  <2>1. ASSUME NEW page \in SUBSET Projects, QueryPage(page)
        PROVE  OnceInv'
    BY <2>1, PageIsListedOnce
  <2>2. ASSUME NEW r \in results, SpawnTask(r)
        PROVE  OnceInv'
    BY <2>2, SpawnedTaskIsTheOnly
  <2>3. CASE \/ Gitlab \/ UpdaterFails \/ FailedCall \/ Crash \/ UNCHANGED fetch_vars
             \/ ServerKeepsDate \/ UpdaterKeepsDate
             \/ \E p \in Projects : TaskFetches(p) \/ JoinTask(p) \/ JoinFailedTask(p) \/ TaskFails(p)
    BY <2>3, OtherStepsListNothing, RestIsFetchedOnce
  <2>4. Unfetchable \union broken \subseteq Projects
    BY SourceFetchAssumption DEF IInv, TypeOK
  <2> QED
    BY <2>1, <2>2, <2>3, <2>4 DEF FetchNext, FetchLoop
<1>3. OnceInv => ClonesAreFetchedOnce
  BY DEF OnceInv
<1> QED
  BY <1>1, <1>2, <1>3, FetchInvariant, PTL DEF Spec
=============================================================================
