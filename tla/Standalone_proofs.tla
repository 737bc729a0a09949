--------------------------- MODULE Standalone_proofs ---------------------------
(***************************************************************************)
(* Proofs about the components whose behaviour needs nobody else of this   *)
(* project: the window of an ECS roll, the remote build, the transfers of  *)
(* database dumps and the older deployment pipeline, each for every value  *)
(* of its constants; and the type correctness of MCStandalone, where one   *)
(* of them moves while the others stay as they are.                        *)
(***************************************************************************)
EXTENDS MCStandalone, DevHostRegistry_proofs, TLAPS

-----------------------------------------------------------------------------
(***************************************************************************)
(* RollWindow.                                                             *)
(* For every replica count and all percentages a user may write: an accepted*)
(* configuration never wedges, no configuration is refused that could have *)
(* rolled, and the hints of a refusal are tight.                           *)
(***************************************************************************)

LEMMA OverrideTyped ==
  ASSUME NEW o \in Overrides
  PROVE  DOMAIN o \subseteq Keys /\ \A k \in DOMAIN o : o[k] \in Int
<1>1. CASE o = <<>>
  BY <1>1
<1>2. ASSUME NEW m \in MinPercents, o = [min |-> m]
      PROVE  DOMAIN o \subseteq Keys /\ \A k \in DOMAIN o : o[k] \in Int
  BY <1>2, BoundsAssumption DEF Keys
<1>3. ASSUME NEW x \in MaxPercents, o = [max |-> x]
      PROVE  DOMAIN o \subseteq Keys /\ \A k \in DOMAIN o : o[k] \in Int
  BY <1>3, BoundsAssumption DEF Keys
<1>4. ASSUME NEW m \in MinPercents, NEW x \in MaxPercents, o = [min |-> m, max |-> x]
      PROVE  DOMAIN o \subseteq Keys /\ \A k \in DOMAIN o : o[k] \in Int
  BY <1>4, BoundsAssumption DEF Keys
<1> QED
  BY <1>1, <1>2, <1>3, <1>4 DEF Overrides

LEMMA ReplicasTyped ==
  ASSUME NEW s \in WindowServices
  PROVE  s.replicas \in Nat
BY BoundsAssumption DEF WindowServices

LEMMA PercentsTyped ==
  ASSUME NEW s \in WindowServices
  PROVE  Percents(s).min \in Int /\ Percents(s).max \in Int
BY OverrideTyped DEF WindowServices, Percents, DefaultPercents, Keys

(* Rounding stays on the right side of the desired count. *)
LEMMA MinWithin ==
  ASSUME NEW r \in Nat, NEW p \in 0..100
  PROVE  MinRunning(r, p) \in Int /\ MinRunning(r, p) <= r
<1>1. r * p <= r * 100
  OBVIOUS
<1>2. r * p \in Int
  OBVIOUS
<1> QED
  BY <1>1, <1>2 DEF MinRunning

LEMMA MaxBeyond ==
  ASSUME NEW r \in Nat, NEW p \in Int, p >= 100
  PROVE  MaxRunning(r, p) \in Int /\ MaxRunning(r, p) >= r
<1>1. r * p >= r * 100
  OBVIOUS
<1>2. r * p \in Int
  OBVIOUS
<1> QED
  BY <1>1, <1>2 DEF MaxRunning

(* What acceptance guarantees of a service with at least one replica. *)
LEMMA AcceptedWindow ==
  ASSUME NEW s \in WindowServices, ~PercentsRejected(s), s.replicas >= 1
  PROVE  /\ Percents(s).min \in 0..100
         /\ Percents(s).max \in Int /\ Percents(s).max >= 100
         /\ Rollable(s.replicas, Percents(s).min, Percents(s).max)
<1>1. CASE DOMAIN s.override # {}
  BY <1>1, PercentsTyped DEF PercentsRejected
<1>2. CASE DOMAIN s.override = {}
  <2>1. Percents(s).min = DefaultPercents(s).min /\ Percents(s).max = DefaultPercents(s).max
    BY <1>2 DEF Percents, Keys
  <2>2. s.replicas \in Nat
    BY ReplicasTyped
  <2>3. CASE IsStateful(s)
    BY <2>1, <2>2, <2>3 DEF DefaultPercents, Rollable, MinRunning, MaxRunning
  <2>4. CASE ~IsStateful(s)
    BY <2>1, <2>2, <2>4 DEF DefaultPercents, Rollable, MinRunning, MaxRunning
  <2> QED
    BY <2>3, <2>4
<1> QED
  BY <1>1, <1>2

LEMMA WindowStarts == WindowInit => WindowTypeOK
BY ReplicasTyped DEF WindowInit, WindowTypeOK

LEMMA WindowStep == WindowTypeOK /\ [WindowNext]_windowVars => WindowTypeOK'
<1> SUFFICES ASSUME WindowTypeOK, [WindowNext]_windowVars PROVE WindowTypeOK'
  OBVIOUS
<1>1. spec.replicas \in Nat
  BY ReplicasTyped DEF WindowTypeOK
<1>2. CASE StartNew
  BY <1>1, <1>2 DEF StartNew, CanStart, WindowTypeOK
<1>3. CASE StopOld
  BY <1>1, <1>3 DEF StopOld, CanStop, WindowTypeOK
<1>4. CASE UNCHANGED windowVars
  BY <1>4 DEF windowVars, WindowTypeOK
<1> QED
  BY <1>2, <1>3, <1>4 DEF WindowNext

(* The counts stay between nothing and the desired count. *)
THEOREM WindowTyped == WindowSpec => []WindowTypeOK
BY WindowStarts, WindowStep, PTL DEF WindowSpec

(* Whatever _deployment_percents accepts can be rolled to the end, for any number of
   replicas and any percentages (provider.py 672-711). *)
THEOREM NeverWedges == WindowSpec => []AcceptedNeverWedges
<1>1. WindowTypeOK => AcceptedNeverWedges
  <2> SUFFICES ASSUME WindowTypeOK, PercentsAccepted, ~RollFinished PROVE CanStart \/ CanStop
    BY DEF AcceptedNeverWedges
  <2> DEFINE r == spec.replicas
  <2>1. spec \in WindowServices /\ r \in Nat /\ old \in 0..r /\ new \in 0..r
    BY ReplicasTyped DEF WindowTypeOK
  <2>2. r >= 1
    BY <2>1 DEF RollFinished
  <2>3. /\ Percents(spec).min \in 0..100
        /\ Percents(spec).max \in Int /\ Percents(spec).max >= 100
        /\ Rollable(r, Percents(spec).min, Percents(spec).max)
    BY <2>1, <2>2, AcceptedWindow DEF PercentsAccepted
  <2>4. Lo \in Int /\ Lo <= r
    BY <2>1, <2>3, MinWithin DEF Lo
  <2>5. Hi \in Int /\ Hi >= r
    BY <2>1, <2>3, MaxBeyond DEF Hi
  <2>6. Hi >= r + 1 \/ r - 1 >= Lo
    BY <2>3 DEF Rollable, Lo, Hi
  <2> HIDE DEF r
  <2>7. old > 0 \/ new < r
    BY <2>1 DEF RollFinished, r
  <2> QED
    BY <2>1, <2>4, <2>5, <2>6, <2>7 DEF CanStart, CanStop, r
<1> QED
  BY <1>1, WindowTyped, PTL

(* And nothing is refused that need not be: a stateless configuration within bounds is
   rejected only if ECS could not make the first step (provider.py 685-711). *)
THEOREM RefusesOnlyStuck == WindowSpec => []RefusedOnlyWhenStuck
<1>1. WindowTypeOK => RefusedOnlyWhenStuck
  <2> DEFINE p == Percents(spec)
  <2> SUFFICES ASSUME WindowTypeOK, ~PercentsAccepted, ~IsStateful(spec), p.min \in 0..100, p.max >= 100,
                      old = spec.replicas, new = 0
               PROVE  ~CanStart /\ ~CanStop
    BY DEF RefusedOnlyWhenStuck
  <2>1. spec \in WindowServices /\ spec.replicas \in Nat /\ p.max \in Int
    BY ReplicasTyped, PercentsTyped DEF WindowTypeOK
  <2>2. DOMAIN spec.override \subseteq Keys
    BY <2>1, OverrideTyped DEF WindowServices
  <2>3. ~Rollable(spec.replicas, p.min, p.max)
    BY <2>1, <2>2 DEF PercentsAccepted, PercentsRejected
  <2>4. MinRunning(spec.replicas, p.min) \in Int /\ MaxRunning(spec.replicas, p.max) \in Int
    BY <2>1, MinWithin, MaxBeyond
  <2> QED
    BY <2>1, <2>3, <2>4 DEF Rollable, CanStart, CanStop, Lo, Hi
<1> QED
  BY <1>1, WindowTyped, PTL

(* Both directions at once. *)
THEOREM RefusesExactly == WindowSpec => []RefusalIsExact
BY NeverWedges, RefusesOnlyStuck, PTL DEF RefusalIsExact

(* The two roundings, as inequalities between products. *)
LEMMA Quotient ==
  ASSUME NEW a \in Int, NEW b \in Nat, b >= 1
  PROVE  a \div b \in Int /\ b * (a \div b) <= a /\ a < b * (a \div b) + b
OBVIOUS

LEMMA Percent ==
  ASSUME NEW a \in Int, NEW n \in Int
  PROVE  ((a + 99) \div 100 <= n <=> a <= n * 100) /\ (a \div 100 >= n <=> a >= n * 100)
OBVIOUS

LEMMA MinFits ==
  ASSUME NEW r \in Nat, NEW pct \in Int
  PROVE  MinRunning(r, pct) <= r - 1 <=> r * pct <= (r - 1) * 100
<1>1. r * pct \in Int
  OBVIOUS
<1> QED
  BY <1>1, Percent DEF MinRunning

LEMMA MaxFits ==
  ASSUME NEW r \in Nat, NEW pct \in Int
  PROVE  MaxRunning(r, pct) >= r + 1 <=> r * pct >= (r + 1) * 100
<1>1. r * pct \in Int
  OBVIOUS
<1> QED
  BY <1>1, Percent DEF MaxRunning

LEMMA WindowCounts ==
  ASSUME NEW r \in Nat, NEW pct \in Int
  PROVE  MinRunning(r, pct) \in Int /\ MaxRunning(r, pct) \in Int
<1>1. r * pct \in Int
  OBVIOUS
<1> QED
  BY <1>1 DEF MinRunning, MaxRunning

(* Under a window of exactly the desired count a roll cannot begin. *)
LEMMA NoRoomAtAll ==
  ASSUME NEW r \in Nat, r >= 1
  PROVE  ~(MaxRunning(r, 100) >= r + 1) /\ ~(MinRunning(r, 100) <= r - 1)
BY MinFits, MaxFits

(* The suggested maximum is the least percentage that makes room for one more task. *)
LEMMA LeastMax ==
  ASSUME NEW r \in Nat, r >= 1
  PROVE  LET least == SmallestRollableMax(r)
         IN  least \in Int /\ r * least >= (r + 1) * 100 /\ r * (least - 1) < (r + 1) * 100
<1> DEFINE a == (r + 1) * 100 + r - 1
           least == a \div r
<1>1. a \in Int /\ least \in Int /\ r * least <= a /\ a < r * least + r
  BY Quotient
<1> HIDE DEF least
<1>2. r * least \in Int /\ r * (least - 1) = r * least - r
  BY <1>1
<1>3. r * least >= (r + 1) * 100
  BY <1>1, <1>2
<1>4. r * (least - 1) < (r + 1) * 100
  BY <1>1, <1>2
<1> QED
  BY <1>1, <1>3, <1>4 DEF least, SmallestRollableMax

(* The suggested minimum is the greatest one that lets a task be stopped first. *)
LEMMA GreatestMin ==
  ASSUME NEW r \in Nat, r >= 1
  PROVE  LET most == LargestRollableMin(r)
         IN  most \in Int /\ MinRunning(r, most) <= r - 1 /\ ~(MinRunning(r, most + 1) <= r - 1)
<1> DEFINE a == (r - 1) * 100
           top == a \div r
           fits == {pct \in 0..100 : MinRunning(r, pct) <= r - 1}
<1>1. a \in Nat /\ top \in Int /\ r * top <= a /\ a < r * top + r
  BY Quotient
<1> HIDE DEF top
<1>2. top >= 0
  <2>1. SUFFICES ASSUME top <= -1 PROVE FALSE
    BY <1>1
  <2>2. r * top <= r * (-1)
    BY <1>1, <2>1
  <2>3. r * top \in Int
    BY <1>1
  <2> QED
    BY <1>1, <2>2, <2>3
<1>3. top < 100
  <2>1. SUFFICES ASSUME top >= 100 PROVE FALSE
    BY <1>1
  <2>2. r * top >= r * 100
    BY <1>1, <2>1
  <2>3. r * top \in Int
    BY <1>1
  <2> QED
    BY <1>1, <2>2, <2>3
<1>4. top \in fits
  BY <1>1, <1>2, <1>3, MinFits
<1>5. ASSUME NEW q \in Int, q > top PROVE ~(MinRunning(r, q) <= r - 1)
  <2>1. r * q >= r * (top + 1)
    BY <1>1, <1>5
  <2>2. r * (top + 1) = r * top + r /\ r * top \in Int /\ r * q \in Int
    BY <1>1
  <2>3. r * q > a
    BY <1>1, <2>1, <2>2
  <2> QED
    BY <2>3, MinFits
<1>6. LargestRollableMin(r) = top
  <2>1. LargestRollableMin(r) = CHOOSE pct \in fits : \A q \in fits : q <= pct
    BY <1>4 DEF LargestRollableMin
  <2>2. \A q \in fits : q <= top
    BY <1>1, <1>5
  <2>3. \A pct \in fits : (\A q \in fits : q <= pct) => pct = top
    BY <1>1, <1>4, <2>2
  <2> HIDE DEF fits
  <2> QED
    BY <1>4, <2>1, <2>2, <2>3
<1> QED
  BY <1>1, <1>4, <1>5, <1>6

(* Both numbers a refusal suggests make the service rollable and cannot be improved by one,
   for any number of replicas and any percentages (provider.py 716-738). *)
THEOREM HintsTight == WindowSpec => []HintsAreTight
<1>1. WindowTypeOK => HintsAreTight
  <2> DEFINE r == spec.replicas
             least == SmallestRollableMax(r)
             most == LargestRollableMin(r)
  <2> SUFFICES ASSUME WindowTypeOK, r >= 1
               PROVE  /\ Rollable(r, most, Percents(spec).max)
                      /\ Rollable(r, Percents(spec).min, least)
                      /\ ~Rollable(r, most + 1, 100)
                      /\ ~Rollable(r, 100, least - 1)
    BY DEF HintsAreTight
  <2>1. r \in Nat
    BY ReplicasTyped DEF WindowTypeOK
  <2> HIDE DEF r
  <2>2. most \in Int /\ MinRunning(r, most) <= r - 1 /\ ~(MinRunning(r, most + 1) <= r - 1)
    BY <2>1, GreatestMin
  <2>3. least \in Int /\ MaxRunning(r, least) >= r + 1 /\ ~(MaxRunning(r, least - 1) >= r + 1)
    <3>1. least \in Int /\ r * least >= (r + 1) * 100 /\ r * (least - 1) < (r + 1) * 100
      BY <2>1, LeastMax
    <3>2. r * (least - 1) \in Int /\ (r + 1) * 100 \in Int
      BY <2>1, <3>1
    <3> HIDE DEF least
    <3> QED
      BY <2>1, <3>1, <3>2, MaxFits
  <2>4. ~(MaxRunning(r, 100) >= r + 1) /\ ~(MinRunning(r, 100) <= r - 1)
    BY <2>1, NoRoomAtAll
  <2> QED
    BY <2>1, <2>2, <2>3, <2>4, WindowCounts DEF Rollable
<1> QED
  BY <1>1, WindowTyped, PTL

-----------------------------------------------------------------------------
(***************************************************************************)
(* CodeBuildBackend.                                                       *)
(* For any calls and specs, any number of log pages and any failures: every*)
(* step of the remote build is a step of the contract of BuildBackend, or  *)
(* leaves it unchanged.  What the refinement needs is that a build runs only*)
(* for a call that started it.                                             *)
(***************************************************************************)

\* The steps of a call before its build exists, and all steps.
Unbuilt == {"waiting", "bucket", "create bucket", "upload", "project", "create project", "start"}
CallSteps == Unbuilt \cup {"poll", "drain", "final drain", "ended", "returned", "raised"}

\* A build runs only for a call that has started it, and a call returns only with all of it.
BuildSound ==
  \A c \in Calls :
    /\ atStep[c] \in Unbuilt => buildStatus[c] = "none"
    /\ buildStatus[c] = "SUCCEEDED" => inEcr[c] = Specs
    /\ atStep[c] = "returned" => buildStatus[c] = "SUCCEEDED"

SharedTyped == bucket \in {"none", "mine", "theirs"} /\ cbProject \in BOOLEAN
BuildTyped ==
  /\ atStep \in [Calls -> CallSteps]
  /\ buildStatus \in [Calls -> {"none", "IN_PROGRESS", "SUCCEEDED", "FAILED"}]
  /\ inEcr \in [Calls -> SUBSET Specs]
\* The passes stop one short of the last.
LogTyped ==
  /\ unread \in [Calls -> 0..MaxUnread] /\ late \in [Calls -> BOOLEAN]
  /\ passes \in [Calls -> 0..(EmptyTries - 1)] /\ gotPage \in [Calls -> BOOLEAN]

\* The inductive invariant of the remote build.
BackendInv == SharedTyped /\ BuildTyped /\ LogTyped /\ BuildSound

LEMMA BackendTyped == BackendInv => CodeBuildTypeOK
<1> SUFFICES ASSUME BackendInv PROVE CodeBuildTypeOK
  OBVIOUS
<1>1. passes \in [Calls -> 0..EmptyTries]
  BY BackendAssumption DEF BackendInv, LogTyped
<1> QED
  BY <1>1 DEF BackendInv, SharedTyped, BuildTyped, LogTyped, CallSteps, Unbuilt,
         CodeBuildTypeOK

LEMMA BackendStarts == CodeBuildInit => BackendInv
<1> SUFFICES ASSUME CodeBuildInit PROVE BackendInv
  OBVIOUS
<1>1. SharedTyped /\ BuildTyped /\ BuildSound
  BY DEF CodeBuildInit, SharedTyped, BuildTyped, BuildSound, CallSteps, Unbuilt
<1>2. unread \in [Calls -> 0..MaxUnread] /\ passes \in [Calls -> 0..(EmptyTries - 1)]
  BY BackendAssumption DEF CodeBuildInit
<1>3. late \in [Calls -> BOOLEAN] /\ gotPage \in [Calls -> BOOLEAN]
  BY DEF CodeBuildInit
<1> QED
  BY <1>1, <1>2, <1>3 DEF BackendInv, LogTyped

LEMMA NoDrainTyped ==
  ASSUME LogTyped, NEW c \in Calls, NoDrain(c) \/ UNCHANGED cbLog
  PROVE  LogTyped'
<1>1. CASE NoDrain(c)
  <2>1. unread' \in [Calls -> 0..MaxUnread] /\ passes' \in [Calls -> 0..(EmptyTries - 1)]
    BY <1>1, BackendAssumption DEF LogTyped, NoDrain
  <2>2. late' \in [Calls -> BOOLEAN] /\ gotPage' \in [Calls -> BOOLEAN]
    BY <1>1 DEF LogTyped, NoDrain
  <2> QED
    BY <2>1, <2>2 DEF LogTyped
<1>2. CASE UNCHANGED cbLog
  BY <1>2 DEF LogTyped, cbLog
<1> QED
  BY <1>1, <1>2

\* A call that goes from one step to another while no build moves.
LEMMA CallMoves ==
  ASSUME BuildTyped, BuildSound, NEW c \in Calls, NEW to \in CallSteps,
         atStep' = [atStep EXCEPT ![c] = to], UNCHANGED cbBuild,
         to \in Unbuilt => atStep[c] \in Unbuilt,
         to = "returned" => buildStatus[c] = "SUCCEEDED"
  PROVE  BuildTyped' /\ BuildSound'
BY DEF BuildTyped, BuildSound, cbBuild

LEMMA BackendStep == BackendInv /\ [CodeBuildNext]_cbVars => BackendInv'
<1> SUFFICES ASSUME BackendInv, [CodeBuildNext]_cbVars PROVE BackendInv'
  OBVIOUS
<1>0. SharedTyped /\ BuildTyped /\ LogTyped /\ BuildSound
  BY DEF BackendInv
<1>1. ASSUME NEW c \in Calls, PackageContext(c) \/ HeadBucket(c) \/ DescribeProject(c)
                              \/ PollBuild(c) \/ Conclude(c) \/ CallRaises(c)
      PROVE  BackendInv'
  <2>1. UNCHANGED <<cbShared, cbBuild, cbLog>>
    BY <1>1 DEF PackageContext, HeadBucket, DescribeProject, PollBuild, Conclude, CallRaises
  <2>2. \E to \in CallSteps :
          /\ atStep' = [atStep EXCEPT ![c] = to]
          /\ to \in Unbuilt => atStep[c] \in Unbuilt
          /\ to = "returned" => buildStatus[c] = "SUCCEEDED"
    BY <1>1 DEF PackageContext, HeadBucket, DescribeProject, PollBuild, Conclude,
           CallRaises, Goes, CallSteps, Unbuilt
  <2>3. BuildTyped' /\ BuildSound'
    BY <1>0, <2>1, <2>2, CallMoves
  <2> QED
    BY <1>0, <2>1, <2>3, NoDrainTyped DEF BackendInv, SharedTyped, cbShared
<1>2. ASSUME NEW c \in Calls, CreateBucket(c) \/ UploadContext(c) \/ CreateProject(c)
      PROVE  BackendInv'
  <2>1. UNCHANGED <<cbBuild, cbLog>> /\ SharedTyped'
    BY <1>0, <1>2 DEF CreateBucket, UploadContext, CreateProject, SharedTyped, cbShared
  <2>2. \E to \in CallSteps :
          /\ atStep' = [atStep EXCEPT ![c] = to]
          /\ to \in Unbuilt => atStep[c] \in Unbuilt
          /\ to = "returned" => buildStatus[c] = "SUCCEEDED"
    BY <1>2 DEF CreateBucket, UploadContext, CreateProject, Goes, CallSteps, Unbuilt
  <2>3. BuildTyped' /\ BuildSound'
    BY <1>0, <2>1, <2>2, CallMoves
  <2> QED
    BY <1>0, <2>1, <2>3, NoDrainTyped DEF BackendInv
<1>3. ASSUME NEW c \in Calls, Drained(c), atStep[c] \in Drains, UNCHANGED <<cbShared, cbBuild>>
      PROVE  BackendInv'
  <2>1. \E to \in CallSteps :
          /\ atStep' = [atStep EXCEPT ![c] = to]
          /\ to \in Unbuilt => atStep[c] \in Unbuilt
          /\ to = "returned" => buildStatus[c] = "SUCCEEDED"
    <3>1. CASE atStep[c] = "drain"
      BY <1>3, <3>1 DEF Drained, CallSteps, Unbuilt
    <3>2. CASE atStep[c] # "drain"
      BY <1>3, <3>2 DEF Drained, CallSteps, Unbuilt
    <3> QED
      BY <3>1, <3>2
  <2>2. BuildTyped' /\ BuildSound'
    BY <1>0, <1>3, <2>1, CallMoves
  <2> QED
    BY <1>0, <1>3, <2>2, NoDrainTyped DEF BackendInv, Drained, SharedTyped, cbShared
<1>4. ASSUME NEW c \in Calls, CallKilled(c)
      PROVE  BackendInv'
  <2>1. "raised" \in CallSteps /\ "raised" \notin Unbuilt
    BY DEF CallSteps, Unbuilt
  <2>2. BuildTyped' /\ BuildSound'
    BY <1>0, <1>4, <2>1, CallMoves DEF CallKilled
  <2> QED
    BY <1>0, <1>4, <2>2, NoDrainTyped DEF BackendInv, CallKilled, SharedTyped, cbShared
<1>5. ASSUME NEW c \in Calls, StartBuild(c)
      PROVE  BackendInv'
  <2>1. BuildTyped' /\ BuildSound'
    BY <1>0, <1>5 DEF StartBuild, Goes, BuildTyped, BuildSound, CallSteps, Unbuilt
  <2> QED
    BY <1>0, <1>5, <2>1, NoDrainTyped DEF BackendInv, StartBuild, SharedTyped, cbShared
<1>6. ASSUME NEW c \in Calls, BuildStep(c)
      PROVE  BackendInv'
  <2>1. UNCHANGED <<cbShared, atStep, cbLog>>
    BY <1>6 DEF BuildStep, BuildPushes, BuildSucceeds, BuildFails
  <2>2. BuildTyped' /\ BuildSound'
    BY <1>0, <1>6 DEF BuildStep, BuildPushes, BuildSucceeds, BuildFails, BuildTyped,
           BuildSound
  <2> QED
    BY <1>0, <2>1, <2>2, NoDrainTyped DEF BackendInv, SharedTyped, cbShared
<1>7. ASSUME UNCHANGED <<cbShared, atStep, cbBuild>>, LogTyped'
      PROVE  BackendInv'
  BY <1>0, <1>7 DEF BackendInv, SharedTyped, BuildTyped, BuildSound, cbShared, cbBuild
<1>8. ASSUME NEW c \in Calls, ReadPage(c)
      PROVE  BackendInv'
  <2>1. CASE Drained(c)
    BY <1>3, <1>8, <2>1 DEF ReadPage
  <2>2. CASE ~Drained(c)
    <3>1. /\ unread' = [unread EXCEPT ![c] = @ - 1] /\ unread[c] > 0
          /\ gotPage' = [gotPage EXCEPT ![c] = atStep[c] = "final drain"]
          /\ UNCHANGED <<cbShared, cbBuild, atStep, late, passes>>
      BY <1>8, <2>2 DEF ReadPage
    <3>2. unread' \in [Calls -> 0..MaxUnread]
      <4>1. unread[c] - 1 \in 0..MaxUnread
        <5>1. unread[c] \in 0..MaxUnread /\ MaxUnread \in Nat
          BY <1>0, BackendAssumption DEF LogTyped
        <5>2. unread[c] > 0
          BY <3>1
        <5> QED
          BY <5>1, <5>2
      <4> QED
        BY <1>0, <3>1, <4>1 DEF LogTyped
    <3>3. gotPage' \in [Calls -> BOOLEAN]
      BY <1>0, <3>1 DEF LogTyped
    <3> QED
      BY <1>0, <1>7, <3>1, <3>2, <3>3 DEF LogTyped
  <2> QED
    BY <2>1, <2>2
<1>9. ASSUME NEW c \in Calls, FinalPassEnds(c)
      PROVE  BackendInv'
  <2>1. CASE Drained(c)
    BY <1>3, <1>9, <2>1 DEF FinalPassEnds, Drains
  <2>2. CASE ~Drained(c)
    <3> DEFINE empty == IF gotPage[c] THEN 0 ELSE passes[c] + 1
    <3>1. /\ passes' = [passes EXCEPT ![c] = empty] /\ empty # EmptyTries
          /\ gotPage' = [gotPage EXCEPT ![c] = FALSE]
          /\ UNCHANGED <<cbShared, cbBuild, atStep, unread, late>>
      BY <1>9, <2>2 DEF FinalPassEnds
    <3>2. empty \in 0..(EmptyTries - 1)
      BY <1>0, <3>1, BackendAssumption DEF LogTyped
    <3>3. passes' \in [Calls -> 0..(EmptyTries - 1)]
      BY <1>0, <3>1, <3>2 DEF LogTyped
    <3>4. gotPage' \in [Calls -> BOOLEAN]
      BY <1>0, <3>1 DEF LogTyped
    <3> QED
      BY <1>0, <1>7, <3>1, <3>3, <3>4 DEF LogTyped
  <2> QED
    BY <2>1, <2>2
<1>10. ASSUME NEW c \in Calls, CaughtUp(c)
      PROVE  BackendInv'
  BY <1>3, <1>10 DEF CaughtUp, Drains
<1>11. ASSUME NEW c \in Calls, LogArrives(c)
      PROVE  BackendInv'
  <2>1. unread' \in [Calls -> 0..MaxUnread]
    BY <1>0, <1>11, BackendAssumption DEF LogTyped, LogArrives
  <2> QED
    BY <1>0, <1>7, <1>11, <2>1 DEF LogTyped, LogArrives
<1>12. ASSUME NEW c \in Calls, DeadlinePasses(c)
      PROVE  BackendInv'
  <2>1. late' \in [Calls -> BOOLEAN]
    BY <1>0, <1>12 DEF LogTyped, DeadlinePasses
  <2> QED
    BY <1>0, <1>7, <1>12, <2>1 DEF LogTyped, DeadlinePasses
<1>13. CASE UNCHANGED cbVars
  BY <1>0, <1>7, <1>13 DEF cbVars, cbLog, LogTyped
<1> QED
  BY <1>1, <1>2, <1>4, <1>5, <1>6, <1>8, <1>9, <1>10, <1>11, <1>12, <1>13
     DEF CodeBuildNext, ClientStep

\* The invariant holds of every behaviour of any calls, builds and logs.
THEOREM BackendInductive == CodeBuildSpec => []BackendInv
BY BackendStarts, BackendStep, PTL DEF CodeBuildSpec

\* Type correctness of the remote build for any calls and any failures.
THEOREM CodeBuildTypeCorrect == CodeBuildSpec => []CodeBuildTypeOK
BY BackendTyped, BackendInductive, PTL

-----------------------------------------------------------------------------
(* The contract *)

Shown(at) == IF at \in {"waiting", "returned", "raised"} THEN at ELSE "building"

LEMMA OutcomeShown == Outcome = [c \in Calls |-> Shown(atStep[c])]
BY DEF Outcome, Shown

LEMMA OutcomeMoves ==
  ASSUME BuildTyped, NEW c \in Calls, NEW to, atStep' = [atStep EXCEPT ![c] = to]
  PROVE  Outcome' = [Outcome EXCEPT ![c] = Shown(to)]
BY DEF Outcome, Shown, BuildTyped

\* Between two steps that show as "building", the contract sees nothing.
LEMMA OutcomeStays ==
  ASSUME BuildTyped, NEW c \in Calls, NEW to, atStep' = [atStep EXCEPT ![c] = to],
         Shown(to) = Shown(atStep[c]), UNCHANGED cbBuild
  PROVE  UNCHANGED Contract!backendVars
<1>1. UNCHANGED Outcome
  BY DEF Outcome, Shown, BuildTyped
<1> QED
  BY <1>1 DEF Contract!backendVars, cbBuild

LEMMA RaiseMaps ==
  ASSUME BuildTyped, NEW c \in Calls, atStep' = [atStep EXCEPT ![c] = "raised"],
         Shown(atStep[c]) = "building", UNCHANGED cbBuild
  PROVE  Contract!BackendNext
<1>1. Outcome' = [Outcome EXCEPT ![c] = "raised"]
  BY OutcomeMoves DEF Shown
<1>2. Outcome[c] = "building" /\ UNCHANGED inEcr
  BY DEF Outcome, Shown, cbBuild
<1>3. Contract!Raise(c)
  BY <1>1, <1>2 DEF Contract!Raise, Contract!Ends
<1> QED
  BY <1>3 DEF Contract!BackendNext

LEMMA StepMaps ==
  BackendInv /\ [CodeBuildNext]_cbVars => [Contract!BackendNext]_(Contract!backendVars)
<1> SUFFICES ASSUME BackendInv, [CodeBuildNext]_cbVars
             PROVE  Contract!BackendNext \/ UNCHANGED Contract!backendVars
  OBVIOUS
<1>0. BuildTyped /\ BuildSound
  BY DEF BackendInv
<1>1. ASSUME NEW c \in Calls, PackageContext(c) PROVE Contract!BackendNext
  <2>1. Outcome' = [Outcome EXCEPT ![c] = "building"]
    <3>1. Shown("bucket") = "building"
      BY DEF Shown
    <3> QED
      BY <1>0, <1>1, <3>1, OutcomeMoves DEF PackageContext, Goes
  <2>2. Outcome[c] = "waiting" /\ UNCHANGED inEcr
    BY <1>1 DEF PackageContext, Goes, Outcome, cbBuild
  <2> QED
    BY <2>1, <2>2 DEF Contract!BackendNext, Contract!Ask
<1>2. ASSUME NEW c \in Calls, Conclude(c) PROVE Contract!BackendNext
  <2>1. CASE buildStatus[c] = "SUCCEEDED"
    <3>1. Outcome' = [Outcome EXCEPT ![c] = "returned"]
      BY <1>0, <1>2, <2>1, OutcomeMoves DEF Conclude, Goes, Shown
    <3>2. Outcome[c] = "building" /\ UNCHANGED inEcr /\ inEcr[c] = Specs
      BY <1>0, <1>2, <2>1 DEF Conclude, Goes, Outcome, cbBuild, BuildSound
    <3> QED
      BY <3>1, <3>2 DEF Contract!BackendNext, Contract!Return, Contract!Ends
  <2>2. CASE buildStatus[c] # "SUCCEEDED"
    BY <1>0, <1>2, <2>2, RaiseMaps DEF Conclude, Goes, Shown
  <2> QED
    BY <2>1, <2>2
<1>3. ASSUME NEW c \in Calls, BuildStep(c)
      PROVE  Contract!BackendNext \/ UNCHANGED Contract!backendVars
  <2>1. UNCHANGED Outcome /\ buildStatus[c] = "IN_PROGRESS"
    BY <1>3 DEF BuildStep, BuildPushes, BuildSucceeds, BuildFails, Outcome
  <2>2. CASE BuildPushes(c)
    <3>1. PICK s \in Specs \ inEcr[c] : inEcr' = [inEcr EXCEPT ![c] = @ \cup {s}]
      BY <2>2 DEF BuildPushes
    <3>2. Outcome[c] \in {"building", "raised"}
      BY <1>0, <2>1 DEF BuildSound, Unbuilt, Outcome
    <3>3. Contract!Push(c, s)
      BY <2>1, <3>1, <3>2 DEF Contract!Push
    <3> QED
      BY <3>3 DEF Contract!BackendNext
  <2>3. CASE BuildSucceeds(c) \/ BuildFails(c)
    BY <2>1, <2>3 DEF BuildSucceeds, BuildFails, Contract!backendVars
  <2> QED
    BY <1>3, <2>2, <2>3 DEF BuildStep
<1>4. ASSUME NEW c \in Calls, HeadBucket(c) \/ CreateBucket(c) \/ DescribeProject(c)
                              \/ StartBuild(c) \/ PollBuild(c)
      PROVE  UNCHANGED Contract!backendVars
  <2>1. /\ \E to : atStep' = [atStep EXCEPT ![c] = to] /\ Shown(to) = Shown(atStep[c])
        /\ UNCHANGED inEcr
    BY <1>4 DEF HeadBucket, CreateBucket, DescribeProject, StartBuild, PollBuild, Goes,
           Shown, cbBuild
  <2>2. UNCHANGED Outcome
    BY <1>0, <2>1 DEF Outcome, Shown, BuildTyped
  <2> QED
    BY <2>1, <2>2 DEF Contract!backendVars
<1>5. ASSUME NEW c \in Calls, Drained(c), atStep[c] \in Drains, UNCHANGED cbBuild
      PROVE  UNCHANGED Contract!backendVars
  <2>1. /\ \E to : atStep' = [atStep EXCEPT ![c] = to] /\ Shown(to) = Shown(atStep[c])
        /\ UNCHANGED inEcr
    <3>1. CASE atStep[c] = "drain"
      <4>1. atStep' = [atStep EXCEPT ![c] = "poll"] /\ UNCHANGED inEcr
        BY <1>5, <3>1 DEF Drained, cbBuild
      <4>2. Shown("poll") = Shown("drain")
        BY DEF Shown
      <4> QED
        BY <3>1, <4>1, <4>2
    <3>2. CASE atStep[c] = "final drain"
      <4>1. atStep' = [atStep EXCEPT ![c] = "ended"] /\ UNCHANGED inEcr
        BY <1>5, <3>2 DEF Drained, cbBuild
      <4>2. Shown("ended") = Shown("final drain")
        BY DEF Shown
      <4> QED
        BY <3>2, <4>1, <4>2
    <3> QED
      BY <1>5, <3>1, <3>2 DEF Drains
  <2>2. UNCHANGED Outcome
    BY <1>0, <2>1 DEF Outcome, Shown, BuildTyped
  <2> QED
    BY <2>1, <2>2 DEF Contract!backendVars
<1>6. ASSUME NEW c \in Calls, UploadContext(c) \/ CreateProject(c) \/ CallRaises(c) \/ CallKilled(c)
      PROVE  Contract!BackendNext \/ UNCHANGED Contract!backendVars
  <2>1. UNCHANGED cbBuild /\ Shown(atStep[c]) = "building"
    BY <1>6 DEF UploadContext, CreateProject, CallRaises, CallKilled, Goes, Shown
  <2>2. \E to \in {"raised", "project", "start"} : atStep' = [atStep EXCEPT ![c] = to]
    BY <1>6 DEF UploadContext, CreateProject, CallRaises, CallKilled, Goes
  <2>3. CASE atStep' = [atStep EXCEPT ![c] = "raised"]
    BY <1>0, <2>1, <2>3, RaiseMaps
  <2>4. ASSUME NEW to \in {"project", "start"}, atStep' = [atStep EXCEPT ![c] = to]
        PROVE  UNCHANGED Contract!backendVars
    BY <1>0, <2>1, <2>4, OutcomeStays DEF Shown
  <2> QED
    BY <2>2, <2>3, <2>4
<1>7. ASSUME UNCHANGED <<atStep, cbBuild>> PROVE UNCHANGED Contract!backendVars
  BY <1>7 DEF cbBuild, Outcome, Contract!backendVars
<1>8. ASSUME NEW c \in Calls, ReadPage(c) \/ CaughtUp(c) \/ FinalPassEnds(c)
      PROVE  UNCHANGED Contract!backendVars
  BY <1>5, <1>7, <1>8 DEF ReadPage, CaughtUp, FinalPassEnds, Drains
<1>9. ASSUME NEW c \in Calls, LogArrives(c) \/ DeadlinePasses(c)
      PROVE  UNCHANGED Contract!backendVars
  BY <1>7, <1>9 DEF LogArrives, DeadlinePasses
<1>10. CASE UNCHANGED cbVars
  BY <1>7, <1>10 DEF cbVars
<1> QED
  BY <1>1, <1>2, <1>3, <1>4, <1>6, <1>8, <1>9, <1>10 DEF CodeBuildNext, ClientStep

\* AwsCodeBuildBackend.build_and_push keeps the contract of BuildBackend for any calls and
\* specs: what returns has built and pushed everything it was asked for, what cannot raises,
\* and no step of it does anything else to what the contract speaks of.
THEOREM ImplementsBackendSafety == CodeBuildSpec => Contract!BackendSafety
<1>1. CodeBuildInit => Contract!BackendInit
  BY DEF CodeBuildInit, Contract!BackendInit, Outcome
<1> QED
  BY <1>1, StepMaps, BackendInductive, PTL DEF CodeBuildSpec, Contract!BackendSafety

-----------------------------------------------------------------------------
(***************************************************************************)
(* DbTransfers.                                                            *)
(* For any number of backups and pushes into one container, any dump sizes *)
(* and any faults: a backup that is reported complete is one whole dump.   *)
(* The parts a backup has uploaded are the first parts of its own dump as  *)
(* long as no other script shared the container with it, and the status of *)
(* the command says how many there are.                                    *)
(***************************************************************************)

\* Two scripts in the container have mixed.
Apart ==
  \A r, q \in Transfers : r # q /\ InContainer(r) /\ InContainer(q) => r \in mixed

\* The first n parts of the dump of r, each in its place.
PartsUpTo(r, n) ==
  {[at |-> k, is |-> [of |-> r, no |-> k, whole |-> TRUE]] : k \in 1..n}

\* A transfer that has not been given has left no trace; one that has, has begun.
Fresh(r) ==
  IF r > given
  THEN /\ client[r] = "none" /\ script[r] = "none" /\ cut[r] = [done |-> 0, all |-> 0]
       /\ uploads[r] = [open |-> FALSE, parts |-> {}]
  ELSE client[r] # "none" /\ script[r] # "none"

\* Backups dump, cut, upload and verify; pushes unpack and restore.
OfItsKind(r) ==
  /\ script[r] \in {"dump", "cut", "put"} => kindOf[r] = "backup"
  /\ script[r] \in {"unpack", "restore"} => kindOf[r] = "push"
  /\ client[r] \in {"list", "completing", "verify"} => kindOf[r] = "backup"
  /\ kindOf[r] = "push" => ~uploads[r].open /\ uploads[r].parts = {}

\* Where the script of a backup is in its dump.
ScriptSound(r) ==
  /\ script[r] = "dump" => cut[r] = [done |-> 0, all |-> 0] /\ uploads[r].parts = {}
  /\ script[r] \in {"cut", "put"} => cut[r].done < cut[r].all
  /\ r \notin mixed /\ script[r] \in {"cut", "put"} =>
       /\ dumpFile = [of |-> r, parts |-> cut[r].all]
       /\ client[r] = "exec" => uploads[r].parts = PartsUpTo(r, cut[r].done)
  /\ r \notin mixed /\ script[r] = "put" =>
       partFile = [of |-> r, no |-> cut[r].done + 1, whole |-> TRUE]

\* These parts are the whole dump of r.
HasWhole(r, parts) == cut[r].all > 0 /\ parts = PartsUpTo(r, cut[r].all)

\* What a command knows of its upload.
UploadSound(r) ==
  /\ client[r] \in {"verify", "complete", "failed"} => ~uploads[r].open /\ uploads[r].parts = {}
  /\ client[r] \in {"list", "completing", "verify", "complete"} /\ kindOf[r] = "backup" =>
       script[r] = "over"
  /\ r \notin mixed /\ kindOf[r] = "backup" =>
       /\ client[r] = "exec" /\ script[r] = "over" /\ exit[r].code = "0" =>
            HasWhole(r, uploads[r].parts)
       /\ client[r] \in {"list", "completing"} => HasWhole(r, uploads[r].parts)
       /\ client[r] \in {"verify", "complete"} => HasWhole(r, object[r])

TransferSound(r) == Fresh(r) /\ OfItsKind(r) /\ ScriptSound(r) /\ UploadSound(r)
AllSound == \A r \in Transfers : TransferSound(r)

-----------------------------------------------------------------------------
(* Types *)

Files == [of : 0..MaxTransfers, no : 0..Presigned, whole : BOOLEAN]
PartRecords == [at : 1..Presigned, is : Files]

GivenTyped == given \in 0..MaxTransfers /\ kindOf \in [Transfers -> {"backup", "push"}]
ClientTyped ==
  client \in [Transfers -> {"none", "exec", "abort", "list", "completing", "verify",
                            "complete", "failed", "raised"}]
ScriptTyped ==
  script \in [Transfers -> {"none", "dump", "cut", "put", "unpack", "restore", "over"}]
ExitTyped ==
  exit \in [Transfers -> [code : {"running", "0", "1"},
                          restore : {"none", "all", "some", "ignored", "broken"}]]
FilesTyped ==
  dumpFile \in [of : 0..MaxTransfers, parts : 0..Presigned] /\ partFile \in Files
CutTyped == cut \in [Transfers -> [done : 0..Presigned, all : 0..Presigned]]
S3Typed ==
  /\ uploads \in [Transfers -> [open : BOOLEAN, parts : SUBSET PartRecords]]
  /\ object \in [Transfers -> SUBSET PartRecords]
RestoreTyped ==
  /\ unpacked \subseteq Transfers /\ chosen \in [Transfers -> 0..MaxTransfers]
  /\ db \in [of : 0..MaxTransfers, whole : BOOLEAN] /\ leftover \subseteq Transfers
FaultsTyped == transferFaults \in 0..MaxTransferFaults /\ mixed \subseteq Transfers

TransfersTyped ==
  /\ GivenTyped /\ ClientTyped /\ ScriptTyped /\ ExitTyped /\ FilesTyped /\ CutTyped
  /\ S3Typed /\ RestoreTyped /\ FaultsTyped
\* The inductive invariant of the transfers.
TransferInv == TransfersTyped /\ Apart /\ AllSound

LEMMA TransferConstants ==
  /\ MaxTransfers \in Nat /\ MaxTransferFaults \in Nat /\ Presigned \in Nat \ {0}
  /\ DumpSizes \subseteq Nat
BY TransferAssumption

LEMMA TransferTypes == TransferInv => TransfersTypeOK
<1> SUFFICES ASSUME TransferInv PROVE TransfersTypeOK
  OBVIOUS
<1>1. \A r \in Transfers :
        /\ uploads[r].open \in BOOLEAN
        /\ \A p \in uploads[r].parts \cup object[r] : p.at \in 1..Presigned
  BY DEF TransferInv, TransfersTyped, S3Typed, PartRecords
<1> QED
  BY <1>1 DEF TransferInv, TransfersTyped, GivenTyped, ClientTyped, ScriptTyped, ExitTyped,
         FilesTyped, Files, CutTyped, RestoreTyped, FaultsTyped, TransfersTypeOK

LEMMA NothingTyped == NoFile \in Files /\ NoDump \in [of : 0..MaxTransfers, parts : 0..Presigned]
BY TransferConstants DEF NoFile, NoDump, None, Files

LEMMA TransferStarts == TransfersInit => TransferInv
<1> SUFFICES ASSUME TransfersInit PROVE TransferInv
  OBVIOUS
<1>1. GivenTyped /\ ClientTyped /\ ScriptTyped
  BY TransferConstants DEF TransfersInit, GivenTyped, ClientTyped, ScriptTyped
<1>2. ExitTyped
  BY DEF TransfersInit, ExitTyped, Running
<1>3. FilesTyped
  BY NothingTyped DEF TransfersInit, FilesTyped
<1>4. CutTyped
  BY TransferConstants DEF TransfersInit, CutTyped
<1>5. S3Typed
  BY DEF TransfersInit, S3Typed
<1>6. RestoreTyped
  <2>1. chosen \in [Transfers -> 0..MaxTransfers] /\ db.of \in 0..MaxTransfers
    BY TransferConstants DEF TransfersInit, None
  <2> QED
    BY <2>1 DEF TransfersInit, RestoreTyped
<1>7. FaultsTyped
  BY TransferConstants DEF TransfersInit, FaultsTyped
<1>8. Apart
  BY DEF TransfersInit, Apart, InContainer
<1>9. AllSound
  <2>1. \A r \in Transfers : r > given
    BY TransferConstants DEF TransfersInit, Transfers
  <2> QED
    BY <2>1 DEF TransfersInit, AllSound, TransferSound, Fresh, OfItsKind, ScriptSound,
           UploadSound
<1> QED
  BY <1>1, <1>2, <1>3, <1>4, <1>5, <1>6, <1>7, <1>8, <1>9 DEF TransferInv, TransfersTyped

-----------------------------------------------------------------------------
(* A step of one transfer leaves the others sound *)

Frame(r) ==
  /\ UNCHANGED <<given, kindOf>> /\ mixed \subseteq mixed'
  /\ \A q \in Transfers : q # r =>
       /\ client'[q] = client[q] /\ script'[q] = script[q] /\ exit'[q] = exit[q]
       /\ cut'[q] = cut[q] /\ uploads'[q] = uploads[q] /\ object'[q] = object[q]
  /\ script'[r] = script[r] \/ InContainer(r)
  /\ UNCHANGED <<dumpFile, partFile>> \/ InContainer(r)

LEMMA FrameIsSound ==
  ASSUME Apart, AllSound, NEW r \in Transfers, Frame(r), TransferSound(r)'
  PROVE  Apart' /\ AllSound'
<1>1. Apart'
  BY DEF Apart, Frame, InContainer
<1>2. ASSUME NEW q \in Transfers, q # r PROVE TransferSound(q)'
  <2>1. TransferSound(q)
    BY DEF AllSound
  <2>2. InContainer(q) /\ q \notin mixed => UNCHANGED <<dumpFile, partFile>>
    BY <1>2 DEF Apart, Frame
  <2>3. /\ client'[q] = client[q] /\ script'[q] = script[q] /\ exit'[q] = exit[q]
        /\ cut'[q] = cut[q] /\ uploads'[q] = uploads[q] /\ object'[q] = object[q]
        /\ UNCHANGED <<given, kindOf>> /\ (q \notin mixed' => q \notin mixed)
    BY <1>2 DEF Frame
  <2>4. Fresh(q)' /\ OfItsKind(q)' /\ UploadSound(q)'
    BY <2>1, <2>3 DEF TransferSound, Fresh, OfItsKind, UploadSound, HasWhole
  <2>5. ScriptSound(q)'
    <3>1. q \notin mixed' /\ script'[q] \in {"cut", "put"} => UNCHANGED <<dumpFile, partFile>>
      BY <2>2, <2>3 DEF InContainer
    <3> QED
      BY <2>1, <2>3, <3>1 DEF TransferSound, ScriptSound
  <2> QED
    BY <2>4, <2>5 DEF TransferSound
<1> QED
  BY <1>1, <1>2 DEF AllSound

LEMMA FaultsCounted ==
  ASSUME FaultsTyped, Fault \/ NoFault, mixed' \subseteq Transfers
  PROVE  FaultsTyped'
BY TransferConstants DEF FaultsTyped, Fault, NoFault

LEMMA PartsGrow ==
  ASSUME NEW r, NEW n \in Nat
  PROVE  PartsUpTo(r, n + 1) =
           PartsUpTo(r, n) \cup {[at |-> n + 1, is |-> [of |-> r, no |-> n + 1, whole |-> TRUE]]}
<1>1. 1..(n + 1) = (1..n) \cup {n + 1}
  OBVIOUS
<1> QED
  BY <1>1 DEF PartsUpTo

LEMMA NoPartsYet == \A r : PartsUpTo(r, 0) = {}
<1>1. 1..0 = {}
  OBVIOUS
<1> QED
  BY <1>1 DEF PartsUpTo

LEMMA NextPart ==
  ASSUME CutTyped, NEW r \in Transfers, ScriptSound(r), script[r] \in {"cut", "put"}
  PROVE  /\ cut[r].done \in Nat /\ cut[r].all \in 1..Presigned
         /\ cut[r].done + 1 \in 1..cut[r].all /\ cut[r].done + 1 \in 1..Presigned
<1>1. cut[r].done \in 0..Presigned /\ cut[r].all \in 0..Presigned /\ cut[r].done < cut[r].all
  BY DEF CutTyped, ScriptSound
<1> QED
  BY <1>1, TransferConstants

LEMMA StoredTyped ==
  ASSUME S3Typed, FilesTyped, CutTyped, NEW r \in Transfers, ScriptSound(r), script[r] = "put",
         Stored(r), UNCHANGED object
  PROVE  S3Typed'
<1>1. [at |-> cut[r].done + 1, is |-> partFile] \in PartRecords
  BY NextPart DEF PartRecords, FilesTyped
<1> QED
  BY <1>1 DEF S3Typed, Stored

LEMMA TransferStep == TransferInv /\ [TransfersNext]_transferVars => TransferInv'
<1> SUFFICES ASSUME TransferInv, [TransfersNext]_transferVars PROVE TransferInv'
  OBVIOUS
<1> USE TransferConstants
<1>0. /\ GivenTyped /\ ClientTyped /\ ScriptTyped /\ ExitTyped /\ FilesTyped /\ CutTyped
      /\ S3Typed /\ RestoreTyped /\ FaultsTyped
      /\ Apart /\ AllSound
      /\ \A r \in Transfers : TransferSound(r)
  BY DEF TransferInv, TransfersTyped, AllSound
<1>1. ASSUME NEW r \in Transfers, ExecFails(r) PROVE TransferInv'
  <2>1. Frame(r)
    BY <1>0, <1>1 DEF ExecFails, Client, s3Vars, Frame, InContainer
  <2>2. Fresh(r)'
    BY <1>0, <1>1 DEF ExecFails, Client, Fresh, TransferSound
  <2>3. OfItsKind(r)'
    BY <1>0, <1>1 DEF ExecFails, Client, s3Vars, OfItsKind, TransferSound
  <2>4. ScriptSound(r)'
    BY <1>0, <1>1 DEF ExecFails, ScriptSound, ScriptTyped
  <2>5. UploadSound(r)'
    BY <1>0, <1>1 DEF ExecFails, Client, s3Vars, UploadSound, OfItsKind, TransferSound,
           ClientTyped
  <2>6. Apart' /\ AllSound'
    BY <1>0, <2>1, <2>2, <2>3, <2>4, <2>5, FrameIsSound DEF TransferSound
  <2>7. GivenTyped' /\ ClientTyped'
    BY <1>0, <1>1 DEF ExecFails, Client, GivenTyped, ClientTyped
  <2>8. ScriptTyped' /\ ExitTyped'
    BY <1>0, <1>1 DEF ExecFails, ScriptTyped, ExitTyped
  <2>9. FilesTyped' /\ CutTyped'
    BY <1>0, <1>1, NothingTyped DEF ExecFails, FilesTyped, CutTyped
  <2>10. S3Typed'
    BY <1>0, <1>1 DEF ExecFails, s3Vars, S3Typed
  <2>11. RestoreTyped'
    BY <1>0, <1>1 DEF ExecFails, restoreVars, RestoreTyped
  <2>12. FaultsTyped'
    BY <1>0, <1>1, FaultsCounted DEF ExecFails, Client, FaultsTyped
  <2> QED
    BY <2>6, <2>7, <2>8, <2>9, <2>10, <2>11, <2>12 DEF TransferInv, TransfersTyped
<1>2. ASSUME NEW r \in Transfers, ExecReturns(r) PROVE TransferInv'
  <2>1. Frame(r)
    BY <1>0, <1>2 DEF ExecReturns, containerVars, s3Vars, Frame
  <2>2. Fresh(r)'
    BY <1>0, <1>2 DEF ExecReturns, containerVars, Fresh, TransferSound
  <2>3. OfItsKind(r)'
    BY <1>0, <1>2 DEF ExecReturns, containerVars, s3Vars, OfItsKind, TransferSound
  <2>4. ScriptSound(r)'
    BY <1>0, <1>2 DEF ExecReturns, containerVars, ScriptSound
  <2>5. UploadSound(r)'
    <3>1. /\ client[r] = "exec" /\ script[r] = "over"
          /\ UNCHANGED <<kindOf, script, exit, cut, uploads, object, mixed>>
      BY <1>2 DEF ExecReturns, containerVars, s3Vars
    <3>2. CASE kindOf[r] = "backup" /\ exit[r].code = "0"
      <4>1. client'[r] = "list"
        BY <1>0, <1>2, <3>2 DEF ExecReturns, ClientTyped
      <4> QED
        BY <1>0, <3>1, <3>2, <4>1 DEF TransferSound, UploadSound, HasWhole
    <3>3. CASE kindOf[r] = "backup" /\ exit[r].code # "0"
      <4>1. client'[r] = "abort"
        BY <1>0, <1>2, <3>3 DEF ExecReturns, ClientTyped
      <4> QED
        BY <1>0, <3>1, <4>1 DEF TransferSound, UploadSound
    <3>4. CASE kindOf[r] = "push"
      <4>1. client'[r] \in {"complete", "failed"}
        BY <1>0, <1>2, <3>4 DEF ExecReturns, ClientTyped
      <4> QED
        BY <1>0, <3>1, <3>4, <4>1 DEF TransferSound, OfItsKind, UploadSound
    <3> QED
      BY <1>0, <3>2, <3>3, <3>4 DEF GivenTyped
  <2>6. Apart' /\ AllSound'
    BY <1>0, <2>1, <2>2, <2>3, <2>4, <2>5, FrameIsSound DEF TransferSound
  <2>7. GivenTyped' /\ ClientTyped'
    BY <1>0, <1>2 DEF ExecReturns, GivenTyped, ClientTyped
  <2>8. ScriptTyped' /\ ExitTyped'
    BY <1>0, <1>2 DEF ExecReturns, containerVars, ScriptTyped, ExitTyped
  <2>9. FilesTyped' /\ CutTyped'
    BY <1>0, <1>2, NothingTyped DEF ExecReturns, containerVars, FilesTyped, CutTyped
  <2>10. S3Typed'
    BY <1>0, <1>2 DEF ExecReturns, s3Vars, S3Typed
  <2>11. RestoreTyped'
    BY <1>0, <1>2 DEF ExecReturns, restoreVars, RestoreTyped
  <2>12. FaultsTyped'
    BY <1>0, <1>2, FaultsCounted DEF ExecReturns, Client, FaultsTyped
  <2> QED
    BY <2>6, <2>7, <2>8, <2>9, <2>10, <2>11, <2>12 DEF TransferInv, TransfersTyped
<1>3. ASSUME NEW r \in Transfers, SessionDrops(r) PROVE TransferInv'
  <2>1. Frame(r)
    BY <1>0, <1>3 DEF SessionDrops, Client, s3Vars, Frame, ScriptTyped
  <2>2. Fresh(r)'
    BY <1>0, <1>3 DEF SessionDrops, Client, Fresh, TransferSound, ScriptTyped
  <2>3. OfItsKind(r)'
    BY <1>0, <1>3 DEF SessionDrops, Client, s3Vars, OfItsKind, TransferSound, ScriptTyped
  <2>4. ScriptSound(r)'
    BY <1>0, <1>3 DEF SessionDrops, Client, s3Vars, ScriptSound, TransferSound, ScriptTyped
  <2>5. UploadSound(r)'
    BY <1>0, <1>3 DEF SessionDrops, Client, s3Vars, UploadSound, OfItsKind, TransferSound,
           ClientTyped, GivenTyped
  <2>6. Apart' /\ AllSound'
    BY <1>0, <2>1, <2>2, <2>3, <2>4, <2>5, FrameIsSound DEF TransferSound
  <2>7. GivenTyped' /\ ClientTyped'
    BY <1>0, <1>3 DEF SessionDrops, Client, GivenTyped, ClientTyped
  <2>8. ScriptTyped' /\ ExitTyped'
    BY <1>0, <1>3 DEF SessionDrops, ScriptTyped, ExitTyped
  <2>9. FilesTyped' /\ CutTyped'
    BY <1>0, <1>3, NothingTyped DEF SessionDrops, FilesTyped, CutTyped
  <2>10. S3Typed'
    BY <1>0, <1>3 DEF SessionDrops, s3Vars, S3Typed
  <2>11. RestoreTyped'
    BY <1>0, <1>3 DEF SessionDrops, restoreVars, RestoreTyped
  <2>12. FaultsTyped'
    BY <1>0, <1>3, FaultsCounted DEF SessionDrops, Client, FaultsTyped
  <2> QED
    BY <2>6, <2>7, <2>8, <2>9, <2>10, <2>11, <2>12 DEF TransferInv, TransfersTyped
<1>4. ASSUME NEW r \in Transfers, AbortUpload(r) PROVE TransferInv'
  <2>1. Frame(r)
    BY <1>0, <1>4 DEF AbortUpload, Client, containerVars, Frame
  <2>2. Fresh(r)'
    BY <1>0, <1>4 DEF AbortUpload, Client, containerVars, Fresh, TransferSound
  <2>3. OfItsKind(r)'
    BY <1>0, <1>4 DEF AbortUpload, Client, containerVars, OfItsKind, TransferSound
  <2>4. ScriptSound(r)'
    BY <1>0, <1>4 DEF AbortUpload, Client, containerVars, ScriptSound, TransferSound
  <2>5. UploadSound(r)'
    BY <1>0, <1>4 DEF AbortUpload, Client, UploadSound, S3Typed
  <2>6. Apart' /\ AllSound'
    BY <1>0, <2>1, <2>2, <2>3, <2>4, <2>5, FrameIsSound DEF TransferSound
  <2>7. GivenTyped' /\ ClientTyped'
    BY <1>0, <1>4 DEF AbortUpload, Client, GivenTyped, ClientTyped
  <2>8. ScriptTyped' /\ ExitTyped'
    BY <1>0, <1>4 DEF AbortUpload, containerVars, ScriptTyped, ExitTyped
  <2>9. FilesTyped' /\ CutTyped'
    BY <1>0, <1>4, NothingTyped DEF AbortUpload, containerVars, FilesTyped, CutTyped
  <2>10. S3Typed'
    BY <1>0, <1>4 DEF AbortUpload, S3Typed
  <2>11. RestoreTyped'
    BY <1>0, <1>4 DEF AbortUpload, restoreVars, RestoreTyped
  <2>12. FaultsTyped'
    BY <1>0, <1>4, FaultsCounted DEF AbortUpload, Client, FaultsTyped
  <2> QED
    BY <2>6, <2>7, <2>8, <2>9, <2>10, <2>11, <2>12 DEF TransferInv, TransfersTyped
<1>5. ASSUME NEW r \in Transfers, AbortFails(r) PROVE TransferInv'
  <2>1. Frame(r)
    BY <1>0, <1>5 DEF AbortFails, Client, containerVars, s3Vars, Frame
  <2>2. Fresh(r)'
    BY <1>0, <1>5 DEF AbortFails, Client, containerVars, Fresh, TransferSound
  <2>3. OfItsKind(r)'
    BY <1>0, <1>5 DEF AbortFails, Client, containerVars, s3Vars, OfItsKind, TransferSound
  <2>4. ScriptSound(r)'
    BY <1>0, <1>5 DEF AbortFails, Client, containerVars, s3Vars, ScriptSound, TransferSound
  <2>5. UploadSound(r)'
    BY <1>0, <1>5 DEF AbortFails, Client, UploadSound
  <2>6. Apart' /\ AllSound'
    BY <1>0, <2>1, <2>2, <2>3, <2>4, <2>5, FrameIsSound DEF TransferSound
  <2>7. GivenTyped' /\ ClientTyped'
    BY <1>0, <1>5 DEF AbortFails, Client, GivenTyped, ClientTyped
  <2>8. ScriptTyped' /\ ExitTyped'
    BY <1>0, <1>5 DEF AbortFails, containerVars, ScriptTyped, ExitTyped
  <2>9. FilesTyped' /\ CutTyped'
    BY <1>0, <1>5, NothingTyped DEF AbortFails, containerVars, FilesTyped, CutTyped
  <2>10. S3Typed'
    BY <1>0, <1>5 DEF AbortFails, s3Vars, S3Typed
  <2>11. RestoreTyped'
    BY <1>0, <1>5 DEF AbortFails, restoreVars, RestoreTyped
  <2>12. FaultsTyped'
    BY <1>0, <1>5, FaultsCounted DEF AbortFails, Client, FaultsTyped
  <2> QED
    BY <2>6, <2>7, <2>8, <2>9, <2>10, <2>11, <2>12 DEF TransferInv, TransfersTyped
<1>6. ASSUME NEW r \in Transfers, ListParts(r) PROVE TransferInv'
  <2>1. Frame(r)
    BY <1>0, <1>6 DEF ListParts, Client, containerVars, s3Vars, Frame, ClientTyped
  <2>2. Fresh(r)'
    BY <1>0, <1>6 DEF ListParts, Client, containerVars, Fresh, TransferSound, ClientTyped
  <2>3. OfItsKind(r)'
    BY <1>0, <1>6 DEF ListParts, Client, containerVars, OfItsKind, TransferSound
  <2>4. ScriptSound(r)'
    BY <1>0, <1>6 DEF ListParts, Client, containerVars, ScriptSound, OfItsKind,
           UploadSound, TransferSound
  <2>5. UploadSound(r)'
    BY <1>0, <1>6 DEF ListParts, Client, containerVars, s3Vars, UploadSound, TransferSound,
           ClientTyped, HasWhole
  <2>6. Apart' /\ AllSound'
    BY <1>0, <2>1, <2>2, <2>3, <2>4, <2>5, FrameIsSound DEF TransferSound
  <2>7. GivenTyped' /\ ClientTyped'
    BY <1>0, <1>6 DEF ListParts, Client, GivenTyped, ClientTyped
  <2>8. ScriptTyped' /\ ExitTyped'
    BY <1>0, <1>6 DEF ListParts, containerVars, ScriptTyped, ExitTyped
  <2>9. FilesTyped' /\ CutTyped'
    BY <1>0, <1>6, NothingTyped DEF ListParts, containerVars, FilesTyped, CutTyped
  <2>10. S3Typed'
    BY <1>0, <1>6 DEF ListParts, s3Vars, S3Typed
  <2>11. RestoreTyped'
    BY <1>0, <1>6 DEF ListParts, restoreVars, RestoreTyped
  <2>12. FaultsTyped'
    BY <1>0, <1>6, FaultsCounted DEF ListParts, Client, FaultsTyped
  <2> QED
    BY <2>6, <2>7, <2>8, <2>9, <2>10, <2>11, <2>12 DEF TransferInv, TransfersTyped
<1>7. ASSUME NEW r \in Transfers, CompleteUpload(r) PROVE TransferInv'
  <2>1. Frame(r)
    BY <1>0, <1>7 DEF CompleteUpload, Client, containerVars, Frame
  <2>2. Fresh(r)'
    BY <1>0, <1>7 DEF CompleteUpload, Client, containerVars, Fresh, TransferSound
  <2>3. OfItsKind(r)'
    BY <1>0, <1>7 DEF CompleteUpload, Client, containerVars, OfItsKind, TransferSound
  <2>4. ScriptSound(r)'
    BY <1>0, <1>7 DEF CompleteUpload, Client, containerVars, ScriptSound, TransferSound
  <2>5. UploadSound(r)'
    BY <1>0, <1>7 DEF CompleteUpload, Client, containerVars, UploadSound, TransferSound,
           ClientTyped, S3Typed, HasWhole
  <2>6. Apart' /\ AllSound'
    BY <1>0, <2>1, <2>2, <2>3, <2>4, <2>5, FrameIsSound DEF TransferSound
  <2>7. GivenTyped' /\ ClientTyped'
    BY <1>0, <1>7 DEF CompleteUpload, Client, GivenTyped, ClientTyped
  <2>8. ScriptTyped' /\ ExitTyped'
    BY <1>0, <1>7 DEF CompleteUpload, containerVars, ScriptTyped, ExitTyped
  <2>9. FilesTyped' /\ CutTyped'
    BY <1>0, <1>7, NothingTyped DEF CompleteUpload, containerVars, FilesTyped, CutTyped
  <2>10. S3Typed'
    BY <1>0, <1>7 DEF CompleteUpload, S3Typed
  <2>11. RestoreTyped'
    BY <1>0, <1>7 DEF CompleteUpload, restoreVars, RestoreTyped
  <2>12. FaultsTyped'
    BY <1>0, <1>7, FaultsCounted DEF CompleteUpload, Client, FaultsTyped
  <2> QED
    BY <2>6, <2>7, <2>8, <2>9, <2>10, <2>11, <2>12 DEF TransferInv, TransfersTyped
<1>8. ASSUME NEW r \in Transfers, CompleteFails(r) PROVE TransferInv'
  <2>1. Frame(r)
    BY <1>0, <1>8 DEF CompleteFails, Client, containerVars, s3Vars, Frame
  <2>2. Fresh(r)'
    BY <1>0, <1>8 DEF CompleteFails, Client, containerVars, Fresh, TransferSound
  <2>3. OfItsKind(r)'
    BY <1>0, <1>8 DEF CompleteFails, Client, containerVars, OfItsKind, TransferSound
  <2>4. ScriptSound(r)'
    BY <1>0, <1>8 DEF CompleteFails, Client, containerVars, ScriptSound, OfItsKind,
           UploadSound, TransferSound
  <2>5. UploadSound(r)'
    BY <1>0, <1>8 DEF CompleteFails, Client, UploadSound, ClientTyped
  <2>6. Apart' /\ AllSound'
    BY <1>0, <2>1, <2>2, <2>3, <2>4, <2>5, FrameIsSound DEF TransferSound
  <2>7. GivenTyped' /\ ClientTyped'
    BY <1>0, <1>8 DEF CompleteFails, Client, GivenTyped, ClientTyped
  <2>8. ScriptTyped' /\ ExitTyped'
    BY <1>0, <1>8 DEF CompleteFails, containerVars, ScriptTyped, ExitTyped
  <2>9. FilesTyped' /\ CutTyped'
    BY <1>0, <1>8, NothingTyped DEF CompleteFails, containerVars, FilesTyped, CutTyped
  <2>10. S3Typed'
    BY <1>0, <1>8 DEF CompleteFails, s3Vars, S3Typed
  <2>11. RestoreTyped'
    BY <1>0, <1>8 DEF CompleteFails, restoreVars, RestoreTyped
  <2>12. FaultsTyped'
    BY <1>0, <1>8, FaultsCounted DEF CompleteFails, Client, FaultsTyped
  <2> QED
    BY <2>6, <2>7, <2>8, <2>9, <2>10, <2>11, <2>12 DEF TransferInv, TransfersTyped
<1>9. ASSUME NEW r \in Transfers, VerifyObject(r) PROVE TransferInv'
  <2>1. Frame(r)
    BY <1>0, <1>9 DEF VerifyObject, Client, containerVars, s3Vars, Frame, ClientTyped
  <2>2. Fresh(r)'
    BY <1>0, <1>9 DEF VerifyObject, Client, containerVars, Fresh, TransferSound, ClientTyped
  <2>3. OfItsKind(r)'
    BY <1>0, <1>9 DEF VerifyObject, Client, containerVars, OfItsKind, TransferSound
  <2>4. ScriptSound(r)'
    BY <1>0, <1>9 DEF VerifyObject, Client, containerVars, ScriptSound, OfItsKind,
           UploadSound, TransferSound
  <2>5. UploadSound(r)'
    BY <1>0, <1>9 DEF VerifyObject, Client, containerVars, s3Vars, UploadSound,
           TransferSound, ClientTyped, HasWhole
  <2>6. Apart' /\ AllSound'
    BY <1>0, <2>1, <2>2, <2>3, <2>4, <2>5, FrameIsSound DEF TransferSound
  <2>7. GivenTyped' /\ ClientTyped'
    BY <1>0, <1>9 DEF VerifyObject, Client, GivenTyped, ClientTyped
  <2>8. ScriptTyped' /\ ExitTyped'
    BY <1>0, <1>9 DEF VerifyObject, containerVars, ScriptTyped, ExitTyped
  <2>9. FilesTyped' /\ CutTyped'
    BY <1>0, <1>9, NothingTyped DEF VerifyObject, containerVars, FilesTyped, CutTyped
  <2>10. S3Typed'
    BY <1>0, <1>9 DEF VerifyObject, s3Vars, S3Typed
  <2>11. RestoreTyped'
    BY <1>0, <1>9 DEF VerifyObject, restoreVars, RestoreTyped
  <2>12. FaultsTyped'
    BY <1>0, <1>9, FaultsCounted DEF VerifyObject, Client, FaultsTyped
  <2> QED
    BY <2>6, <2>7, <2>8, <2>9, <2>10, <2>11, <2>12 DEF TransferInv, TransfersTyped
<1>10. ASSUME NEW r \in Transfers, ClientKilled(r) PROVE TransferInv'
  <2>1. Frame(r)
    BY <1>0, <1>10 DEF ClientKilled, containerVars, s3Vars, Frame
  <2>2. Fresh(r)'
    BY <1>0, <1>10 DEF ClientKilled, containerVars, Fresh, TransferSound
  <2>3. OfItsKind(r)'
    BY <1>0, <1>10 DEF ClientKilled, containerVars, s3Vars, OfItsKind, TransferSound
  <2>4. ScriptSound(r)'
    BY <1>0, <1>10 DEF ClientKilled, containerVars, s3Vars, ScriptSound, TransferSound
  <2>5. UploadSound(r)'
    BY <1>0, <1>10 DEF ClientKilled, UploadSound, ClientTyped
  <2>6. Apart' /\ AllSound'
    BY <1>0, <2>1, <2>2, <2>3, <2>4, <2>5, FrameIsSound DEF TransferSound
  <2>7. GivenTyped' /\ ClientTyped'
    BY <1>0, <1>10 DEF ClientKilled, GivenTyped, ClientTyped
  <2>8. ScriptTyped' /\ ExitTyped'
    BY <1>0, <1>10 DEF ClientKilled, containerVars, ScriptTyped, ExitTyped
  <2>9. FilesTyped' /\ CutTyped'
    BY <1>0, <1>10, NothingTyped DEF ClientKilled, containerVars, FilesTyped, CutTyped
  <2>10. S3Typed'
    BY <1>0, <1>10 DEF ClientKilled, s3Vars, S3Typed
  <2>11. RestoreTyped'
    BY <1>0, <1>10 DEF ClientKilled, restoreVars, RestoreTyped
  <2>12. FaultsTyped'
    BY <1>0, <1>10, FaultsCounted DEF ClientKilled, Client, FaultsTyped
  <2> QED
    BY <2>6, <2>7, <2>8, <2>9, <2>10, <2>11, <2>12 DEF TransferInv, TransfersTyped
<1>11. ASSUME NEW r \in Transfers, Dump(r) PROVE TransferInv'
  <2>1. Frame(r)
    BY <1>0, <1>11 DEF Dump, clientVars, s3Vars, ScriptOnly, Exits, Frame, InContainer,
           ScriptTyped, ExitTyped, CutTyped
  <2>2. Fresh(r)'
    BY <1>0, <1>11 DEF Dump, clientVars, ScriptOnly, Exits, Fresh, TransferSound,
           ScriptTyped
  <2>3. OfItsKind(r)'
    BY <1>0, <1>11 DEF Dump, clientVars, ScriptOnly, Exits, OfItsKind, TransferSound,
           ScriptTyped
  <2>4. ScriptSound(r)'
    <3>1. script[r] = "dump" /\ UNCHANGED <<client, uploads, mixed>>
      BY <1>11 DEF Dump, ScriptOnly, clientVars, s3Vars
    <3>2. PICK n \in DumpSizes :
            IF n = 0 \/ n > Presigned
            THEN Exits(r, "1") /\ dumpFile' = NoDump /\ UNCHANGED cut
            ELSE /\ dumpFile' = [of |-> r, parts |-> n]
                 /\ cut' = [cut EXCEPT ![r] = [done |-> 0, all |-> n]]
                 /\ script' = [script EXCEPT ![r] = "cut"] /\ UNCHANGED exit
      BY <1>11 DEF Dump
    <3>3. CASE n = 0 \/ n > Presigned
      <4>1. script'[r] = "over"
        BY <1>0, <3>2, <3>3 DEF Exits, ScriptTyped
      <4> QED
        BY <4>1 DEF ScriptSound
    <3>4. CASE ~(n = 0 \/ n > Presigned)
      <4>1. script'[r] = "cut" /\ cut'[r].done = 0 /\ cut'[r].all = n /\ 0 < n
        BY <1>0, <3>2, <3>4 DEF ScriptTyped, CutTyped
      <4>2. dumpFile' = [of |-> r, parts |-> n] /\ uploads'[r].parts = {}
        BY <1>0, <3>1, <3>2, <3>4 DEF TransferSound, ScriptSound
      <4> QED
        BY <4>1, <4>2, NoPartsYet DEF ScriptSound
    <3> QED
      BY <3>3, <3>4
  <2>5. UploadSound(r)'
    BY <1>0, <1>11 DEF Dump, clientVars, s3Vars, ScriptOnly, Exits, UploadSound,
           TransferSound, ScriptTyped, ExitTyped
  <2>6. Apart' /\ AllSound'
    BY <1>0, <2>1, <2>2, <2>3, <2>4, <2>5, FrameIsSound DEF TransferSound
  <2>7. GivenTyped' /\ ClientTyped'
    BY <1>0, <1>11 DEF Dump, clientVars, ScriptOnly, GivenTyped, ClientTyped
  <2>8. ScriptTyped' /\ ExitTyped'
    <3>1. script' = [script EXCEPT ![r] = "over"] \/ script' = [script EXCEPT ![r] = "cut"]
      BY <1>11 DEF Dump, Exits
    <3>2. exit' = exit \/ exit' = [exit EXCEPT ![r].code = "1"]
      BY <1>11 DEF Dump, Exits
    <3>3. ScriptTyped'
      BY <1>0, <3>1 DEF ScriptTyped
    <3>4. ExitTyped'
      BY <1>0, <3>2 DEF ExitTyped
    <3> QED
      BY <3>3, <3>4
  <2>9. FilesTyped' /\ CutTyped'
    <3>1. PICK n \in DumpSizes :
            IF n = 0 \/ n > Presigned
            THEN dumpFile' = NoDump /\ UNCHANGED cut
            ELSE /\ dumpFile' = [of |-> r, parts |-> n]
                 /\ cut' = [cut EXCEPT ![r] = [done |-> 0, all |-> n]]
      BY <1>11 DEF Dump
    <3>2. UNCHANGED partFile
      BY <1>11 DEF Dump
    <3>3. CASE n = 0 \/ n > Presigned
      BY <1>0, <3>1, <3>2, <3>3, NothingTyped DEF FilesTyped, CutTyped
    <3>4. CASE ~(n = 0 \/ n > Presigned)
      <4>1. n \in 0..Presigned /\ r \in 0..MaxTransfers
        BY <3>4 DEF Transfers
      <4> QED
        BY <1>0, <3>1, <3>2, <3>4, <4>1 DEF FilesTyped, CutTyped
    <3> QED
      BY <3>3, <3>4
  <2>10. S3Typed'
    BY <1>0, <1>11 DEF Dump, s3Vars, ScriptOnly, S3Typed
  <2>11. RestoreTyped'
    BY <1>0, <1>11 DEF Dump, restoreVars, ScriptOnly, RestoreTyped
  <2>12. FaultsTyped'
    BY <1>0, <1>11, FaultsCounted DEF Dump, Client, FaultsTyped
  <2> QED
    BY <2>6, <2>7, <2>8, <2>9, <2>10, <2>11, <2>12 DEF TransferInv, TransfersTyped
<1>12. ASSUME NEW r \in Transfers, DumpFails(r) PROVE TransferInv'
  <2>1. Frame(r)
    BY <1>0, <1>12 DEF DumpFails, clientVars, s3Vars, ScriptOnly, Exits, Frame, InContainer
  <2>2. Fresh(r)'
    BY <1>0, <1>12 DEF DumpFails, clientVars, ScriptOnly, Exits, Fresh, TransferSound
  <2>3. OfItsKind(r)'
    BY <1>0, <1>12 DEF DumpFails, clientVars, ScriptOnly, Exits, OfItsKind, TransferSound
  <2>4. ScriptSound(r)'
    BY <1>0, <1>12 DEF DumpFails, Exits, ScriptSound, ScriptTyped
  <2>5. UploadSound(r)'
    BY <1>0, <1>12 DEF DumpFails, clientVars, s3Vars, ScriptOnly, Exits, UploadSound,
           TransferSound, ExitTyped
  <2>6. Apart' /\ AllSound'
    BY <1>0, <2>1, <2>2, <2>3, <2>4, <2>5, FrameIsSound DEF TransferSound
  <2>7. GivenTyped' /\ ClientTyped'
    BY <1>0, <1>12 DEF DumpFails, clientVars, ScriptOnly, GivenTyped, ClientTyped
  <2>8. ScriptTyped' /\ ExitTyped'
    BY <1>0, <1>12 DEF DumpFails, Exits, ScriptTyped, ExitTyped
  <2>9. FilesTyped' /\ CutTyped'
    BY <1>0, <1>12, NothingTyped DEF DumpFails, FilesTyped, CutTyped
  <2>10. S3Typed'
    BY <1>0, <1>12 DEF DumpFails, s3Vars, ScriptOnly, S3Typed
  <2>11. RestoreTyped'
    BY <1>0, <1>12 DEF DumpFails, restoreVars, ScriptOnly, RestoreTyped
  <2>12. FaultsTyped'
    BY <1>0, <1>12, FaultsCounted DEF DumpFails, Client, FaultsTyped
  <2> QED
    BY <2>6, <2>7, <2>8, <2>9, <2>10, <2>11, <2>12 DEF TransferInv, TransfersTyped
<1>13. ASSUME NEW r \in Transfers, CutPart(r) PROVE TransferInv'
  <2>1. Frame(r)
    BY <1>0, <1>13 DEF CutPart, clientVars, s3Vars, ScriptOnly, Frame, InContainer
  <2>2. Fresh(r)'
    BY <1>0, <1>13 DEF CutPart, clientVars, ScriptOnly, Fresh, TransferSound
  <2>3. OfItsKind(r)'
    BY <1>0, <1>13 DEF CutPart, clientVars, ScriptOnly, OfItsKind, TransferSound
  <2>4. ScriptSound(r)'
    <3>1. /\ script[r] = "cut" /\ script'[r] = "put"
          /\ UNCHANGED <<client, uploads, cut, dumpFile>> /\ mixed \subseteq mixed'
      BY <1>0, <1>13 DEF CutPart, ScriptOnly, clientVars, s3Vars, ScriptTyped
    <3>2. ScriptSound(r)
      BY <1>0 DEF TransferSound
    <3>3. r \notin mixed' => partFile' = [of |-> r, no |-> cut[r].done + 1, whole |-> TRUE]
      <4> SUFFICES ASSUME r \notin mixed' PROVE partFile' = [of |-> r, no |-> cut[r].done + 1, whole |-> TRUE]
        OBVIOUS
      <4>1. dumpFile = [of |-> r, parts |-> cut[r].all]
        BY <3>1, <3>2 DEF ScriptSound
      <4>2. dumpFile # NoDump /\ dumpFile.of = r
        BY <4>1 DEF NoDump, None, Transfers
      <4> QED
        BY <1>13, <4>2 DEF CutPart
    <3> QED
      BY <3>1, <3>2, <3>3 DEF ScriptSound
  <2>5. UploadSound(r)'
    BY <1>0, <1>13 DEF CutPart, clientVars, s3Vars, ScriptOnly, UploadSound, TransferSound
  <2>6. Apart' /\ AllSound'
    BY <1>0, <2>1, <2>2, <2>3, <2>4, <2>5, FrameIsSound DEF TransferSound
  <2>7. GivenTyped' /\ ClientTyped'
    BY <1>0, <1>13 DEF CutPart, clientVars, ScriptOnly, GivenTyped, ClientTyped
  <2>8. ScriptTyped' /\ ExitTyped'
    BY <1>0, <1>13 DEF CutPart, ScriptTyped, ExitTyped
  <2>9. FilesTyped' /\ CutTyped'
    <3>1. ScriptSound(r) /\ script[r] = "cut" /\ UNCHANGED <<dumpFile, cut>>
      BY <1>0, <1>13 DEF TransferSound, CutPart
    <3>2. cut[r].done + 1 \in 0..Presigned /\ r \in 0..MaxTransfers /\ dumpFile.of \in 0..MaxTransfers
      BY <1>0, <3>1, NextPart DEF FilesTyped, Transfers
    <3>3. partFile' \in Files
      <4>1. \A o \in 0..MaxTransfers, n \in 0..Presigned, w \in BOOLEAN :
              [of |-> o, no |-> n, whole |-> w] \in Files
        BY DEF Files
      <4>2. \/ partFile' = partFile
            \/ partFile' = [of |-> dumpFile.of, no |-> cut[r].done + 1, whole |-> TRUE]
            \/ partFile' = [of |-> r, no |-> cut[r].done + 1, whole |-> FALSE]
        BY <1>13 DEF CutPart
      <4> QED
        BY <1>0, <3>2, <4>1, <4>2 DEF FilesTyped
    <3> QED
      BY <1>0, <3>1, <3>3 DEF FilesTyped, CutTyped
  <2>10. S3Typed'
    BY <1>0, <1>13 DEF CutPart, s3Vars, ScriptOnly, S3Typed
  <2>11. RestoreTyped'
    BY <1>0, <1>13 DEF CutPart, restoreVars, ScriptOnly, RestoreTyped
  <2>12. FaultsTyped'
    BY <1>0, <1>13, FaultsCounted DEF CutPart, Client, FaultsTyped
  <2> QED
    BY <2>6, <2>7, <2>8, <2>9, <2>10, <2>11, <2>12 DEF TransferInv, TransfersTyped
<1>14. ASSUME NEW r \in Transfers, PutPart(r) PROVE TransferInv'
  <2>p. r \notin mixed /\ client[r] = "exec" => uploads'[r].parts = PartsUpTo(r, cut[r].done + 1)
    <3> SUFFICES ASSUME r \notin mixed, client[r] = "exec"
                 PROVE  uploads'[r].parts = PartsUpTo(r, cut[r].done + 1)
      OBVIOUS
    <3>1. ScriptSound(r) /\ script[r] = "put"
      BY <1>0, <1>14 DEF PutPart, TransferSound
    <3>2. /\ partFile = [of |-> r, no |-> cut[r].done + 1, whole |-> TRUE]
          /\ uploads[r].parts = PartsUpTo(r, cut[r].done)
      BY <3>1 DEF ScriptSound
    <3>3. uploads'[r].parts = uploads[r].parts \cup {[at |-> cut[r].done + 1, is |-> partFile]}
      BY <1>0, <1>14 DEF PutPart, Stored, S3Typed
    <3>4. cut[r].done \in Nat
      BY <1>0, <3>1, NextPart
    <3> QED
      BY <3>2, <3>3, <3>4, PartsGrow
  <2>1. Frame(r)
    BY <1>0, <1>14 DEF PutPart, clientVars, Exits, Stored, Frame, InContainer, ScriptTyped,
           ExitTyped
  <2>2. Fresh(r)'
    BY <1>0, <1>14 DEF PutPart, clientVars, Exits, Fresh, TransferSound, ScriptTyped
  <2>3. OfItsKind(r)'
    BY <1>0, <1>14 DEF PutPart, clientVars, Exits, OfItsKind, TransferSound, ScriptTyped
  <2>4. ScriptSound(r)'
    <3>1. /\ script[r] = "put" /\ UNCHANGED <<client, mixed>>
          /\ cut'[r].done = cut[r].done + 1 /\ cut'[r].all = cut[r].all
      BY <1>0, <1>14 DEF PutPart, clientVars, CutTyped
    <3>2. ScriptSound(r)
      BY <1>0 DEF TransferSound
    <3>3. CASE cut'[r].done = cut[r].all
      <4>1. script'[r] = "over"
        BY <1>0, <1>14, <3>3 DEF PutPart, Exits, ScriptTyped
      <4> QED
        BY <4>1 DEF ScriptSound
    <3>4. CASE cut'[r].done # cut[r].all
      <4>1. script'[r] = "cut" /\ UNCHANGED dumpFile
        BY <1>0, <1>14, <3>4 DEF PutPart, ScriptTyped
      <4>2. cut'[r].done < cut'[r].all
        BY <1>0, <3>1, <3>2, <3>4, NextPart
      <4>3. r \notin mixed' /\ client'[r] = "exec" => uploads'[r].parts = PartsUpTo(r, cut[r].done + 1)
        BY <2>p, <3>1
      <4> QED
        BY <3>1, <3>2, <4>1, <4>2, <4>3 DEF ScriptSound
    <3> QED
      BY <3>3, <3>4
  <2>5. UploadSound(r)'
    <3>1. /\ script[r] = "put" /\ uploads[r].open /\ UNCHANGED <<kindOf, client, mixed, object>>
          /\ cut'[r].done = cut[r].done + 1 /\ cut'[r].all = cut[r].all
      BY <1>0, <1>14 DEF PutPart, clientVars, CutTyped
    <3>2. ScriptSound(r) /\ UploadSound(r) /\ OfItsKind(r) /\ kindOf[r] = "backup"
      BY <1>0, <3>1 DEF TransferSound, OfItsKind
    <3>3. client[r] \notin {"list", "completing", "verify", "complete", "failed"}
      BY <3>1, <3>2 DEF UploadSound
    <3>4. script'[r] = "over" => cut[r].done + 1 = cut[r].all
      BY <1>0, <1>14, <3>1 DEF PutPart, ScriptTyped
    <3>5. cut[r].all > 0
      BY <1>0, <3>1, <3>2, NextPart
    <3> QED
      BY <2>p, <3>1, <3>3, <3>4, <3>5 DEF UploadSound, HasWhole
  <2>6. Apart' /\ AllSound'
    BY <1>0, <2>1, <2>2, <2>3, <2>4, <2>5, FrameIsSound DEF TransferSound
  <2>7. GivenTyped' /\ ClientTyped'
    BY <1>0, <1>14 DEF PutPart, clientVars, GivenTyped, ClientTyped
  <2>8. ScriptTyped' /\ ExitTyped'
    BY <1>0, <1>14 DEF PutPart, clientVars, restoreVars, Exits, ScriptTyped, ExitTyped
  <2>9. FilesTyped' /\ CutTyped'
    <3>1. ScriptSound(r) /\ script[r] = "put" /\ cut' = [cut EXCEPT ![r].done = @ + 1]
      BY <1>0, <1>14 DEF TransferSound, PutPart
    <3>2. cut[r].done + 1 \in 0..Presigned
      BY <1>0, <3>1, NextPart
    <3>3. CutTyped'
      BY <1>0, <3>1, <3>2 DEF CutTyped
    <3>4. FilesTyped'
      BY <1>0, <1>14, NothingTyped DEF PutPart, FilesTyped
    <3> QED
      BY <3>3, <3>4
  <2>10. S3Typed'
    BY <1>0, <1>14, StoredTyped DEF PutPart, TransferSound
  <2>11. RestoreTyped'
    BY <1>0, <1>14 DEF PutPart, restoreVars, RestoreTyped
  <2>12. FaultsTyped'
    BY <1>0, <1>14, FaultsCounted DEF PutPart, Client, FaultsTyped
  <2> QED
    BY <2>6, <2>7, <2>8, <2>9, <2>10, <2>11, <2>12 DEF TransferInv, TransfersTyped
<1>15. ASSUME NEW r \in Transfers, PutFails(r) PROVE TransferInv'
  <2>1. Frame(r)
    BY <1>0, <1>15 DEF PutFails, clientVars, Exits, Stored, Frame, InContainer, S3Typed
  <2>2. Fresh(r)'
    BY <1>0, <1>15 DEF PutFails, clientVars, Exits, Fresh, TransferSound
  <2>3. OfItsKind(r)'
    BY <1>0, <1>15 DEF PutFails, clientVars, Exits, OfItsKind, TransferSound
  <2>4. ScriptSound(r)'
    BY <1>0, <1>15 DEF PutFails, Exits, ScriptSound, ScriptTyped
  <2>5. UploadSound(r)'
    BY <1>0, <1>15 DEF PutFails, clientVars, Exits, UploadSound, TransferSound, ExitTyped
  <2>6. Apart' /\ AllSound'
    BY <1>0, <2>1, <2>2, <2>3, <2>4, <2>5, FrameIsSound DEF TransferSound
  <2>7. GivenTyped' /\ ClientTyped'
    BY <1>0, <1>15 DEF PutFails, clientVars, GivenTyped, ClientTyped
  <2>8. ScriptTyped' /\ ExitTyped'
    BY <1>0, <1>15 DEF PutFails, Exits, ScriptTyped, ExitTyped
  <2>9. FilesTyped' /\ CutTyped'
    BY <1>0, <1>15, NothingTyped DEF PutFails, FilesTyped, CutTyped
  <2>10. S3Typed'
    <3>1. UNCHANGED object /\ (UNCHANGED uploads \/ Stored(r)) /\ script[r] = "put"
      BY <1>15 DEF PutFails
    <3> QED
      BY <1>0, <3>1, StoredTyped DEF TransferSound, S3Typed
  <2>11. RestoreTyped'
    BY <1>0, <1>15 DEF PutFails, restoreVars, RestoreTyped
  <2>12. FaultsTyped'
    BY <1>0, <1>15, FaultsCounted DEF PutFails, Client, FaultsTyped
  <2> QED
    BY <2>6, <2>7, <2>8, <2>9, <2>10, <2>11, <2>12 DEF TransferInv, TransfersTyped
<1>16. ASSUME NEW r \in Transfers, Unpack(r) PROVE TransferInv'
  <2>1. Frame(r)
    BY <1>0, <1>16 DEF Unpack, clientVars, s3Vars, Frame, InContainer
  <2>2. Fresh(r)'
    BY <1>0, <1>16 DEF Unpack, clientVars, Fresh, TransferSound
  <2>3. OfItsKind(r)'
    BY <1>0, <1>16 DEF Unpack, clientVars, s3Vars, OfItsKind, TransferSound
  <2>4. ScriptSound(r)'
    BY <1>0, <1>16 DEF Unpack, ScriptSound
  <2>5. UploadSound(r)'
    BY <1>0, <1>16 DEF Unpack, clientVars, s3Vars, UploadSound, TransferSound
  <2>6. Apart' /\ AllSound'
    BY <1>0, <2>1, <2>2, <2>3, <2>4, <2>5, FrameIsSound DEF TransferSound
  <2>7. GivenTyped' /\ ClientTyped'
    BY <1>0, <1>16 DEF Unpack, clientVars, GivenTyped, ClientTyped
  <2>8. ScriptTyped' /\ ExitTyped'
    BY <1>0, <1>16 DEF Unpack, ScriptTyped, ExitTyped
  <2>9. FilesTyped' /\ CutTyped'
    BY <1>0, <1>16, NothingTyped DEF Unpack, FilesTyped, CutTyped
  <2>10. S3Typed'
    BY <1>0, <1>16 DEF Unpack, s3Vars, S3Typed
  <2>11. RestoreTyped'
    <3>1. unpacked' = unpacked \cup {r} /\ UNCHANGED db /\ leftover' \subseteq leftover \cup {r}
      BY <1>16 DEF Unpack
    <3>2. PICK d \in unpacked' : chosen' = [chosen EXCEPT ![r] = d]
      BY <1>16 DEF Unpack
    <3>3. d \in 0..MaxTransfers
      BY <1>0, <3>1 DEF RestoreTyped, Transfers
    <3> QED
      BY <1>0, <3>1, <3>2, <3>3 DEF RestoreTyped
  <2>12. FaultsTyped'
    BY <1>0, <1>16, FaultsCounted DEF Unpack, Client, FaultsTyped
  <2> QED
    BY <2>6, <2>7, <2>8, <2>9, <2>10, <2>11, <2>12 DEF TransferInv, TransfersTyped
<1>17. ASSUME NEW r \in Transfers, UnpackFails(r) PROVE TransferInv'
  <2>1. Frame(r)
    BY <1>0, <1>17 DEF UnpackFails, clientVars, s3Vars, Exits, Frame, InContainer
  <2>2. Fresh(r)'
    BY <1>0, <1>17 DEF UnpackFails, clientVars, Exits, Fresh, TransferSound
  <2>3. OfItsKind(r)'
    BY <1>0, <1>17 DEF UnpackFails, clientVars, s3Vars, Exits, OfItsKind, TransferSound
  <2>4. ScriptSound(r)'
    BY <1>0, <1>17 DEF UnpackFails, Exits, ScriptSound
  <2>5. UploadSound(r)'
    BY <1>0, <1>17 DEF UnpackFails, clientVars, s3Vars, UploadSound, OfItsKind,
           TransferSound
  <2>6. Apart' /\ AllSound'
    BY <1>0, <2>1, <2>2, <2>3, <2>4, <2>5, FrameIsSound DEF TransferSound
  <2>7. GivenTyped' /\ ClientTyped'
    BY <1>0, <1>17 DEF UnpackFails, clientVars, GivenTyped, ClientTyped
  <2>8. ScriptTyped' /\ ExitTyped'
    BY <1>0, <1>17 DEF UnpackFails, Exits, ScriptTyped, ExitTyped
  <2>9. FilesTyped' /\ CutTyped'
    BY <1>0, <1>17, NothingTyped DEF UnpackFails, FilesTyped, CutTyped
  <2>10. S3Typed'
    BY <1>0, <1>17 DEF UnpackFails, s3Vars, S3Typed
  <2>11. RestoreTyped'
    BY <1>0, <1>17 DEF UnpackFails, restoreVars, RestoreTyped
  <2>12. FaultsTyped'
    BY <1>0, <1>17, FaultsCounted DEF UnpackFails, Client, FaultsTyped
  <2> QED
    BY <2>6, <2>7, <2>8, <2>9, <2>10, <2>11, <2>12 DEF TransferInv, TransfersTyped
<1>18. ASSUME NEW r \in Transfers, Restore(r) PROVE TransferInv'
  <2>1. Frame(r)
    BY <1>0, <1>18 DEF Restore, clientVars, s3Vars, Frame, InContainer
  <2>2. Fresh(r)'
    BY <1>0, <1>18 DEF Restore, clientVars, Fresh, TransferSound
  <2>3. OfItsKind(r)'
    BY <1>0, <1>18 DEF Restore, clientVars, s3Vars, OfItsKind, TransferSound
  <2>4. ScriptSound(r)'
    BY <1>0, <1>18 DEF Restore, ScriptSound
  <2>5. UploadSound(r)'
    <3>1. /\ script[r] = "restore" /\ kindOf[r] # "backup"
          /\ UNCHANGED <<kindOf, client, uploads>>
      BY <1>0, <1>18 DEF Restore, clientVars, s3Vars, TransferSound, OfItsKind
    <3> QED
      BY <1>0, <3>1 DEF TransferSound, UploadSound
  <2>6. Apart' /\ AllSound'
    BY <1>0, <2>1, <2>2, <2>3, <2>4, <2>5, FrameIsSound DEF TransferSound
  <2>7. GivenTyped' /\ ClientTyped'
    BY <1>0, <1>18 DEF Restore, clientVars, GivenTyped, ClientTyped
  <2>8. ScriptTyped' /\ ExitTyped'
    BY <1>0, <1>18 DEF Restore, ScriptTyped, ExitTyped
  <2>9. FilesTyped' /\ CutTyped'
    BY <1>0, <1>18, NothingTyped DEF Restore, FilesTyped, CutTyped
  <2>10. S3Typed'
    BY <1>0, <1>18 DEF Restore, s3Vars, S3Typed
  <2>11. RestoreTyped'
    BY <1>0, <1>18 DEF Restore, RestoreTyped
  <2>12. FaultsTyped'
    BY <1>0, <1>18, FaultsCounted DEF Restore, Client, FaultsTyped
  <2> QED
    BY <2>6, <2>7, <2>8, <2>9, <2>10, <2>11, <2>12 DEF TransferInv, TransfersTyped
<1>19. ASSUME NEW r \in Transfers, RestoreWithErrors(r) PROVE TransferInv'
  <2>1. Frame(r)
    BY <1>0, <1>19 DEF RestoreWithErrors, clientVars, s3Vars, Frame, InContainer
  <2>2. Fresh(r)'
    BY <1>0, <1>19 DEF RestoreWithErrors, clientVars, Fresh, TransferSound
  <2>3. OfItsKind(r)'
    BY <1>0, <1>19 DEF RestoreWithErrors, clientVars, s3Vars, OfItsKind, TransferSound
  <2>4. ScriptSound(r)'
    BY <1>0, <1>19 DEF RestoreWithErrors, ScriptSound
  <2>5. UploadSound(r)'
    BY <1>0, <1>19 DEF RestoreWithErrors, clientVars, s3Vars, UploadSound, TransferSound,
           ExitTyped
  <2>6. Apart' /\ AllSound'
    BY <1>0, <2>1, <2>2, <2>3, <2>4, <2>5, FrameIsSound DEF TransferSound
  <2>7. GivenTyped' /\ ClientTyped'
    BY <1>0, <1>19 DEF RestoreWithErrors, clientVars, GivenTyped, ClientTyped
  <2>8. ScriptTyped' /\ ExitTyped'
    BY <1>0, <1>19 DEF RestoreWithErrors, ScriptTyped, ExitTyped
  <2>9. FilesTyped' /\ CutTyped'
    BY <1>0, <1>19, NothingTyped DEF RestoreWithErrors, FilesTyped, CutTyped
  <2>10. S3Typed'
    BY <1>0, <1>19 DEF RestoreWithErrors, s3Vars, S3Typed
  <2>11. RestoreTyped'
    BY <1>0, <1>19 DEF RestoreWithErrors, RestoreTyped
  <2>12. FaultsTyped'
    BY <1>0, <1>19, FaultsCounted DEF RestoreWithErrors, Client, FaultsTyped
  <2> QED
    BY <2>6, <2>7, <2>8, <2>9, <2>10, <2>11, <2>12 DEF TransferInv, TransfersTyped
<1>20. ASSUME NEW kind \in {"backup", "push"}, StartTransfer(kind) PROVE TransferInv'
  <2> DEFINE others == {q \in Transfers : InContainer(q)}
  <2>r. PICK r \in Transfers : r = given + 1
    BY <1>0, <1>20 DEF StartTransfer, GivenTyped, Transfers
  <2>1. r > given /\ given' = r
    BY <1>0, <1>20, <2>r DEF StartTransfer, GivenTyped, Transfers
  <2>2. Fresh(r)
    BY <1>0, <2>1 DEF TransferSound
  <2>3. others \subseteq Transfers /\ (others # {} => mixed' = mixed \cup others \cup {r})
        /\ (others = {} => mixed' = mixed)
    BY <1>20, <2>r DEF StartTransfer
  <2>4. \A q \in Transfers : q # r =>
          /\ client'[q] = client[q] /\ script'[q] = script[q] /\ uploads'[q] = uploads[q]
          /\ kindOf'[q] = kindOf[q]
    BY <1>0, <1>20, <2>r DEF StartTransfer
  <2>5. UNCHANGED <<exit, cut, object, dumpFile, partFile>>
    BY <1>20 DEF StartTransfer
  <2>6. /\ client'[r] = "exec" /\ kindOf'[r] = kind
        /\ script'[r] = IF kind = "backup" THEN "dump" ELSE "unpack"
        /\ uploads'[r].open = (kind = "backup") /\ uploads'[r].parts = uploads[r].parts
    BY <1>0, <1>20, <2>r, <2>1 DEF StartTransfer, ClientTyped, ScriptTyped, S3Typed,
           GivenTyped
  <2> HIDE DEF others
  <2>7. Apart'
    <3> SUFFICES ASSUME NEW p \in Transfers, NEW q \in Transfers, p # q,
                        InContainer(p)', InContainer(q)'
                 PROVE  p \in mixed'
      BY DEF Apart
    <3>1. CASE p # r /\ q # r
      <4>1. InContainer(p) /\ InContainer(q)
        BY <2>4, <3>1 DEF InContainer
      <4> QED
        BY <1>0, <2>3, <4>1 DEF Apart
    <3>2. CASE p = r \/ q = r
      <4>1. (p # r => p \in others) /\ (q # r => q \in others)
        BY <2>4 DEF InContainer, others
      <4> QED
        BY <2>3, <3>2, <4>1
    <3> QED
      BY <3>1, <3>2
  <2>8. ASSUME NEW q \in Transfers PROVE TransferSound(q)'
    <3>1. CASE q # r
      <4>1. (q > given) = (q > given')
        BY <1>0, <2>r, <2>1, <3>1 DEF GivenTyped, Transfers
      <4>2. /\ client'[q] = client[q] /\ script'[q] = script[q] /\ uploads'[q] = uploads[q]
            /\ kindOf'[q] = kindOf[q] /\ (q \notin mixed' => q \notin mixed)
        BY <2>3, <2>4, <3>1
      <4>3. TransferSound(q)
        BY <1>0
      <4> QED
        BY <2>5, <4>1, <4>2, <4>3 DEF TransferSound, Fresh, OfItsKind, ScriptSound,
               UploadSound, HasWhole
    <3>2. CASE q = r
      <4>1. cut[r] = [done |-> 0, all |-> 0] /\ uploads[r] = [open |-> FALSE, parts |-> {}]
        BY <2>1, <2>2 DEF Fresh
      <4>2. ~(r > given')
        BY <1>0, <2>1 DEF GivenTyped, Transfers
      <4>3. Fresh(r)' /\ OfItsKind(r)'
        <5>1. CASE kind = "backup"
          BY <2>6, <4>1, <4>2, <5>1 DEF Fresh, OfItsKind
        <5>2. CASE kind = "push"
          <6>1. /\ client'[r] = "exec" /\ kindOf'[r] = "push" /\ script'[r] = "unpack"
                /\ uploads'[r].parts = {}
            BY <2>6, <4>1, <5>2
          <6>2. ~uploads'[r].open
            BY <2>6, <5>2
          <6> QED
            BY <4>2, <6>1, <6>2 DEF Fresh, OfItsKind
        <5> QED
          BY <5>1, <5>2
      <4>4. ScriptSound(r)' /\ UploadSound(r)'
        BY <2>5, <2>6, <4>1 DEF ScriptSound, UploadSound
      <4> QED
        BY <3>2, <4>3, <4>4 DEF TransferSound
    <3> QED
      BY <3>1, <3>2
  <2>9. AllSound'
    BY <2>8 DEF AllSound
  <2>10. GivenTyped' /\ ClientTyped' /\ ScriptTyped' /\ ExitTyped'
    BY <1>0, <1>20, <2>r, <2>1 DEF StartTransfer, GivenTyped, ClientTyped, ScriptTyped,
           ExitTyped
  <2>11. FilesTyped' /\ CutTyped' /\ RestoreTyped'
    BY <1>0, <1>20 DEF StartTransfer, FilesTyped, CutTyped, RestoreTyped, restoreVars
  <2>12. S3Typed'
    BY <1>0, <1>20 DEF StartTransfer, S3Typed
  <2>13. FaultsTyped'
    BY <1>0, <1>20, <2>r, <2>1, <2>3 DEF StartTransfer, FaultsTyped
  <2> QED
    BY <2>7, <2>9, <2>10, <2>11, <2>12, <2>13 DEF TransferInv, TransfersTyped
<1>21. CASE ContainerReplaced
  <2>1. /\ UNCHANGED <<given, kindOf, client, cut, chosen, db, leftover, uploads, object, mixed>>
        /\ \A r \in Transfers : script'[r] = IF InContainer(r) THEN "over" ELSE script[r]
        /\ \A r \in Transfers : InContainer(r) => exit'[r].code = "1"
        /\ \A r \in Transfers : ~InContainer(r) => exit'[r] = exit[r]
    BY <1>0, <1>21 DEF ContainerReplaced, clientVars, s3Vars, ExitTyped
  <2>2. \A r \in Transfers : ~InContainer(r)'
    BY <2>1 DEF InContainer
  <2>3. ASSUME NEW r \in Transfers PROVE TransferSound(r)'
    <3>1. TransferSound(r)
      BY <1>0
    <3>2. CASE InContainer(r)
      <4>1. script'[r] = "over" /\ exit'[r].code = "1" /\ script[r] # "over" /\ script[r] # "none"
        BY <2>1, <3>2 DEF InContainer
      <4> QED
        BY <2>1, <3>1, <4>1 DEF TransferSound, Fresh, OfItsKind, ScriptSound, UploadSound
    <3>3. CASE ~InContainer(r)
      <4>1. script'[r] = script[r] /\ exit'[r] = exit[r] /\ script[r] \in {"none", "over"}
        BY <2>1, <3>3 DEF InContainer
      <4> QED
        BY <2>1, <3>1, <4>1 DEF TransferSound, Fresh, OfItsKind, ScriptSound, UploadSound,
               HasWhole
    <3> QED
      BY <3>2, <3>3
  <2>4. Apart' /\ AllSound'
    BY <2>2, <2>3 DEF Apart, AllSound
  <2>5. GivenTyped' /\ ClientTyped' /\ CutTyped' /\ S3Typed'
    BY <1>0, <2>1 DEF GivenTyped, ClientTyped, CutTyped, S3Typed
  <2>6. ScriptTyped' /\ ExitTyped'
    BY <1>0, <1>21 DEF ContainerReplaced, ScriptTyped, ExitTyped
  <2>7. FilesTyped' /\ RestoreTyped'
    BY <1>0, <1>21, <2>1, NothingTyped DEF ContainerReplaced, FilesTyped, RestoreTyped
  <2>8. FaultsTyped'
    BY <1>0, <1>21, <2>1, FaultsCounted DEF ContainerReplaced, FaultsTyped
  <2> QED
    BY <2>4, <2>5, <2>6, <2>7, <2>8 DEF TransferInv, TransfersTyped
<1>22. CASE UNCHANGED transferVars
  <2>1. UNCHANGED <<given, kindOf, client, script, exit, dumpFile, partFile, cut, unpacked, chosen,
                    db, leftover, uploads, object, transferFaults, mixed>>
    BY <1>22 DEF transferVars, clientVars, containerVars, restoreVars, s3Vars
  <2>2. TransfersTyped'
    BY <1>0, <2>1 DEF TransfersTyped, GivenTyped, ClientTyped, ScriptTyped, ExitTyped,
           FilesTyped, CutTyped, S3Typed, RestoreTyped, FaultsTyped
  <2>3. Apart'
    BY <1>0, <2>1 DEF Apart, InContainer
  <2>4. AllSound'
    BY <1>0, <2>1 DEF AllSound, TransferSound, Fresh, OfItsKind, ScriptSound, UploadSound,
           HasWhole
  <2> QED
    BY <2>2, <2>3, <2>4 DEF TransferInv
<1> QED
  BY <1>1, <1>2, <1>3, <1>4, <1>5, <1>6, <1>7, <1>8, <1>9, <1>10, <1>11, <1>12, <1>13,
     <1>14, <1>15, <1>16, <1>17, <1>18, <1>19, <1>20, <1>21, <1>22 DEF TransfersNext

\* The invariant holds of every history of backups and pushes, through broken sessions,
\* refused uploads, overlapping scripts and a replaced container.
THEOREM TransferInductive == TransfersSpec => []TransferInv
BY TransferStarts, TransferStep, PTL DEF TransfersSpec

\* Type correctness of any transfers, dump sizes and faults.
THEOREM TransferTypeCorrect == TransfersSpec => []TransfersTypeOK
BY TransferTypes, TransferInductive, PTL

\* rc db backup for any number of transfers and parts: the object of a backup that had the
\* container to itself and was reported complete is one whole dump of this very run, and a
\* failed one leaves no part to bill (_dispatchers.py 787-799, 857-917).
THEOREM BackupsAreWhole == TransfersSpec => []BackupIsWholeOrNothing
<1>1. TransferInv => BackupIsWholeOrNothing
  BY DEF TransferInv, AllSound, TransferSound, UploadSound, HasWhole, PartsUpTo, WholeDump,
         BackupIsWholeOrNothing
<1> QED
  BY <1>1, TransferInductive, PTL

-----------------------------------------------------------------------------
(***************************************************************************)
(* DeploymentPipeline.                                                     *)
(* For any compose services, groups, images and volumes, any number of runs,*)
(* kills, teardowns and deletes: a green run runs this run, and a failed   *)
(* one can be repeated.  The invariant says what has been rolled, pushed and*)
(* settled at each step of a run, and that a service without an excuse     *)
(* is in ECS exactly if its row has an ARN.                                *)
(***************************************************************************)

\* The steps of the roll, and a service that was rolled by this run.
Rolling == {"create", "call", "record"}
Rolled(n) == ecs[n].there /\ ecs[n].td = runNo

\* What the services of the step are at each step of a run.
ScopeSound ==
  /\ step \in {"call", "record"} => handled \in inStep /\ dbRow[handled] # "none"
  /\ step \in Rolling \cup {"wait"} => inStep \subseteq Deployed
  /\ step \in Rolling \cup {"build", "volumes", "mount", "wait"} => ~args.dryRun
  /\ step = "build" => args.build

\* What has been rolled, and what has settled.
RollSound ==
  /\ step \in Rolling => \A n \in Deployed : n \notin inStep => Rolled(n)
  /\ step = "record" => Rolled(handled)
  /\ step = "wait" => \A n \in Deployed : Rolled(n) /\ (n \notin inStep => ecs[n].stable)
  /\ step \in {"finalize", "done"} /\ ~args.dryRun =>
       \A n \in Deployed : Rolled(n) /\ ecs[n].stable
  /\ \A n \in EcsNames : ecs[n].stable => TasksCanStart(n)

\* What this run was to build is pushed once the build step is over.
PushSound ==
  args.build /\ ~args.dryRun =>
    /\ step = "build" =>
         \A s \in ComposeServices : BuildPrimary[s] \notin inStep => pushed[s] = runNo
    /\ step \in Rolling \cup {"volumes", "mount", "wait", "finalize", "done"} =>
         \A s \in ComposeServices : pushed[s] = runNo

\* A service that nobody has parted from its row is in ECS exactly if the row has an ARN,
\* but for the moment between the call and the save; and a failed run has an excuse.
RowSound ==
  /\ \A n \in EcsNames : n \notin excused =>
       \/ (dbRow[n] = "arn") = ecs[n].there
       \/ step = "record" /\ n = handled
  /\ step \in Rolling \cup {"wait"} /\ WithVolume # {} => efs # "none"
  /\ step \in {"undo after create", "undo", "failed"} /\ ~troubled =>
       excused \cap Deployed # {} \/ \E n \in Deployed : ~TasksCanStart(n)

\* The types of the run, of the counters, and of what is in AWS and in the database.
RunTyped ==
  /\ args \in [kind : {"multi", "standard"}, selected : SUBSET ComposeServices,
               build : BOOLEAN, dryRun : BOOLEAN, tracked : BOOLEAN]
  /\ step \in {"idle", "build", "volumes", "mount", "create", "call", "record", "wait",
               "finalize", "done", "undo after create", "undo", "failed"}
  /\ inStep \subseteq EcsNames /\ handled \in EcsNames /\ created \subseteq EcsNames
  /\ deployment \in {"none", "running", "failed"}
CountsTyped ==
  /\ runNo \in 0..MaxRuns /\ pipeFaults \in 0..MaxPipeFaults
  /\ troubled \in BOOLEAN /\ excused \subseteq EcsNames
AwsTyped ==
  /\ dbRow \in [EcsNames -> {"none", "new", "arn"}]
  /\ ecs \in [EcsNames -> [there : BOOLEAN, td : 0..MaxRuns, stable : BOOLEAN]]
  /\ pushed \in [ComposeServices -> 0..MaxRuns] /\ efs \in {"none", "bare", "mounted"}

\* The inductive invariant of the pipeline.
PipelineInv ==
  /\ RunTyped /\ CountsTyped /\ AwsTyped
  /\ ScopeSound /\ RollSound /\ PushSound /\ RowSound

LEMMA PipelineTyped == PipelineInv => PipelineTypeOK
BY DEF PipelineInv, RunTyped, CountsTyped, AwsTyped, PipelineTypeOK

LEMMA DeployedAreNames == ASSUME RunTyped PROVE Deployed \subseteq EcsNames
BY DEF RunTyped, Deployed, EcsNames

\* A run that ends before an arn is saved leaves a service parted from its row, and no other.
LEMMA UnsavedIsParted ==
  ASSUME PipelineInv, excused' = excused \cup Unsaved
  PROVE  \A m \in EcsNames : m \notin excused' => (dbRow[m] = "arn") = ecs[m].there
<1> SUFFICES ASSUME NEW m \in EcsNames, m \notin excused'
             PROVE  (dbRow[m] = "arn") = ecs[m].there
  OBVIOUS
<1>1. m \notin excused
  OBVIOUS
<1>2. CASE step = "record" /\ m = handled
  <2>1. dbRow[m] # "new" /\ dbRow[m] # "none"
    BY <1>2 DEF Unsaved, PipelineInv, ScopeSound
  <2>2. dbRow[m] = "arn"
    BY <2>1 DEF PipelineInv, AwsTyped
  <2>3. ecs[m].there
    BY <1>2 DEF PipelineInv, RollSound, Rolled
  <2>4. ecs[m].there \in BOOLEAN
    BY DEF PipelineInv, AwsTyped
  <2> QED
    BY <2>2, <2>3, <2>4
<1>3. CASE ~(step = "record" /\ m = handled)
  BY <1>1, <1>3 DEF PipelineInv, RowSound
<1> QED
  BY <1>2, <1>3

LEMMA PipelineStarts == PipelineInit => PipelineInv
<1> SUFFICES ASSUME PipelineInit PROVE PipelineInv
  OBVIOUS
<1>1. RunTyped
  BY DEF PipelineInit, RunTyped, EcsNames
<1>2. CountsTyped
  <2>1. runNo \in 0..MaxRuns /\ pipeFaults \in 0..MaxPipeFaults
    BY PipelineAssumption DEF PipelineInit
  <2>2. troubled \in BOOLEAN /\ excused \subseteq EcsNames
    BY DEF PipelineInit
  <2> QED
    BY <2>1, <2>2 DEF CountsTyped
<1>3. AwsTyped
  <2>1. NoService \in [there : BOOLEAN, td : 0..MaxRuns, stable : BOOLEAN]
    BY PipelineAssumption DEF NoService
  <2>2. pushed \in [ComposeServices -> 0..MaxRuns]
    BY PipelineAssumption DEF PipelineInit
  <2> QED
    BY <2>1, <2>2 DEF PipelineInit, AwsTyped
<1>4. ScopeSound
  BY DEF PipelineInit, ScopeSound, Rolling
<1>5. RollSound
  BY DEF PipelineInit, RollSound, Rolling, NoService
<1>6. PushSound
  BY DEF PipelineInit, PushSound
<1>7. RowSound
  BY DEF PipelineInit, RowSound, Rolling, NoService
<1> QED
  BY <1>1, <1>2, <1>3, <1>4, <1>5, <1>6, <1>7 DEF PipelineInv

LEMMA PipelineStep == PipelineInv /\ [PipelineNext]_pipelineVars => PipelineInv'
<1> SUFFICES ASSUME PipelineInv, [PipelineNext]_pipelineVars PROVE PipelineInv'
  OBVIOUS
<1>0. /\ RunTyped /\ CountsTyped /\ AwsTyped
      /\ ScopeSound /\ RollSound /\ PushSound /\ RowSound
      /\ Deployed \subseteq EcsNames
  BY DeployedAreNames DEF PipelineInv
<1> USE PipelineAssumption
<1>1. CASE InitializeDeployment
  <2>1. RunTyped'
    <3>1. /\ args'.kind \in {"multi", "standard"} /\ args'.selected \subseteq ComposeServices
          /\ args' \in [kind : {"multi", "standard"}, selected : SUBSET ComposeServices,
                        build : BOOLEAN, dryRun : BOOLEAN, tracked : BOOLEAN]
      BY <1>0, <1>1 DEF InitializeDeployment
    <3>2. /\ step' \in {"finalize", "build", "volumes"} /\ deployment' \in {"none", "running"}
          /\ inStep' \subseteq EcsNames /\ created' = {} /\ handled' = handled
      BY <1>0, <1>1 DEF InitializeDeployment, EcsNames
    <3> QED
      BY <1>0, <3>1, <3>2 DEF RunTyped
  <2>2. CountsTyped'
    <3>1. runNo' \in 0..MaxRuns /\ pipeFaults' \in 0..MaxPipeFaults
      BY <1>0, <1>1 DEF InitializeDeployment, awsState, runCounts, BetweenRuns, CountsTyped
    <3>2. troubled' \in BOOLEAN
      BY <1>0, <1>1 DEF InitializeDeployment
    <3>3. excused' \subseteq EcsNames
      BY <1>0, <1>1 DEF InitializeDeployment, CountsTyped, RunTyped
    <3> QED
      BY <3>1, <3>2, <3>3 DEF CountsTyped
  <2>3. AwsTyped'
    BY <1>0, <1>1 DEF InitializeDeployment, awsState, runCounts, BetweenRuns, AwsTyped,
           CountsTyped
  <2>4. ScopeSound'
    <3>1. step' \in {"finalize", "build", "volumes"}
      BY <1>1 DEF InitializeDeployment
    <3>2. step' = "build" => args'.build /\ ~args'.dryRun
      BY <1>1 DEF InitializeDeployment
    <3>3. step' = "volumes" => ~args'.dryRun
      BY <1>1 DEF InitializeDeployment
    <3> QED
      BY <3>1, <3>2, <3>3 DEF ScopeSound, Rolling
  <2>5. RollSound'
    BY <1>0, <1>1 DEF InitializeDeployment, awsState, runCounts, BetweenRuns, RollSound,
           Rolled, Rolling, ScopeSound, AwsTyped, Deployed, TasksCanStart
  <2>6. PushSound'
    BY <1>0, <1>1 DEF InitializeDeployment, PushSound, Rolling
  <2>7. RowSound'
    BY <1>0, <1>1 DEF InitializeDeployment, awsState, runCounts, BetweenRuns, RowSound,
           Rolling
  <2> QED
    BY <2>1, <2>2, <2>3, <2>4, <2>5, <2>6, <2>7 DEF PipelineInv
<1>2. ASSUME NEW s \in ComposeServices, BuildAndPushImages(s) PROVE PipelineInv'
  <2>1. RunTyped'
    BY <1>0, <1>2 DEF BuildAndPushImages, awsState, runCounts, RunTyped, EcsNames
  <2>2. CountsTyped'
    <3>1. runNo' \in 0..MaxRuns /\ pipeFaults' \in 0..MaxPipeFaults
      BY <1>0, <1>2 DEF BuildAndPushImages, awsState, runCounts, CountsTyped
    <3>2. troubled' \in BOOLEAN
      BY <1>0, <1>2 DEF BuildAndPushImages, awsState, runCounts, CountsTyped
    <3>3. excused' \subseteq EcsNames
      BY <1>0, <1>2 DEF BuildAndPushImages, awsState, runCounts, CountsTyped, RunTyped
    <3> QED
      BY <3>1, <3>2, <3>3 DEF CountsTyped
  <2>3. AwsTyped'
    BY <1>0, <1>2 DEF BuildAndPushImages, awsState, runCounts, AwsTyped, CountsTyped
  <2>4. ScopeSound'
    BY <1>0, <1>2 DEF BuildAndPushImages, awsState, runCounts, ScopeSound, Rolling,
           Deployed, AwsTyped, RunTyped
  <2>5. RollSound'
    BY <1>0, <1>2 DEF BuildAndPushImages, awsState, runCounts, RollSound, Rolling,
           Deployed, TasksCanStart
  <2>6. PushSound'
    BY <1>0, <1>2 DEF BuildAndPushImages, awsState, runCounts, PushSound, Rolling
  <2>7. RowSound'
    BY <1>0, <1>2 DEF BuildAndPushImages, awsState, runCounts, RowSound, Rolling
  <2> QED
    BY <2>1, <2>2, <2>3, <2>4, <2>5, <2>6, <2>7 DEF PipelineInv
<1>3. CASE SetupEfsVolumes
  <2>1. RunTyped'
    BY <1>0, <1>3 DEF SetupEfsVolumes, awsState, runCounts, RunTyped, EcsNames
  <2>2. CountsTyped'
    BY <1>0, <1>3 DEF SetupEfsVolumes, awsState, runCounts, CountsTyped
  <2>3. AwsTyped'
    BY <1>0, <1>3 DEF SetupEfsVolumes, awsState, AwsTyped, CountsTyped
  <2>4. ScopeSound'
    BY <1>0, <1>3 DEF SetupEfsVolumes, awsState, ScopeSound, Rolling, Deployed, AwsTyped,
           RunTyped
  <2>5. RollSound'
    BY <1>0, <1>3 DEF SetupEfsVolumes, awsState, RollSound, Rolling, Deployed, TasksCanStart
  <2>6. PushSound'
    BY <1>0, <1>3 DEF SetupEfsVolumes, awsState, runCounts, PushSound
  <2>7. RowSound'
    BY <1>0, <1>3 DEF SetupEfsVolumes, awsState, runCounts, RowSound
  <2> QED
    BY <2>1, <2>2, <2>3, <2>4, <2>5, <2>6, <2>7 DEF PipelineInv
<1>4. CASE CreateMountTargets
  <2>1. RunTyped'
    BY <1>0, <1>4 DEF CreateMountTargets, awsState, runCounts, RunTyped, EcsNames
  <2>2. CountsTyped'
    BY <1>0, <1>4 DEF CreateMountTargets, awsState, runCounts, CountsTyped
  <2>3. AwsTyped'
    BY <1>0, <1>4 DEF CreateMountTargets, awsState, AwsTyped, CountsTyped
  <2>4. ScopeSound'
    BY <1>0, <1>4 DEF CreateMountTargets, awsState, ScopeSound, Deployed, AwsTyped, RunTyped
  <2>5. RollSound'
    BY <1>0, <1>4 DEF CreateMountTargets, awsState, RollSound, Deployed, TasksCanStart
  <2>6. PushSound'
    BY <1>0, <1>4 DEF CreateMountTargets, awsState, runCounts, PushSound
  <2>7. RowSound'
    BY <1>0, <1>4 DEF CreateMountTargets, awsState, runCounts, RowSound
  <2> QED
    BY <2>1, <2>2, <2>3, <2>4, <2>5, <2>6, <2>7 DEF PipelineInv
<1>5. ASSUME NEW n \in EcsNames, GetOrCreateRow(n) PROVE PipelineInv'
  <2>1. RunTyped'
    BY <1>0, <1>5 DEF GetOrCreateRow, awsState, runCounts, RunTyped, EcsNames
  <2>2. CountsTyped'
    <3>1. \/ UNCHANGED <<pipeFaults, troubled, excused>>
          \/ /\ pipeFaults < MaxPipeFaults /\ pipeFaults' = pipeFaults + 1
             /\ troubled' = TRUE /\ excused' = excused \cup {n}
      BY <1>5 DEF GetOrCreateRow
    <3>2. pipeFaults' \in 0..MaxPipeFaults
      BY <1>0, <3>1 DEF CountsTyped
    <3>3. troubled' \in BOOLEAN
      BY <1>0, <3>1 DEF CountsTyped
    <3>4. excused' \subseteq EcsNames
      BY <1>0, <3>1 DEF CountsTyped
    <3>5. runNo' \in 0..MaxRuns
      BY <1>0, <1>5 DEF GetOrCreateRow, CountsTyped
    <3> QED
      BY <3>2, <3>3, <3>4, <3>5 DEF CountsTyped
  <2>3. AwsTyped'
    <3>1. PICK to \in {"none", "new", "arn"} : dbRow' = [dbRow EXCEPT ![n] = to]
      BY <1>0, <1>5 DEF GetOrCreateRow, AwsTyped
    <3> QED
      BY <1>0, <1>5, <3>1 DEF GetOrCreateRow, awsState, AwsTyped
  <2>4. ScopeSound'
    BY <1>0, <1>5 DEF GetOrCreateRow, ScopeSound, Rolling, Deployed, AwsTyped, RunTyped
  <2>5. RollSound'
    BY <1>0, <1>5 DEF GetOrCreateRow, awsState, RollSound, Rolled, Rolling,
           Deployed, TasksCanStart
  <2>6. PushSound'
    BY <1>0, <1>5 DEF GetOrCreateRow, awsState, PushSound, Rolling
  <2>7. RowSound'
    <3>1. step = "create" /\ step' = "call" /\ UNCHANGED <<ecs, efs>>
      BY <1>5 DEF GetOrCreateRow, awsState
    <3>2. excused \subseteq excused'
      BY <1>5 DEF GetOrCreateRow
    <3>3. n \notin excused' => (dbRow'[n] = "arn") = ecs[n].there
      <4>1. n \notin excused' => (dbRow[n] = "arn") = ecs[n].there
        BY <1>0, <3>1, <3>2 DEF RowSound
      <4>2. n \notin excused' =>
              dbRow'[n] = IF TakesOver(n) THEN "arn" ELSE IF dbRow[n] = "none" THEN "new" ELSE dbRow[n]
        BY <1>0, <1>5 DEF GetOrCreateRow, AwsTyped
      <4>3. ecs[n].there \in BOOLEAN /\ dbRow[n] \in {"none", "new", "arn"}
        BY <1>0 DEF AwsTyped
      <4> QED
        BY <4>1, <4>2, <4>3 DEF TakesOver
    <3>4. \A m \in EcsNames \ {n} : dbRow'[m] = dbRow[m]
      BY <1>0, <1>5 DEF GetOrCreateRow, AwsTyped
    <3>5. \A m \in EcsNames : m \notin excused' => (dbRow'[m] = "arn") = ecs'[m].there
      BY <1>0, <3>1, <3>2, <3>3, <3>4 DEF RowSound
    <3> QED
      BY <1>0, <3>1, <3>5 DEF RowSound, Rolling
  <2> QED
    BY <2>1, <2>2, <2>3, <2>4, <2>5, <2>6, <2>7 DEF PipelineInv
<1>6. CASE CreateOrUpdateService
  <2>1. RunTyped'
    BY <1>0, <1>6 DEF CreateOrUpdateService, awsState, runCounts, NewRollout, RunTyped,
           EcsNames
  <2>2. CountsTyped'
    BY <1>0, <1>6 DEF CreateOrUpdateService, awsState, runCounts, CountsTyped
  <2>3. AwsTyped'
    BY <1>0, <1>6 DEF CreateOrUpdateService, awsState, NewRollout, AwsTyped, CountsTyped
  <2>4. ScopeSound'
    BY <1>0, <1>6 DEF CreateOrUpdateService, awsState, ScopeSound, Rolling, Deployed,
           AwsTyped, RunTyped
  <2>5. RollSound'
    BY <1>0, <1>6 DEF CreateOrUpdateService, awsState, runCounts, NewRollout, RollSound,
           Rolled, Rolling, ScopeSound, AwsTyped, Deployed, TasksCanStart
  <2>6. PushSound'
    BY <1>0, <1>6 DEF CreateOrUpdateService, awsState, runCounts, PushSound, Rolling
  <2>7. RowSound'
    BY <1>0, <1>6 DEF CreateOrUpdateService, awsState, runCounts, RowSound, Rolling
  <2> QED
    BY <2>1, <2>2, <2>3, <2>4, <2>5, <2>6, <2>7 DEF PipelineInv
<1>7. CASE CallRefused
  <2>1. RunTyped'
    BY <1>0, <1>7 DEF CallRefused, awsState, runCounts, Accepted, RunTyped, EcsNames
  <2>2. CountsTyped'
    BY <1>0, <1>7 DEF CallRefused, runCounts, CountsTyped
  <2>3. AwsTyped'
    BY <1>0, <1>7 DEF CallRefused, awsState, AwsTyped
  <2>4. ScopeSound'
    BY <1>0, <1>7 DEF CallRefused, ScopeSound, Rolling, Deployed, AwsTyped, RunTyped
  <2>5. RollSound'
    BY <1>0, <1>7 DEF CallRefused, awsState, RollSound, Rolling, Deployed, TasksCanStart
  <2>6. PushSound'
    BY <1>0, <1>7 DEF CallRefused, PushSound, Rolling
  <2>7. RowSound'
    BY <1>0, <1>7 DEF CallRefused, awsState, runCounts, Accepted, RowSound, ScopeSound,
           Rolling, Deployed
  <2> QED
    BY <2>1, <2>2, <2>3, <2>4, <2>5, <2>6, <2>7 DEF PipelineInv
<1>8. CASE RecordArn
  <2>1. RunTyped'
    BY <1>0, <1>8 DEF RecordArn, awsState, runCounts, RunTyped, EcsNames
  <2>2. CountsTyped'
    BY <1>0, <1>8 DEF RecordArn, runCounts, CountsTyped
  <2>3. AwsTyped'
    BY <1>0, <1>8 DEF RecordArn, awsState, AwsTyped
  <2>4. ScopeSound'
    BY <1>0, <1>8 DEF RecordArn, ScopeSound, Rolling, Deployed, AwsTyped, RunTyped
  <2>5. RollSound'
    BY <1>0, <1>8 DEF RecordArn, awsState, runCounts, RollSound, Rolled, Rolling, Deployed,
           TasksCanStart
  <2>6. PushSound'
    BY <1>0, <1>8 DEF RecordArn, awsState, runCounts, PushSound, Rolling
  <2>7. RowSound'
    BY <1>0, <1>8 DEF RecordArn, awsState, runCounts, RowSound, RollSound, Rolled, Rolling,
           AwsTyped
  <2> QED
    BY <2>1, <2>2, <2>3, <2>4, <2>5, <2>6, <2>7 DEF PipelineInv
<1>9. ASSUME NEW n \in EcsNames, WaitForStability(n) PROVE PipelineInv'
  <2>1. RunTyped'
    BY <1>0, <1>9 DEF WaitForStability, awsState, runCounts, RunTyped, EcsNames
  <2>2. CountsTyped'
    BY <1>0, <1>9 DEF WaitForStability, runCounts, CountsTyped
  <2>3. AwsTyped'
    BY <1>0, <1>9 DEF WaitForStability, awsState, AwsTyped
  <2>4. ScopeSound'
    BY <1>0, <1>9 DEF WaitForStability, ScopeSound, Deployed, AwsTyped, RunTyped
  <2>5. RollSound'
    BY <1>0, <1>9 DEF WaitForStability, awsState, runCounts, RollSound, Rolled, Deployed,
           TasksCanStart
  <2>6. PushSound'
    BY <1>0, <1>9 DEF WaitForStability, awsState, runCounts, PushSound
  <2>7. RowSound'
    BY <1>0, <1>9 DEF WaitForStability, awsState, runCounts, RowSound
  <2> QED
    BY <2>1, <2>2, <2>3, <2>4, <2>5, <2>6, <2>7 DEF PipelineInv
<1>10. ASSUME NEW n \in EcsNames, RolloutCompletes(n) PROVE PipelineInv'
  <2>1. RunTyped'
    BY <1>0, <1>10 DEF RolloutCompletes, awsState, runCounts, RunTyped, EcsNames
  <2>2. CountsTyped'
    BY <1>0, <1>10 DEF RolloutCompletes, awsState, runCounts, CountsTyped
  <2>3. AwsTyped'
    BY <1>0, <1>10 DEF RolloutCompletes, awsState, AwsTyped, CountsTyped
  <2>4. ScopeSound'
    BY <1>0, <1>10 DEF RolloutCompletes, awsState, ScopeSound, Deployed, AwsTyped, RunTyped
  <2>5. RollSound'
    BY <1>0, <1>10 DEF RolloutCompletes, awsState, runCounts, RollSound, Rolled, Deployed,
           TasksCanStart
  <2>6. PushSound'
    BY <1>0, <1>10 DEF RolloutCompletes, awsState, runCounts, PushSound
  <2>7. RowSound'
    <3>1. \A m \in EcsNames : ecs'[m].there = ecs[m].there
      BY <1>0, <1>10 DEF RolloutCompletes, AwsTyped
    <3> QED
      BY <1>0, <1>10, <3>1 DEF RolloutCompletes, runCounts, RowSound, Rolling, Deployed,
         TasksCanStart
  <2> QED
    BY <2>1, <2>2, <2>3, <2>4, <2>5, <2>6, <2>7 DEF PipelineInv
<1>11. ASSUME NEW n \in EcsNames, WaitTimesOut(n) PROVE PipelineInv'
  <2>1. RunTyped'
    BY <1>0, <1>11 DEF WaitTimesOut, awsState, runCounts, RunTyped, EcsNames
  <2>2. CountsTyped'
    BY <1>0, <1>11 DEF WaitTimesOut, runCounts, CountsTyped
  <2>3. AwsTyped'
    BY <1>0, <1>11 DEF WaitTimesOut, awsState, AwsTyped
  <2>4. ScopeSound'
    BY <1>0, <1>11 DEF WaitTimesOut, ScopeSound, Deployed, AwsTyped, RunTyped
  <2>5. RollSound'
    BY <1>0, <1>11 DEF WaitTimesOut, awsState, RollSound, Rolling, Deployed, TasksCanStart
  <2>6. PushSound'
    BY <1>0, <1>11 DEF WaitTimesOut, PushSound, Rolling
  <2>7. RowSound'
    <3>1. step = "wait" /\ n \in Deployed /\ ~TasksCanStart(n)
      BY <1>0, <1>11 DEF WaitTimesOut, ScopeSound
    <3>2. UNCHANGED <<args, dbRow, ecs, efs, excused>> /\ step' = "undo after create"
      BY <1>11 DEF WaitTimesOut, awsState, runCounts
    <3>3. (\E m \in Deployed : ~TasksCanStart(m))'
      BY <3>1, <3>2 DEF Deployed, TasksCanStart
    <3>4. \A m \in EcsNames : m \notin excused' => (dbRow'[m] = "arn") = ecs'[m].there
      BY <1>0, <3>1, <3>2 DEF RowSound
    <3> QED
      BY <3>2, <3>3, <3>4 DEF RowSound, Rolling
  <2> QED
    BY <2>1, <2>2, <2>3, <2>4, <2>5, <2>6, <2>7 DEF PipelineInv
<1>12. CASE FinalizeDeployment
  <2>1. RunTyped'
    BY <1>0, <1>12 DEF FinalizeDeployment, awsState, runCounts, RunTyped, EcsNames
  <2>2. CountsTyped'
    BY <1>0, <1>12 DEF FinalizeDeployment, runCounts, CountsTyped
  <2>3. AwsTyped'
    BY <1>0, <1>12 DEF FinalizeDeployment, awsState, AwsTyped
  <2>4. ScopeSound'
    BY <1>0, <1>12 DEF FinalizeDeployment, ScopeSound, Rolling, Deployed, AwsTyped, RunTyped
  <2>5. RollSound'
    BY <1>0, <1>12 DEF FinalizeDeployment, awsState, runCounts, RollSound, Rolled, Rolling,
           Deployed, TasksCanStart
  <2>6. PushSound'
    BY <1>0, <1>12 DEF FinalizeDeployment, awsState, runCounts, PushSound
  <2>7. RowSound'
    BY <1>0, <1>12 DEF FinalizeDeployment, awsState, runCounts, RowSound, Rolling
  <2> QED
    BY <2>1, <2>2, <2>3, <2>4, <2>5, <2>6, <2>7 DEF PipelineInv
<1>13. CASE StepFails
  <2>1. RunTyped'
    BY <1>0, <1>13 DEF StepFails, awsState, runCounts, RunTyped, EcsNames
  <2>2. CountsTyped'
    <3>0. pipeFaults < MaxPipeFaults /\ pipeFaults' = pipeFaults + 1 /\ UNCHANGED runNo
      BY <1>13 DEF StepFails
    <3>1. runNo' \in 0..MaxRuns /\ pipeFaults' \in 0..MaxPipeFaults
      BY <1>0, <3>0 DEF CountsTyped
    <3>2. troubled' \in BOOLEAN
      BY <1>0, <1>13 DEF StepFails, awsState, runCounts, CountsTyped
    <3>3. excused' \subseteq EcsNames
      BY <1>0, <1>13 DEF StepFails, Unsaved, CountsTyped, RunTyped
    <3> QED
      BY <3>1, <3>2, <3>3 DEF CountsTyped
  <2>3. AwsTyped'
    BY <1>0, <1>13 DEF StepFails, awsState, runCounts, AwsTyped, CountsTyped
  <2>4. ScopeSound'
    BY <1>0, <1>13 DEF StepFails, ScopeSound, Rolling, Deployed, AwsTyped, RunTyped
  <2>5. RollSound'
    BY <1>0, <1>13 DEF StepFails, awsState, runCounts, RollSound, Rolling, Deployed,
           TasksCanStart
  <2>6. PushSound'
    BY <1>0, <1>13 DEF StepFails, PushSound, Rolling
  <2>7. RowSound'
    <3>1. \A m \in EcsNames : m \notin excused' => (dbRow[m] = "arn") = ecs[m].there
      BY <1>13, UnsavedIsParted DEF StepFails
    <3>2. /\ troubled' /\ step' \in {"undo after create", "undo"}
          /\ UNCHANGED <<dbRow, ecs, efs>>
      BY <1>13 DEF StepFails, awsState
    <3> QED
      BY <3>1, <3>2 DEF RowSound, Rolling
  <2> QED
    BY <2>1, <2>2, <2>3, <2>4, <2>5, <2>6, <2>7 DEF PipelineInv
<1>14. CASE CleanUpCreatedServices
  <2>1. RunTyped'
    BY <1>0, <1>14 DEF CleanUpCreatedServices, awsState, runCounts, RunTyped, EcsNames
  <2>2. CountsTyped'
    BY <1>0, <1>14 DEF CleanUpCreatedServices, runCounts, CountsTyped
  <2>3. AwsTyped'
    BY <1>0, <1>14 DEF CleanUpCreatedServices, awsState, AwsTyped
  <2>4. ScopeSound'
    BY <1>0, <1>14 DEF CleanUpCreatedServices, ScopeSound, Rolling, Deployed, AwsTyped,
           RunTyped
  <2>5. RollSound'
    BY <1>0, <1>14 DEF CleanUpCreatedServices, awsState, RollSound, Rolling, Deployed,
           TasksCanStart
  <2>6. PushSound'
    BY <1>0, <1>14 DEF CleanUpCreatedServices, PushSound, Rolling
  <2>7. RowSound'
    BY <1>0, <1>14 DEF CleanUpCreatedServices, awsState, runCounts, RowSound, Rolling,
           Deployed, TasksCanStart
  <2> QED
    BY <2>1, <2>2, <2>3, <2>4, <2>5, <2>6, <2>7 DEF PipelineInv
<1>15. CASE ConcludeAsFailed
  <2>1. RunTyped'
    BY <1>0, <1>15 DEF ConcludeAsFailed, awsState, runCounts, RunTyped, EcsNames
  <2>2. CountsTyped'
    BY <1>0, <1>15 DEF ConcludeAsFailed, runCounts, CountsTyped
  <2>3. AwsTyped'
    BY <1>0, <1>15 DEF ConcludeAsFailed, awsState, AwsTyped
  <2>4. ScopeSound'
    BY <1>0, <1>15 DEF ConcludeAsFailed, ScopeSound, Rolling, Deployed, AwsTyped, RunTyped
  <2>5. RollSound'
    BY <1>0, <1>15 DEF ConcludeAsFailed, awsState, RollSound, Rolling, Deployed,
           TasksCanStart
  <2>6. PushSound'
    BY <1>0, <1>15 DEF ConcludeAsFailed, PushSound, Rolling
  <2>7. RowSound'
    BY <1>0, <1>15 DEF ConcludeAsFailed, awsState, runCounts, RowSound, Rolling, Deployed,
           TasksCanStart
  <2> QED
    BY <2>1, <2>2, <2>3, <2>4, <2>5, <2>6, <2>7 DEF PipelineInv
<1>16. CASE Killed
  <2>1. RunTyped'
    BY <1>0, <1>16 DEF Killed, awsState, runCounts, BetweenRuns, RunTyped, EcsNames
  <2>2. CountsTyped'
    <3>1. runNo' \in 0..MaxRuns /\ pipeFaults' \in 0..MaxPipeFaults
      BY <1>0, <1>16 DEF Killed, CountsTyped
    <3>2. troubled' \in BOOLEAN
      BY <1>0, <1>16 DEF Killed, CountsTyped
    <3>3. excused' \subseteq EcsNames
      BY <1>0, <1>16 DEF Killed, Unsaved, CountsTyped, RunTyped
    <3> QED
      BY <3>1, <3>2, <3>3 DEF CountsTyped
  <2>3. AwsTyped'
    BY <1>0, <1>16 DEF Killed, awsState, runCounts, BetweenRuns, AwsTyped, CountsTyped
  <2>4. ScopeSound'
    BY <1>0, <1>16 DEF Killed, ScopeSound, Rolling, Deployed, AwsTyped, RunTyped
  <2>5. RollSound'
    BY <1>0, <1>16 DEF Killed, awsState, runCounts, RollSound, Rolling, Deployed,
           TasksCanStart
  <2>6. PushSound'
    BY <1>0, <1>16 DEF Killed, PushSound, Rolling
  <2>7. RowSound'
    <3>1. \A m \in EcsNames : m \notin excused' => (dbRow[m] = "arn") = ecs[m].there
      BY <1>16, UnsavedIsParted DEF Killed
    <3> QED
      BY <1>16, <3>1 DEF Killed, awsState, RowSound, Rolling
  <2> QED
    BY <2>1, <2>2, <2>3, <2>4, <2>5, <2>6, <2>7 DEF PipelineInv
<1>17. ASSUME NEW n \in EcsNames, TeardownService(n) PROVE PipelineInv'
  <2>1. RunTyped'
    BY <1>0, <1>17 DEF TeardownService, awsState, runCounts, BetweenRuns, NoService,
           RunTyped, EcsNames
  <2>2. CountsTyped'
    BY <1>0, <1>17 DEF TeardownService, awsState, runCounts, CountsTyped
  <2>3. AwsTyped'
    <3>1. NoService \in [there : BOOLEAN, td : 0..MaxRuns, stable : BOOLEAN]
      BY DEF NoService
    <3>2. dbRow' \in [EcsNames -> {"none", "new", "arn"}]
      BY <1>0, <1>17 DEF TeardownService, AwsTyped
    <3>3. ecs' \in [EcsNames -> [there : BOOLEAN, td : 0..MaxRuns, stable : BOOLEAN]]
      BY <1>0, <1>17, <3>1 DEF TeardownService, AwsTyped
    <3> QED
      BY <1>0, <1>17, <3>2, <3>3 DEF TeardownService, AwsTyped
  <2>4. ScopeSound'
    BY <1>0, <1>17 DEF TeardownService, awsState, runCounts, BetweenRuns, NoService,
           ScopeSound, Rolling, Deployed, AwsTyped, RunTyped
  <2>5. RollSound'
    BY <1>0, <1>17 DEF TeardownService, awsState, runCounts, NoService, RollSound, Rolling,
           AwsTyped, Deployed, TasksCanStart
  <2>6. PushSound'
    BY <1>0, <1>17 DEF TeardownService, awsState, runCounts, PushSound, Rolling
  <2>7. RowSound'
    <3>1. /\ step' = "idle" /\ step # "record" /\ excused \subseteq excused'
          /\ \A m \in EcsNames : m # n => dbRow'[m] = dbRow[m] /\ ecs'[m] = ecs[m]
          /\ dbRow'[n] = "none"
      BY <1>0, <1>17 DEF TeardownService, BetweenRuns, AwsTyped
    <3>2. n \notin excused' => ~ecs'[n].there
      <4>1. CASE ecs' = [ecs EXCEPT ![n] = NoService]
        BY <1>0, <1>17, <4>1 DEF NoService, AwsTyped
      <4>2. CASE dbRow[n] = "new" /\ UNCHANGED <<ecs, pipeFaults, excused>>
        BY <1>0, <1>17, <3>1, <4>2 DEF RowSound
      <4> QED
        BY <1>17, <4>1, <4>2 DEF TeardownService
    <3>3. ecs'[n].there \in BOOLEAN
      BY <2>3 DEF AwsTyped
    <3>4. \A m \in EcsNames : m \notin excused' => (dbRow'[m] = "arn") = ecs'[m].there
      BY <1>0, <3>1, <3>2, <3>3 DEF RowSound
    <3> QED
      BY <3>1, <3>4 DEF RowSound, Rolling
  <2> QED
    BY <2>1, <2>2, <2>3, <2>4, <2>5, <2>6, <2>7 DEF PipelineInv
<1>18. ASSUME NEW n \in EcsNames, DeleteCommand(n) PROVE PipelineInv'
  <2>1. RunTyped'
    BY <1>0, <1>18 DEF DeleteCommand, awsState, runCounts, BetweenRuns, NoService,
           RunTyped, EcsNames
  <2>2. CountsTyped'
    BY <1>0, <1>18 DEF DeleteCommand, awsState, runCounts, CountsTyped
  <2>3. AwsTyped'
    BY <1>0, <1>18 DEF DeleteCommand, awsState, runCounts, NoService, AwsTyped
  <2>4. ScopeSound'
    BY <1>0, <1>18 DEF DeleteCommand, awsState, runCounts, ScopeSound, Rolling, Deployed,
           AwsTyped, RunTyped
  <2>5. RollSound'
    BY <1>0, <1>18 DEF DeleteCommand, awsState, runCounts, NoService, RollSound, Rolling,
           Deployed, TasksCanStart
  <2>6. PushSound'
    BY <1>0, <1>18 DEF DeleteCommand, awsState, runCounts, PushSound, Rolling
  <2>7. RowSound'
    BY <1>0, <1>18 DEF DeleteCommand, awsState, runCounts, BetweenRuns, RowSound, Rolling,
           AwsTyped
  <2> QED
    BY <2>1, <2>2, <2>3, <2>4, <2>5, <2>6, <2>7 DEF PipelineInv
<1>19. CASE UNCHANGED pipelineVars
  <2>1. UNCHANGED <<args, step, inStep, handled, created, deployment, dbRow, ecs, pushed, efs,
                    runNo, pipeFaults, troubled, excused>>
    BY <1>19 DEF pipelineVars
  <2>2. RunTyped' /\ ScopeSound'
    BY <1>0, <2>1 DEF RunTyped, ScopeSound, Deployed
  <2>3. CountsTyped' /\ AwsTyped'
    BY <1>0, <2>1 DEF CountsTyped, AwsTyped
  <2>4. RollSound' /\ PushSound'
    BY <1>0, <2>1 DEF RollSound, PushSound, Rolled, Deployed, TasksCanStart
  <2>5. RowSound'
    BY <1>0, <2>1 DEF RowSound, Deployed, TasksCanStart
  <2> QED
    BY <2>2, <2>3, <2>4, <2>5 DEF PipelineInv
<1> QED
  BY <1>1, <1>2, <1>3, <1>4, <1>5, <1>6, <1>7, <1>8, <1>9, <1>10, <1>11, <1>12, <1>13,
     <1>14, <1>15, <1>16, <1>17, <1>18, <1>19 DEF PipelineNext

\* The invariant holds of every history of runs, kills, teardowns and deletes.
THEOREM PipelineInductive == PipelineSpec => []PipelineInv
BY PipelineStarts, PipelineStep, PTL DEF PipelineSpec

\* Type correctness of the pipeline for any services, images and runs.
THEOREM PipelineTypeCorrect == PipelineSpec => []PipelineTypeOK
BY PipelineTyped, PipelineInductive, PTL

\* "Pipeline completed successfully" for any services and any history: every service the run
\* was for runs and has settled on the task definition of this run, and what it was to build
\* is in every repository its tasks pull from.
THEOREM GreenIsThisRun == PipelineSpec => []GreenRunsThisRun
<1>1. PipelineInv => GreenRunsThisRun
  BY DeployedAreNames DEF PipelineInv, RunTyped, RollSound, Rolled, PushSound,
         GreenRunsThisRun, ImagesOf, EcsNames
<1> QED
  BY <1>1, PipelineInductive, PTL

\* A failed deployment can be repeated, for any services and any history: a run none of
\* whose calls fails is green, unless a service of it was parted from its row by an event
\* RetryIsGreen names, a lost answer of create_service or a lost save among them, or cannot
\* start for want of mount targets.
THEOREM RetriesAreGreen == PipelineSpec => []RetryIsGreen
<1>1. PipelineInv => RetryIsGreen
  BY DEF PipelineInv, RowSound, RetryIsGreen
<1> QED
  BY <1>1, PipelineInductive, PTL

-----------------------------------------------------------------------------
(***************************************************************************)
(* MCStandalone: in each behaviour one component moves and the others stay *)
(* as they are, so what the moving one keeps on its own it keeps here.     *)
(***************************************************************************)

\* The invariant of the component that moves.
MovingInv ==
  /\ part \in {"window", "registry", "codebuild", "transfers", "pipeline"}
  /\ part = "window" => WindowTypeOK
  /\ part = "registry" => RegistryTypeOK
  /\ part = "codebuild" => BackendInv
  /\ part = "transfers" => TransferInv
  /\ part = "pipeline" => PipelineInv

\* Every start is a start of each component that may move in it.
LEMMA MovingStarts == Init => MovingInv
<1> SUFFICES ASSUME Init PROVE MovingInv
  OBVIOUS
<1>1. part = "window" => WindowInit
  BY DEF Init
<1>2. part # "window" => RegistryInit /\ TransfersInit /\ PipelineInit /\ CodeBuildInit
  BY DEF Init
<1>3. part \in {"window", "registry", "codebuild", "transfers", "pipeline"}
  BY DEF Init
<1> QED
  BY <1>1, <1>2, <1>3, WindowStarts, InitTyped, BackendStarts, TransferStarts, PipelineStarts
  DEF MovingInv

\* A component that is left alone keeps its invariant.
LEMMA MovingStays ==
  ASSUME MovingInv, UNCHANGED allVars
  PROVE  MovingInv'
<1>1. UNCHANGED <<windowVars, registryVars, cbVars, transferVars, pipelineVars, part>>
  BY DEF allVars
<1>2. /\ WindowTypeOK => WindowTypeOK'
      /\ RegistryTypeOK => RegistryTypeOK'
      /\ BackendInv => BackendInv'
      /\ TransferInv => TransferInv'
      /\ PipelineInv => PipelineInv'
  BY <1>1, WindowStep, StepTyped, BackendStep, TransferStep, PipelineStep
<1> QED
  BY <1>1, <1>2 DEF MovingInv

\* Every step is a step of the component that moves.
LEMMA MovingStep == MovingInv /\ [Next]_allVars => MovingInv'
<1> SUFFICES ASSUME MovingInv, Next PROVE MovingInv'
  BY MovingStays
<1>1. /\ WindowTypeOK /\ WindowNext => WindowTypeOK'
      /\ RegistryTypeOK /\ RegistryNext => RegistryTypeOK'
      /\ BackendInv /\ CodeBuildNext => BackendInv'
      /\ TransferInv /\ TransfersNext => TransferInv'
      /\ PipelineInv /\ PipelineNext => PipelineInv'
  BY WindowStep, StepTyped, BackendStep, TransferStep, PipelineStep
<1>2. /\ part' = part
      /\ part = "window" => WindowNext
      /\ part = "registry" => RegistryNext
      /\ part = "codebuild" => CodeBuildNext
      /\ part = "transfers" => TransfersNext
      /\ part = "pipeline" => PipelineNext
  BY DEF Next
<1> QED
  BY <1>1, <1>2 DEF MovingInv

\* Each component keeps its types while it moves, for every value of the constants.
THEOREM StandaloneTypeCorrect == Spec => []TypeOK
<1>1. MovingInv => TypeOK
  BY BackendTyped, TransferTypes, PipelineTyped DEF MovingInv, TypeOK
<1> QED
  BY <1>1, MovingStarts, MovingStep, PTL DEF Spec

=============================================================================
