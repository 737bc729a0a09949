--------------------------- MODULE DeployRun_proofs ---------------------------
(***************************************************************************)
(* Proofs about DeployRun for every stack, every history of deploys, edits *)
(* and fixes, every pool size and every interruption: type correctness and *)
(* the safety properties of the images a green deploy leaves running.      *)
(***************************************************************************)
EXTENDS DeployRun, WellFoundedInduction, TLAPS

(* Two services with one image have it in common with the same third ones. *)
LEMMA SameImageIsTransitive ==
  ASSUME NEW s, NEW t, NEW u, SameImage(s, t)
  PROVE  SameImage(u, s) <=> SameImage(u, t)
BY DEF SameImage

LEMMA LessThanIsRelated ==
  ASSUME NEW i \in Nat, NEW j \in Nat, j < i
  PROVE  <<j, i>> \in OpToRel(<, Nat)
BY DEF OpToRel

(* A sequence has a first element among those with the image of a given service. *)
LEMMA OwnerIsFirst ==
  ASSUME NEW s \in Service
  PROVE  \E i \in DOMAIN Order :
           /\ Owner(s) = Order[i]
           /\ SameImage(Order[i], s)
           /\ \A j \in DOMAIN Order : SameImage(Order[j], s) => i <= j
<1> DEFINE T == {i \in DOMAIN Order : SameImage(Order[i], s)}
<1>1. DOMAIN Order \subseteq Nat
  BY DeployAssumption
<1>2. T # {}
  BY DEF Service, SameImage
<1>3. \E i \in T : \A j \in T : ~(<<j, i>> \in OpToRel(<, Nat))
  BY <1>1, <1>2, NatLessThanWellFounded, WFMin
<1>4. PICK i \in T : \A j \in T : ~(<<j, i>> \in OpToRel(<, Nat))
  BY <1>3
<1>5. \A j \in T : j < i => <<j, i>> \in OpToRel(<, Nat)
  BY <1>1, LessThanIsRelated
<1>6. \A j \in T : ~(j < i)
  BY <1>4, <1>5
<1>7. \A j \in T : i <= j
  BY <1>1, <1>6
<1> QED
  BY <1>7 DEF Owner

LEMMA OwnerTyped ==
  ASSUME NEW s \in Buildable
  PROVE  Owner(s) \in Owners
<1>1. s \in Service
  BY DEF Buildable
<1>2. PICK i \in DOMAIN Order :
        /\ Owner(s) = Order[i]
        /\ SameImage(Order[i], s)
        /\ \A j \in DOMAIN Order : SameImage(Order[j], s) => i <= j
  BY <1>1, OwnerIsFirst
<1>3. Owner(s) \in Service
  BY <1>2 DEF Service
<1>4. Owner(s) \in Buildable
  BY <1>2, <1>3 DEF Buildable, SameImage
<1>5. PICK k \in DOMAIN Order :
        /\ Owner(Owner(s)) = Order[k]
        /\ SameImage(Order[k], Owner(s))
        /\ \A j \in DOMAIN Order : SameImage(Order[j], Owner(s)) => k <= j
  BY <1>3, OwnerIsFirst
<1>6. \A j \in DOMAIN Order : SameImage(Order[j], Owner(s)) <=> SameImage(Order[j], s)
  BY <1>2, SameImageIsTransitive
<1>7. i <= k /\ k <= i
  BY <1>2, <1>5, <1>6 DEF SameImage
<1>8. DOMAIN Order \subseteq Nat
  BY DeployAssumption
<1>9. i = k
  BY <1>7, <1>8
<1> QED
  BY <1>2, <1>4, <1>5, <1>9 DEF Owners

LEMMA LatestIsNoTag == "latest" \notin Tags
BY DeployAssumption

LEMMA ArgsTyped ==
  ASSUME args \in Args
  PROVE  /\ args.tag \in Tags \cup {"none"}
         /\ args.filter \in Filters
         /\ args.noBuild \in BOOLEAN /\ args.noRoll \in BOOLEAN /\ args.push \in BOOLEAN
BY DEF Args

LEMMA NoArgsTyped == NoArgs \in Args
BY DeployAssumption DEF Args, NoArgs

LEMMA TagTyped ==
  ASSUME args \in Args, args.tag # "none"
  PROVE  args.tag \in Tags /\ args.tag \in AllTags /\ args.tag # "latest"
BY ArgsTyped, DeployAssumption DEF AllTags

LEMMA MembersTyped ==
  ASSUME NEW o \in Owners
  PROVE  Members(o) \subseteq Buildable
BY DEF Members

LEMMA VersionTyped == Version \subseteq Int /\ 0 \in Version /\ 1 \in Version
BY DeployAssumption DEF Version

----------------------------------------------------------------------------
(* Type correctness *)

LEMMA BoundsTyped == MaxVersion \in Nat \ {0} /\ MaxFixes \in Nat /\ MaxDeploys \in Nat
BY DeployAssumption

LEMMA InitTyped == Init => TypeOK
<1> SUFFICES ASSUME Init PROVE TypeOK
  OBVIOUS
<1>1. /\ ecr \in [Owners -> [AllTags -> Version]]
      /\ source \in [Owners -> Version] /\ cached \in [Owners -> Version]
      /\ image \in [Owners -> Version] /\ atStart \in [Owners -> Version]
      /\ running \in [Buildable -> Version]
  BY VersionTyped DEF Init
<1>2. args \in Args
  BY NoArgsTyped DEF Init
<1>3. deploys \in 0..MaxDeploys /\ fixes \in 0..MaxFixes
  BY BoundsTyped DEF Init
<1> QED
  BY <1>1, <1>2, <1>3 DEF Init, TypeOK

LEMMA BuildSetTyped ==
  ASSUME NEW f \in Filters
  PROVE  ServicesToBuild(f) \subseteq Owners
BY DEF ServicesToBuild

LEMMA FiltersTyped == \A f \in Filters : f \subseteq Service
BY DeployAssumption

LEMMA RollTargetsTyped ==
  ASSUME NEW p
  PROVE  RollTargets(p) \subseteq Service
BY DEF RollTargets, Buildable

(* ECR with one more image in it. *)
LEMMA TagMoves ==
  ASSUME ecr \in [Owners -> [AllTags -> Version]],
         NEW o \in Owners, NEW t \in AllTags, NEW v \in Version,
         ecr' = [ecr EXCEPT ![o][t] = v]
  PROVE  /\ ecr' \in [Owners -> [AllTags -> Version]]
         /\ ecr'[o][t] = v
         /\ \A u \in AllTags : u # t => ecr'[o][u] = ecr[o][u]
         /\ \A q \in Owners : q # o => ecr'[q] = ecr[q]
OBVIOUS

(* ECR after a build that exported every tag itself. *)
LEMMA TagsExported ==
  ASSUME ecr \in [Owners -> [AllTags -> Version]],
         NEW o \in Owners, NEW v \in Version, BuildPushed(o, v)
  PROVE  /\ ecr' \in [Owners -> [AllTags -> Version]]
         /\ ecr'[o]["latest"] = v
         /\ args.tag \in AllTags => ecr'[o][args.tag] = v
         /\ \A u \in AllTags : u # "latest" /\ u # args.tag => ecr'[o][u] = ecr[o][u]
         /\ \A q \in Owners : q # o => ecr'[q] = ecr[q]
BY DEF BuildPushed, AllTags

LEMMA FailTyped == TypeOK /\ Fail => TypeOK'
<1> SUFFICES ASSUME TypeOK, Fail PROVE TypeOK'
  OBVIOUS
<1>1. Forget /\ UNCHANGED <<disk, ecr, running, deploys>>
  BY DEF Fail
<1>2. image' \in [Owners -> Version] /\ atStart' \in [Owners -> Version]
  BY <1>1, VersionTyped DEF Fail, Forget
<1>3. /\ job' \in [Owners -> {"none", "queued", "building", "tagging", "pushing", "done", "failed"}]
      /\ noCache' \in BOOLEAN
      /\ todo' \subseteq Owners /\ specs' \subseteq Owners \ todo' /\ pushed' \subseteq Owners
      /\ toRoll' \subseteq Service /\ excused' \subseteq Owners
  BY <1>1 DEF Forget
<1>4. args' \in Args /\ pc' = "idle" /\ outcome' = "failed"
  BY NoArgsTyped DEF Fail
<1>5. /\ source' \in [Owners -> Version] /\ cached' \in [Owners -> Version]
      /\ stale' \subseteq Owners /\ sentinel' \in BOOLEAN
      /\ ecr' \in [Owners -> [AllTags -> Version]] /\ running' \in [Buildable -> Version]
      /\ deploys' \in 0..MaxDeploys /\ fixes' \in 0..MaxFixes
  BY <1>1 DEF TypeOK, disk
<1> QED
  BY <1>2, <1>3, <1>4, <1>5 DEF TypeOK

LEMMA YieldsTyped ==
  ASSUME TypeOK, NEW o \in Owners
  PROVE  Yields(o) \subseteq Version
BY DEF TypeOK, Yields

LEMMA StepTyped == TypeOK /\ PhaseInv /\ TagInv /\ [Next]_vars => TypeOK'
<1> SUFFICES ASSUME TypeOK, PhaseInv, TagInv, [Next]_vars
             PROVE  TypeOK'
  OBVIOUS
<1> USE DEF disk, local
<1>1. CASE Applied
  <2>1. args.filter \subseteq Service
    BY ArgsTyped, FiltersTyped DEF TypeOK
  <2>2. toRoll' \subseteq Service /\ pc' \in {"roll", "plan"}
    BY <1>1, <2>1 DEF Applied, TypeOK
  <2> QED
    BY <1>1, <2>2 DEF Applied, TypeOK
<1>2. CASE PlanBuild
  <2>1. ServicesToBuild(args.filter) \subseteq Owners
    BY ArgsTyped, BuildSetTyped DEF TypeOK
  <2>2. specs = {} /\ specs' = {}
    BY <1>2 DEF PlanBuild, PhaseInv
  <2>3. todo' \subseteq Owners /\ noCache' \in BOOLEAN /\ sentinel' \in BOOLEAN
    BY <1>2, <2>1 DEF PlanBuild, TypeOK
  <2>4. pc' \in {"roll", "resolve"}
    BY <1>2 DEF PlanBuild
  <2> QED
    BY <1>2, <2>2, <2>3, <2>4 DEF PlanBuild, TypeOK
<1>3. CASE Resolved
  BY <1>3 DEF Resolved, TypeOK
<1>4. CASE BackendReturns
  BY <1>4, RollTargetsTyped DEF BackendReturns, TypeOK
<1>5. CASE BackendRaises \/ Abort
  BY <1>5, FailTyped DEF BackendRaises, Abort
<1>6. CASE Finish
  BY <1>6 DEF Finish, TypeOK
<1>7. ASSUME NEW o \in Owners, Resolve(o)
      PROVE  TypeOK'
  <2>1. CASE Retag(o)
    <3>1. args.tag \in AllTags /\ "latest" \in AllTags
      BY <2>1, ArgsTyped DEF Retag, TagFound, TypeOK, AllTags
    <3>2. ecr' \in [Owners -> [AllTags -> Version]]
      BY <2>1, <3>1 DEF Retag, TypeOK
    <3> QED
      BY <1>7, <2>1, <3>2 DEF Resolve, Retag, TypeOK
  <2>2. CASE QueueBuild(o)
    BY <1>7, <2>2 DEF Resolve, QueueBuild, TypeOK
  <2> QED
    BY <1>7, <2>1, <2>2 DEF Resolve
<1>8. ASSUME NEW o \in Owners, StartBuild(o)
      PROVE  TypeOK'
  BY <1>8 DEF StartBuild, TypeOK
<1>9. ASSUME NEW o \in Owners, BuildDone(o)
      PROVE  TypeOK'
  <2>1. PICK v \in Yields(o) : Built(o, v) /\ (BuildLoaded(o, v) \/ BuildPushed(o, v))
    BY <1>9 DEF BuildDone
  <2>2. v \in Version
    BY <2>1, YieldsTyped
  <2>3. ecr' \in [Owners -> [AllTags -> Version]]
    BY <2>1, <2>2, TagsExported DEF BuildLoaded, TypeOK
  <2>4. /\ job' \in [Owners -> {"none", "queued", "building", "tagging", "pushing", "done", "failed"}]
        /\ excused' \subseteq Owners
    BY <2>1 DEF BuildLoaded, BuildPushed, TypeOK
  <2>5. /\ image' \in [Owners -> Version] /\ cached' \in [Owners -> Version]
        /\ stale' \subseteq Owners
    BY <2>1, <2>2 DEF Built, TypeOK
  <2> QED
    BY <1>9, <2>1, <2>3, <2>4, <2>5 DEF BuildDone, Built, TypeOK
<1>10. ASSUME NEW o \in Owners, BuildDegraded(o)
       PROVE  TypeOK'
  BY <1>10 DEF BuildDegraded, TypeOK
<1>11. ASSUME NEW o \in Owners, PushTag(o)
       PROVE  TypeOK'
  <2>1. ecr' \in [Owners -> [AllTags -> Version]]
    <3>1. \/ ecr' = [ecr EXCEPT ![o]["latest"] = image[o]]
          \/ job[o] = "tagging" /\ ecr' = [ecr EXCEPT ![o][args.tag] = image[o]]
      BY <1>11 DEF PushTag
    <3>2. job[o] = "tagging" => args.tag \in AllTags
      BY TagTyped DEF TagInv, TypeOK
    <3>3. \E t \in AllTags : ecr' = [ecr EXCEPT ![o][t] = image[o]]
      BY <3>1, <3>2 DEF AllTags
    <3> QED
      BY <3>3, TagMoves DEF TypeOK
  <2> QED
    BY <1>11, <2>1 DEF PushTag, TypeOK
<1>12. ASSUME NEW o \in Owners, JobFails(o)
       PROVE  TypeOK'
  BY <1>12 DEF JobFails, TypeOK
<1>13. ASSUME NEW s \in Service, RollService(s)
       PROVE  TypeOK'
  <2>1. running' \in [Buildable -> Version]
    BY <1>13, OwnerTyped DEF RollService, TypeOK, AllTags
  <2> QED
    BY <1>13, <2>1 DEF RollService, TypeOK
<1>14. ASSUME NEW a \in Args, Begin(a)
       PROVE  TypeOK'
  <2>1. deploys' \in 0..MaxDeploys
    BY <1>14, BoundsTyped DEF Begin, TypeOK
  <2>2. image' \in [Owners -> Version] /\ atStart' \in [Owners -> Version]
    BY <1>14, VersionTyped DEF Begin, Forget, TypeOK
  <2> QED
    BY <1>14, <2>1, <2>2 DEF Begin, Forget, TypeOK
<1>15. ASSUME NEW o \in Owners, Edit(o) \/ Fix(o)
       PROVE  TypeOK'
  <2>1. source' \in [Owners -> Version]
    <3>1. source[o] + 1 \in Version
      BY <1>15, BoundsTyped DEF Edit, Fix, TypeOK, Version
    <3> QED
      BY <1>15, <3>1 DEF Edit, Fix, TypeOK
  <2>2. fixes' \in 0..MaxFixes
    BY <1>15, BoundsTyped DEF Edit, Fix, TypeOK
  <2>3. CASE Edit(o)
    BY <2>1, <2>3 DEF Edit, TypeOK
  <2>4. CASE Fix(o)
    BY <2>1, <2>2, <2>4 DEF Fix, TypeOK
  <2> QED
    BY <1>15, <2>3, <2>4
<1>16. CASE UNCHANGED vars
  BY <1>16 DEF vars, TypeOK
<1> QED
  BY <1>1, <1>2, <1>3, <1>4, <1>5, <1>6, <1>7, <1>8, <1>9, <1>10, <1>11, <1>12, <1>13,
     <1>14, <1>15, <1>16 DEF Next, DeployStep

----------------------------------------------------------------------------
(* The inductive invariant *)

LEMMA InitInv == Init => PhaseInv /\ TagInv /\ RollInv /\ FreshInv
<1> SUFFICES ASSUME Init PROVE PhaseInv /\ TagInv /\ RollInv /\ FreshInv
  OBVIOUS
<1>1. PhaseInv
  BY DEF Init, PhaseInv
<1>2. TagInv
  BY DEF Init, TagInv, NoArgs
<1>3. RollInv
  BY DEF Init, RollInv, Green
<1>4. FreshInv
  BY DEF Init, FreshInv
<1> QED
  BY <1>1, <1>2, <1>3, <1>4

(* A deploy that failed has forgotten everything the invariant is about. *)
LEMMA FailInv == TypeOK /\ Fail => PhaseInv' /\ TagInv' /\ RollInv' /\ FreshInv'
<1> SUFFICES ASSUME TypeOK, Fail PROVE PhaseInv' /\ TagInv' /\ RollInv' /\ FreshInv'
  OBVIOUS
<1>1. PhaseInv'
  BY DEF Fail, Forget, PhaseInv
<1>2. TagInv'
  BY DEF Fail, Forget, TagInv, NoArgs
<1>3. RollInv'
  BY DEF Fail, Forget, RollInv, Green
<1>4. FreshInv'
  BY DEF Fail, Forget, FreshInv, TypeOK, Version, disk
<1> QED
  BY <1>1, <1>2, <1>3, <1>4

LEMMA PhaseStep == TypeOK /\ PhaseInv /\ [Next]_vars => PhaseInv'
<1> SUFFICES ASSUME TypeOK, PhaseInv, [Next]_vars
             PROVE  PhaseInv'
  OBVIOUS
<1> USE DEF disk, local
<1>1. CASE Applied
  BY <1>1 DEF Applied, PhaseInv, TypeOK
<1>2. CASE PlanBuild
  BY <1>2 DEF PlanBuild, PhaseInv, TypeOK
<1>3. CASE Resolved
  BY <1>3 DEF Resolved, PhaseInv, TypeOK
<1>4. CASE BackendReturns
  BY <1>4 DEF BackendReturns, PhaseInv, TypeOK
<1>5. CASE BackendRaises \/ Abort
  BY <1>5, FailInv DEF BackendRaises, Abort
<1>6. CASE Finish
  BY <1>6 DEF Finish, PhaseInv, TypeOK
<1>7. ASSUME NEW o \in Owners, Resolve(o)
      PROVE  PhaseInv'
  <2>1. CASE Retag(o)
    BY <1>7, <2>1 DEF Resolve, Retag, PhaseInv, TypeOK
  <2>2. CASE QueueBuild(o)
    BY <1>7, <2>2 DEF Resolve, QueueBuild, PhaseInv, TypeOK
  <2> QED
    BY <1>7, <2>1, <2>2 DEF Resolve
<1>8. ASSUME NEW o \in Owners, StartBuild(o)
      PROVE  PhaseInv'
  BY <1>8 DEF StartBuild, PhaseInv, TypeOK
<1>9. ASSUME NEW o \in Owners, BuildDone(o) \/ BuildDegraded(o) \/ PushTag(o) \/ JobFails(o)
      PROVE  PhaseInv'
  <2>1. o \in specs
    BY <1>9 DEF BuildDone, BuildDegraded, PushTag, JobFails, Active, PhaseInv
  <2>2. \A q \in Owners : q # o => job'[q] = job[q]
    BY <1>9 DEF BuildDone, BuildLoaded, BuildPushed, BuildDegraded, PushTag, JobFails, TypeOK
  <2>3. pc = "build" /\ UNCHANGED <<pc, todo, specs, pushed, toRoll>>
    BY <1>9 DEF BuildDone, BuildDegraded, PushTag, JobFails
  <2> QED
    BY <2>1, <2>2, <2>3 DEF PhaseInv
<1>10. ASSUME NEW s \in Service, RollService(s)
       PROVE  PhaseInv'
  BY <1>10 DEF RollService, PhaseInv
<1>11. ASSUME NEW a \in Args, Begin(a)
       PROVE  PhaseInv'
  BY <1>11 DEF Begin, Forget, PhaseInv
<1>12. ASSUME NEW o \in Owners, Edit(o) \/ Fix(o)
       PROVE  PhaseInv'
  BY <1>12 DEF Edit, Fix, PhaseInv
<1>13. CASE UNCHANGED vars
  BY <1>13 DEF vars, PhaseInv
<1> QED
  BY <1>1, <1>2, <1>3, <1>4, <1>5, <1>6, <1>7, <1>8, <1>9, <1>10, <1>11, <1>12, <1>13
     DEF Next, DeployStep

LEMMA TagStep == TypeOK /\ PhaseInv /\ TagInv /\ [Next]_vars => TagInv'
<1> SUFFICES ASSUME TypeOK, PhaseInv, TagInv, [Next]_vars
             PROVE  TagInv'
  OBVIOUS
<1> USE DEF disk, local
<1>1. ASSUME Applied \/ PlanBuild \/ Resolved \/ Finish \/ (\E s \in Service : RollService(s))
             \/ UNCHANGED vars \/ (\E o \in Owners : Edit(o) \/ Fix(o))
      PROVE  TagInv'
  <2>1. UNCHANGED <<ecr, args, job, image, pushed>>
    BY <1>1 DEF Applied, PlanBuild, Resolved, Finish, RollService, vars, Edit, Fix
  <2> QED
    BY <2>1 DEF TagInv
<1>2. CASE BackendReturns
  BY <1>2 DEF BackendReturns, TagInv, TypeOK
<1>3. CASE BackendRaises \/ Abort
  BY <1>3, FailInv DEF BackendRaises, Abort
<1>4. ASSUME NEW o \in Owners, Resolve(o)
      PROVE  TagInv'
  <2>1. CASE Retag(o)
    <3>1. args.tag \in AllTags /\ args.tag # "latest" /\ "latest" \in AllTags
      BY <2>1, TagTyped DEF Retag, TagFound, TypeOK, AllTags
    <3>2. ecr[o][args.tag] \in Version
      BY <3>1 DEF TypeOK
    <3>3. /\ ecr'[o]["latest"] = ecr[o][args.tag]
          /\ ecr'[o][args.tag] = ecr[o][args.tag]
          /\ \A q \in Owners : q # o => ecr'[q] = ecr[q]
      BY <2>1, <3>1, <3>2, TagMoves DEF Retag, TypeOK
    <3>4. job[o] = "none"
      BY <1>4 DEF Resolve, TypeOK, PhaseInv
    <3>5. UNCHANGED <<args, job, image>> /\ pushed' = pushed \cup {o}
      BY <1>4, <2>1 DEF Resolve, Retag
    <3> QED
      BY <3>3, <3>4, <3>5 DEF TagInv
  <2>2. CASE QueueBuild(o)
    <3>1. UNCHANGED <<args, image, ecr, pushed>>
      BY <1>4, <2>2 DEF Resolve, QueueBuild
    <3>2. job'[o] = "queued" /\ \A q \in Owners : q # o => job'[q] = job[q]
      BY <2>2 DEF QueueBuild, TypeOK
    <3>3. o \notin pushed
      BY <1>4 DEF Resolve, PhaseInv
    <3>4. args.tag # "none" => ecr[o][args.tag] = 0
      BY <2>2 DEF QueueBuild, TagFound
    <3> QED
      BY <3>1, <3>2, <3>3, <3>4 DEF TagInv
  <2> QED
    BY <1>4, <2>1, <2>2 DEF Resolve
<1>5. ASSUME NEW o \in Owners, StartBuild(o) \/ JobFails(o) \/ BuildDegraded(o)
      PROVE  TagInv'
  <2>1. UNCHANGED <<args, ecr, pushed>> /\ \A q \in Owners : q # o => image'[q] = image[q]
    BY <1>5 DEF StartBuild, JobFails, BuildDegraded, TypeOK
  <2>2. \A q \in Owners : q # o => job'[q] = job[q]
    BY <1>5 DEF StartBuild, JobFails, BuildDegraded, TypeOK
  <2>3. \/ job[o] = "queued" /\ job'[o] = "building"
        \/ job'[o] = "failed"
        \/ job[o] = "building" /\ job'[o] = "done"
    BY <1>5 DEF StartBuild, JobFails, BuildDegraded, TypeOK
  <2> QED
    BY <2>1, <2>2, <2>3 DEF TagInv
<1>6. ASSUME NEW o \in Owners, BuildDone(o)
      PROVE  TagInv'
  <2>1. PICK v \in Yields(o) : Built(o, v) /\ (BuildLoaded(o, v) \/ BuildPushed(o, v))
    BY <1>6 DEF BuildDone
  <2>2. v \in Version
    BY <2>1, YieldsTyped
  <2>3. job[o] = "building" /\ o \notin pushed /\ UNCHANGED <<args, pushed>>
    BY <1>6 DEF BuildDone, PhaseInv
  <2>4. \A q \in Owners : q # o => job'[q] = job[q] /\ image'[q] = image[q]
    BY <2>1 DEF Built, BuildLoaded, BuildPushed, TypeOK
  <2>5. image'[o] = v
    BY <2>1 DEF Built, TypeOK
  <2>6. CASE BuildLoaded(o, v)
    <3>1. /\ UNCHANGED ecr
          /\ job'[o] = IF args.tag = "none" THEN "pushing" ELSE "tagging"
      BY <2>6 DEF BuildLoaded, TypeOK
    <3> QED
      BY <2>3, <2>4, <3>1 DEF TagInv
  <2>7. CASE BuildPushed(o, v)
    <3>1. /\ ecr'[o]["latest"] = v
          /\ args.tag # "none" => ecr'[o][args.tag] = v
          /\ \A q \in Owners : q # o => ecr'[q] = ecr[q]
      BY <2>2, <2>7, TagsExported, TagTyped DEF TypeOK
    <3>2. job'[o] = "done"
      BY <2>7 DEF BuildPushed, TypeOK
    <3> QED
      BY <2>3, <2>4, <3>1, <3>2 DEF TagInv
  <2> QED
    BY <2>1, <2>6, <2>7
<1>7. ASSUME NEW o \in Owners, PushTag(o)
      PROVE  TagInv'
  <2>1. UNCHANGED <<args, image, pushed>> /\ \A q \in Owners : q # o => job'[q] = job[q]
    BY <1>7 DEF PushTag, TypeOK
  <2>2. o \notin pushed
    BY <1>7 DEF PushTag, PhaseInv
  <2>3. CASE job[o] = "tagging"
    <3>1. args.tag \in AllTags /\ image[o] \in Version
      BY <2>3, TagTyped DEF TagInv, TypeOK
    <3>2. ecr' = [ecr EXCEPT ![o][args.tag] = image[o]] /\ job'[o] = "pushing"
      BY <1>7, <2>3 DEF PushTag, TypeOK
    <3>3. /\ ecr'[o][args.tag] = image[o]
          /\ \A q \in Owners : q # o => ecr'[q] = ecr[q]
      BY <3>1, <3>2, TagMoves DEF TypeOK
    <3> QED
      BY <2>1, <2>2, <3>2, <3>3 DEF TagInv
  <2>4. CASE job[o] = "pushing"
    <3>1. "latest" \in AllTags /\ image[o] \in Version
      BY DEF AllTags, TypeOK
    <3>2. ecr' = [ecr EXCEPT ![o]["latest"] = image[o]] /\ job'[o] = "done"
      BY <1>7, <2>4 DEF PushTag, TypeOK
    <3>3. /\ ecr'[o]["latest"] = image[o]
          /\ args.tag # "none" => ecr'[o][args.tag] = ecr[o][args.tag]
          /\ \A q \in Owners : q # o => ecr'[q] = ecr[q]
      BY <3>1, <3>2, TagMoves, TagTyped DEF TypeOK
    <3> QED
      BY <2>1, <2>2, <2>4, <3>2, <3>3 DEF TagInv
  <2> QED
    BY <1>7, <2>3, <2>4 DEF PushTag
<1>8. ASSUME NEW a \in Args, Begin(a)
      PROVE  TagInv'
  BY <1>8 DEF Begin, Forget, TagInv
<1> QED
  BY <1>1, <1>2, <1>3, <1>4, <1>5, <1>6, <1>7, <1>8 DEF Next, DeployStep

LEMMA RollStep == TypeOK /\ PhaseInv /\ RollInv /\ [Next]_vars => RollInv'
<1> SUFFICES ASSUME TypeOK, PhaseInv, RollInv, [Next]_vars
             PROVE  RollInv'
  OBVIOUS
<1> USE DEF disk, local
<1>1. CASE Applied \/ PlanBuild
  <2>1. pushed' = {}
    BY <1>1 DEF Applied, PlanBuild, PhaseInv
  <2> QED
    BY <2>1 DEF RollInv
<1>2. CASE BackendReturns
  BY <1>2 DEF BackendReturns, RollInv, RollTargets, Members
<1>3. CASE BackendRaises \/ Abort
  BY <1>3, FailInv DEF BackendRaises, Abort
<1>4. CASE Finish
  BY <1>4 DEF Finish, RollInv, Green
<1>5. ASSUME NEW s \in Service, RollService(s)
      PROVE  RollInv'
  <2>1. UNCHANGED <<pc, args, pushed, ecr>> /\ toRoll' = toRoll \ {s} /\ pc = "roll"
    BY <1>5 DEF RollService
  <2>2. s \in Buildable => running'[s] = ecr[Owner(s)]["latest"]
    BY <1>5 DEF RollService, TypeOK
  <2>3. \A t \in Buildable : t # s => running'[t] = running[t]
    BY <1>5 DEF RollService, TypeOK
  <2> QED
    BY <2>1, <2>2, <2>3 DEF RollInv, Green, Members
<1>6. ASSUME \/ \E o \in Owners : \/ Resolve(o) \/ StartBuild(o) \/ BuildDone(o)
                                  \/ BuildDegraded(o) \/ PushTag(o) \/ JobFails(o)
             \/ Resolved
             \/ \E a \in Args : Begin(a)
      PROVE  RollInv'
  <2>1. pc' \in {"resolve", "build", "apply"}
    BY <1>6 DEF Resolve, StartBuild, BuildDone, BuildDegraded, PushTag, JobFails, Resolved, Begin
  <2> QED
    BY <2>1 DEF RollInv, Green
<1>7. ASSUME UNCHANGED vars \/ \E o \in Owners : Edit(o) \/ Fix(o)
      PROVE  RollInv'
  <2>1. UNCHANGED <<pc, args, outcome, pushed, toRoll, running, ecr>>
    BY <1>7 DEF vars, Edit, Fix
  <2> QED
    BY <2>1 DEF RollInv, Green
<1> QED
  BY <1>1, <1>2, <1>3, <1>4, <1>5, <1>6, <1>7 DEF Next, DeployStep

LEMMA FreshStep == TypeOK /\ PhaseInv /\ FreshInv /\ [Next]_vars => FreshInv'
<1> SUFFICES ASSUME TypeOK, PhaseInv, FreshInv, [Next]_vars
             PROVE  FreshInv'
  OBVIOUS
<1> USE DEF disk, local
<1>1. ASSUME \/ Applied \/ PlanBuild \/ Resolved \/ BackendReturns \/ Finish
             \/ (\E s \in Service : RollService(s)) \/ UNCHANGED vars
      PROVE  FreshInv'
  <2>1. UNCHANGED <<source, atStart, specs, excused, job, image, ecr>>
    BY <1>1 DEF Applied, PlanBuild, Resolved, BackendReturns, Finish, RollService, vars
  <2> QED
    BY <2>1 DEF FreshInv
<1>2. CASE BackendRaises \/ Abort
  BY <1>2, FailInv DEF BackendRaises, Abort
<1>3. ASSUME NEW o \in Owners, Resolve(o)
      PROVE  FreshInv'
  <2>1. UNCHANGED <<source, atStart, excused, image>>
    BY <1>3 DEF Resolve
  <2>2. \A q \in specs : job[q] = "queued"
    BY <1>3 DEF Resolve, PhaseInv
  <2>3. \A q \in specs' : job'[q] = "queued"
    BY <1>3, <2>2 DEF Resolve, Retag, QueueBuild, TypeOK
  <2> QED
    BY <2>1, <2>3 DEF FreshInv
<1>4. ASSUME NEW o \in Owners, StartBuild(o) \/ JobFails(o) \/ BuildDegraded(o)
      PROVE  FreshInv'
  <2>1. UNCHANGED <<source, atStart, specs, ecr>>
    BY <1>4 DEF StartBuild, JobFails, BuildDegraded
  <2>2. \A q \in Owners : q # o => job'[q] = job[q] /\ image'[q] = image[q]
    BY <1>4 DEF StartBuild, JobFails, BuildDegraded, TypeOK
  <2>3. /\ excused \subseteq excused'
        /\ job'[o] \in {"building", "failed"} \/ o \in excused'
    BY <1>4 DEF StartBuild, JobFails, BuildDegraded, TypeOK
  <2> QED
    BY <2>1, <2>2, <2>3 DEF FreshInv, TypeOK
<1>5. ASSUME NEW o \in Owners, BuildDone(o)
      PROVE  FreshInv'
  <2>1. PICK v \in Yields(o) : Built(o, v) /\ (BuildLoaded(o, v) \/ BuildPushed(o, v))
    BY <1>5 DEF BuildDone
  <2>2. v \in Version
    BY <2>1, YieldsTyped
  <2>3. UNCHANGED <<source, atStart, specs>> /\ image'[o] = v
    BY <1>5, <2>1 DEF BuildDone, Built, TypeOK
  <2>4. \A q \in Owners : q # o => job'[q] = job[q] /\ image'[q] = image[q]
    BY <2>1 DEF Built, BuildLoaded, BuildPushed, TypeOK
  <2>5. excused \subseteq excused' /\ (o \in excused' \/ v = source[o])
    BY <2>1 DEF BuildLoaded, BuildPushed
  <2>6. /\ \A q \in Owners : q # o => ecr'[q] = ecr[q]
        /\ job'[o] = "done" => ecr'[o]["latest"] = v
    BY <2>1, <2>2, TagsExported DEF BuildLoaded, TypeOK
  <2> QED
    BY <2>3, <2>4, <2>5, <2>6 DEF FreshInv, TypeOK
<1>6. ASSUME NEW o \in Owners, PushTag(o)
      PROVE  FreshInv'
  <2>1. UNCHANGED <<source, atStart, specs, excused, image>>
    BY <1>6 DEF PushTag
  <2>2. \A q \in Owners : q # o => job'[q] = job[q] /\ ecr'[q] = ecr[q]
    BY <1>6 DEF PushTag, TypeOK
  <2>3. job[o] \in {"tagging", "pushing"} /\ (job'[o] = "done" => ecr'[o]["latest"] = image[o])
    BY <1>6 DEF PushTag, TypeOK, AllTags
  <2> QED
    BY <2>1, <2>2, <2>3 DEF FreshInv, TypeOK
<1>7. ASSUME NEW a \in Args, Begin(a)
      PROVE  FreshInv'
  BY <1>7 DEF Begin, Forget, FreshInv, TypeOK, Version
<1>8. ASSUME NEW o \in Owners, Edit(o) \/ Fix(o)
      PROVE  FreshInv'
  <2>1. UNCHANGED <<atStart, specs, excused, job, image, ecr>>
    BY <1>8 DEF Edit, Fix
  <2>2. source' = [source EXCEPT ![o] = source[o] + 1]
    BY <1>8 DEF Edit, Fix
  <2>3. \A q \in Owners : source[q] \in Int /\ atStart[q] \in Int
    BY VersionTyped DEF TypeOK
  <2>4. \A q \in Owners : source'[q] >= atStart[q]
    <3> SUFFICES ASSUME NEW q \in Owners PROVE source'[q] >= atStart[q]
      OBVIOUS
    <3>1. source'[q] = source[q] \/ source'[q] = source[q] + 1
      BY <2>2 DEF TypeOK
    <3> QED
      BY <2>3, <3>1 DEF FreshInv
  <2> QED
    BY <2>1, <2>4 DEF FreshInv
<1> QED
  BY <1>1, <1>2, <1>3, <1>4, <1>5, <1>6, <1>7, <1>8 DEF Next, DeployStep

(* The inductive invariant holds in every reachable state. *)
THEOREM Inductive == Spec => []IInv
<1>1. Init => IInv
  BY InitTyped, InitInv DEF IInv
<1>2. IInv /\ [Next]_vars => IInv'
  BY StepTyped, PhaseStep, TagStep, RollStep, FreshStep DEF IInv
<1> QED
  BY <1>1, <1>2, PTL DEF Spec

----------------------------------------------------------------------------
(* What follows from it *)

(* Type correctness, for any stack and any bounds. *)
THEOREM TypeCorrect == Spec => []TypeOK
<1>1. IInv => TypeOK
  BY DEF IInv
<1> QED
  BY <1>1, Inductive, PTL

(* After a green deploy every service of a group whose image was pushed runs that group's
   :latest (provider.py 1480-1495), however the services are grouped and filtered. *)
THEOREM SiblingsNeverDiverge == Spec => []SiblingsAgree
<1>1. IInv => SiblingsAgree
  <2> SUFFICES ASSUME IInv, Green, ~args.noRoll, NEW o \in pushed, NEW s \in Members(o)
               PROVE  running[s] = ecr[o]["latest"]
    BY DEF SiblingsAgree
  <2>1. toRoll = {}
    BY DEF IInv, PhaseInv, Green
  <2> QED
    BY <2>1 DEF IInv, RollInv
<1> QED
  BY <1>1, Inductive, PTL

(* A green `--tag X` runs what ECR holds under X (provider.py 3803-3809), whether an
   earlier deploy failed half way through it or not. *)
THEOREM TagIsWhatRuns == Spec => []TagDeployRunsTag
<1>1. IInv => TagDeployRunsTag
  <2> SUFFICES ASSUME IInv, Green, ~args.noRoll, args.tag # "none",
                      NEW o \in pushed, NEW s \in Members(o), ecr[o][args.tag] # 0
               PROVE  running[s] = ecr[o][args.tag]
    BY DEF TagDeployRunsTag
  <2>1. toRoll = {} /\ o \in Owners
    BY DEF IInv, PhaseInv, TypeOK, Green
  <2>2. running[s] = ecr[o]["latest"]
    BY <2>1 DEF IInv, RollInv
  <2>3. ecr[o][args.tag] = ecr[o]["latest"]
    BY <2>1 DEF IInv, TagInv
  <2> QED
    BY <2>2, <2>3
<1> QED
  BY <1>1, Inductive, PTL

(* A green deploy runs nothing older than the sources it started from in the groups it
   built, the excused ones aside. *)
THEOREM GreenRunsFresh == Spec => []GreenIsFresh
<1>1. IInv => GreenIsFresh
  <2> SUFFICES ASSUME IInv, Green, ~args.noRoll, NEW o \in specs \ excused, NEW s \in Members(o)
               PROVE  running[s] >= atStart[o]
    BY DEF GreenIsFresh
  <2>1. toRoll = {} /\ o \in pushed /\ job[o] = "done"
    BY DEF IInv, PhaseInv, Green
  <2>2. running[s] = ecr[o]["latest"]
    BY <2>1 DEF IInv, RollInv
  <2>3. ecr[o]["latest"] = image[o] /\ image[o] >= atStart[o]
    BY <2>1 DEF IInv, FreshInv
  <2> QED
    BY <2>2, <2>3
<1> QED
  BY <1>1, Inductive, PTL

(* No step of any deploy moves a tag that ECR already holds, other than :latest. *)
THEOREM TagsNeverMove == Spec => TagsAreImmutable
<1>1. IInv /\ [Next]_vars =>
        [\A o \in Owners, t \in Tags : ecr[o][t] # 0 => ecr'[o][t] = ecr[o][t]]_vars
  <2> SUFFICES ASSUME IInv, [Next]_vars, NEW p \in Owners, NEW t \in Tags, ecr[p][t] # 0
               PROVE  ecr'[p][t] = ecr[p][t]
    OBVIOUS
  <2> USE DEF IInv
  <2>0. t \in AllTags /\ t # "latest" /\ "latest" \in AllTags
    BY LatestIsNoTag DEF AllTags
  <2>1. CASE UNCHANGED ecr
    BY <2>1
  <2>2. ASSUME NEW o \in Owners, Resolve(o), Retag(o)
        PROVE  ecr'[p][t] = ecr[p][t]
    <3>1. args.tag \in AllTags
      BY <2>2, TagTyped DEF Retag, TagFound, TypeOK
    <3> QED
      BY <2>0, <2>2, <3>1 DEF Retag, TypeOK
  <2>3. ASSUME NEW o \in Owners, BuildDone(o)
        PROVE  ecr'[p][t] = ecr[p][t]
    <3>1. PICK v \in Yields(o) : Built(o, v) /\ (BuildLoaded(o, v) \/ BuildPushed(o, v))
      BY <2>3 DEF BuildDone
    <3>2. v \in Version /\ job[o] = "building"
      BY <2>3, <3>1, YieldsTyped DEF BuildDone
    <3>3. CASE BuildLoaded(o, v)
      BY <3>3 DEF BuildLoaded
    <3>4. CASE BuildPushed(o, v)
      <4>1. p = o => t # args.tag
        BY <3>2, TagTyped, DeployAssumption DEF TagInv, TypeOK
      <4> QED
        BY <2>0, <3>2, <3>4, <4>1, TagsExported DEF TypeOK
    <3> QED
      BY <3>1, <3>3, <3>4
  <2>4. ASSUME NEW o \in Owners, PushTag(o)
        PROVE  ecr'[p][t] = ecr[p][t]
    <3>1. CASE job[o] = "tagging"
      <4>1. args.tag \in AllTags /\ image[o] \in Version
        BY <3>1, TagTyped DEF TagInv, TypeOK
      <4>2. ecr' = [ecr EXCEPT ![o][args.tag] = image[o]]
        BY <2>4, <3>1 DEF PushTag
      <4>3. p = o => t # args.tag
        BY <3>1 DEF TagInv
      <4> QED
        BY <2>0, <4>1, <4>2, <4>3, TagMoves DEF TypeOK
    <3>2. CASE job[o] = "pushing"
      <4>1. ecr' = [ecr EXCEPT ![o]["latest"] = image[o]] /\ image[o] \in Version
        BY <2>4, <3>2 DEF PushTag, TypeOK
      <4> QED
        BY <2>0, <4>1, TagMoves DEF TypeOK
    <3> QED
      BY <2>4, <3>1, <3>2 DEF PushTag
  <2> QED
    BY <2>1, <2>2, <2>3, <2>4
       DEF Next, DeployStep, Applied, PlanBuild, Resolved, BackendReturns, BackendRaises, Finish,
           Resolve, QueueBuild, StartBuild, BuildDegraded, JobFails, RollService, Abort, Fail,
           Begin, Edit, Fix, vars, disk, local
<1> QED
  BY <1>1, Inductive, PTL DEF Spec, TagsAreImmutable

(* A deploy one of whose builds failed rolls nothing (BuildBackend, backend.py 146-153),
   for any number of groups and workers. *)
THEOREM BrokenGroupStops == Spec => BrokenGroupRollsNothing
<1>1. IInv /\ [Next]_vars => [Failed # {} => UNCHANGED running]_vars
  <2> SUFFICES ASSUME IInv, [Next]_vars, Failed # {}
               PROVE  UNCHANGED running
    OBVIOUS
  <2>1. pc # "roll"
    BY DEF IInv, PhaseInv, Failed
  <2>2. \A s \in Service : ~RollService(s)
    BY <2>1 DEF RollService
  <2> QED
    BY <2>2
       DEF Next, DeployStep, Applied, PlanBuild, Resolved, BackendReturns, BackendRaises, Finish,
           Resolve, StartBuild, BuildDone, BuildDegraded, PushTag, JobFails, Abort, Fail, Begin,
           Edit, Fix, vars, disk, local
<1> QED
  BY <1>1, Inductive, PTL DEF Spec, BrokenGroupRollsNothing
=============================================================================
