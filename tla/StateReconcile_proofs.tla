------------------------- MODULE StateReconcile_proofs -------------------------
(***************************************************************************)
(* Proofs about StateReconcile for any number of deploys of one stack, any *)
(* number of runs of each, and every failure: type correctness, that a     *)
(* deploy which ends green has adopted what it was to adopt, and that an   *)
(* apply which drops out-of-band secrets has announced it, unless another  *)
(* deploy wrote over the plan it had looked at.                            *)
(***************************************************************************)
EXTENDS StateReconcile, TLAPS

Stages == {"idle", "check", "probe", "import", "plan", "inspect", "apply", "applying"}

\* The walk of one deploy, and the files of its directory.
WalkTyped ==
  /\ stage \in [Deploys -> Stages] /\ on \in [Deploys -> Res \cup {"none"}]
  /\ plan \in [Deploys -> Plans] /\ told \in [Deploys -> BOOLEAN]
  /\ emitted \in [Deploys -> Deploys] /\ saved \in [Deploys -> Plans]
  /\ fresh \in [Deploys -> BOOLEAN] /\ overwritten \in [Deploys -> BOOLEAN]
\* What is in AWS and in terraform's state.
WorldTyped ==
  /\ cloud \in [Res -> SUBSET {"given", "fresh"}]
  /\ tfstate \in [Res -> {"none", "given", "fresh"}]
  /\ td \in {"none", "FARGATE", "EC2"} /\ oob \in BOOLEAN
CfgTyped ==
  /\ managed \subseteq Res
  /\ ignoreTd \in BOOLEAN /\ localState \in BOOLEAN /\ oneDir \in BOOLEAN
  /\ wants \in [Deploys -> {"FARGATE", "EC2"}]
  /\ lock \subseteq Deploys /\ started \in 0..MaxDeployRuns

LEMMA TypedParts == RecTypeOK <=> WalkTyped /\ WorldTyped /\ CfgTyped
BY DEF RecTypeOK, WalkTyped, WorldTyped, CfgTyped, Stages

LEMMA RecInitTyped == RecInit => RecTypeOK
<1> SUFFICES ASSUME RecInit PROVE RecTypeOK
  OBVIOUS
<1>1. NoPlan \in Plans
  BY DEF NoPlan, Plans
<1>2. WalkTyped
  BY <1>1 DEF RecInit, WalkTyped, Stages
<1>3. WorldTyped
  BY DEF RecInit, WorldTyped, Res
<1>4. CfgTyped
  BY ReconcileAssumption DEF RecInit, CfgTyped, Named, Alb, Res
<1> QED
  BY <1>2, <1>3, <1>4, TypedParts

LEMMA DirTyped == \A p \in Deploys : Dir(p) \in Deploys
BY DEF Dir

(* What each step does to the walk of its deploy. *)
LEMMA GotoTyped ==
  ASSUME WalkTyped, NEW p \in Deploys, NEW step \in Stages, Goto(p, step)
  PROVE  stage' \in [Deploys -> Stages]
BY DEF WalkTyped, Goto

LEMMA FollowingTyped == \A r : Following(r) \in Res \cup {"none"}
BY DEF Following, Res, Named, Alb

LEMMA GoOnTyped ==
  ASSUME WalkTyped, NEW p \in Deploys, GoOn(p)
  PROVE  on' \in [Deploys -> Res \cup {"none"}] /\ stage' \in [Deploys -> Stages]
BY FollowingTyped DEF GoOn, WalkTyped, Stages

LEMMA EndsTyped ==
  ASSUME WalkTyped, NEW p \in Deploys, Ends(p)
  PROVE  /\ stage' \in [Deploys -> Stages] /\ on' \in [Deploys -> Res \cup {"none"}]
         /\ plan' \in [Deploys -> Plans] /\ told' \in [Deploys -> BOOLEAN]
         /\ overwritten' \in [Deploys -> BOOLEAN]
<1>1. NoPlan \in Plans
  BY DEF NoPlan, Plans
<1> QED
  BY <1>1 DEF Ends, Goto, WalkTyped, Stages

LEMMA StateMovedTyped == StateMoved => fresh' \in [Deploys -> BOOLEAN]
BY DEF StateMoved

LEMMA PlanTyped ==
  ASSUME WalkTyped, CfgTyped, WorldTyped, NEW p \in Deploys
  PROVE  PlanOf(p) \in Plans
<1>1. wants[emitted[Dir(p)]] \in {"FARGATE", "EC2"}
  BY DirTyped DEF WalkTyped, CfgTyped
<1> QED
  BY <1>1 DEF PlanOf, Plans, CfgTyped, WorldTyped

LEMMA ApplyTyped ==
  ASSUME WalkTyped, WorldTyped, NEW p \in Deploys, NEW done \in SUBSET Res, NEW roll \in BOOLEAN,
         Create(done), Record(done), Register(p, roll)
  PROVE  WorldTyped'
<1>1. \A r \in Res : NewObject(r) \in {"given", "fresh"}
  BY DEF NewObject
<1>2. cloud' \in [Res -> SUBSET {"given", "fresh"}]
  BY <1>1 DEF Create, WorldTyped
<1>3. tfstate' \in [Res -> {"none", "given", "fresh"}]
  BY <1>1 DEF Record, WorldTyped
<1>4. td' \in {"none", "FARGATE", "EC2"} /\ oob' \in BOOLEAN
  BY DEF Register, WorldTyped, WalkTyped, Plans
<1> QED
  BY <1>2, <1>3, <1>4 DEF WorldTyped

(* The next-state relation, split: a step of a deploy, or of the rest of the world. *)
Looks(p) ==
  StartStackDeploy(p) \/ CheckLocalLock(p) \/ ProbeNamed(p) \/ ProbeAlb(p)
Imports(p) ==
  \/ ImportWorks(p) \/ AlreadyManaged(p)
  \/ LogImportFails(p) \/ BucketImportFails(p) \/ AlbImportFails(p)
PlansIt(p) ==
  SavePlan(p) \/ InspectPlan(p) \/ NoPlanNeeded(p) \/ TerraformRefuses(p) \/ TfApplyBegins(p)
Applies(p) == TfApplyEnds(p) \/ TfApplyFails(p) \/ DeployKilled(p)
DeployStep(p) == Looks(p) \/ Imports(p) \/ PlansIt(p) \/ Applies(p)
Elsewhere == ForceUnlock \/ InsightsCreatesLogs \/ AlbDeleted \/ WiredOutOfBand

LEMMA RecNextParts == RecNext <=> (\E p \in Deploys : DeployStep(p)) \/ Elsewhere
BY DEF RecNext, DeployStep, Looks, Imports, PlansIt, Applies, Elsewhere

LEMMA CfgStep ==
  ASSUME CfgTyped, [RecNext]_recVars PROVE CfgTyped' /\ UNCHANGED recCfg
<1> USE DEF recCfg, world, CfgTyped
<1>1. ASSUME NEW p \in Deploys, Looks(p) PROVE CfgTyped' /\ UNCHANGED recCfg
  BY <1>1, ReconcileAssumption
  DEF Looks, StartStackDeploy, CheckLocalLock, ProbeNamed, ProbeAlb
<1>2. ASSUME NEW p \in Deploys, Imports(p) PROVE CfgTyped' /\ UNCHANGED recCfg
  BY <1>2 DEF Imports, ImportWorks, AlreadyManaged, LogImportFails, BucketImportFails,
              AlbImportFails
<1>3. ASSUME NEW p \in Deploys, PlansIt(p) PROVE CfgTyped' /\ UNCHANGED recCfg
  BY <1>3 DEF PlansIt, SavePlan, InspectPlan, NoPlanNeeded, TerraformRefuses, TfApplyBegins
<1>4. ASSUME NEW p \in Deploys, Applies(p) PROVE CfgTyped' /\ UNCHANGED recCfg
  BY <1>4 DEF Applies, TfApplyEnds, TfApplyFails, ApplyLeaves, DeployKilled
<1>5. CASE Elsewhere
  BY <1>5 DEF Elsewhere, ForceUnlock, InsightsCreatesLogs, AlbDeleted, WiredOutOfBand
<1>6. CASE UNCHANGED recVars
  BY <1>6 DEF recVars
<1> QED
  BY <1>1, <1>2, <1>3, <1>4, <1>5, <1>6, RecNextParts DEF DeployStep

LEMMA WorldStep ==
  ASSUME WalkTyped, WorldTyped, CfgTyped, [RecNext]_recVars PROVE WorldTyped'
<1> USE DEF world
<1>1. ASSUME NEW p \in Deploys, Looks(p) PROVE WorldTyped'
  BY <1>1 DEF Looks, StartStackDeploy, CheckLocalLock, ProbeNamed, ProbeAlb, WorldTyped
<1>2. ASSUME NEW p \in Deploys, ImportWorks(p) PROVE WorldTyped'
  BY <1>2 DEF ImportWorks, Managing, WorldTyped
<1>3. ASSUME NEW p \in Deploys, Imports(p), ~ImportWorks(p) PROVE WorldTyped'
  BY <1>3 DEF Imports, AlreadyManaged, LogImportFails, BucketImportFails, AlbImportFails,
              WorldTyped
<1>4. ASSUME NEW p \in Deploys, PlansIt(p) PROVE WorldTyped'
  BY <1>4 DEF PlansIt, SavePlan, InspectPlan, NoPlanNeeded, TerraformRefuses, TfApplyBegins,
         WorldTyped
<1>5. ASSUME NEW p \in Deploys, TfApplyEnds(p) PROVE WorldTyped'
  <2>1. plan[p].creates \in SUBSET Res
    BY DEF WalkTyped, Plans
  <2>2. /\ Create(plan[p].creates) /\ Record(plan[p].creates)
        /\ Register(p, TRUE)
    BY <1>5 DEF TfApplyEnds, ApplyLeaves
  <2> QED
    BY <2>1, <2>2, ApplyTyped
<1>6. ASSUME NEW p \in Deploys, TfApplyFails(p) PROVE WorldTyped'
  <2>1. plan[p].creates \in SUBSET Res
    BY DEF WalkTyped, Plans
  <2>2. PICK done \in SUBSET {r \in plan[p].creates : ~Collides(r)}, roll \in BOOLEAN :
          Create(done) /\ Record(done) /\ Register(p, roll)
    BY <1>6 DEF TfApplyFails, ApplyLeaves
  <2>3. done \in SUBSET Res
    BY <2>1
  <2> QED
    BY <2>2, <2>3, ApplyTyped
<1>7. ASSUME NEW p \in Deploys, DeployKilled(p) PROVE WorldTyped'
  <2>1. \A r \in Res : NewObject(r) \in {"given", "fresh"}
    BY DEF NewObject
  <2>2. cloud' \in [Res -> SUBSET {"given", "fresh"}]
    <3>1. CASE UNCHANGED cloud
      BY <3>1 DEF WorldTyped
    <3>2. ASSUME NEW done, Create(done) PROVE cloud' \in [Res -> SUBSET {"given", "fresh"}]
      BY <2>1, <3>2 DEF Create, WorldTyped
    <3> QED
      BY <1>7, <3>1, <3>2 DEF DeployKilled
  <2> QED
    BY <1>7, <2>2 DEF DeployKilled, WorldTyped
<1>8. CASE Elsewhere
  <2>1. CASE AlbDeleted
    <3>1. PICK gone \in {Alb, {"http"}} :
            cloud' = [r \in Res |-> IF r \in gone THEN cloud[r] \ {"given"} ELSE cloud[r]]
      BY <2>1 DEF AlbDeleted
    <3>2. cloud' \in [Res -> SUBSET {"given", "fresh"}]
      BY <3>1 DEF WorldTyped
    <3> QED
      BY <2>1, <3>2 DEF AlbDeleted, WorldTyped
  <2>2. CASE ForceUnlock \/ InsightsCreatesLogs \/ WiredOutOfBand
    BY <2>2 DEF ForceUnlock, InsightsCreatesLogs, WiredOutOfBand, WorldTyped
  <2> QED
    BY <1>8, <2>1, <2>2 DEF Elsewhere
<1>9. CASE UNCHANGED recVars
  BY <1>9 DEF recVars, WorldTyped
<1> QED
  BY <1>1, <1>2, <1>3, <1>4, <1>5, <1>6, <1>7, <1>8, <1>9, RecNextParts DEF DeployStep, Applies

LEMMA WalkStep ==
  ASSUME WalkTyped, WorldTyped, CfgTyped, [RecNext]_recVars PROVE WalkTyped'
<1> USE DEF world, recCfg, files
<1>1. ASSUME NEW p \in Deploys, Ends(p), UNCHANGED <<emitted, saved, fresh>> PROVE WalkTyped'
  BY <1>1, EndsTyped DEF WalkTyped
<1>2. ASSUME NEW p \in Deploys, Ends(p), UNCHANGED <<emitted, saved>>,
             StateMoved \/ UNCHANGED fresh
      PROVE  WalkTyped'
  BY <1>2, EndsTyped, StateMovedTyped DEF WalkTyped
<1>3. ASSUME NEW p \in Deploys, GoOn(p), UNCHANGED <<plan, told, emitted, saved, overwritten>>,
             StateMoved \/ UNCHANGED fresh
      PROVE  WalkTyped'
  BY <1>3, GoOnTyped, StateMovedTyped DEF WalkTyped
<1>4. ASSUME NEW p \in Deploys, NEW step \in Stages, Goto(p, step),
             UNCHANGED <<on, plan, told, files>>
      PROVE  WalkTyped'
  BY <1>4, GotoTyped DEF WalkTyped
<1>5. ASSUME NEW p \in Deploys, StartStackDeploy(p) \/ NoPlanNeeded(p) PROVE WalkTyped'
  <2>1. CASE StartStackDeploy(p)
    <3>1. stage' \in [Deploys -> Stages]
      BY <2>1, GotoTyped DEF StartStackDeploy, Stages
    <3>2. emitted' \in [Deploys -> Deploys]
      BY <2>1, DirTyped DEF StartStackDeploy, WalkTyped
    <3> QED
      BY <2>1, <3>1, <3>2 DEF StartStackDeploy, WalkTyped
  <2>2. CASE NoPlanNeeded(p)
    BY <1>4, <2>2 DEF NoPlanNeeded, Stages
  <2> QED
    BY <1>5, <2>1, <2>2
<1>6. ASSUME NEW p \in Deploys, CheckLocalLock(p) PROVE WalkTyped'
  <2>1. CASE Ends(p)
    BY <1>1, <1>6, <2>1 DEF CheckLocalLock
  <2>2. CASE ~Ends(p)
    <3>1. /\ Goto(p, "probe") /\ on' = [on EXCEPT ![p] = "logs"]
          /\ UNCHANGED <<plan, told, files>>
      BY <1>6, <2>2 DEF CheckLocalLock
    <3>2. stage' \in [Deploys -> Stages]
      BY <3>1, GotoTyped DEF Stages
    <3> QED
      BY <3>1, <3>2 DEF WalkTyped, Res, Named
  <2> QED
    BY <2>1, <2>2
<1>7. ASSUME NEW p \in Deploys, ProbeNamed(p) \/ ProbeAlb(p) PROVE WalkTyped'
  <2>1. "import" \in Stages
    BY DEF Stages
  <2> QED
    BY <1>1, <1>3, <1>4, <1>7, <2>1 DEF ProbeNamed, ProbeAlb
<1>8. ASSUME NEW p \in Deploys, Imports(p) PROVE WalkTyped'
  BY <1>1, <1>3, <1>8 DEF Imports, ImportWorks, AlreadyManaged, LogImportFails,
                         BucketImportFails, AlbImportFails
<1>9. ASSUME NEW p \in Deploys, SavePlan(p) PROVE WalkTyped'
  <2>1. saved' \in [Deploys -> Plans] /\ UNCHANGED <<on, plan, emitted, told>>
    BY <1>9, PlanTyped DEF SavePlan, WalkTyped
  <2>2. fresh' \in [Deploys -> BOOLEAN]
    BY <1>9 DEF SavePlan, WalkTyped
  <2>3. overwritten' \in [Deploys -> BOOLEAN]
    <3>1. \A q \in Deploys :
            (overwritten[q] \/ (stage[q] = "apply" /\ NeedsPlan(q) /\ Dir(q) = Dir(p))) \in BOOLEAN
      OBVIOUS
    <3> QED
      BY <1>9, <3>1 DEF SavePlan
  <2>4. stage' \in [Deploys -> Stages]
    BY <1>9, GotoTyped DEF SavePlan, Stages
  <2> QED
    BY <2>1, <2>2, <2>3, <2>4 DEF WalkTyped
<1>10. ASSUME NEW p \in Deploys, TfApplyBegins(p) \/ InspectPlan(p) PROVE WalkTyped'
  <2>1. CASE TfApplyBegins(p)
    <3>1. saved[Dir(p)] \in Plans /\ PlanOf(p) \in Plans
      BY PlanTyped, DirTyped DEF WalkTyped
    <3>2. plan' \in [Deploys -> Plans]
      BY <2>1, <3>1 DEF TfApplyBegins, WalkTyped
    <3>3. stage' \in [Deploys -> Stages]
      BY <2>1, GotoTyped DEF TfApplyBegins, Stages
    <3> QED
      BY <2>1, <3>2, <3>3 DEF TfApplyBegins, WalkTyped
  <2>2. CASE InspectPlan(p)
    <3>1. (saved[Dir(p)].replaces /\ saved[Dir(p)].drops) \in BOOLEAN
      OBVIOUS
    <3>2. told' \in [Deploys -> BOOLEAN]
      BY <2>2, <3>1 DEF InspectPlan, WalkTyped
    <3>3. stage' \in [Deploys -> Stages]
      BY <2>2, GotoTyped DEF InspectPlan, Stages
    <3> QED
      BY <2>2, <3>2, <3>3 DEF InspectPlan, WalkTyped
  <2> QED
    BY <1>10, <2>1, <2>2
<1>11. ASSUME NEW p \in Deploys, TerraformRefuses(p) \/ DeployKilled(p) PROVE WalkTyped'
  BY <1>1, <1>11 DEF TerraformRefuses, DeployKilled
<1>12. ASSUME NEW p \in Deploys, TfApplyEnds(p) \/ TfApplyFails(p) PROVE WalkTyped'
  BY <1>2, <1>12 DEF TfApplyEnds, TfApplyFails, ApplyLeaves
<1>13. CASE Elsewhere
  BY <1>13 DEF Elsewhere, ForceUnlock, InsightsCreatesLogs, AlbDeleted, WiredOutOfBand, WalkTyped
<1>14. CASE UNCHANGED recVars
  BY <1>14 DEF recVars, WalkTyped
<1> QED
  BY <1>5, <1>6, <1>7, <1>8, <1>9, <1>10, <1>11, <1>12, <1>13, <1>14, RecNextParts
  DEF DeployStep, Looks, PlansIt, Applies

LEMMA RecStepTyped == RecTypeOK /\ [RecNext]_recVars => RecTypeOK'
<1> SUFFICES ASSUME WalkTyped, WorldTyped, CfgTyped, [RecNext]_recVars
             PROVE  RecTypeOK'
  BY TypedParts
<1>1. WalkTyped' /\ WorldTyped' /\ CfgTyped'
  BY WalkStep, WorldStep, CfgStep
<1> QED
  BY <1>1 DEF RecTypeOK, WalkTyped, WorldTyped, CfgTyped, Stages

\* Type correctness of overlapping deploys, terraform's state and AWS.
THEOREM RecTypeCorrect == RecSpec => []RecTypeOK
BY RecInitTyped, RecStepTyped, PTL DEF RecSpec

----------------------------------------------------------------------------
(* What deploys may take for granted about the world: a resource that is   *)
(* in the state stays in it, a load balancer that is gone stays gone, one  *)
(* of terraform's own stays so.                                            *)

OnlyGrows ==
  /\ \A r \in Res : tfstate[r] # "none" => tfstate'[r] # "none"
  /\ \A r \in Alb : tfstate[r] = "fresh" => tfstate'[r] = "fresh"
  /\ \A r \in Alb : "given" \notin cloud[r] => "given" \notin cloud'[r]

LEMMA NamedApart == Alb \subseteq Res /\ Named \subseteq Res /\ Alb \cap Named = {}
BY DEF Alb, Named, Res

LEMMA AlbIsFresh == \A r \in Alb : NewObject(r) = "fresh"
BY NamedApart DEF NewObject

LEMMA CreateGrows ==
  ASSUME WorldTyped, NEW done, Create(done), NEW r \in Alb, "given" \notin cloud[r]
  PROVE  "given" \notin cloud'[r]
BY AlbIsFresh, NamedApart DEF Create

LEMMA RecordGrows ==
  ASSUME WorldTyped, NEW done, Record(done)
  PROVE  /\ \A r \in Res : tfstate[r] # "none" => tfstate'[r] # "none"
         /\ \A r \in Alb : tfstate[r] = "fresh" => tfstate'[r] = "fresh"
<1>1. \A r \in Res : NewObject(r) # "none"
  BY DEF NewObject
<1> QED
  BY <1>1, AlbIsFresh, NamedApart DEF Record

LEMMA WorldOnlyGrows ==
  ASSUME WorldTyped, [RecNext]_recVars PROVE OnlyGrows
<1> USE DEF world
<1>1. ASSUME UNCHANGED <<cloud, tfstate>> PROVE OnlyGrows
  BY <1>1 DEF OnlyGrows
<1>2. ASSUME NEW p \in Deploys, Looks(p) PROVE OnlyGrows
  BY <1>1, <1>2 DEF Looks, StartStackDeploy, CheckLocalLock, ProbeNamed, ProbeAlb
<1>3. ASSUME NEW p \in Deploys, ImportWorks(p) PROVE OnlyGrows
  BY <1>3, NamedApart DEF ImportWorks, Managing, OnlyGrows, WorldTyped
<1>4. ASSUME NEW p \in Deploys, LogImportFails(p) PROVE OnlyGrows
  <2>1. "logs" \notin Alb
    BY DEF Alb
  <2> QED
    BY <1>4, <2>1, NamedApart DEF LogImportFails, OnlyGrows, WorldTyped
<1>5. ASSUME NEW p \in Deploys, AlreadyManaged(p) \/ BucketImportFails(p) \/ AlbImportFails(p)
      PROVE OnlyGrows
  BY <1>1, <1>5 DEF AlreadyManaged, BucketImportFails, AlbImportFails
<1>6. ASSUME NEW p \in Deploys, PlansIt(p) PROVE OnlyGrows
  BY <1>1, <1>6 DEF PlansIt, SavePlan, InspectPlan, NoPlanNeeded, TerraformRefuses, TfApplyBegins
<1>7. ASSUME NEW p \in Deploys, TfApplyEnds(p) \/ TfApplyFails(p) PROVE OnlyGrows
  <2>1. PICK done : Create(done) /\ Record(done)
    BY <1>7 DEF TfApplyEnds, TfApplyFails, ApplyLeaves
  <2> QED
    BY <2>1, CreateGrows, RecordGrows DEF OnlyGrows
<1>8. ASSUME NEW p \in Deploys, DeployKilled(p) PROVE OnlyGrows
  <2>1. UNCHANGED tfstate /\ (UNCHANGED cloud \/ \E done : Create(done))
    BY <1>8 DEF DeployKilled
  <2> QED
    BY <2>1, CreateGrows DEF OnlyGrows
<1>9. CASE AlbDeleted
  BY <1>9, NamedApart DEF AlbDeleted, OnlyGrows
<1>10. CASE InsightsCreatesLogs
  <2>1. "logs" \notin Alb
    BY DEF Alb
  <2> QED
    BY <1>10, <2>1, NamedApart DEF InsightsCreatesLogs, OnlyGrows, WorldTyped
<1>11. CASE ForceUnlock \/ WiredOutOfBand
  BY <1>1, <1>11 DEF ForceUnlock, WiredOutOfBand
<1>12. CASE UNCHANGED recVars
  BY <1>1, <1>12 DEF recVars
<1> QED
  BY <1>2, <1>3, <1>4, <1>5, <1>6, <1>7, <1>8, <1>9, <1>10, <1>11, <1>12, RecNextParts
  DEF DeployStep, Imports, Applies, Elsewhere

\* A step of one deploy leaves the walk of the others alone, what their plans say included.
LEMMA OthersStay ==
  ASSUME WalkTyped, NEW p \in Deploys, DeployStep(p), NEW q \in Deploys, q # p
  PROVE  /\ stage'[q] = stage[q] /\ on'[q] = on[q] /\ plan'[q] = plan[q] /\ told'[q] = told[q]
<1> USE DEF WalkTyped, Goto
<1>1. CASE Looks(p)
  BY <1>1 DEF Looks, StartStackDeploy, CheckLocalLock, ProbeNamed, ProbeAlb, GoOn, Ends
<1>2. CASE Imports(p)
  BY <1>2 DEF Imports, ImportWorks, AlreadyManaged, LogImportFails, BucketImportFails,
              AlbImportFails, GoOn, Ends
<1>3. CASE PlansIt(p)
  BY <1>3 DEF PlansIt, SavePlan, InspectPlan, NoPlanNeeded, TerraformRefuses, TfApplyBegins, Ends
<1>4. CASE Applies(p)
  BY <1>4 DEF Applies, TfApplyEnds, TfApplyFails, ApplyLeaves, DeployKilled, Ends
<1> QED
  BY <1>1, <1>2, <1>3, <1>4 DEF DeployStep

LEMMA OthersFiles ==
  ASSUME WalkTyped, NEW p \in Deploys, DeployStep(p), ~SavePlan(p), NEW q \in Deploys, q # p
  PROVE  saved' = saved /\ overwritten'[q] = overwritten[q]
<1> USE DEF WalkTyped, files
<1>1. CASE Looks(p)
  BY <1>1 DEF Looks, StartStackDeploy, CheckLocalLock, ProbeNamed, ProbeAlb, GoOn, Ends
<1>2. CASE Imports(p)
  BY <1>2 DEF Imports, ImportWorks, AlreadyManaged, LogImportFails, BucketImportFails,
              AlbImportFails, GoOn, Ends
<1>3. CASE PlansIt(p)
  BY <1>3 DEF PlansIt, InspectPlan, NoPlanNeeded, TerraformRefuses, TfApplyBegins, Ends
<1>4. CASE Applies(p)
  BY <1>4 DEF Applies, TfApplyEnds, TfApplyFails, ApplyLeaves, DeployKilled, Ends
<1> QED
  BY <1>1, <1>2, <1>3, <1>4 DEF DeployStep

LEMMA WalksStay ==
  ASSUME Elsewhere \/ UNCHANGED recVars PROVE UNCHANGED <<stage, on, plan, told, files>>
BY DEF Elsewhere, ForceUnlock, InsightsCreatesLogs, AlbDeleted, WiredOutOfBand, recVars, world,
       files

----------------------------------------------------------------------------
(* The strengthening.  The load balancer and its listener are managed      *)
(* together, a deploy that has passed the reconcile steps has both in the  *)
(* state, and what a plan creates, the one it applies or a saved one that  *)
(* is not stale, is not there to be adopted.                               *)

WholeAlb == "lb" \in managed <=> "http" \in managed

AlbInState(p) ==
  /\ stage[p] \in {"probe", "import"} /\ on[p] = "http" => tfstate["lb"] # "none"
  /\ stage[p] \in {"plan", "inspect", "apply", "applying"} /\ "lb" \in managed =>
       tfstate["lb"] # "none" /\ tfstate["http"] # "none"

Creates(done) ==
  /\ \A r \in managed \ done : tfstate[r] # "none"
  /\ \A r \in Alb \cap done : "given" \notin cloud[r] \/ tfstate[r] = "fresh"

PlanIsTrue(p) == stage[p] = "applying" => Creates(plan[p].creates)
FileIsTrue(d) == fresh[d] => Creates(saved[d].creates)

AdoptInv == /\ WholeAlb
            /\ \A p \in Deploys : AlbInState(p) /\ PlanIsTrue(p) /\ FileIsTrue(p)

LEMMA AdoptInit == RecInit => AdoptInv
BY DEF RecInit, AdoptInv, WholeAlb, AlbInState, PlanIsTrue, FileIsTrue, Alb

LEMMA WholeAlbStep == ASSUME CfgTyped, WholeAlb, [RecNext]_recVars PROVE WholeAlb'
BY CfgStep DEF WholeAlb, recCfg

LEMMA AlbNames == "lb" \in Alb /\ "http" \in Alb /\ "lb" \in Res /\ "http" \in Res
                  /\ "lb" \notin Named /\ "http" \notin Named
                  /\ \A r \in Alb : r = "lb" \/ r = "http"
BY DEF Alb, Named, Res

\* What has not been disturbed holds on.
LEMMA CreatesStays ==
  ASSUME CfgTyped, OnlyGrows, UNCHANGED recCfg, NEW done, Creates(done)
  PROVE  /\ \A r \in managed' \ done : tfstate'[r] # "none"
         /\ \A r \in Alb \cap done : "given" \notin cloud'[r] \/ tfstate'[r] = "fresh"
<1>1. managed' = managed /\ managed \subseteq Res
  BY DEF recCfg, CfgTyped
<1> QED
  BY <1>1 DEF OnlyGrows, Creates

LEMMA AdoptStays ==
  ASSUME WorldTyped, CfgTyped, [RecNext]_recVars, NEW q \in Deploys,
         AlbInState(q), PlanIsTrue(q),
         stage'[q] = stage[q], on'[q] = on[q], plan'[q] = plan[q]
  PROVE  AlbInState(q)' /\ PlanIsTrue(q)'
<1>1. OnlyGrows /\ UNCHANGED recCfg
  BY WorldOnlyGrows, CfgStep
<1>2. AlbInState(q)'
  BY <1>1, AlbNames DEF OnlyGrows, AlbInState, recCfg
<1>3. PlanIsTrue(q)'
  BY <1>1, CreatesStays DEF PlanIsTrue, Creates
<1> QED
  BY <1>2, <1>3

LEMMA FileStays ==
  ASSUME WorldTyped, CfgTyped, [RecNext]_recVars, NEW d \in Deploys, FileIsTrue(d),
         saved'[d] = saved[d], fresh'[d] => fresh[d]
  PROVE  FileIsTrue(d)'
<1>1. OnlyGrows /\ UNCHANGED recCfg
  BY WorldOnlyGrows, CfgStep
<1> QED
  BY <1>1, CreatesStays DEF FileIsTrue, Creates

\* Where a deploy goes from resource r, as far as the load balancer is concerned.
LEMMA GoOnInState ==
  ASSUME WalkTyped, NEW p \in Deploys, GoOn(p), managed' = managed, WholeAlb,
         on[p] = "lb" => tfstate'["lb"] # "none",
         on[p] = "http" => tfstate'["lb"] # "none" /\ tfstate'["http"] # "none"
  PROVE  AlbInState(p)' /\ stage'[p] # "applying"
<1>1. on'[p] = Following(on[p])
  BY DEF GoOn, WalkTyped
<1>2. stage'[p] = (CASE Following(on[p]) = "none" -> "plan" [] Following(on[p]) = "http" -> "import"
                     [] OTHER -> "probe")
  BY DEF GoOn, WalkTyped
<1>3. Following(on[p]) = "http" => on[p] = "lb"
  BY DEF Following
<1>4. Following(on[p]) = "none" => on[p] = "http" \/ "lb" \notin managed
  BY DEF Following
<1>5. stage'[p] = "plan" => Following(on[p]) = "none"
  BY <1>2
<1>6. stage'[p] \notin {"inspect", "apply", "applying"}
  BY <1>2
<1> QED
  BY <1>1, <1>3, <1>4, <1>5, <1>6 DEF AlbInState

LEMMA PlannedNow ==
  ASSUME WorldTyped, CfgTyped, WholeAlb, NEW p \in Deploys, AlbInState(p),
         stage[p] \in {"plan", "apply"}
  PROVE  Creates(PlanOf(p).creates)
<1>1. PlanOf(p).creates = {r \in managed : ~Live(r)}
  BY DEF PlanOf
<1>2. \A r \in managed \ PlanOf(p).creates : tfstate[r] # "none"
  BY <1>1 DEF Live
<1>3. ASSUME NEW r \in Alb, r \in PlanOf(p).creates
      PROVE  "given" \notin cloud[r] \/ tfstate[r] = "fresh"
  <2>1. r \in managed /\ ~Live(r) /\ r \in Res
    BY <1>1, <1>3, NamedApart
  <2>2. "lb" \in managed
    BY <1>3, <2>1, AlbNames DEF WholeAlb
  <2>3. tfstate[r] # "none"
    BY <1>3, <2>2, AlbNames DEF AlbInState
  <2>4. tfstate[r] \in {"given", "fresh"} /\ tfstate[r] \notin cloud[r]
    BY <2>1, <2>3 DEF Live, WorldTyped
  <2> QED
    BY <2>4
<1> QED
  BY <1>2, <1>3 DEF Creates

LEMMA AdoptOwnStep ==
  ASSUME WalkTyped, WorldTyped, CfgTyped, AdoptInv, [RecNext]_recVars,
         NEW p \in Deploys, DeployStep(p)
  PROVE  AlbInState(p)' /\ PlanIsTrue(p)'
<1>1. /\ OnlyGrows /\ UNCHANGED recCfg /\ WholeAlb /\ AlbInState(p) /\ PlanIsTrue(p)
      /\ managed' = managed
  BY WorldOnlyGrows, CfgStep DEF AdoptInv, recCfg
<1>2. ASSUME stage'[p] \in {"idle", "check"} PROVE AlbInState(p)' /\ PlanIsTrue(p)'
  BY <1>2 DEF AlbInState, PlanIsTrue
<1>3. ASSUME Ends(p) PROVE AlbInState(p)' /\ PlanIsTrue(p)'
  BY <1>2, <1>3 DEF Ends, Goto, WalkTyped
<1>4. ASSUME stage'[p] # "applying", AlbInState(p)' PROVE PlanIsTrue(p)'
  BY <1>4 DEF PlanIsTrue
<1>5. ASSUME GoOn(p), UNCHANGED tfstate, on[p] \notin Alb
      PROVE AlbInState(p)' /\ PlanIsTrue(p)'
  BY <1>1, <1>4, <1>5, GoOnInState, AlbNames
<1>6. CASE Looks(p)
  <2>1. CASE StartStackDeploy(p)
    BY <1>2, <2>1 DEF StartStackDeploy, Goto, WalkTyped
  <2>2. CASE CheckLocalLock(p) /\ ~Ends(p)
    <3>1. stage'[p] = "probe" /\ on'[p] = "logs"
      BY <2>2 DEF CheckLocalLock, Goto, WalkTyped
    <3> QED
      BY <3>1 DEF AlbInState, PlanIsTrue
  <2>3. CASE ProbeNamed(p)
    <3>1. on[p] \notin Alb /\ UNCHANGED tfstate
      BY <2>3, NamedApart DEF ProbeNamed, world
    <3>2. CASE GoOn(p)
      BY <1>5, <3>1, <3>2
    <3>3. CASE Goto(p, "import") /\ UNCHANGED on
      <4>1. stage'[p] = "import" /\ on'[p] # "http"
        BY <3>1, <3>3, AlbNames DEF Goto, WalkTyped
      <4> QED
        BY <4>1 DEF AlbInState, PlanIsTrue
    <3> QED
      BY <2>3, <3>2, <3>3 DEF ProbeNamed
  <2>4. CASE ProbeAlb(p) /\ ~Ends(p)
    <3>1. stage'[p] = "import" /\ on'[p] # "http"
      BY <2>4 DEF ProbeAlb, Goto, WalkTyped
    <3> QED
      BY <3>1 DEF AlbInState, PlanIsTrue
  <2> QED
    BY <1>3, <1>6, <2>1, <2>2, <2>3, <2>4 DEF Looks
<1>7. CASE Imports(p)
  <2>1. CASE ImportWorks(p) \/ AlreadyManaged(p)
    <3>1. GoOn(p) /\ stage[p] = "import"
      BY <2>1 DEF ImportWorks, AlreadyManaged
    <3>2. on[p] \in Res => tfstate'[on[p]] # "none"
      BY <1>1, <2>1 DEF ImportWorks, Managing, AlreadyManaged, WorldTyped, OnlyGrows
    <3>3. on[p] = "http" => tfstate'["lb"] # "none"
      BY <1>1, <3>1, AlbNames DEF AlbInState, OnlyGrows
    <3> QED
      BY <1>1, <1>4, <3>1, <3>2, <3>3, GoOnInState, AlbNames
  <2>2. CASE LogImportFails(p) \/ BucketImportFails(p)
    <3>1. on[p] \notin Alb /\ GoOn(p) /\ UNCHANGED tfstate
      BY <2>2 DEF LogImportFails, BucketImportFails, Alb, world
    <3> QED
      BY <1>5, <3>1
  <2>3. CASE AlbImportFails(p)
    BY <1>3, <2>3 DEF AlbImportFails
  <2> QED
    BY <1>7, <2>1, <2>2, <2>3 DEF Imports
<1>8. CASE PlansIt(p)
  <2>1. CASE SavePlan(p) \/ InspectPlan(p) \/ NoPlanNeeded(p)
    <3>1. /\ stage[p] \in {"plan", "inspect"} /\ stage'[p] \in {"inspect", "apply"}
          /\ UNCHANGED world
      BY <2>1 DEF SavePlan, InspectPlan, NoPlanNeeded, Goto, WalkTyped
    <3> QED
      BY <1>1, <3>1 DEF AlbInState, PlanIsTrue, world
  <2>2. CASE TerraformRefuses(p)
    BY <1>3, <2>2 DEF TerraformRefuses
  <2>3. CASE TfApplyBegins(p)
    <3>1. stage[p] = "apply" /\ stage'[p] = "applying" /\ UNCHANGED world
      BY <2>3 DEF TfApplyBegins, Goto, WalkTyped
    <3>2. AlbInState(p)'
      BY <1>1, <3>1 DEF AlbInState, world
    <3>3. PlanIsTrue(p)'
      <4>1. CASE NeedsPlan(p)
        <5>1. plan'[p] = saved[Dir(p)] /\ fresh[Dir(p)]
          BY <2>3, <4>1 DEF TfApplyBegins, WalkTyped
        <5>2. Creates(saved[Dir(p)].creates)
          BY <5>1, DirTyped DEF AdoptInv, FileIsTrue
        <5> QED
          BY <1>1, <5>1, <5>2, CreatesStays DEF PlanIsTrue, Creates
      <4>2. CASE ~NeedsPlan(p)
        <5>1. plan'[p] = PlanOf(p)
          BY <2>3, <4>2 DEF TfApplyBegins, WalkTyped
        <5> QED
          BY <1>1, <3>1, <5>1, PlannedNow, CreatesStays DEF PlanIsTrue, Creates
      <4> QED
        BY <4>1, <4>2
    <3> QED
      BY <3>2, <3>3
  <2> QED
    BY <1>8, <2>1, <2>2, <2>3 DEF PlansIt
<1>9. CASE Applies(p)
  BY <1>3, <1>9 DEF Applies, TfApplyEnds, TfApplyFails, ApplyLeaves, DeployKilled
<1> QED
  BY <1>6, <1>7, <1>8, <1>9 DEF DeployStep

\* The file of a directory: the plan saved in it, or the one that was there.
LEMMA FileStep ==
  ASSUME WalkTyped, WorldTyped, CfgTyped, AdoptInv, [RecNext]_recVars, NEW d \in Deploys
  PROVE  FileIsTrue(d)'
<1>1. FileIsTrue(d) /\ OnlyGrows /\ UNCHANGED recCfg
  BY WorldOnlyGrows, CfgStep DEF AdoptInv
<1>2. ASSUME saved'[d] = saved[d], fresh'[d] => fresh[d] PROVE FileIsTrue(d)'
  BY <1>1, <1>2, FileStays
<1>3. ASSUME NEW p \in Deploys, SavePlan(p) PROVE FileIsTrue(d)'
  <2>1. CASE d = Dir(p)
    <3>1. saved'[d] = PlanOf(p)
      BY <1>3, <2>1 DEF SavePlan, WalkTyped
    <3>2. Creates(PlanOf(p).creates)
      BY <1>3, PlannedNow DEF SavePlan, AdoptInv
    <3> QED
      BY <1>1, <3>1, <3>2, CreatesStays DEF FileIsTrue, Creates
  <2>2. CASE d # Dir(p)
    BY <1>2, <1>3, <2>2 DEF SavePlan, WalkTyped
  <2> QED
    BY <2>1, <2>2
<1>4. ASSUME NEW p \in Deploys, DeployStep(p), ~SavePlan(p) PROVE FileIsTrue(d)'
  <2>1. UNCHANGED saved /\ (UNCHANGED fresh \/ StateMoved)
    <3> USE DEF files
    <3>1. CASE Looks(p)
      BY <3>1 DEF Looks, StartStackDeploy, CheckLocalLock, ProbeNamed, ProbeAlb
    <3>2. CASE Imports(p)
      BY <3>2 DEF Imports, ImportWorks, AlreadyManaged, LogImportFails, BucketImportFails,
                  AlbImportFails
    <3>3. CASE PlansIt(p)
      BY <1>4, <3>3 DEF PlansIt, InspectPlan, NoPlanNeeded, TerraformRefuses, TfApplyBegins
    <3>4. CASE Applies(p)
      BY <3>4 DEF Applies, TfApplyEnds, TfApplyFails, ApplyLeaves, DeployKilled
    <3> QED
      BY <1>4, <3>1, <3>2, <3>3, <3>4 DEF DeployStep
  <2> QED
    BY <1>2, <2>1 DEF StateMoved
<1>5. CASE Elsewhere \/ UNCHANGED recVars
  BY <1>2, <1>5, WalksStay DEF files
<1> QED
  BY <1>3, <1>4, <1>5, RecNextParts

LEMMA AdoptStep ==
  ASSUME WalkTyped, WorldTyped, CfgTyped, AdoptInv, [RecNext]_recVars PROVE AdoptInv'
<1>1. ASSUME NEW q \in Deploys PROVE AlbInState(q)' /\ PlanIsTrue(q)'
  <2>1. CASE \E p \in Deploys : DeployStep(p)
    <3>1. PICK p \in Deploys : DeployStep(p)
      BY <2>1
    <3>2. CASE p = q
      BY <3>1, <3>2, AdoptOwnStep
    <3>3. CASE p # q
      BY <3>1, <3>3, OthersStay, AdoptStays DEF AdoptInv
    <3> QED
      BY <3>2, <3>3
  <2>2. CASE Elsewhere \/ UNCHANGED recVars
    BY <2>2, WalksStay, AdoptStays DEF AdoptInv
  <2> QED
    BY <2>1, <2>2, RecNextParts
<1> QED
  BY <1>1, FileStep, WholeAlbStep DEF AdoptInv

\* _reconcile_adopt_owned_alb and its like, for any deploys side by side: one that ends green
\* leaves no object it was to adopt outside terraform's state, unless the state had another.
THEOREM GreenAdopts == RecSpec => GreenOwnsWhatIsThere
<1> DEFINE Inv == RecTypeOK /\ AdoptInv
<1>1. RecInit => Inv
  BY RecInitTyped, AdoptInit
<1>2. Inv /\ [RecNext]_recVars => Inv'
  BY RecStepTyped, AdoptStep, TypedParts
<1>3. Inv /\ [RecNext]_recVars =>
        [\A p \in Deploys : TfApplyEnds(p) =>
           \A r \in managed :
             "given" \in cloud'[r] => tfstate'[r] = "given" \/ tfstate[r] = "fresh"]_recVars
  <2> SUFFICES ASSUME WalkTyped, WorldTyped, CfgTyped, AdoptInv,
                      NEW p \in Deploys, TfApplyEnds(p), NEW r \in managed, "given" \in cloud'[r]
               PROVE  tfstate'[r] = "given" \/ tfstate[r] = "fresh"
    BY TypedParts
  <2>1. Create(plan[p].creates) /\ Record(plan[p].creates) /\ r \in Res
    BY DEF TfApplyEnds, ApplyLeaves, CfgTyped
  <2> Creates(plan[p].creates)
    BY DEF TfApplyEnds, AdoptInv, PlanIsTrue
  <2>2. CASE r \in plan[p].creates /\ r \in Named
    BY <2>1, <2>2 DEF Record, NewObject
  <2>3. CASE r \in plan[p].creates /\ r \in Alb
    <3>1. cloud'[r] = cloud[r] \cup {"fresh"}
      BY <2>1, <2>3, AlbIsFresh DEF Create
    <3> QED
      BY <2>1, <2>3, <3>1 DEF Creates
  <2>4. CASE r \notin plan[p].creates
    <3>1. tfstate'[r] = tfstate[r] /\ tfstate[r] # "none"
      BY <2>1, <2>4 DEF Record, Creates
    <3> QED
      BY <2>1, <3>1 DEF WorldTyped
  <2> QED
    BY <2>1, <2>2, <2>3, <2>4 DEF Res
<1> QED
  BY <1>1, <1>2, <1>3, PTL DEF RecSpec, GreenOwnsWhatIsThere

----------------------------------------------------------------------------
(* The announcement.  Only a stack with ignore_task_definition_changes has *)
(* out-of-band secrets; it always plans first, the plan it applies is the  *)
(* one it announced unless that was overwritten, and it applies alone.     *)

OnlyIgnored == oob => ignoreTd
AppliesAlone(p) == stage[p] = "applying" => lock = {p}
Announces(p, a) == a.replaces /\ a.drops => told[p]
Announced(p) ==
  NeedsPlan(p) /\ ~overwritten[p] =>
    /\ stage[p] = "apply" => Announces(p, saved[Dir(p)])
    /\ stage[p] = "applying" => Announces(p, plan[p])

AnnounceInv == OnlyIgnored /\ \A p \in Deploys : AppliesAlone(p) /\ Announced(p)

LEMMA AnnounceInit == RecInit => AnnounceInv
BY DEF RecInit, AnnounceInv, OnlyIgnored, AppliesAlone, Announced

LEMMA OnlyIgnoredStep ==
  ASSUME CfgTyped, OnlyIgnored, [RecNext]_recVars PROVE OnlyIgnored'
<1> USE DEF world
<1>1. UNCHANGED ignoreTd
  BY CfgStep DEF recCfg
<1>2. (oob' => oob) \/ WiredOutOfBand
  <2>1. ASSUME NEW p \in Deploys, Looks(p) PROVE oob' => oob
    BY <2>1 DEF Looks, StartStackDeploy, CheckLocalLock, ProbeNamed, ProbeAlb
  <2>2. ASSUME NEW p \in Deploys, Imports(p) PROVE oob' => oob
    BY <2>2 DEF Imports, ImportWorks, AlreadyManaged, LogImportFails, BucketImportFails,
                AlbImportFails
  <2>3. ASSUME NEW p \in Deploys, PlansIt(p) PROVE oob' => oob
    BY <2>3 DEF PlansIt, SavePlan, InspectPlan, NoPlanNeeded, TerraformRefuses, TfApplyBegins
  <2>4. ASSUME NEW p \in Deploys, Applies(p) PROVE oob' => oob
    BY <2>4 DEF Applies, TfApplyEnds, TfApplyFails, ApplyLeaves, DeployKilled, Register
  <2>5. CASE Elsewhere /\ ~WiredOutOfBand
    BY <2>5 DEF Elsewhere, ForceUnlock, InsightsCreatesLogs, AlbDeleted
  <2>6. CASE UNCHANGED recVars
    BY <2>6 DEF recVars
  <2> QED
    BY <2>1, <2>2, <2>3, <2>4, <2>5, <2>6, RecNextParts DEF DeployStep
<1>3. WiredOutOfBand => ignoreTd
  BY DEF WiredOutOfBand
<1> QED
  BY <1>1, <1>2, <1>3 DEF OnlyIgnored

\* Who takes and who frees the lock: nobody takes it from a deploy that applies.
LEMMA AppliesAloneStep ==
  ASSUME WalkTyped, CfgTyped, \A p \in Deploys : AppliesAlone(p), [RecNext]_recVars,
         NEW q \in Deploys, stage'[q] = "applying"
  PROVE  lock' = {q}
<1> USE DEF world, recCfg
<1>1. ASSUME NEW p \in Deploys, Looks(p) \/ Imports(p) PROVE lock' = {q}
  <2>1. UNCHANGED lock
    BY <1>1 DEF Looks, StartStackDeploy, CheckLocalLock, ProbeNamed, ProbeAlb,
                Imports, ImportWorks, AlreadyManaged, LogImportFails, BucketImportFails,
                AlbImportFails
  <2>2. p # q
    <3>1. ASSUME Looks(p) PROVE stage'[p] # "applying"
      BY <3>1 DEF Looks, StartStackDeploy, CheckLocalLock, ProbeNamed, ProbeAlb, GoOn, Ends,
                  Goto, WalkTyped
    <3>2. ASSUME Imports(p) PROVE stage'[p] # "applying"
      BY <3>2 DEF Imports, ImportWorks, AlreadyManaged, LogImportFails, BucketImportFails,
                  AlbImportFails, GoOn, Ends, Goto, WalkTyped
    <3> QED
      BY <1>1, <3>1, <3>2
  <2> QED
    BY <1>1, <2>1, <2>2, OthersStay DEF DeployStep, AppliesAlone
<1>2. ASSUME NEW p \in Deploys, PlansIt(p) PROVE lock' = {q}
  <2>1. CASE TfApplyBegins(p)
    <3>1. lock = {} /\ lock' = {p}
      BY <2>1 DEF TfApplyBegins
    <3> QED
      BY <1>2, <3>1, OthersStay DEF DeployStep, AppliesAlone
  <2>2. CASE ~TfApplyBegins(p)
    <3>1. UNCHANGED lock /\ stage'[p] # "applying"
      BY <1>2, <2>2 DEF PlansIt, SavePlan, InspectPlan, NoPlanNeeded, TerraformRefuses, Ends, Goto,
             WalkTyped
    <3> QED
      BY <1>2, <3>1, OthersStay DEF DeployStep, AppliesAlone
  <2> QED
    BY <2>1, <2>2
<1>3. ASSUME NEW p \in Deploys, Applies(p) PROVE lock' = {q}
  <2>1. stage'[p] = "idle"
    BY <1>3 DEF Applies, TfApplyEnds, TfApplyFails, ApplyLeaves, DeployKilled, Ends, Goto, WalkTyped
  <2>2. p # q /\ lock = {q}
    BY <1>3, <2>1, OthersStay DEF DeployStep, AppliesAlone
  <2>3. stage[p] # "applying"
    BY <2>2 DEF AppliesAlone
  <2> QED
    BY <1>3, <2>2, <2>3 DEF Applies, TfApplyEnds, TfApplyFails, ApplyLeaves, DeployKilled
<1>4. CASE Elsewhere \/ UNCHANGED recVars
  <2>1. stage[q] = "applying" /\ lock = {q}
    BY <1>4, WalksStay DEF AppliesAlone
  <2>2. ~ForceUnlock
    BY <2>1 DEF ForceUnlock
  <2> QED
    BY <1>4, <2>1, <2>2 DEF Elsewhere, InsightsCreatesLogs, AlbDeleted, WiredOutOfBand, recVars
<1> QED
  BY <1>1, <1>2, <1>3, <1>4, RecNextParts DEF DeployStep

LEMMA AnnouncedStep ==
  ASSUME WalkTyped, CfgTyped, [RecNext]_recVars, NEW q \in Deploys, Announced(q)
  PROVE  Announced(q)'
<1>1. (NeedsPlan(q)' <=> NeedsPlan(q)) /\ Dir(q)' = Dir(q)
  BY CfgStep DEF NeedsPlan, Dir, recCfg
<1> DEFINE d == Dir(q)
<1>2. ASSUME stage'[q] = stage[q], plan'[q] = plan[q], told'[q] = told[q],
             overwritten'[q] = overwritten[q], saved'[d] = saved[d]
      PROVE  Announced(q)'
  <2>1. saved'[Dir(q)'] = saved[Dir(q)]
    BY <1>1, <1>2
  <2> QED
    BY <1>1, <1>2, <2>1 DEF Announced, Announces
<1>3. ASSUME stage'[q] \notin {"apply", "applying"} PROVE Announced(q)'
  BY <1>3 DEF Announced
<1>4. CASE Looks(q)
  BY <1>3, <1>4 DEF Looks, StartStackDeploy, CheckLocalLock, ProbeNamed, ProbeAlb, GoOn, Ends,
                    Goto, WalkTyped
<1>5. CASE Imports(q)
  BY <1>3, <1>5 DEF Imports, ImportWorks, AlreadyManaged, LogImportFails, BucketImportFails,
                    AlbImportFails, GoOn, Ends, Goto, WalkTyped
<1>6. CASE SavePlan(q)
  BY <1>3, <1>6 DEF SavePlan, Goto, WalkTyped
<1>7. CASE InspectPlan(q)
  <2>1. stage'[q] = "apply" /\ saved' = saved
    BY <1>7 DEF InspectPlan, files, Goto, WalkTyped
  <2>2. saved[Dir(q)].replaces /\ saved[Dir(q)].drops => told'[q]
    BY <1>7 DEF InspectPlan, WalkTyped
  <2> QED
    BY <1>1, <2>1, <2>2 DEF Announced, Announces
<1>8. CASE NoPlanNeeded(q)
  <2>1. ~NeedsPlan(q)
    BY <1>8 DEF NoPlanNeeded
  <2> QED
    BY <1>1, <2>1 DEF Announced
<1>9. CASE TfApplyBegins(q)
  <2>1. /\ stage[q] = "apply" /\ stage'[q] = "applying"
        /\ told'[q] = told[q] /\ overwritten'[q] = overwritten[q]
        /\ NeedsPlan(q) => plan'[q] = saved[Dir(q)]
    BY <1>9 DEF TfApplyBegins, files, Goto, WalkTyped
  <2> QED
    BY <1>1, <2>1 DEF Announced, Announces
<1>10. CASE TerraformRefuses(q) \/ Applies(q)
  BY <1>3, <1>10 DEF TerraformRefuses, Applies, TfApplyEnds, TfApplyFails, ApplyLeaves,
         DeployKilled, Ends, Goto, WalkTyped
<1>11. ASSUME NEW p \in Deploys, DeployStep(p), p # q, ~SavePlan(p) PROVE Announced(q)'
  BY <1>2, <1>11, OthersStay, OthersFiles
<1>12. ASSUME NEW p \in Deploys, DeployStep(p), p # q, SavePlan(p) PROVE Announced(q)'
  <2>1. /\ stage'[q] = stage[q] /\ plan'[q] = plan[q] /\ told'[q] = told[q]
    BY <1>12, OthersStay
  <2>2. /\ overwritten'[q] = (overwritten[q] \/ (stage[q] = "apply" /\ NeedsPlan(q) /\ d = Dir(p)))
        /\ d # Dir(p) => saved'[d] = saved[d]
    BY <1>12 DEF SavePlan, WalkTyped
  <2>3. CASE overwritten'[q] = overwritten[q] /\ saved'[d] = saved[d]
    BY <1>2, <2>1, <2>3
  <2>4. CASE overwritten'[q]
    BY <2>4 DEF Announced
  <2>5. CASE d = Dir(p) /\ ~overwritten'[q] /\ ~(stage[q] = "apply" /\ NeedsPlan(q))
    <3>1. ~overwritten[q]
      BY <2>2, <2>5
    <3> QED
      BY <1>1, <2>1, <2>5, <3>1 DEF Announced, Announces
  <2> QED
    BY <2>2, <2>3, <2>4, <2>5 DEF WalkTyped
<1>13. CASE Elsewhere \/ UNCHANGED recVars
  BY <1>2, <1>13, WalksStay DEF files
<1> QED
  BY <1>4, <1>5, <1>6, <1>7, <1>8, <1>9, <1>10, <1>11, <1>12, <1>13, RecNextParts
  DEF DeployStep, PlansIt

\* _inspect_plan with ignore_task_definition_changes, for any deploys side by side, in one
\* directory or in several: what was to be dropped when the plan was made is not dropped
\* unannounced, unless another deploy saved its plan over the one that was looked at.
THEOREM DropsAreAnnounced == RecSpec => ReplacementIsAnnounced
<1> DEFINE Inv == RecTypeOK /\ AnnounceInv
<1>1. RecInit => Inv
  BY RecInitTyped, AnnounceInit
<1>2. Inv /\ [RecNext]_recVars => Inv'
  <2> SUFFICES ASSUME WalkTyped, WorldTyped, CfgTyped, AnnounceInv, [RecNext]_recVars, RecTypeOK
               PROVE  Inv'
    BY TypedParts
  <2>1. OnlyIgnored'
    BY OnlyIgnoredStep DEF AnnounceInv
  <2>2. \A q \in Deploys : AppliesAlone(q)'
    BY AppliesAloneStep DEF AnnounceInv, AppliesAlone
  <2>3. \A q \in Deploys : Announced(q)'
    BY AnnouncedStep DEF AnnounceInv
  <2> QED
    BY <2>1, <2>2, <2>3, RecStepTyped DEF AnnounceInv
<1>3. Inv /\ [RecNext]_recVars =>
        [\A p \in Deploys :
           stage[p] = "applying" /\ oob /\ ~oob' =>
             told[p] \/ ~plan[p].drops \/ overwritten[p]]_recVars
  <2> SUFFICES ASSUME WalkTyped, CfgTyped, AnnounceInv, [RecNext]_recVars,
                      NEW p \in Deploys, stage[p] = "applying", oob, ~oob', plan[p].drops,
                      ~overwritten[p]
               PROVE  told[p]
    BY TypedParts
  <2> USE DEF world
  <2>1. PICK q \in Deploys : TfApplyEnds(q) \/ TfApplyFails(q)
    <3>1. ASSUME NEW q \in Deploys, Looks(q) PROVE oob'
      BY <3>1 DEF Looks, StartStackDeploy, CheckLocalLock, ProbeNamed, ProbeAlb
    <3>2. ASSUME NEW q \in Deploys, Imports(q) PROVE oob'
      BY <3>2 DEF Imports, ImportWorks, AlreadyManaged, LogImportFails, BucketImportFails,
                  AlbImportFails
    <3>3. ASSUME NEW q \in Deploys, PlansIt(q) PROVE oob'
      BY <3>3 DEF PlansIt, SavePlan, InspectPlan, NoPlanNeeded, TerraformRefuses, TfApplyBegins
    <3>4. ASSUME NEW q \in Deploys, DeployKilled(q) PROVE oob'
      BY <3>4 DEF DeployKilled
    <3>5. Elsewhere \/ UNCHANGED recVars => oob'
      BY DEF Elsewhere, ForceUnlock, InsightsCreatesLogs, AlbDeleted, WiredOutOfBand, recVars
    <3> QED
      BY <3>1, <3>2, <3>3, <3>4, <3>5, RecNextParts DEF DeployStep, Applies
  <2>2. stage[q] = "applying" /\ plan[q].replaces
    BY <2>1 DEF TfApplyEnds, TfApplyFails, ApplyLeaves, Register
  <2>3. q = p
    BY <2>2 DEF AnnounceInv, AppliesAlone
  <2>4. NeedsPlan(p)
    BY DEF AnnounceInv, OnlyIgnored, NeedsPlan
  <2> QED
    BY <2>2, <2>3, <2>4 DEF AnnounceInv, Announced, Announces
<1> QED
  BY <1>1, <1>2, <1>3, PTL DEF RecSpec, ReplacementIsAnnounced
=============================================================================
