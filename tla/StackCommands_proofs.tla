------------------------- MODULE StackCommands_proofs -------------------------
(***************************************************************************)
(* Proofs about the commands of an operator on one stack: destroy with its *)
(* pre-drain, rc up, rc deploy and rc secrets push with the secrets they   *)
(* carry, the pipes of a terraform run and the sizing of the EC2 fleet,    *)
(* each for every value of its constants; and the type correctness of      *)
(* MCStackCommands, where one of them moves while the others rest.         *)
(***************************************************************************)
EXTENDS MCStackCommands, StateReconcile_proofs, FiniteSetTheorems, TLAPS

-----------------------------------------------------------------------------
(***************************************************************************)
(* Ec2Destroy.                                                             *)
(* For every set of services, every split of their declarations over rc.yml*)
(* and compose, and every failure: type correctness, and that the pre-drain*)
(* never shrinks the auto scaling group under a service without having     *)
(* warned.                                                                 *)
(***************************************************************************)

LEMMA DestroyInitTyped == DestroyInit => DestroyTypeOK
BY DEF DestroyInit, DestroyTypeOK

LEMMA DestroyStepTyped == DestroyTypeOK /\ [DestroyNext]_dVars => DestroyTypeOK'
<1> SUFFICES ASSUME DestroyTypeOK, [DestroyNext]_dVars PROVE DestroyTypeOK'
  OBVIOUS
<1> USE DEF cfgVars, awsVars, Warn
<1>1. CASE SkipPredrain
  BY <1>1 DEF SkipPredrain, DestroyTypeOK
<1>2. CASE FindServices
  <2>1. LocalNames \subseteq Ec2Services
    BY DEF LocalNames, DestroyTypeOK
  <2>2. drain' \subseteq Ec2Services /\ left' \subseteq Ec2Services
    BY <1>2, <2>1 DEF FindServices, DestroyTypeOK
  <2> QED
    BY <1>2, <2>2 DEF FindServices, DestroyTypeOK
<1>3. CASE StartWait \/ GiveUpWait
  BY <1>3 DEF StartWait, GiveUpWait, DestroyTypeOK
<1>4. CASE PollServices
  BY <1>4 DEF PollServices, StillRunning, DestroyTypeOK
<1>5. ASSUME NEW s \in Ec2Services, DesiredCountZero(s) PROVE DestroyTypeOK'
  BY <1>5 DEF DesiredCountZero, DestroyTypeOK
<1>6. CASE ShrinkGroup \/ ShrinkFails \/ GroupEmpty
  BY <1>6 DEF ShrinkGroup, ShrinkFails, GroupEmpty, DestroyTypeOK
<1>7. CASE TerraformDestroys \/ TerraformFails
  BY <1>7 DEF TerraformDestroys, TerraformFails, DestroyTypeOK
<1>8. ASSUME NEW s \in Ec2Services, TaskStops(s) \/ TaskStarts(s) PROVE DestroyTypeOK'
  BY <1>8 DEF TaskStops, TaskStarts, DestroyTypeOK
<1>9. CASE InstanceTerminates
  BY <1>9 DEF InstanceTerminates, DestroyTypeOK
<1>10. CASE UNCHANGED dVars
  BY <1>10 DEF dVars, DestroyTypeOK
<1> QED
  BY <1>1, <1>2, <1>3, <1>4, <1>5, <1>6, <1>7, <1>8, <1>9, <1>10 DEF DestroyNext, Predrain

\* Type correctness of destroy: every variable keeps to its set, whatever AWS answers.
THEOREM DestroyTypeCorrect == DestroySpec => []DestroyTypeOK
BY DestroyInitTyped, DestroyStepTyped, PTL DEF DestroySpec

----------------------------------------------------------------------------
(* The strengthening.  What the cluster has is what was deployed on EC2; a *)
(* drain that has not warned covers all of it, its loop leaves no service  *)
(* behind that still wants tasks, its wait none that still runs them, and  *)
(* the group shrinks after that.                                           *)

OnlyDeployed ==
  /\ inRcYml \subseteq onEc2 /\ (~ec2Default => inRcYml = onEc2)
  /\ exists \subseteq onEc2 /\ run \subseteq exists /\ want \subseteq exists

NotYetShrunk == at \in {"start", "scale_in", "wait", "shrink"} => instance = "up"

\* What a drain has done by the time it is at each of its steps.
DrainSoFar ==
  /\ at = "start" => drain = {}
  /\ at = "scale_in" => exists \subseteq drain /\ want \subseteq left
  /\ at = "wait" => want = {} /\ run \subseteq left
  /\ at \in {"shrink", "shrinking"} => want = {} /\ run = {}
  /\ at = "terraform" /\ drain # {} => instance = "gone"
  /\ at \in {"terraform", "failed"} /\ instance # "up" => want = {} /\ run = {}

DrainInv == OnlyDeployed /\ NotYetShrunk /\ (trouble \/ DrainSoFar)

LEMMA DrainInit == DestroyInit => DrainInv
BY DEF DestroyInit, DrainInv, OnlyDeployed, NotYetShrunk, DrainSoFar

\* _ec2_service_names and the cluster: between them every service that exists.
LEMMA FoundAll ==
  ASSUME OnlyDeployed, FindServices, ~trouble'
  PROVE  exists \subseteq drain'
<1>1. CASE ec2Default
  BY <1>1 DEF FindServices, LocalIsComplete, Warn
<1>2. CASE ~ec2Default
  BY <1>2 DEF FindServices, LocalIsComplete, LocalNames, OnlyDeployed, Warn
<1> QED
  BY <1>1, <1>2

LEMMA OnlyDeployedStep == OnlyDeployed /\ [DestroyNext]_dVars => OnlyDeployed'
<1> SUFFICES ASSUME OnlyDeployed, [DestroyNext]_dVars PROVE OnlyDeployed'
  OBVIOUS
<1>1. CASE UNCHANGED <<cfgVars, want, run, exists>>
  BY <1>1 DEF cfgVars, OnlyDeployed
<1>2. ASSUME NEW s \in Ec2Services, DesiredCountZero(s) PROVE OnlyDeployed'
  BY <1>2 DEF DesiredCountZero, cfgVars, OnlyDeployed
<1>3. CASE TerraformDestroys
  BY <1>3 DEF TerraformDestroys, cfgVars, OnlyDeployed
<1>4. ASSUME NEW s \in Ec2Services, TaskStops(s) \/ TaskStarts(s) PROVE OnlyDeployed'
  BY <1>4 DEF TaskStops, TaskStarts, cfgVars, OnlyDeployed
<1>5. CASE SkipPredrain \/ FindServices \/ StartWait \/ PollServices \/ GiveUpWait
  BY <1>1, <1>5 DEF SkipPredrain, FindServices, StartWait, PollServices, GiveUpWait, awsVars
<1>6. CASE \/ ShrinkGroup \/ ShrinkFails \/ GroupEmpty \/ TerraformFails \/ InstanceTerminates
           \/ UNCHANGED dVars
  BY <1>1, <1>6 DEF ShrinkGroup, ShrinkFails, GroupEmpty, TerraformFails, InstanceTerminates,
                    awsVars, cfgVars, dVars
<1> QED
  BY <1>2, <1>3, <1>4, <1>5, <1>6 DEF DestroyNext, Predrain

LEMMA NotYetShrunkStep == NotYetShrunk /\ [DestroyNext]_dVars => NotYetShrunk'
<1> SUFFICES ASSUME NotYetShrunk, [DestroyNext]_dVars PROVE NotYetShrunk'
  OBVIOUS
<1> USE DEF NotYetShrunk, awsVars
<1>1. CASE SkipPredrain \/ FindServices \/ StartWait \/ PollServices \/ GiveUpWait
  BY <1>1 DEF SkipPredrain, FindServices, StartWait, PollServices, GiveUpWait
<1>2. CASE ShrinkGroup \/ ShrinkFails \/ GroupEmpty \/ TerraformDestroys \/ TerraformFails
  BY <1>2 DEF ShrinkGroup, ShrinkFails, GroupEmpty, TerraformDestroys, TerraformFails
<1>3. ASSUME NEW s \in Ec2Services, DesiredCountZero(s) \/ TaskStops(s) \/ TaskStarts(s)
      PROVE NotYetShrunk'
  BY <1>3 DEF DesiredCountZero, TaskStops, TaskStarts
<1>4. CASE InstanceTerminates \/ UNCHANGED dVars
  BY <1>4 DEF InstanceTerminates, dVars
<1> QED
  BY <1>1, <1>2, <1>3, <1>4 DEF DestroyNext, Predrain

LEMMA DrainSoFarStep ==
  ASSUME DestroyTypeOK, OnlyDeployed, NotYetShrunk, trouble \/ DrainSoFar, [DestroyNext]_dVars
  PROVE  trouble' \/ DrainSoFar'
<1> SUFFICES ASSUME ~trouble' PROVE DrainSoFar'
  OBVIOUS
<1> USE DEF DrainSoFar, cfgVars, awsVars, Warn
<1>1. CASE SkipPredrain
  BY <1>1 DEF SkipPredrain, NotYetShrunk, OnlyDeployed, DestroyTypeOK
<1>2. CASE FindServices
  <2>1. exists \subseteq drain' /\ left' = drain' /\ UNCHANGED awsVars /\ instance = "up"
    BY <1>2, FoundAll DEF FindServices, NotYetShrunk
  <2>2. at' = IF drain' = {} THEN "terraform" ELSE "scale_in"
    BY <1>2 DEF FindServices
  <2>3. want' \subseteq left'
    BY <2>1 DEF OnlyDeployed
  <2> QED
    BY <2>1, <2>2, <2>3
<1>3. ASSUME NEW s \in Ec2Services, DesiredCountZero(s) PROVE DrainSoFar'
  BY <1>3 DEF DesiredCountZero
<1>4. CASE StartWait
  BY <1>4 DEF StartWait, OnlyDeployed
<1>5. CASE PollServices
  <2>1. at = "wait" /\ left' = StillRunning /\ UNCHANGED <<awsVars, trouble>>
    BY <1>5 DEF PollServices
  <2>2. want = {} /\ run \subseteq left
    BY <2>1
  <2>3. run \subseteq StillRunning
    BY <2>2 DEF StillRunning, OnlyDeployed
  <2>4. at' = IF left' = {} THEN "shrink" ELSE at
    BY <1>5 DEF PollServices
  <2> QED
    BY <2>1, <2>2, <2>3, <2>4
<1>6. CASE GiveUpWait \/ ShrinkFails
  BY <1>6 DEF GiveUpWait, ShrinkFails
<1>7. CASE ShrinkGroup \/ GroupEmpty
  BY <1>7 DEF ShrinkGroup, GroupEmpty
<1>8. CASE TerraformDestroys \/ TerraformFails
  BY <1>8 DEF TerraformDestroys, TerraformFails
<1>9. ASSUME NEW s \in Ec2Services, TaskStops(s) \/ TaskStarts(s) PROVE DrainSoFar'
  BY <1>9 DEF TaskStops, TaskStarts, OnlyDeployed
<1>10. CASE InstanceTerminates
  BY <1>10 DEF InstanceTerminates, NotYetShrunk
<1>11. CASE UNCHANGED dVars
  BY <1>11 DEF dVars
<1> QED
  BY <1>1, <1>2, <1>3, <1>4, <1>5, <1>6, <1>7, <1>8, <1>9, <1>10, <1>11
  DEF DestroyNext, Predrain

LEMMA DrainAlways == DestroySpec => [](DestroyTypeOK /\ DrainInv)
<1>1. DestroyInit => DestroyTypeOK /\ DrainInv
  BY DestroyInitTyped, DrainInit
<1>2. DestroyTypeOK /\ DrainInv /\ [DestroyNext]_dVars => (DestroyTypeOK /\ DrainInv)'
  BY DestroyStepTyped, OnlyDeployedStep, NotYetShrunkStep, DrainSoFarStep DEF DrainInv
<1> QED
  BY <1>1, <1>2, PTL DEF DestroySpec

\* The pre-drain's promise: unless it has warned, the group never shrinks under a service
\* that still wants or runs tasks, and terraform gets a stack without tasks and instances.
THEOREM DrainsFirst == DestroySpec => []DrainsBeforeDestroy
<1>1. DestroyTypeOK /\ DrainInv => NeverShrinksUnderLoad
  <2> SUFFICES ASSUME DestroyTypeOK, DrainInv, instance # "up", at # "destroyed", ~trouble
               PROVE  want = {} /\ run = {}
    BY DEF NeverShrinksUnderLoad
  <2> QED
    BY DEF DestroyTypeOK, DrainInv, NotYetShrunk, DrainSoFar
<1>2. DestroyTypeOK /\ DrainInv => HandsOverDrained
  BY DEF HandsOverDrained, DrainInv, DrainSoFar
<1>3. DestroyTypeOK /\ DrainInv => DrainsBeforeDestroy
  BY <1>1, <1>2 DEF DrainsBeforeDestroy
<1> QED
  BY <1>3, DrainAlways, PTL

-----------------------------------------------------------------------------
(***************************************************************************)
(* RcUp.                                                                   *)
(* For any secrets, key sets, services, task groups, edits and failures:   *)
(* after an rc up without a warning no service is left behind but one that *)
(* no roll can place, and nothing runs ahead of the keys or tasks it       *)
(* needs.  The invariant relates the env files, Secrets Manager, what its  *)
(* readers see, what task definitions demand and what tasks run, and says  *)
(* at each step of a command what it has achieved so far.                  *)
(***************************************************************************)

\* The steps of a push.
Pushing == {"prepush", "push"}
\* The command has rendered task definitions, and applied them.
Applied ==
  \/ pc \in {"build", "gate", "autopush", "hooks"} \/ outcome = "ok"
  \/ pc \in {"push", "roll"} /\ kind # "push"
Rendered == Applied \/ pc \in {"verify", "apply"}
\* s is in Secrets Manager as it is on disk, and readers see all of its keys.
Pushed(s) == sm[s] = disk[s] /\ Readable(s, disk[s], seen[s])
\* e is being rolled to what was pushed or runs it, or demands a key that is gone.
Fresh(e) ==
  /\ e \in layout.ecs
  /\ rollout[e] = "rolling" \/ Current(e) \/ Stranded(e)

\* The types of the files, of what is in AWS, and of the command.
FilesTyped ==
  /\ layout \in Layouts /\ disk \in [Secrets -> Versions] /\ declared \subseteq Secrets
  /\ code \in 0..edits /\ edits \in 0..MaxEdits /\ latest \in 0..MaxEdits
AwsTyped ==
  /\ sm \in [Secrets -> Blobs] /\ seen \in [Secrets -> Blobs]
  /\ demand \in [EcsServices -> Demands]
  /\ rollout \in [EcsServices -> {"none", "rolling", "steady", "reverted"}]
  /\ task \in [EcsServices -> Tasks]
CommandTyped ==
  /\ pc \in {"idle", "prepush", "push", "roll", "done", "render", "verify", "apply",
             "build", "gate", "autopush", "hooks"}
  /\ kind \in {"none", "up", "deploy", "push"}
  /\ todo \subseteq Secrets \cup Services /\ wait \subseteq Secrets
  /\ rendered \in Demands
  /\ unread \subseteq Secrets /\ reverted \subseteq EcsServices
  /\ runs \in 0..MaxRuns
  /\ outcome \in {"none", "running", "ok", "failed"}
WarnTyped == warned \in BOOLEAN

\* Task definitions demand declared secrets.
Demandable(d) == \A s \in Secrets : d[s] # NotDemanded => s \in declared
DemandsSound == \A e \in EcsServices : Demandable(demand[e]) /\ Demandable(task[e].def)
\* Who does not roll runs what is demanded of it.
SettledSound ==
  \A e \in EcsServices : rollout[e] \in {"steady", "reverted"} =>
    task[e].up /\ task[e].def = demand[e]

\* What the loops over secrets and services have left to do.
LoopSound ==
  /\ wait \subseteq todo /\ (pc \notin Pushing => wait = {})
  /\ pc \in Pushing => todo \subseteq declared
  /\ \A s \in wait : sm[s] = disk[s]
  /\ kind = "push" => pc \in {"push", "roll", "done"}
  /\ outcome = "ok" => pc = "idle"
  /\ pc = "roll" => todo \subseteq layout.compose
\* The task definitions of this command demand every declared secret as it is on disk.
RenderSound ==
  Rendered => \A s \in Secrets : rendered[s] = IF s \in declared THEN disk[s] ELSE NotDemanded
\* At the apply, readers see every key of a declared secret that rc could compare, and go on
\* seeing it.
VerifySound ==
  pc = "apply" => \A s \in declared \ unread :
    Readable(s, disk[s], seen[s]) /\ (seen[s] = sm[s] \/ Readable(s, disk[s], sm[s]))
\* What was applied is demanded of every service that the breaker did not take back to what
\* its tasks run.
ApplySound ==
  Applied => \A e \in layout.ecs :
    /\ demand[e] = TaskDef(e, rendered) \/ (e \in reverted /\ demand[e] = task[e].def)
    /\ rollout[e] # "none"
\* An rc deploy past its gate has nothing rolling that it built, save what its push rolls.
PastGate == Applied /\ pc \notin {"idle", "build", "gate"} /\ kind # "up"
GateSound ==
  PastGate => \A e \in layout.built \ layout.compose : rollout[e] # "rolling"
\* An rc up without a warning has pushed what it has got past.
PushSound ==
  kind = "up" /\ ~warned =>
    /\ pc = "push" => \A s \in declared \ todo : Pushed(s)
    /\ pc \in {"roll", "hooks"} \/ outcome = "ok" => \A s \in declared : Pushed(s)
\* ... and has rolled to it what it has got past.
RollSound ==
  kind = "up" /\ ~warned /\ declared # {} =>
    /\ pc = "roll" => \A c \in layout.compose \ todo : Fresh(c)
    /\ pc = "hooks" \/ outcome = "ok" => \A c \in layout.compose : Fresh(c)

\* The inductive invariant, in what it says of the data and of the command.
UpData == FilesTyped /\ AwsTyped /\ DemandsSound /\ SettledSound
UpPhase ==
  /\ CommandTyped /\ WarnTyped /\ LoopSound /\ RenderSound /\ VerifySound /\ ApplySound
  /\ GateSound /\ PushSound /\ RollSound
UpInv == UpData /\ UpPhase

LEMMA UpTyped == UpInv => UpTypeOK
<1> SUFFICES ASSUME UpInv PROVE UpTypeOK
  OBVIOUS
<1>1. code \in 0..MaxEdits
  BY RcUpAssumption DEF UpInv, UpData, FilesTyped
<1>2. FilesTyped /\ AwsTyped /\ CommandTyped /\ WarnTyped
  BY DEF UpInv, UpData, UpPhase
<1> QED
  BY <1>1, <1>2 DEF FilesTyped, AwsTyped, CommandTyped, WarnTyped, UpTypeOK

LEMMA BlobFacts ==
  /\ Blobs \subseteq Int /\ Versions \subseteq Blobs /\ Versions = 0..MaxVersion
  /\ MaxVersion \in Nat /\ {ABSENT, EMPTY, PLACEHOLDER} \subseteq Blobs
  /\ ABSENT = -3 /\ EMPTY = -2 /\ PLACEHOLDER = -1 /\ NotDemanded = -4
  /\ NotDemanded \notin Versions /\ 0 \in Versions
BY RcUpAssumption DEF Blobs, Versions, ABSENT, EMPTY, PLACEHOLDER, NotDemanded

LEMMA OwnReadable == \A s, v : Readable(s, v, v)
BY DEF Readable, DemandedKeys, LiveKeys

LEMMA NothingDemanded == \A s, b : Readable(s, NotDemanded, b)
BY BlobFacts DEF Readable, DemandedKeys

LEMMA UpInitial == UpInit => UpInv
<1> SUFFICES ASSUME UpInit PROVE UpInv
  OBVIOUS
<1>1. FilesTyped
  BY BlobFacts, RcUpAssumption DEF UpInit, FilesTyped
<1>2. NoRender \in Demands /\ NoTask \in Tasks
  <2>1. NoRender \in Demands
    BY DEF NoRender, Demands
  <2>2. /\ [s \in Secrets |-> NotDemanded] \in Demands
        /\ [s \in Secrets |-> ABSENT] \in [Secrets -> Blobs]
    BY BlobFacts DEF Demands
  <2>3. 0 \in 0..MaxEdits
    BY RcUpAssumption
  <2> QED
    BY <2>1, <2>2, <2>3 DEF NoTask, Tasks
<1>3. AwsTyped
  BY <1>2, BlobFacts DEF UpInit, AwsTyped, Demands
<1>5. DemandsSound
  <2>1. \A e \in EcsServices, s \in Secrets :
          demand[e][s] = NotDemanded /\ task[e].def[s] = NotDemanded
    BY DEF UpInit, NoTask
  <2> QED
    BY <2>1 DEF DemandsSound, Demandable
<1>6. SettledSound
  BY DEF UpInit, SettledSound
<1>7. CommandTyped
  BY <1>2, RcUpAssumption DEF UpInit, CommandTyped
<1>8. WarnTyped
  BY DEF UpInit, WarnTyped
<1>9. LoopSound /\ RenderSound /\ VerifySound
  BY DEF UpInit, LoopSound, RenderSound, VerifySound, Rendered, Applied
<1>10. ApplySound /\ GateSound /\ PushSound /\ RollSound
  BY DEF UpInit, ApplySound, GateSound, PastGate, PushSound, RollSound, Applied
<1> QED
  BY <1>1, <1>3, <1>5, <1>6, <1>7, <1>8, <1>9, <1>10 DEF UpInv, UpData, UpPhase

-----------------------------------------------------------------------------
(* Steps that leave the files, Secrets Manager and ECS alone *)

DataRests == UNCHANGED <<opVars, latest, smVars, ecsVars>>

LEMMA DataStays ==
  ASSUME DataRests
  PROVE  UNCHANGED <<layout, disk, declared, code, edits, latest, sm, seen, demand, rollout, task>>
BY DEF DataRests, opVars, smVars, ecsVars

LEMMA DataKept == UpInv /\ DataRests => UpData'
<1> SUFFICES ASSUME UpInv, DataRests PROVE UpData'
  OBVIOUS
<1>1. UNCHANGED <<layout, disk, declared, code, edits, latest, sm, seen, demand, rollout, task>>
  BY DataStays
<1>2. FilesTyped' /\ AwsTyped'
  BY <1>1 DEF UpInv, UpData, FilesTyped, AwsTyped
<1>3. DemandsSound' /\ SettledSound'
  BY <1>1 DEF UpInv, UpData, DemandsSound, Demandable, SettledSound
<1> QED
  BY <1>2, <1>3 DEF UpData

LEMMA PushedKept ==
  ASSUME UNCHANGED <<disk, sm, seen>>
  PROVE  \A s \in Secrets : Pushed(s) => Pushed(s)'
BY DEF Pushed

LEMMA FreshKept ==
  ASSUME UNCHANGED <<layout, disk, latest, demand, rollout, task>>, reverted \subseteq reverted'
  PROVE  \A e : Fresh(e) => Fresh(e)'
BY DEF Fresh, Current, Stranded

LEMMA GateKept ==
  ASSUME UpInv, UNCHANGED <<layout, rollout>>, PastGate' => PastGate
  PROVE  GateSound'
BY DEF UpInv, UpPhase, GateSound

\* A command that ends, or whose memory an edit makes worthless.
LEMMA Forgets ==
  ASSUME UpInv, NEW how \in {"none", "failed"}, Forget(how), runs' = runs
  PROVE  UpPhase'
<1>1. pc' = "idle" /\ kind' = "none" /\ todo' = {} /\ wait' = {} /\ rendered' = NoRender
      /\ unread' = {} /\ reverted' = {} /\ outcome' = how
  BY DEF Forget
<1>2. CommandTyped'
  <2>1. NoRender \in Demands
    BY DEF NoRender, Demands
  <2> QED
    BY <1>1, <2>1 DEF UpInv, UpPhase, CommandTyped
<1>3. WarnTyped'
  BY DEF Forget, WarnTyped
<1>4. ~Applied' /\ ~Rendered'
  BY <1>1 DEF Applied, Rendered
<1>5. LoopSound'
  BY <1>1 DEF LoopSound, Pushing
<1>6. RenderSound' /\ VerifySound' /\ ApplySound' /\ GateSound' /\ PushSound' /\ RollSound'
  BY <1>1, <1>4 DEF RenderSound, VerifySound, ApplySound, GateSound, PastGate, PushSound,
         RollSound
<1> QED
  BY <1>2, <1>3, <1>5, <1>6 DEF UpPhase

LEMMA EditsKeep ==
  ASSUME UpInv, EditCode \/ \E s \in Secrets : EditEnvFile(s) \/ DeclareSecret(s)
  PROVE  UpInv'
<1>1. /\ Forget("none") /\ runs' = runs
      /\ UNCHANGED <<layout, latest, sm, seen, demand, rollout, task>>
  BY DEF EditEnvFile, DeclareSecret, EditCode, smVars, ecsVars
<1>2. UpPhase'
  BY <1>1, Forgets
<1>3. disk' \in [Secrets -> Versions]
  <2>1. ASSUME NEW s \in Secrets, EditEnvFile(s)
        PROVE  disk' \in [Secrets -> Versions]
    <3>1. disk \in [Secrets -> Versions] /\ disk[s] < MaxVersion
          /\ disk' = [disk EXCEPT ![s] = disk[s] + 1]
      BY <2>1 DEF EditEnvFile, UpInv, UpData, FilesTyped
    <3>2. disk[s] + 1 \in Versions
      BY <3>1, BlobFacts
    <3> QED
      BY <3>1, <3>2
  <2>2. CASE disk' = disk
    BY <2>2 DEF UpInv, UpData, FilesTyped
  <2> QED
    BY <2>1, <2>2 DEF DeclareSecret, EditCode
<1>4. declared \subseteq declared' /\ declared' \subseteq Secrets
  BY DEF EditEnvFile, DeclareSecret, EditCode, UpInv, UpData, FilesTyped
<1>5. code' \in 0..edits' /\ edits' \in 0..MaxEdits
  <2>1. code \in 0..edits /\ edits \in 0..MaxEdits /\ MaxEdits \in Nat
    BY RcUpAssumption DEF UpInv, UpData, FilesTyped
  <2>2. \/ edits' = edits /\ code' = code
        \/ edits < MaxEdits /\ edits' = edits + 1 /\ (code' = code \/ code' = code + 1)
    BY DEF EditEnvFile, DeclareSecret, EditCode
  <2> QED
    BY <2>1, <2>2
<1>6. FilesTyped'
  BY <1>1, <1>3, <1>4, <1>5 DEF UpInv, UpData, FilesTyped
<1>7. AwsTyped'
  BY <1>1 DEF UpInv, UpData, AwsTyped
<1>9. DemandsSound'
  BY <1>1, <1>4 DEF UpInv, UpData, DemandsSound, Demandable
<1>10. SettledSound'
  BY <1>1 DEF UpInv, UpData, SettledSound
<1> QED
  BY <1>2, <1>6, <1>7, <1>9, <1>10 DEF UpInv, UpData

LEMMA StartKeeps == ASSUME UpInv, NEW k \in {"up", "deploy", "push"}, Start(k) PROVE UpInv'
<1>1. DataRests /\ kind' = k /\ pc' \in {"prepush", "push", "render"}
      /\ outcome' = "running" /\ wait' = {} /\ warned' = FALSE /\ rendered' = rendered
      /\ reverted' = {} /\ unread' = {} /\ runs' = runs + 1 /\ runs < MaxRuns
      /\ todo' = (IF pc' \in {"prepush", "push"} THEN declared ELSE {})
  BY DEF Start, DataRests
<1>2. k = "push" <=> pc' = "push"
  BY DEF Start
<1>3. UpData'
  BY <1>1, DataKept
<1>4. declared' = declared /\ declared \subseteq Secrets
  BY <1>1, DataStays DEF UpInv, UpData, FilesTyped
<1>5. CommandTyped'
  <2>1. runs' \in 0..MaxRuns
    BY <1>1, RcUpAssumption DEF UpInv, UpPhase, CommandTyped
  <2> QED
    BY <1>1, <1>4, <2>1 DEF UpInv, UpPhase, CommandTyped
<1>6. WarnTyped'
  BY DEF Start, WarnTyped
<1>7. LoopSound'
  BY <1>1, <1>2, <1>4 DEF LoopSound, Pushing
<1>8. ~Applied' /\ ~Rendered'
  BY <1>1, <1>2 DEF Applied, Rendered
<1>9. RenderSound' /\ VerifySound' /\ ApplySound' /\ GateSound' /\ PushSound' /\ RollSound'
  BY <1>1, <1>2, <1>8 DEF RenderSound, VerifySound, ApplySound, GateSound, PastGate, PushSound,
         RollSound
<1> QED
  BY <1>3, <1>5, <1>6, <1>7, <1>9 DEF UpInv, UpPhase

-----------------------------------------------------------------------------
(* The steps of the pushes *)

LEMMA SkipKeeps == ASSUME UpInv, NEW s \in Secrets, SkipAbsent(s) PROVE UpInv'
<1>1. DataRests /\ pc = "prepush" /\ pc' = pc /\ kind' = kind /\ wait' = wait /\ todo' = todo \ {s}
      /\ wait = {} /\ rendered' = rendered /\ unread' = unread /\ reverted' = reverted
      /\ warned' = warned /\ outcome' = outcome /\ runs' = runs
  BY DEF SkipAbsent, DataRests
<1>2. UpData' /\ declared' = declared
  BY <1>1, DataKept, DataStays
<1>3. CommandTyped' /\ WarnTyped'
  BY <1>1 DEF UpInv, UpPhase, CommandTyped, WarnTyped
<1>4. LoopSound'
  BY <1>1, <1>2 DEF UpInv, UpPhase, LoopSound
<1>5. outcome # "ok" /\ ~Applied' /\ ~Rendered'
  BY <1>1 DEF UpInv, UpPhase, LoopSound, Applied, Rendered
<1>6. RenderSound' /\ VerifySound' /\ ApplySound' /\ GateSound' /\ PushSound' /\ RollSound'
  BY <1>1, <1>5 DEF RenderSound, VerifySound, ApplySound, GateSound, PastGate, PushSound,
         RollSound
<1> QED
  BY <1>2, <1>3, <1>4, <1>6 DEF UpInv, UpPhase

LEMMA PutKeeps == ASSUME UpInv, NEW s \in Secrets, Put(s) PROVE UpInv'
<1>1. pc \in Pushing /\ pc' = pc /\ kind' = kind /\ wait' = {s} /\ todo' = todo /\ s \in todo
      /\ rendered' = rendered /\ unread' = unread /\ reverted' = reverted
      /\ warned' = warned /\ outcome' = outcome /\ runs' = runs
      /\ sm' = [sm EXCEPT ![s] = disk[s]]
      /\ UNCHANGED <<layout, disk, declared, code, edits, latest, seen, demand, rollout, task>>
  BY DEF Put, Pushing, opVars, ecsVars
<1>2. disk[s] \in Versions /\ sm \in [Secrets -> Blobs] /\ seen \in [Secrets -> Blobs]
      /\ disk \in [Secrets -> Versions]
  BY DEF UpInv, UpData, FilesTyped, AwsTyped
<1>3. sm' \in [Secrets -> Blobs] /\ sm'[s] = disk[s]
      /\ \A q \in Secrets : q # s => sm'[q] = sm[q]
  BY <1>1, <1>2, BlobFacts
<1>4. FilesTyped' /\ AwsTyped'
  BY <1>1, <1>3 DEF UpInv, UpData, FilesTyped, AwsTyped
<1>6. DemandsSound' /\ SettledSound'
  BY <1>1 DEF UpInv, UpData, DemandsSound, Demandable, SettledSound
<1>7. CommandTyped' /\ WarnTyped'
  BY <1>1 DEF UpInv, UpPhase, CommandTyped, WarnTyped
<1>8. LoopSound'
  BY <1>1, <1>3 DEF UpInv, UpPhase, LoopSound
<1>9. RenderSound' /\ ApplySound'
  BY <1>1 DEF UpInv, UpPhase, RenderSound, ApplySound, Rendered, Applied
<1>5. GateSound'
  BY <1>1, GateKept DEF PastGate, Applied
<1>10. VerifySound' /\ RollSound'
  BY <1>1 DEF VerifySound, RollSound, Pushing, UpInv, UpPhase, LoopSound
<1>11. PushSound'
  <2> SUFFICES ASSUME kind = "up", ~warned, pc = "push", NEW q \in declared \ todo
               PROVE  Pushed(q)'
    BY <1>1 DEF PushSound, Pushing, UpInv, UpPhase, LoopSound
  <2>1. Pushed(q) /\ q # s /\ q \in Secrets
    BY <1>1 DEF UpInv, UpPhase, UpData, FilesTyped, PushSound
  <2> QED
    BY <1>1, <1>3, <2>1 DEF Pushed
<1> QED
  BY <1>4, <1>5, <1>6, <1>7, <1>8, <1>9, <1>10, <1>11 DEF UpInv, UpData, UpPhase

LEMMA ReadBackKeeps == ASSUME UpInv, NEW s \in Secrets, ReadBack(s) PROVE UpInv'
<1>1. DataRests /\ s \in wait /\ pc' = pc /\ kind' = kind /\ wait' = {} /\ todo' = todo \ {s}
      /\ rendered' = rendered /\ unread' = unread /\ reverted' = reverted
      /\ outcome' = outcome /\ runs' = runs
      /\ (warned' = TRUE \/ (warned' = warned /\ Readable(s, disk[s], seen[s])))
  BY DEF ReadBack, DataRests
<1>2. /\ UpData'
      /\ UNCHANGED <<layout, disk, declared, code, edits, latest, sm, seen, demand, rollout, task>>
  BY <1>1, DataKept, DataStays
<1>3. CommandTyped'
  BY <1>1 DEF UpInv, UpPhase, CommandTyped
<1>4. WarnTyped'
  BY DEF ReadBack, WarnTyped, UpInv, UpPhase
<1>5. pc \in Pushing /\ outcome # "ok"
  BY <1>1 DEF UpInv, UpPhase, LoopSound, Pushing
<1>6. LoopSound'
  BY <1>1, <1>2 DEF UpInv, UpPhase, LoopSound
<1>7. RenderSound' /\ ApplySound'
  BY <1>1, <1>2 DEF UpInv, UpPhase, RenderSound, ApplySound, Rendered, Applied
<1>10. GateSound'
  BY <1>1, <1>2, GateKept DEF PastGate, Applied
<1>8. VerifySound' /\ RollSound'
  BY <1>1, <1>5 DEF VerifySound, RollSound, Pushing
<1>9. PushSound'
  <2> SUFFICES ASSUME kind = "up", warned' = warned, ~warned, pc = "push",
                      Readable(s, disk[s], seen[s]), NEW q \in declared, q \notin todo \ {s}
               PROVE  Pushed(q)'
    BY <1>1, <1>2, <1>5 DEF PushSound, Pushing
  <2>1. CASE q = s
    <3>1. sm[s] = disk[s]
      BY <1>1 DEF UpInv, UpPhase, LoopSound
    <3> QED
      BY <1>2, <2>1, <3>1 DEF Pushed
  <2>2. CASE q # s
    <3>1. Pushed(q) /\ q \in Secrets
      BY <2>2 DEF UpInv, UpPhase, UpData, FilesTyped, PushSound
    <3> QED
      BY <1>2, <3>1, PushedKept
  <2> QED
    BY <2>1, <2>2
<1> QED
  BY <1>2, <1>3, <1>4, <1>6, <1>7, <1>8, <1>9, <1>10 DEF UpInv, UpPhase

LEMMA PutFailsKeeps == ASSUME UpInv, PutFails PROVE UpInv'
<1>1. DataRests /\ pc \in Pushing /\ wait = {} /\ runs' = runs
  BY DEF PutFails, DataRests, Pushing
<1>2. /\ UpData'
      /\ UNCHANGED <<layout, disk, declared, code, edits, latest, sm, seen, demand, rollout, task>>
  BY <1>1, DataKept, DataStays
<1>3. CASE kind = "push"
  BY <1>1, <1>2, <1>3, Forgets DEF PutFails, UpInv
<1>4. CASE kind # "push"
  <2>1. /\ pc' = IF pc = "prepush" THEN "render" ELSE "hooks"
        /\ todo' = {} /\ warned' = TRUE /\ kind' = kind /\ wait' = {} /\ rendered' = rendered
        /\ unread' = unread /\ reverted' = reverted /\ outcome' = outcome /\ outcome # "ok"
    BY <1>1, <1>4 DEF PutFails, UpInv, UpPhase, LoopSound, Pushing
  <2>2. CommandTyped' /\ WarnTyped'
    BY <1>1, <2>1 DEF UpInv, UpPhase, CommandTyped, WarnTyped
  <2>3. LoopSound'
    BY <1>4, <2>1 DEF LoopSound, Pushing
  <2>4. (Applied' => Applied) /\ (Rendered' => Rendered)
    BY <1>1, <1>4, <2>1 DEF Applied, Rendered, Pushing
  <2>5. RenderSound' /\ ApplySound'
    BY <1>2, <2>1, <2>4 DEF UpInv, UpPhase, RenderSound, ApplySound
  <2>7. GateSound'
    BY <1>1, <1>2, <1>4, <2>1, GateKept DEF PastGate, Applied, Pushing
  <2>6. VerifySound' /\ PushSound' /\ RollSound'
    BY <2>1 DEF VerifySound, PushSound, RollSound
  <2> QED
    BY <1>2, <2>2, <2>3, <2>5, <2>6, <2>7 DEF UpInv, UpPhase
<1> QED
  BY <1>3, <1>4

LEMMA PushDoneKeeps == ASSUME UpInv, PushDone PROVE UpInv'
<1>1. DataRests /\ pc \in Pushing /\ todo = {} /\ runs' = runs /\ kind' = kind /\ wait' = wait
      /\ rendered' = rendered /\ unread' = unread /\ reverted' = reverted /\ warned' = warned
      /\ outcome' = outcome
      /\ todo' = (IF pc = "push" /\ declared # {} THEN layout.compose ELSE {})
  BY DEF PushDone, DataRests, Pushing
<1>2. /\ UpData'
      /\ UNCHANGED <<layout, disk, declared, code, edits, latest, sm, seen, demand, rollout, task>>
  BY <1>1, DataKept, DataStays
<1>3. wait = {} /\ outcome # "ok"
  BY <1>1 DEF UpInv, UpPhase, LoopSound, Pushing
<1>4. \/ pc = "prepush" /\ pc' = "render"
      \/ pc = "push" /\ declared # {} /\ pc' = "roll"
      \/ pc = "push" /\ declared = {} /\ pc' = IF kind = "push" THEN "done" ELSE "hooks"
  BY <1>1 DEF PushDone, Pushing, AfterPush
<1>5. layout.compose \subseteq Services
  BY RcUpAssumption DEF UpInv, UpData, FilesTyped
<1>6. CommandTyped' /\ WarnTyped'
  BY <1>1, <1>4, <1>5 DEF UpInv, UpPhase, CommandTyped, WarnTyped
<1>7. LoopSound'
  BY <1>1, <1>2, <1>3, <1>4 DEF UpInv, UpPhase, LoopSound, Pushing
<1>8. (Applied' => Applied) /\ (Rendered' => Rendered)
  BY <1>1, <1>3, <1>4 DEF Applied, Rendered
<1>9. RenderSound' /\ ApplySound'
  BY <1>1, <1>2, <1>8 DEF UpInv, UpPhase, RenderSound, ApplySound
<1>10. VerifySound'
  BY <1>4 DEF VerifySound
<1>11. PushSound'
  <2> SUFFICES ASSUME kind = "up", ~warned, pc = "push", NEW s \in declared
               PROVE  Pushed(s)'
    BY <1>1, <1>2, <1>3, <1>4 DEF PushSound
  <2>1. Pushed(s) /\ s \in Secrets
    BY <1>1 DEF UpInv, UpPhase, UpData, FilesTyped, PushSound
  <2> QED
    BY <1>2, <2>1, PushedKept
<1>13. GateSound'
  BY <1>1, <1>2, <1>3, <1>4, GateKept DEF PastGate, Applied
<1>12. RollSound'
  BY <1>1, <1>2, <1>3, <1>4 DEF RollSound
<1> QED
  BY <1>2, <1>6, <1>7, <1>9, <1>10, <1>11, <1>12, <1>13 DEF UpInv, UpPhase

LEMMA RollKeeps == ASSUME UpInv, NEW c \in Services, RollAfterPush(c) PROVE UpInv'
<1>1. pc = "roll" /\ pc' = pc /\ kind' = kind /\ wait' = wait /\ todo' = todo \ {c} /\ c \in todo
      /\ rendered' = rendered /\ unread' = unread /\ reverted' = reverted
      /\ outcome' = outcome /\ runs' = runs /\ (warned' = warned \/ warned' = TRUE)
      /\ UNCHANGED <<layout, disk, declared, code, edits, latest, sm, seen, demand, task>>
  BY DEF RollAfterPush, opVars, smVars
<1>2. rollout \in [EcsServices -> {"none", "rolling", "steady", "reverted"}]
      /\ layout.ecs \subseteq EcsServices /\ outcome # "ok"
  BY <1>1, RcUpAssumption DEF UpInv, UpData, AwsTyped, FilesTyped, UpPhase, LoopSound
<1>3. /\ rollout' \in [EcsServices -> {"none", "rolling", "steady", "reverted"}]
      /\ \A e \in EcsServices : rollout'[e] = rollout[e] \/ rollout'[e] = "rolling"
      /\ warned' = warned => warned = TRUE \/ (c \in layout.ecs /\ rollout'[c] = "rolling")
  BY <1>2 DEF RollAfterPush
<1>4. FilesTyped' /\ AwsTyped' /\ DemandsSound'
  BY <1>1, <1>3 DEF UpInv, UpData, FilesTyped, AwsTyped, DemandsSound, Demandable
<1>5. SettledSound'
  BY <1>1, <1>3 DEF UpInv, UpData, SettledSound
<1>6. CommandTyped'
  BY <1>1 DEF UpInv, UpPhase, CommandTyped
<1>7. WarnTyped'
  BY DEF RollAfterPush, WarnTyped, UpInv, UpPhase
<1>8. LoopSound'
  BY <1>1 DEF UpInv, UpPhase, LoopSound, Pushing
<1>9. RenderSound' /\ VerifySound'
  BY <1>1 DEF UpInv, UpPhase, RenderSound, VerifySound, Rendered, Applied
<1>10. ApplySound'
  BY <1>1, <1>2, <1>3 DEF UpInv, UpPhase, ApplySound, Applied
<1>11. PushSound'
  <2> SUFFICES ASSUME kind = "up", ~warned, NEW s \in declared PROVE Pushed(s)'
    BY <1>1 DEF PushSound
  <2>1. Pushed(s) /\ s \in Secrets
    BY <1>1 DEF UpInv, UpPhase, UpData, FilesTyped, PushSound
  <2> QED
    BY <1>1, <2>1, PushedKept
<1>13. GateSound'
  <2>1. c \in layout.compose /\ layout.built \subseteq EcsServices
    BY <1>1, <1>2, RcUpAssumption DEF UpInv, UpPhase, UpData, FilesTyped, LoopSound
  <2>2. \A e \in EcsServices : e # c => rollout'[e] = rollout[e]
    BY <1>2 DEF RollAfterPush
  <2>3. PastGate' => PastGate
    BY <1>1 DEF PastGate, Applied
  <2> QED
    BY <1>1, <2>1, <2>2, <2>3 DEF UpInv, UpPhase, GateSound
<1>12. RollSound'
  <2> SUFFICES ASSUME kind = "up", ~warned', declared # {},
                      NEW d \in layout.compose, d \notin todo \ {c}
               PROVE  Fresh(d)'
    BY <1>1, <1>2 DEF RollSound
  <2>1. ~warned /\ c \in layout.ecs /\ rollout'[c] = "rolling"
    BY <1>1, <1>3 DEF UpInv, UpPhase, WarnTyped
  <2>2. CASE d = c
    BY <1>1, <2>1, <2>2 DEF Fresh
  <2>3. CASE d # c
    <3>1. Fresh(d)
      BY <1>1, <2>1, <2>3 DEF UpInv, UpPhase, RollSound
    <3>2. d \in EcsServices
      BY <1>2, <3>1 DEF Fresh
    <3> QED
      BY <1>1, <1>3, <3>1, <3>2 DEF Fresh, Current, Stranded
  <2> QED
    BY <2>2, <2>3
<1> QED
  BY <1>4, <1>5, <1>6, <1>7, <1>8, <1>9, <1>10, <1>11, <1>12, <1>13
  DEF UpInv, UpData, UpPhase

LEMMA RollDoneKeeps == ASSUME UpInv, RollDone PROVE UpInv'
<1>1. DataRests /\ pc = "roll" /\ todo = {} /\ runs' = runs /\ kind' = kind /\ wait' = wait
      /\ rendered' = rendered /\ unread' = unread /\ reverted' = reverted /\ warned' = warned
      /\ outcome' = outcome /\ todo' = todo
      /\ pc' = (IF kind = "push" THEN "done" ELSE "hooks")
  BY DEF RollDone, DataRests, AfterPush
<1>2. /\ UpData'
      /\ UNCHANGED <<layout, disk, declared, code, edits, latest, sm, seen, demand, rollout, task>>
  BY <1>1, DataKept, DataStays
<1>3. wait = {} /\ outcome # "ok"
  BY <1>1 DEF UpInv, UpPhase, LoopSound, Pushing
<1>4. CommandTyped' /\ WarnTyped'
  BY <1>1 DEF UpInv, UpPhase, CommandTyped, WarnTyped
<1>5. LoopSound'
  BY <1>1, <1>3 DEF LoopSound
<1>6. (Applied' => Applied) /\ (Rendered' => Rendered)
  BY <1>1, <1>3 DEF Applied, Rendered
<1>7. RenderSound' /\ ApplySound'
  BY <1>1, <1>2, <1>6 DEF UpInv, UpPhase, RenderSound, ApplySound
<1>8. VerifySound'
  BY <1>1 DEF VerifySound
<1>9. PushSound'
  <2> SUFFICES ASSUME kind = "up", ~warned, NEW s \in declared PROVE Pushed(s)'
    BY <1>1, <1>2, <1>3 DEF PushSound
  <2>1. Pushed(s) /\ s \in Secrets
    BY <1>1 DEF UpInv, UpPhase, UpData, FilesTyped, PushSound
  <2> QED
    BY <1>2, <2>1, PushedKept
<1>11. GateSound'
  BY <1>1, <1>2, <1>3, GateKept DEF PastGate, Applied
<1>10. RollSound'
  <2> SUFFICES ASSUME kind = "up", ~warned, declared # {}, NEW d \in layout.compose
               PROVE  Fresh(d)'
    BY <1>1, <1>2, <1>3 DEF RollSound
  <2>1. Fresh(d)
    BY <1>1 DEF UpInv, UpPhase, RollSound
  <2> QED
    BY <1>1, <1>2, <2>1, FreshKept
<1> QED
  BY <1>2, <1>4, <1>5, <1>7, <1>8, <1>9, <1>10, <1>11 DEF UpInv, UpPhase

-----------------------------------------------------------------------------
(* The steps of the deploy *)

LEMMA RenderKeeps == ASSUME UpInv, Render PROVE UpInv'
<1>1. DataRests /\ pc = "render" /\ runs' = runs /\ kind' = kind /\ wait' = wait
      /\ unread' = unread /\ reverted' = reverted /\ warned' = warned
      /\ outcome' = outcome /\ todo' = todo /\ pc' = "verify"
      /\ rendered' = [s \in Secrets |-> IF s \in declared THEN disk[s] ELSE NotDemanded]
  BY DEF Render, DataRests
<1>2. /\ UpData'
      /\ UNCHANGED <<layout, disk, declared, code, edits, latest, sm, seen, demand, rollout, task>>
  BY <1>1, DataKept, DataStays
<1>3. outcome # "ok" /\ kind # "push"
  BY <1>1 DEF UpInv, UpPhase, LoopSound
<1>4. rendered' \in Demands
  BY <1>1 DEF UpInv, UpData, FilesTyped, Demands
<1>5. CommandTyped' /\ WarnTyped'
  BY <1>1, <1>4 DEF UpInv, UpPhase, CommandTyped, WarnTyped
<1>6. LoopSound'
  BY <1>1, <1>3 DEF UpInv, UpPhase, LoopSound, Pushing
<1>7. RenderSound'
  BY <1>1, <1>2 DEF RenderSound
<1>8. ApplySound' /\ GateSound' /\ VerifySound' /\ PushSound' /\ RollSound'
  BY <1>1, <1>3 DEF Applied, ApplySound, GateSound, PastGate, VerifySound, PushSound,
         RollSound
<1> QED
  BY <1>2, <1>5, <1>6, <1>7, <1>8 DEF UpInv, UpPhase

LEMMA VerifyKeeps == ASSUME UpInv, Verify PROVE UpInv'
<1>1. DataRests /\ pc = "verify" /\ runs' = runs
  BY DEF Verify, DataRests
<1>2. /\ UpData'
      /\ UNCHANGED <<layout, disk, declared, code, edits, latest, sm, seen, demand, rollout, task>>
  BY <1>1, DataKept, DataStays
<1>3. PICK denied \in SUBSET declared :
        IF Missing(NotCompared \cup denied) # {}
        THEN Forget("failed")
        ELSE /\ pc' = "apply" /\ unread' = NotCompared \cup denied \cup WrittenOver
             /\ UNCHANGED <<kind, todo, wait, rendered, reverted, warned, outcome>>
  BY DEF Verify
<1>4. CASE Forget("failed")
  BY <1>1, <1>2, <1>4, Forgets DEF UpInv
<1>5. CASE ~Forget("failed")
  <2>1. /\ pc' = "apply" /\ unread' = NotCompared \cup denied \cup WrittenOver
        /\ UNCHANGED <<kind, todo, wait, rendered, reverted, warned, outcome>>
        /\ Missing(NotCompared \cup denied) = {}
    BY <1>3, <1>5
  <2>2. unread' \subseteq Secrets
    BY <2>1 DEF NotCompared, WrittenOver, UpInv, UpData, FilesTyped
  <2>3. CommandTyped' /\ WarnTyped'
    BY <1>1, <2>1, <2>2 DEF UpInv, UpPhase, CommandTyped, WarnTyped
  <2>4. outcome # "ok" /\ kind # "push"
    BY <1>1 DEF UpInv, UpPhase, LoopSound
  <2>5. LoopSound'
    BY <1>1, <2>1, <2>4 DEF UpInv, UpPhase, LoopSound, Pushing
  <2>6. RenderSound'
    BY <1>1, <1>2, <2>1 DEF UpInv, UpPhase, RenderSound, Rendered
  <2>7. VerifySound'
    BY <1>2, <2>1 DEF VerifySound, Missing, WrittenOver
  <2>8. ApplySound' /\ GateSound' /\ PushSound' /\ RollSound'
    BY <2>1, <2>4 DEF Applied, ApplySound, GateSound, PastGate, PushSound, RollSound
  <2> QED
    BY <1>2, <2>3, <2>5, <2>6, <2>7, <2>8 DEF UpInv, UpPhase
<1> QED
  BY <1>4, <1>5

LEMMA TaskDefSound ==
  ASSUME UpInv, pc = "apply", NEW e \in EcsServices
  PROVE  TaskDef(e, rendered) \in Demands /\ Demandable(TaskDef(e, rendered))
<1> DEFINE d == TaskDef(e, rendered)
<1>1. \A s \in Secrets : rendered[s] = IF s \in declared THEN disk[s] ELSE NotDemanded
  BY DEF UpInv, UpPhase, RenderSound, Rendered
<1>2. \A s \in Secrets : d[s] = IF s \in UsesOf[e] THEN rendered[s] ELSE NotDemanded
  BY DEF TaskDef
<1>3. \A s \in Secrets : disk[s] \in Versions
  BY DEF UpInv, UpData, FilesTyped
<1>4. \A s \in Secrets : d[s] = NotDemanded \/ (d[s] = disk[s] /\ s \in declared)
  BY <1>1, <1>2
<1>5. d \in Demands
  <2>1. \A s \in Secrets : d[s] \in Versions \cup {NotDemanded}
    BY <1>3, <1>4
  <2>2. d = [s \in Secrets |-> d[s]]
    BY DEF TaskDef
  <2> QED
    BY <2>1, <2>2 DEF Demands
<1>6. Demandable(d)
  BY <1>4 DEF Demandable
<1> QED
  BY <1>5, <1>6

LEMMA TerraformKeeps ==
  ASSUME UpInv, pc = "apply", NEW E \in SUBSET layout.ecs, Terraform(declared, E),
         UNCHANGED <<opVars, latest, task>>
  PROVE  /\ UpData'
         /\ UNCHANGED <<layout, disk, declared, code, edits, latest, task>>
         /\ \A e \in E : demand'[e] = TaskDef(e, rendered) /\ rollout'[e] # "none"
<1>1. UNCHANGED <<layout, disk, declared, code, edits, latest, task>>
  BY DEF opVars
<1>2. E \subseteq EcsServices
  BY RcUpAssumption DEF UpInv, UpData, FilesTyped
<1>3. /\ sm \in [Secrets -> Blobs] /\ seen \in [Secrets -> Blobs] /\ disk \in [Secrets -> Versions]
      /\ demand \in [EcsServices -> Demands]
      /\ rollout \in [EcsServices -> {"none", "rolling", "steady", "reverted"}]
  BY DEF UpInv, UpData, AwsTyped, FilesTyped
<1>4. FilesTyped'
  BY <1>1 DEF UpInv, UpData, FilesTyped
<1>6. sm' \in [Secrets -> Blobs] /\ seen' \in [Secrets -> Blobs]
  BY <1>3, BlobFacts DEF Terraform
<1>8. ASSUME NEW e \in EcsServices
      PROVE  /\ demand'[e] = IF e \in E THEN TaskDef(e, rendered) ELSE demand[e]
             /\ \/ rollout'[e] = "rolling"
                \/ rollout'[e] = rollout[e] /\ demand'[e] = demand[e]
             /\ e \in E => rollout'[e] # "none"
  BY DEF Terraform
<1>9. demand' \in [EcsServices -> Demands]
  <2>1. \A e \in EcsServices : demand'[e] \in Demands
    BY <1>3, <1>8, TaskDefSound
  <2>2. demand' = [e \in EcsServices |-> demand'[e]]
    BY DEF Terraform
  <2> QED
    BY <2>1, <2>2
<1>10. rollout' \in [EcsServices -> {"none", "rolling", "steady", "reverted"}]
  <2>1. \A e \in EcsServices : rollout'[e] \in {"none", "rolling", "steady", "reverted"}
    BY <1>3, <1>8
  <2>2. rollout' = [e \in EcsServices |-> rollout'[e]]
    BY DEF Terraform
  <2> QED
    BY <2>1, <2>2
<1>11. AwsTyped'
  BY <1>1, <1>6, <1>9, <1>10 DEF UpInv, UpData, AwsTyped
<1>12. DemandsSound'
  <2>1. ASSUME NEW d, Demandable(d) PROVE Demandable(d)'
    BY <1>1, <2>1 DEF Demandable
  <2>2. \A e \in EcsServices : Demandable(demand'[e])
    <3>1. \A e \in EcsServices : Demandable(demand[e]) /\ Demandable(TaskDef(e, rendered))
      BY TaskDefSound DEF UpInv, UpData, DemandsSound
    <3> QED
      BY <1>8, <3>1
  <2>3. \A e \in EcsServices : Demandable(task[e].def)
    BY DEF UpInv, UpData, DemandsSound
  <2>4. \A e \in EcsServices :
          \A s \in Secrets :
            /\ demand'[e][s] # NotDemanded => s \in declared'
            /\ task'[e].def[s] # NotDemanded => s \in declared'
    BY <1>1, <2>2, <2>3 DEF Demandable
  <2> QED
    BY <2>4 DEF DemandsSound, Demandable
<1>13. SettledSound'
  BY <1>1, <1>8 DEF UpInv, UpData, SettledSound
<1> QED
  BY <1>1, <1>2, <1>4, <1>8, <1>11, <1>12, <1>13 DEF UpData

LEMMA ApplyKeeps == ASSUME UpInv, Apply PROVE UpInv'
<1>1. pc = "apply" /\ pc' = "build" /\ unread' = {} /\ runs' = runs /\ kind' = kind
      /\ wait' = wait /\ todo' = todo /\ rendered' = rendered /\ reverted' = reverted
      /\ warned' = warned /\ outcome' = outcome
      /\ Terraform(declared, layout.ecs) /\ UNCHANGED <<opVars, latest, task>>
  BY DEF Apply
<1>2. /\ UpData'
      /\ UNCHANGED <<layout, disk, declared, code, edits, latest, task>>
      /\ \A e \in layout.ecs : demand'[e] = TaskDef(e, rendered) /\ rollout'[e] # "none"
  BY <1>1, TerraformKeeps
<1>3. outcome # "ok" /\ kind # "push"
  BY <1>1 DEF UpInv, UpPhase, LoopSound
<1>4. CommandTyped' /\ WarnTyped'
  BY <1>1 DEF UpInv, UpPhase, CommandTyped, WarnTyped
<1>5. LoopSound'
  BY <1>1, <1>3 DEF UpInv, UpPhase, LoopSound, Pushing
<1>6. RenderSound'
  BY <1>1, <1>2 DEF UpInv, UpPhase, RenderSound, Rendered
<1>7. ApplySound'
  BY <1>1, <1>2 DEF ApplySound, TaskDef
<1>8. VerifySound' /\ GateSound' /\ PushSound' /\ RollSound'
  BY <1>1, <1>3 DEF VerifySound, GateSound, PastGate, PushSound, RollSound
<1> QED
  BY <1>2, <1>4, <1>5, <1>6, <1>7, <1>8 DEF UpInv, UpPhase

LEMMA ApplyFailsKeeps == ASSUME UpInv, ApplyFails PROVE UpInv'
<1>1. pc = "apply" /\ Forget("failed") /\ runs' = runs /\ UNCHANGED <<opVars, latest, task>>
  BY DEF ApplyFails
<1>2. PICK E \in SUBSET layout.ecs : Terraform(declared, E)
  BY DEF ApplyFails
<1>3. UpData'
  BY <1>1, <1>2, TerraformKeeps
<1> QED
  BY <1>1, <1>3, Forgets DEF UpInv

LEMMA BuildKeeps == ASSUME UpInv, BuildAndPush PROVE UpInv'
<1>1. pc = "build" /\ unread' = unread /\ runs' = runs /\ kind' = kind
      /\ wait' = wait /\ todo' = todo /\ rendered' = rendered /\ reverted' = reverted
      /\ warned' = warned /\ outcome' = outcome /\ latest' = code
      /\ UNCHANGED <<layout, disk, declared, code, edits, sm, seen, demand, task>>
      /\ rollout' = [e \in EcsServices |-> IF kind # "up" /\ e \in layout.built
                                           THEN "rolling" ELSE rollout[e]]
      /\ pc' = IF kind # "up" /\ layout.built # {} THEN "gate" ELSE "autopush"
  BY DEF BuildAndPush, opVars, smVars
<1>2. rollout \in [EcsServices -> {"none", "rolling", "steady", "reverted"}]
      /\ layout.ecs \subseteq EcsServices
  BY RcUpAssumption DEF UpInv, UpData, AwsTyped, FilesTyped
<1>3. /\ rollout' \in [EcsServices -> {"none", "rolling", "steady", "reverted"}]
      /\ \A e \in EcsServices : rollout'[e] = rollout[e] \/ rollout'[e] = "rolling"
  BY <1>1, <1>2
<1>4. FilesTyped'
  <2>1. code \in 0..MaxEdits
    BY RcUpAssumption DEF UpInv, UpData, FilesTyped
  <2> QED
    BY <1>1, <2>1 DEF UpInv, UpData, FilesTyped
<1>5. AwsTyped' /\ DemandsSound'
  BY <1>1, <1>3 DEF UpInv, UpData, AwsTyped, DemandsSound, Demandable
<1>6. SettledSound'
  BY <1>1, <1>3 DEF UpInv, UpData, SettledSound
<1>7. CommandTyped' /\ WarnTyped'
  BY <1>1 DEF UpInv, UpPhase, CommandTyped, WarnTyped
<1>8. LoopSound' /\ outcome # "ok"
  BY <1>1 DEF UpInv, UpPhase, LoopSound, Pushing
<1>9. RenderSound'
  BY <1>1 DEF UpInv, UpPhase, RenderSound, Rendered, Applied
<1>10. ApplySound'
  BY <1>1, <1>2, <1>3 DEF UpInv, UpPhase, ApplySound, Applied
<1>12. GateSound'
  BY <1>1, <1>8 DEF GateSound, PastGate, Applied
<1>11. VerifySound' /\ PushSound' /\ RollSound'
  BY <1>1, <1>8 DEF VerifySound, PushSound, RollSound
<1> QED
  BY <1>4, <1>5, <1>6, <1>7, <1>8, <1>9, <1>10, <1>11, <1>12 DEF UpInv, UpData, UpPhase

LEMMA GatePassesKeeps == ASSUME UpInv, GatePasses PROVE UpInv'
<1>1. DataRests /\ pc = "gate" /\ pc' = "autopush" /\ unread' = unread /\ runs' = runs
      /\ kind' = kind /\ wait' = wait /\ todo' = todo /\ rendered' = rendered
      /\ reverted' = reverted /\ warned' = warned /\ outcome' = outcome
      /\ \A e \in layout.built : rollout[e] # "rolling"
  BY DEF GatePasses, DataRests
<1>2. /\ UpData'
      /\ UNCHANGED <<layout, disk, declared, code, edits, latest, sm, seen, demand, rollout, task>>
  BY <1>1, DataKept, DataStays
<1>3. CommandTyped' /\ WarnTyped'
  BY <1>1 DEF UpInv, UpPhase, CommandTyped, WarnTyped
<1>4. LoopSound' /\ outcome # "ok"
  BY <1>1, <1>2 DEF UpInv, UpPhase, LoopSound, Pushing
<1>5. RenderSound' /\ ApplySound'
  BY <1>1, <1>2 DEF UpInv, UpPhase, RenderSound, ApplySound, Rendered, Applied
<1>6. GateSound'
  BY <1>1, <1>2 DEF GateSound
<1>7. VerifySound' /\ PushSound' /\ RollSound'
  BY <1>1, <1>4 DEF VerifySound, PushSound, RollSound
<1> QED
  BY <1>2, <1>3, <1>4, <1>5, <1>6, <1>7 DEF UpInv, UpPhase

LEMMA AutoPushKeeps == ASSUME UpInv, AutoPush PROVE UpInv'
<1>1. DataRests /\ pc = "autopush" /\ unread' = unread /\ runs' = runs /\ kind' = kind
      /\ wait' = wait /\ rendered' = rendered /\ reverted' = reverted /\ outcome' = outcome
      /\ todo' = (IF pc' = "push" THEN declared ELSE {})
      /\ pc' \in {"push", "hooks"} /\ (kind = "up" => pc' = "push")
  BY DEF AutoPush, DataRests
<1>2. /\ UpData'
      /\ UNCHANGED <<layout, disk, declared, code, edits, latest, sm, seen, demand, rollout, task>>
  BY <1>1, DataKept, DataStays
<1>3. declared \subseteq Secrets
  BY DEF UpInv, UpData, FilesTyped
<1>4. CommandTyped'
  BY <1>1, <1>3 DEF UpInv, UpPhase, CommandTyped
<1>5. WarnTyped'
  BY DEF AutoPush, WarnTyped, UpInv, UpPhase
<1>6. wait = {} /\ outcome # "ok" /\ kind # "push"
  BY <1>1 DEF UpInv, UpPhase, LoopSound, Pushing
<1>7. LoopSound'
  BY <1>1, <1>2, <1>6 DEF LoopSound, Pushing
<1>8. RenderSound' /\ ApplySound'
  BY <1>1, <1>2 DEF UpInv, UpPhase, RenderSound, ApplySound, Rendered, Applied
<1>11. GateSound'
  BY <1>1, <1>2, GateKept DEF PastGate, Applied
<1>9. VerifySound'
  BY <1>1 DEF VerifySound
<1>10. PushSound' /\ RollSound'
  BY <1>1, <1>2, <1>6 DEF PushSound, RollSound
<1> QED
  BY <1>2, <1>4, <1>5, <1>7, <1>8, <1>9, <1>10, <1>11 DEF UpInv, UpPhase

LEMMA RunHooksKeeps == ASSUME UpInv, RunHooks PROVE UpInv'
<1>1. DataRests /\ pc = "hooks" /\ unread' = unread /\ runs' = runs /\ kind' = kind
      /\ wait' = wait /\ rendered' = rendered /\ reverted' = reverted /\ outcome' = "ok"
      /\ todo' = todo /\ pc' = "idle" /\ (warned' = warned \/ warned' = TRUE)
  BY DEF RunHooks, EndOk, DataRests
<1>2. /\ UpData'
      /\ UNCHANGED <<layout, disk, declared, code, edits, latest, sm, seen, demand, rollout, task>>
  BY <1>1, DataKept, DataStays
<1>3. CommandTyped'
  BY <1>1 DEF UpInv, UpPhase, CommandTyped
<1>4. WarnTyped'
  BY DEF RunHooks, WarnTyped, UpInv, UpPhase
<1>5. wait = {} /\ kind # "push"
  BY <1>1 DEF UpInv, UpPhase, LoopSound, Pushing
<1>6. LoopSound'
  BY <1>1, <1>2, <1>5 DEF LoopSound, Pushing
<1>7. RenderSound' /\ ApplySound'
  BY <1>1, <1>2 DEF UpInv, UpPhase, RenderSound, ApplySound, Rendered, Applied
<1>8. VerifySound' /\ GateSound'
  BY <1>1 DEF VerifySound, GateSound, PastGate
<1>9. PushSound'
  <2> SUFFICES ASSUME kind = "up", ~warned, NEW s \in declared PROVE Pushed(s)'
    BY <1>1, <1>2 DEF PushSound, UpInv, UpPhase, WarnTyped
  <2>1. Pushed(s) /\ s \in Secrets
    BY <1>1 DEF UpInv, UpPhase, UpData, FilesTyped, PushSound
  <2> QED
    BY <1>2, <2>1, PushedKept
<1>10. RollSound'
  <2> SUFFICES ASSUME kind = "up", ~warned, declared # {}, NEW d \in layout.compose
               PROVE  Fresh(d)'
    BY <1>1, <1>2 DEF RollSound, UpInv, UpPhase, WarnTyped
  <2>1. Fresh(d)
    BY <1>1 DEF UpInv, UpPhase, RollSound
  <2> QED
    BY <1>1, <1>2, <2>1, FreshKept
<1> QED
  BY <1>2, <1>3, <1>4, <1>6, <1>7, <1>8, <1>9, <1>10 DEF UpInv, UpPhase

LEMMA EndsKeep == ASSUME UpInv, BuildFails \/ GateFails \/ SecretsPushEnds \/ Killed PROVE UpInv'
<1>1. \E how \in {"none", "failed"} : Forget(how)
  BY DEF BuildFails, GateFails, SecretsPushEnds, Killed
<1>2. DataRests /\ runs' = runs
  BY DEF BuildFails, GateFails, SecretsPushEnds, Killed, DataRests
<1> QED
  BY <1>1, <1>2, DataKept, Forgets DEF UpInv

-----------------------------------------------------------------------------
(* Secrets Manager and ECS *)

CommandRests ==
  UNCHANGED <<layout, disk, declared, code, edits, latest, pc, kind, todo, wait, rendered,
              unread, warned, outcome, runs>>

LEMMA PropagateKeeps == ASSUME UpInv, NEW s \in Secrets, Propagate(s) PROVE UpInv'
<1>1. CommandRests /\ UNCHANGED <<sm, demand, rollout, task, reverted>>
      /\ seen' = [seen EXCEPT ![s] = sm[s]]
  BY DEF Propagate, CommandRests, opVars, ecsVars
<1>2. /\ sm \in [Secrets -> Blobs] /\ seen \in [Secrets -> Blobs] /\ disk \in [Secrets -> Versions]
  BY DEF UpInv, UpData, AwsTyped, FilesTyped
<1>3. seen' \in [Secrets -> Blobs] /\ seen'[s] = sm[s]
      /\ \A q \in Secrets : q # s => seen'[q] = seen[q]
  BY <1>1, <1>2
<1>4. FilesTyped' /\ AwsTyped'
  BY <1>1, <1>3 DEF UpInv, UpData, FilesTyped, AwsTyped, CommandRests
<1>6. DemandsSound' /\ SettledSound'
  BY <1>1 DEF UpInv, UpData, DemandsSound, Demandable, SettledSound, CommandRests
<1>7. CommandTyped' /\ WarnTyped' /\ LoopSound'
  BY <1>1 DEF UpInv, UpPhase, CommandTyped, WarnTyped, LoopSound, CommandRests
<1>8. RenderSound' /\ ApplySound'
  BY <1>1 DEF UpInv, UpPhase, RenderSound, ApplySound, Rendered, Applied, CommandRests
<1>9. VerifySound'
  <2> SUFFICES ASSUME pc = "apply", NEW q \in declared \ unread
               PROVE  /\ Readable(q, disk[q], seen'[q])
                      /\ seen'[q] = sm[q] \/ Readable(q, disk[q], sm[q])
    BY <1>1 DEF VerifySound, CommandRests
  <2>1. /\ q \in Secrets /\ Readable(q, disk[q], seen[q])
        /\ seen[q] = sm[q] \/ Readable(q, disk[q], sm[q])
    BY DEF UpInv, UpPhase, UpData, FilesTyped, VerifySound
  <2> QED
    BY <1>3, <2>1
<1>5. GateSound'
  BY <1>1, GateKept DEF PastGate, Applied, CommandRests
<1>10. \A q \in Secrets : Pushed(q) => Pushed(q)'
  <2> SUFFICES ASSUME NEW q \in Secrets, Pushed(q)
               PROVE  sm[q] = disk[q] /\ Readable(q, disk[q], seen'[q])
    BY <1>1 DEF Pushed, CommandRests
  <2>1. CASE q = s
    BY <1>3, <2>1, OwnReadable DEF Pushed
  <2>2. CASE q # s
    BY <1>3, <2>2 DEF Pushed
  <2> QED
    BY <2>1, <2>2
<1>11. PushSound'
  BY <1>1, <1>10 DEF UpInv, UpPhase, UpData, FilesTyped, PushSound, CommandRests
<1>12. \A e : Fresh(e) => Fresh(e)'
  BY <1>1, FreshKept DEF CommandRests
<1>13. RollSound'
  BY <1>1, <1>12 DEF UpInv, UpPhase, RollSound, CommandRests
<1> QED
  BY <1>4, <1>5, <1>6, <1>7, <1>8, <1>9, <1>11, <1>13 DEF UpInv, UpData, UpPhase

\* When services are known to be fresh, everything has been pushed.
LEMMA AllPushed ==
  ASSUME UpInv, kind = "up", ~warned, pc \in {"roll", "hooks"} \/ outcome = "ok"
  PROVE  \A s \in declared : Pushed(s)
BY DEF UpInv, UpPhase, PushSound

LEMMA PlaceKeeps == ASSUME UpInv, NEW e \in EcsServices, Place(e) PROVE UpInv'
<1>1. CommandRests /\ UNCHANGED <<sm, seen, demand, reverted>> /\ rollout[e] = "rolling"
      /\ rollout' = [rollout EXCEPT ![e] = "steady"]
      /\ task' = [task EXCEPT ![e] = [up |-> TRUE, def |-> demand[e], vals |-> seen,
                                      img |-> latest]]
  BY DEF Place, CommandRests, opVars, smVars
<1>2. /\ seen \in [Secrets -> Blobs] /\ demand[e] \in Demands /\ latest \in 0..MaxEdits
      /\ task \in [EcsServices -> Tasks]
      /\ rollout \in [EcsServices -> {"none", "rolling", "steady", "reverted"}]
  BY DEF UpInv, UpData, AwsTyped, FilesTyped
<1> DEFINE new == [up |-> TRUE, def |-> demand[e], vals |-> seen, img |-> latest]
<1>3. new \in Tasks
  BY <1>2 DEF Tasks
<1>4. /\ task' \in [EcsServices -> Tasks] /\ task'[e] = new
      /\ \A f \in EcsServices : f # e => task'[f] = task[f]
  BY <1>1, <1>2, <1>3
<1>5. /\ rollout' \in [EcsServices -> {"none", "rolling", "steady", "reverted"}]
      /\ rollout'[e] = "steady"
      /\ \A f \in EcsServices : f # e => rollout'[f] = rollout[f]
  BY <1>1, <1>2
<1>6. /\ task'[e].up /\ task'[e].def = demand[e] /\ task'[e].vals = seen
      /\ task'[e].img = latest
  BY <1>4
<1>7. FilesTyped' /\ AwsTyped'
  BY <1>1, <1>4, <1>5 DEF UpInv, UpData, FilesTyped, AwsTyped, CommandRests
<1>8. DemandsSound'
  <2>1. \A d : Demandable(d) => Demandable(d)'
    BY <1>1 DEF Demandable, CommandRests
  <2>2. \A f \in EcsServices : Demandable(demand[f]) /\ Demandable(task'[f].def)
    BY <1>4, <1>6 DEF UpInv, UpData, DemandsSound
  <2>3. \A f \in EcsServices : \A s \in Secrets :
          /\ demand'[f][s] # NotDemanded => s \in declared'
          /\ task'[f].def[s] # NotDemanded => s \in declared'
    BY <1>1, <2>2 DEF Demandable, CommandRests
  <2> QED
    BY <2>3 DEF DemandsSound, Demandable
<1>9. SettledSound'
  BY <1>1, <1>4, <1>5, <1>6 DEF UpInv, UpData, SettledSound
<1>10. CommandTyped' /\ WarnTyped' /\ LoopSound' /\ RenderSound' /\ VerifySound'
  BY <1>1 DEF UpInv, UpPhase, CommandTyped, WarnTyped, LoopSound, RenderSound, VerifySound,
         Rendered, Applied, CommandRests
<1>11. ApplySound'
  <2>1. layout.ecs \subseteq EcsServices
    BY RcUpAssumption DEF UpInv, UpData, FilesTyped
  <2> QED
    BY <1>1, <1>4, <1>5, <1>6, <2>1 DEF UpInv, UpPhase, ApplySound, Applied, CommandRests
<1>16. GateSound'
  <2>1. layout.built \subseteq EcsServices
    BY RcUpAssumption DEF UpInv, UpData, FilesTyped
  <2> QED
    BY <1>1, <1>5, <2>1 DEF UpInv, UpPhase, GateSound, PastGate, Applied, CommandRests
<1>12. \A q \in Secrets : Pushed(q) => Pushed(q)'
  BY <1>1, PushedKept DEF CommandRests
<1>13. PushSound'
  BY <1>1, <1>12 DEF UpInv, UpPhase, UpData, FilesTyped, PushSound, CommandRests
<1>14. ASSUME \A s \in declared : Pushed(s), NEW f, Fresh(f)
       PROVE  Fresh(f)'
  <2>1. f \in EcsServices /\ f \in layout.ecs
    BY <1>14, RcUpAssumption DEF Fresh, UpInv, UpData, FilesTyped
  <2>2. CASE f # e
    BY <1>1, <1>4, <1>5, <1>14, <2>1, <2>2 DEF Fresh, Current, Stranded, CommandRests
  <2>3. CASE f = e
    <3>1. ASSUME NEW s \in Secrets, demand[e][s] # NotDemanded
          PROVE  Readable(s, disk[s], seen[s])
      <4>1. s \in declared
        BY <3>1 DEF UpInv, UpData, DemandsSound, Demandable
      <4> QED
        BY <1>14, <4>1 DEF Pushed
    <3>2. Current(e)'
      BY <1>1, <1>6, <3>1 DEF Current, CommandRests
    <3> QED
      BY <1>1, <2>1, <2>3, <3>2 DEF Fresh, CommandRests
  <2> QED
    BY <2>2, <2>3
<1>15. RollSound'
  BY <1>1, <1>14, AllPushed DEF UpInv, UpPhase, RollSound, CommandRests
<1> QED
  BY <1>7, <1>8, <1>9, <1>10, <1>11, <1>13, <1>15, <1>16 DEF UpInv, UpData, UpPhase

\* Once everything is pushed and applied, ECS can place what this command demands, and what
\* is left unplaceable demands a key that its env file does not have.
LEMMA PushedIsPlaceable ==
  ASSUME UpInv, Applied, \A s \in declared : Pushed(s), NEW e \in layout.ecs, ~Placeable(e)
  PROVE  /\ demand[e] = task[e].def
         /\ \E s \in Secrets : ~Readable(s, demand[e][s], disk[s])
<1>1. PICK s \in Secrets : ~Readable(s, demand[e][s], seen[s])
  BY DEF Placeable
<1>2. s \in declared
  <2>1. demand[e][s] # NotDemanded
    BY <1>1, NothingDemanded
  <2>2. e \in EcsServices
    BY RcUpAssumption DEF UpInv, UpData, FilesTyped
  <2> QED
    BY <2>1, <2>2 DEF UpInv, UpData, DemandsSound, Demandable
<1>3. Readable(s, disk[s], seen[s]) /\ disk[s] \in Versions
  BY <1>2 DEF Pushed, UpInv, UpData, FilesTyped
<1>4. demand[e] # TaskDef(e, rendered)
  <2>1. rendered[s] = disk[s]
    BY <1>2 DEF UpInv, UpPhase, RenderSound, Rendered
  <2>2. TaskDef(e, rendered)[s] \in {disk[s], NotDemanded}
    BY <2>1 DEF TaskDef
  <2> QED
    BY <1>1, <1>3, <2>2, NothingDemanded
<1>5. ~Readable(s, demand[e][s], disk[s])
  BY <1>1, <1>3 DEF Readable, DemandedKeys, LiveKeys
<1> QED
  BY <1>4, <1>5 DEF UpInv, UpPhase, ApplySound

LEMMA RevertKeeps == ASSUME UpInv, NEW e \in EcsServices, BreakerReverts(e) PROVE UpInv'
<1>1. CommandRests /\ UNCHANGED <<sm, seen, task>> /\ rollout[e] = "rolling"
      /\ ~Placeable(e) /\ task[e].up
      /\ rollout' = [rollout EXCEPT ![e] = "reverted"]
      /\ demand' = [demand EXCEPT ![e] = task[e].def]
      /\ reverted' = reverted \cup {e}
  BY DEF BreakerReverts, CommandRests, opVars, smVars
<1>2. /\ demand \in [EcsServices -> Demands] /\ task[e].def \in Demands
      /\ rollout \in [EcsServices -> {"none", "rolling", "steady", "reverted"}]
  BY DEF UpInv, UpData, AwsTyped, Tasks
<1>3. /\ demand' \in [EcsServices -> Demands] /\ demand'[e] = task[e].def
      /\ \A f \in EcsServices : f # e => demand'[f] = demand[f]
      /\ rollout' \in [EcsServices -> {"none", "rolling", "steady", "reverted"}]
      /\ rollout'[e] = "reverted"
      /\ \A f \in EcsServices : f # e => rollout'[f] = rollout[f]
  BY <1>1, <1>2
<1>4. FilesTyped' /\ AwsTyped'
  BY <1>1, <1>3 DEF UpInv, UpData, FilesTyped, AwsTyped, CommandRests
<1>5. DemandsSound'
  <2>1. \A f \in EcsServices : Demandable(demand'[f]) /\ Demandable(task[f].def)
    BY <1>3 DEF UpInv, UpData, DemandsSound
  <2>2. \A f \in EcsServices : \A s \in Secrets :
          /\ demand'[f][s] # NotDemanded => s \in declared'
          /\ task'[f].def[s] # NotDemanded => s \in declared'
    BY <1>1, <2>1 DEF Demandable, CommandRests
  <2> QED
    BY <2>2 DEF DemandsSound, Demandable
<1>6. SettledSound'
  BY <1>1, <1>3 DEF UpInv, UpData, SettledSound
<1>7. CommandTyped'
  BY <1>1 DEF UpInv, UpPhase, CommandTyped, CommandRests
<1>8. WarnTyped' /\ LoopSound' /\ RenderSound' /\ VerifySound'
  BY <1>1 DEF UpInv, UpPhase, WarnTyped, LoopSound, RenderSound, VerifySound, Rendered,
         Applied, CommandRests
<1>9. ApplySound'
  <2>1. layout.ecs \subseteq EcsServices
    BY RcUpAssumption DEF UpInv, UpData, FilesTyped
  <2>2. \A f : TaskDef(f, rendered)' = TaskDef(f, rendered)
    BY <1>1 DEF TaskDef, CommandRests
  <2>3. ASSUME Applied, NEW f \in layout.ecs
        PROVE  /\ \/ demand'[f] = TaskDef(f, rendered)
                  \/ f \in reverted' /\ demand'[f] = task[f].def
               /\ rollout'[f] # "none"
    BY <1>1, <1>3, <2>1, <2>3 DEF UpInv, UpPhase, ApplySound
  <2> QED
    BY <1>1, <2>2, <2>3 DEF ApplySound, Applied, CommandRests, TaskDef
<1>14. GateSound'
  <2>1. layout.built \subseteq EcsServices
    BY RcUpAssumption DEF UpInv, UpData, FilesTyped
  <2> QED
    BY <1>1, <1>3, <2>1 DEF UpInv, UpPhase, GateSound, PastGate, Applied, CommandRests
<1>10. \A q \in Secrets : Pushed(q) => Pushed(q)'
  BY <1>1, PushedKept DEF CommandRests
<1>11. PushSound'
  BY <1>1, <1>10 DEF UpInv, UpPhase, UpData, FilesTyped, PushSound, CommandRests
<1>12. ASSUME Applied, \A s \in declared : Pushed(s), NEW f, Fresh(f)
       PROVE  Fresh(f)'
  <2>1. f \in EcsServices /\ f \in layout.ecs
    BY <1>12, RcUpAssumption DEF Fresh, UpInv, UpData, FilesTyped
  <2>2. CASE f # e
    BY <1>1, <1>3, <1>12, <2>1, <2>2 DEF Fresh, Current, Stranded, CommandRests
  <2>3. CASE f = e
    <3>1. demand'[e] = demand[e] /\ \E s \in Secrets : ~Readable(s, demand[e][s], disk[s])
      BY <1>1, <1>3, <1>12, <2>1, <2>3, PushedIsPlaceable
    <3> QED
      BY <1>1, <2>1, <2>3, <3>1 DEF Fresh, Stranded, CommandRests
  <2> QED
    BY <2>2, <2>3
<1>13. RollSound'
  BY <1>1, <1>12, AllPushed DEF UpInv, UpPhase, RollSound, Applied, CommandRests
<1> QED
  BY <1>4, <1>5, <1>6, <1>7, <1>8, <1>9, <1>11, <1>13, <1>14 DEF UpInv, UpData, UpPhase

-----------------------------------------------------------------------------
(* The theorems *)

LEMMA UpStep == UpInv /\ [UpNext]_upVars => UpInv'
<1> SUFFICES ASSUME UpInv, [UpNext]_upVars PROVE UpInv'
  OBVIOUS
<1>1. CASE Command
  BY <1>1, SkipKeeps, PutKeeps, ReadBackKeeps, PutFailsKeeps, PushDoneKeeps, RollDoneKeeps,
     RollKeeps, RenderKeeps, VerifyKeeps, ApplyKeeps, ApplyFailsKeeps, BuildKeeps,
     GatePassesKeeps, EndsKeep, AutoPushKeeps, RunHooksKeeps DEF Command
<1>2. CASE Operator
  BY <1>2, EditsKeep, StartKeeps, EndsKeep DEF Operator
<1>3. CASE Aws
  BY <1>3, PropagateKeeps, PlaceKeeps, RevertKeeps DEF Aws
<1>4. CASE UNCHANGED upVars
  <2>1. DataRests /\ UNCHANGED <<pc, kind, todo, wait, rendered, unread, reverted, warned,
                                 outcome, runs>>
    BY <1>4 DEF upVars, DataRests, opVars, smVars, ecsVars
  <2>2. /\ UpData'
        /\ UNCHANGED <<layout, disk, declared, code, edits, latest, sm, seen, demand, rollout,
                       task>>
    BY <2>1, DataKept, DataStays
  <2>3. \A q \in Secrets : Pushed(q) => Pushed(q)'
    BY <2>2, PushedKept
  <2>4. \A e : Fresh(e) => Fresh(e)'
    BY <2>1, <2>2, FreshKept
  <2>5. CommandTyped' /\ WarnTyped' /\ LoopSound'
    BY <2>1, <2>2 DEF UpInv, UpPhase, CommandTyped, WarnTyped, LoopSound
  <2>6. RenderSound' /\ VerifySound' /\ ApplySound'
    BY <2>1, <2>2 DEF UpInv, UpPhase, RenderSound, VerifySound, ApplySound, Rendered,
           Applied
  <2>9. GateSound'
    BY <2>1, <2>2, GateKept DEF PastGate, Applied
  <2>7. PushSound'
    BY <2>1, <2>2, <2>3 DEF UpInv, UpPhase, UpData, FilesTyped, PushSound
  <2>8. RollSound'
    BY <2>1, <2>2, <2>4 DEF UpInv, UpPhase, RollSound
  <2> QED
    BY <2>2, <2>5, <2>6, <2>7, <2>8, <2>9 DEF UpInv, UpPhase
<1> QED
  BY <1>1, <1>2, <1>3, <1>4 DEF UpNext

\* The invariant holds of every history of edits, rc up, rc deploy and rc secrets push, with
\* any failures, while ECS places, replaces and takes back tasks and readers lag behind.
THEOREM UpInductive == UpSpec => []UpInv
BY UpInitial, UpStep, PTL DEF UpSpec

\* Type correctness of these commands for any secrets, services and layouts.
THEOREM UpTypeCorrect == UpSpec => []UpTypeOK
BY UpInductive, UpTyped, PTL

LEMMA FreshAfterUp ==
  ASSUME UpInv, UpSucceeded, NEW e \in layout.ecs
  PROVE  /\ rollout[e] = "rolling" \/ Current(e) \/ Stranded(e)
         /\ demand[e] = TaskDef(e, rendered) \/ e \in reverted
<1>1. outcome = "ok" /\ kind = "up" /\ ~warned /\ declared # {}
  BY DEF UpSucceeded
<1>2. \A c \in layout.compose : Fresh(c)
  BY <1>1 DEF UpInv, UpPhase, RollSound
<1>3. layout.compose \subseteq layout.ecs
  BY <1>2 DEF Fresh
<1>4. layout.ecs = layout.compose
  BY <1>3, RcUpAssumption DEF UpInv, UpData, FilesTyped
<1>5. Fresh(e)
  BY <1>2, <1>4
<1>6. Applied
  BY <1>1 DEF Applied
<1> QED
  BY <1>5, <1>6 DEF Fresh, UpInv, UpPhase, ApplySound

\* rc up for any stack and any change of the env files: once it has ended without a warning,
\* each service that the circuit breaker did not take back runs the pushed image and secrets
\* or is being rolled to them, under the task definition of this command.
THEOREM UpToDateUnlessReverted ==
  UpSpec => [](UpSucceeded => \A e \in layout.ecs :
                 e \notin reverted =>
                   /\ rollout[e] = "rolling" \/ Current(e)
                   /\ demand[e] = TaskDef(e, rendered))
<1>1. UpInv => (UpSucceeded => \A e \in layout.ecs :
                 e \notin reverted =>
                   /\ rollout[e] = "rolling" \/ Current(e)
                   /\ demand[e] = TaskDef(e, rendered))
  BY FreshAfterUp DEF Stranded
<1> QED
  BY <1>1, UpInductive, PTL

\* rc up for any stack and any change of the env files, keys that are removed or renamed
\* included: once it has ended without a warning no service is left behind, save one that the
\* breaker took back to the demand for a key that is gone (provider.py 4244-4330, up.py).
THEOREM NoServiceIsLeftBehind == UpSpec => []UpToDateAfterUp
<1>1. UpInv => UpToDateAfterUp
  BY FreshAfterUp DEF UpToDateAfterUp
<1> QED
  BY <1>1, UpInductive, PTL

LEMMA OnlyHooksEndOk ==
  ASSUME UpInv, UpNext, pc = "hooks", outcome' = "ok" PROVE RunHooks
<1>1. outcome # "ok"
  BY DEF UpInv, UpPhase, LoopSound
<1>2. ~Aws
  BY <1>1 DEF Aws, Propagate, Place, BreakerReverts
<1>3. ~Operator
  BY <1>1 DEF Operator, EditEnvFile, DeclareSecret, EditCode, Start, Killed, Forget
<1>4. Command => RunHooks
  BY DEF Command, SkipAbsent, Put, ReadBack, PutFails, PushDone, RollDone, RollAfterPush,
         Render, Verify, Apply, ApplyFails, BuildAndPush, BuildFails, GatePasses, GateFails,
         AutoPush,
         SecretsPushEnds, UpInv, UpPhase, LoopSound, Pushing
<1> QED
  BY <1>2, <1>3, <1>4 DEF UpNext

\* When the hooks of a command are to run, and its wait finds nothing rolling, nothing rolls
\* of what the hook runs in either, or nothing waited for that.
LEMMA HookHasSettled ==
  ASSUME UpInv, pc = "hooks", ~warned, Unsettled = {}, ~HookUnwaited
  PROVE  rollout[layout.hook] # "rolling"
<1>1. /\ layout.hook \in layout.ecs
      /\ layout.compose \subseteq layout.ecs => layout.ecs = layout.compose
  BY RcUpAssumption DEF UpInv, UpData, FilesTyped
<1>2. CASE layout.hook \in layout.compose
  BY <1>1, <1>2 DEF Unsettled
<1>3. CASE layout.hook \notin layout.compose /\ kind = "up"
  <2>1. declared # {}
    BY <1>3 DEF HookUnwaited
  <2>2. layout.compose \subseteq layout.ecs
    BY <1>3, <2>1 DEF UpInv, UpPhase, RollSound, Fresh
  <2> QED
    BY <1>1, <1>3, <2>2
<1>4. CASE layout.hook \notin layout.compose /\ kind # "up"
  <2>1. layout.hook \in layout.built
    BY <1>4 DEF HookUnwaited
  <2> QED
    BY <1>4, <2>1 DEF UpInv, UpPhase, GateSound, PastGate, Applied
<1> QED
  BY <1>2, <1>3, <1>4

\* The hooks of rc up and rc deploy for any stack, with its services under their own names,
\* prefixed or in task groups: a hook that runs without a warning runs in a task of the task
\* definition this command applied, unless the breaker took it back, or the command is one
\* that waits for nothing of the hook's name.
THEOREM HooksRunOnLatest == UpSpec => HookOnLatest
<1> DEFINE h == layout.hook
<1>1. UpInv /\ [UpNext]_upVars
        => [pc = "hooks" /\ outcome' = "ok" /\ ~warned' =>
              \/ task[h].up /\ task[h].def = TaskDef(h, rendered)
              \/ h \in reverted
              \/ HookUnwaited]_upVars
  <2> SUFFICES ASSUME UpInv, UpNext, pc = "hooks", outcome' = "ok", ~warned',
                      h \notin reverted, ~HookUnwaited
               PROVE  task[h].up /\ task[h].def = TaskDef(h, rendered)
    OBVIOUS
  <2>1. RunHooks
    BY OnlyHooksEndOk
  <2>2. Unsettled = {} /\ ~warned
    BY <2>1 DEF RunHooks
  <2>3. h \in layout.ecs /\ h \in EcsServices
    BY RcUpAssumption DEF UpInv, UpData, FilesTyped
  <2>4. rollout[h] # "rolling"
    BY <2>2, HookHasSettled
  <2>5. demand[h] = TaskDef(h, rendered) /\ rollout[h] # "none"
    BY <2>3 DEF UpInv, UpPhase, ApplySound, Applied
  <2>6. rollout[h] \in {"none", "rolling", "steady", "reverted"}
    BY <2>3 DEF UpInv, UpData, AwsTyped
  <2>7. task[h].up /\ task[h].def = demand[h]
    BY <2>3, <2>4, <2>5, <2>6 DEF UpInv, UpData, SettledSound
  <2> QED
    BY <2>5, <2>7
<1> QED
  BY <1>1, UpInductive, PTL DEF HookOnLatest, UpSpec

\* Only terraform moves a service to another task definition and rolls it.
LEMMA OnlyTerraformRolls ==
  ASSUME UpInv, UpNext, NEW e \in EcsServices, demand'[e] # demand[e], rollout'[e] = "rolling"
  PROVE  /\ pc = "apply" /\ e \in layout.ecs /\ demand'[e] = TaskDef(e, rendered)
<1>1. ~Operator
  BY DEF Operator, EditEnvFile, DeclareSecret, EditCode, Start, Killed, ecsVars
<1>2. ~Aws
  <2>1. ASSUME NEW f \in EcsServices, BreakerReverts(f) PROVE FALSE
    <3>1. /\ demand \in [EcsServices -> Demands]
          /\ rollout \in [EcsServices -> {"none", "rolling", "steady", "reverted"}]
      BY DEF UpInv, UpData, AwsTyped
    <3>2. CASE e = f
      BY <2>1, <3>1, <3>2 DEF BreakerReverts
    <3>3. CASE e # f
      BY <2>1, <3>1, <3>3 DEF BreakerReverts
    <3> QED
      BY <3>2, <3>3
  <2> QED
    BY <2>1 DEF Aws, Propagate, Place, ecsVars
<1>3. Command => Apply \/ ApplyFails
  BY DEF Command, SkipAbsent, Put, ReadBack, PutFails, PushDone, RollDone, RollAfterPush,
         Render, Verify, BuildAndPush, BuildFails, GatePasses, GateFails, AutoPush,
         RunHooks, SecretsPushEnds, ecsVars
<1>4. PICK E \in SUBSET layout.ecs : Terraform(declared, E) /\ pc = "apply"
  BY <1>1, <1>2, <1>3 DEF UpNext, Apply, ApplyFails
<1>5. demand'[e] = IF e \in E THEN TaskDef(e, rendered) ELSE demand[e]
  BY <1>4 DEF Terraform
<1> QED
  BY <1>4, <1>5

\* rc up, rc deploy and rc secrets push for any change of the env files: no running task is
\* replaced by one whose keys its readers cannot see yet, unless rc could not compare them,
\* and no hook runs before the tasks it was applied for, where anything waits for them.
THEOREM NothingRunsAhead == UpSpec => NothingTooEarly
<1>1. UpInv /\ [UpNext]_upVars
        => [\A e \in EcsServices :
              demand'[e] # demand[e] /\ rollout'[e] = "rolling" /\ task[e].up =>
                \A s \in Secrets : Readable(s, demand'[e][s], seen[s]) \/ s \in unread]_upVars
  <2> SUFFICES ASSUME UpInv, UpNext, NEW e \in EcsServices, demand'[e] # demand[e],
                      rollout'[e] = "rolling", NEW s \in Secrets, s \notin unread
               PROVE  Readable(s, demand'[e][s], seen[s])
    OBVIOUS
  <2>1. pc = "apply" /\ demand'[e] = TaskDef(e, rendered)
    BY OnlyTerraformRolls
  <2>2. rendered[s] = IF s \in declared THEN disk[s] ELSE NotDemanded
    BY <2>1 DEF UpInv, UpPhase, RenderSound, Rendered
  <2>3. demand'[e][s] = NotDemanded \/ (s \in declared /\ demand'[e][s] = disk[s])
    BY <2>1, <2>2 DEF TaskDef
  <2>4. s \in declared => Readable(s, disk[s], seen[s])
    BY <2>1 DEF UpInv, UpPhase, VerifySound
  <2> QED
    BY <2>3, <2>4, NothingDemanded
<1>2. UpSpec => RollsReadable
  BY <1>1, UpInductive, PTL DEF RollsReadable, UpSpec
<1> QED
  BY <1>2, HooksRunOnLatest DEF NothingTooEarly

-----------------------------------------------------------------------------
(***************************************************************************)
(* TerraformPipes.                                                         *)
(* For pipes of any capacity and any number of lines: a run that ends, with a*)
(* result or an exception, ends with every line terraform wrote.  (That it *)
(* does end needs fairness, and a stderr that fits in its pipe.)           *)
(***************************************************************************)

\* The types of the two processes and their pipes.
PipesTyped ==
  /\ toWrite \in [Streams -> Nat] /\ pipe \in [Streams -> 0..PipeCapacity]
  /\ taken \in [Streams -> Nat] /\ written \in [Streams -> Nat]
  /\ child \in {"running", "ok", "failed"}
  /\ reader \in Streams \cup {"wait", "returned", "raised"}
\* Lines are neither lost nor made up, and terraform writes at most what it has.
LinesKept ==
  \A f \in Streams :
    written[f] = taken[f] + pipe[f] /\ written[f] + toWrite[f] <= MaxLines
\* What _run has read to its end is closed for good.
ReadToTheEnd ==
  /\ reader # "stdout" => Closed("stdout")
  /\ reader \notin Streams => Closed("stderr")
\* The inductive invariant of a run.
PipesInv == PipesTyped /\ LinesKept /\ ReadToTheEnd

LEMMA PipesStart == PipesInit => PipesInv
BY PipesAssumption DEF PipesInit, PipesInv, PipesTyped, LinesKept, ReadToTheEnd, Nothing, Streams

LEMMA PipesStep == PipesInv /\ [PipesNext]_pipeVars => PipesInv'
<1> SUFFICES ASSUME PipesInv, [PipesNext]_pipeVars PROVE PipesInv'
  OBVIOUS
<1> USE PipesAssumption DEF PipesInv
<1>1. ASSUME NEW f \in Streams, Writes(f) PROVE PipesInv'
  <2>1. PipesTyped'
    BY <1>1 DEF Writes, PipesTyped
  <2>2. LinesKept'
    BY <1>1 DEF Writes, PipesTyped, LinesKept
  <2>3. ReadToTheEnd'
    BY <1>1 DEF Writes, ReadToTheEnd, Closed
  <2> QED
    BY <2>1, <2>2, <2>3
<1>2. CASE ChildEnds
  BY <1>2 DEF ChildEnds, PipesTyped, LinesKept, ReadToTheEnd, Closed
<1>3. CASE ChildKilled
  <2>1. PipesTyped'
    BY <1>3 DEF ChildKilled, Nothing, PipesTyped
  <2>2. LinesKept'
    <3> SUFFICES ASSUME NEW f \in Streams
                 PROVE  /\ written'[f] = taken'[f] + pipe'[f]
                        /\ written'[f] + toWrite'[f] <= MaxLines
      BY DEF LinesKept
    <3>1. toWrite'[f] = 0 /\ UNCHANGED <<written, taken, pipe>>
      BY <1>3 DEF ChildKilled, Nothing
    <3>2. written[f] \in Nat /\ toWrite[f] \in Nat
      BY DEF PipesTyped
    <3> QED
      BY <3>1, <3>2 DEF LinesKept
  <2>3. ReadToTheEnd'
    BY <1>3 DEF ChildKilled, ReadToTheEnd, Closed
  <2> QED
    BY <2>1, <2>2, <2>3
<1>4. CASE ReadsLine
  <2>1. PipesTyped'
    BY <1>4 DEF ReadsLine, PipesTyped
  <2>2. LinesKept'
    BY <1>4 DEF ReadsLine, PipesTyped, LinesKept
  <2>3. ReadToTheEnd'
    BY <1>4 DEF ReadsLine, ReadToTheEnd, Closed, PipesTyped, Streams
  <2> QED
    BY <2>1, <2>2, <2>3
<1>5. CASE EndsStream
  BY <1>5 DEF EndsStream, EndOfStream, PipesTyped, LinesKept, ReadToTheEnd, Closed, Streams
<1>6. CASE Waits
  BY <1>6 DEF Waits, PipesTyped, LinesKept, ReadToTheEnd, Closed, Streams
<1>7. CASE UNCHANGED pipeVars
  BY <1>7 DEF pipeVars, PipesTyped, LinesKept, ReadToTheEnd, Closed
<1> QED
  BY <1>1, <1>2, <1>3, <1>4, <1>5, <1>6, <1>7 DEF PipesNext, ChildRuns, ReaderRuns

\* The invariant holds of every interleaving of terraform and _run, kills included.
THEOREM PipesInductive == PipesSpec => []PipesInv
BY PipesStart, PipesStep, PTL DEF PipesSpec

\* No line is counted twice, so none of the counts passes MaxLines.
LEMMA PipesInvTyped == PipesInv => PipesTypeOK
<1> SUFFICES ASSUME PipesInv PROVE PipesTypeOK
  OBVIOUS
<1>1. ASSUME NEW f \in Streams
      PROVE  toWrite[f] \in 0..MaxLines /\ taken[f] \in 0..MaxLines /\ written[f] \in 0..MaxLines
  BY PipesAssumption DEF PipesInv, PipesTyped, LinesKept
<1> QED
  BY <1>1 DEF PipesInv, PipesTyped, PipesTypeOK

\* Type correctness of a run for any capacity and any number of lines.
THEOREM PipesTypeCorrect == PipesSpec => []PipesTypeOK
BY PipesInvTyped, PipesInductive, PTL

\* TerraformRunner._run reads stdout to its end, then stderr, then waits: whenever it has
\* returned or raised, it has read every line terraform wrote on either stream.
THEOREM EndedRunHasAllOutput == PipesSpec => [](~Running => taken = written)
<1>1. PipesInv /\ ~Running => taken = written
  <2> SUFFICES ASSUME PipesInv, ~Running, NEW f \in Streams PROVE taken[f] = written[f]
    BY DEF PipesInv, PipesTyped
  <2>1. pipe[f] = 0
    BY DEF PipesInv, ReadToTheEnd, Running, Closed, Streams
  <2> QED
    BY <2>1 DEF PipesInv, PipesTyped, LinesKept
<1> QED
  BY <1>1, PipesInductive, PTL


-----------------------------------------------------------------------------
(***************************************************************************)
(* Totals over a finite set.  MapThenSumSet adds the elements in the order *)
(* CHOOSE takes them; the lemmas say that the order does not matter.  They *)
(* go by minimal counterexample, since the induction theorems of the       *)
(* library take an operator as a parameter.                                *)
(***************************************************************************)
\* The element MapThenFoldSet takes first, one unrolling of it, and the function it defines.
Pick(T) == CHOOSE x \in T : TRUE
Unrolled(v, g, T) == IF T = {} THEN 0 ELSE v[Pick(T)] + g[T \ {Pick(T)}]
Sums(v) == CHOOSE g : g = [T \in SUBSET DOMAIN v |-> Unrolled(v, g, T)]

\* A set of numbers that is not empty has a smallest one.
LEMMA Smallest ==
  ASSUME NEW B \in SUBSET Nat, B # {}
  PROVE  \E n \in B : \A k \in B : n <= k
<1>1. PICK n \in B : \A k \in B : ~(<<k, n>> \in OpToRel(<, Nat))
  BY NatLessThanWellFounded, WFMin
<1>2. \A k \in B : k < n => <<k, n>> \in OpToRel(<, Nat)
  BY DEF OpToRel
<1>3. \A k \in B : ~(k < n)
  BY <1>1, <1>2
<1>4. n \in Nat /\ \A k \in B : k \in Nat
  OBVIOUS
<1>5. \A k \in B : n <= k
  BY <1>3, <1>4
<1> QED
  BY <1>5

\* Induction over the subsets of a finite set, by minimal counterexample: when no subset is
\* bad whose subsets with one element less are not bad, none is.
LEMMA ByRemoval ==
  ASSUME NEW D, IsFiniteSet(D), NEW B \in SUBSET SUBSET D,
         \A T \in SUBSET D : (\A x \in T : T \ {x} \notin B) => T \notin B
  PROVE  B = {}
<1> SUFFICES ASSUME B # {} PROVE FALSE
  OBVIOUS
<1> DEFINE Sizes == {Cardinality(T) : T \in B}
<1>1. \A T \in SUBSET D : IsFiniteSet(T) /\ Cardinality(T) \in Nat
  BY FS_Subset, FS_CardinalityType
<1>2. Sizes \in SUBSET Nat /\ Sizes # {}
  BY <1>1
<1>3. PICK n \in Sizes : \A k \in Sizes : n <= k
  BY <1>2, Smallest
<1>4. PICK T \in B : Cardinality(T) = n
  OBVIOUS
<1>5. PICK x \in T : T \ {x} \in B
  OBVIOUS
<1>6. Cardinality(T \ {x}) = n - 1 /\ n \in Nat
  BY <1>1, <1>4, FS_RemoveElement
<1>7. n <= n - 1
  BY <1>3, <1>5, <1>6
<1> QED
  BY <1>6, <1>7

\* The recursion that defines a total has a solution on the subsets of a finite set.
LEMMA SumsExist ==
  ASSUME NEW v, IsFiniteSet(DOMAIN v)
  PROVE  Sums(v) = [T \in SUBSET DOMAIN v |-> Unrolled(v, Sums(v), T)]
<1> DEFINE D == DOMAIN v
           Upto(n) == {T \in SUBSET D : Cardinality(T) <= n}
           IsSum(n, g) == g = [T \in Upto(n) |-> Unrolled(v, g, T)]
           B == {n \in Nat : ~ \E g : IsSum(n, g)}
<1>1. \A T \in SUBSET D : IsFiniteSet(T) /\ Cardinality(T) \in Nat
  BY FS_Subset, FS_CardinalityType
<1>2. \A T \in SUBSET D : T # {} => Pick(T) \in T
  BY DEF Pick
<1>3. B = {}
  <2> SUFFICES ASSUME B # {} PROVE FALSE
    OBVIOUS
  <2>1. PICK n \in B : \A k \in B : n <= k
    BY Smallest
  <2>2. CASE n = 0
    <3> DEFINE h == [T \in Upto(0) |-> 0]
    <3>1. \A T \in Upto(0) : T = {}
      BY <1>1, FS_EmptySet
    <3>2. \A T \in Upto(0) : Unrolled(v, h, T) = 0
      BY <3>1 DEF Unrolled
    <3>3. IsSum(0, h)
      BY <3>2
    <3> QED
      BY <2>2, <3>3
  <2>3. CASE n # 0
    <3> DEFINE m == n - 1
    <3>1. m \in Nat /\ m < n /\ n = m + 1
      BY <2>3
    <3>2. m \notin B
      <4>1. ~(n <= m)
        BY <3>1
      <4> QED
        BY <2>1, <4>1
    <3>3. PICK g : IsSum(m, g)
      BY <3>1, <3>2
    <3> DEFINE h == [T \in Upto(n) |-> Unrolled(v, g, T)]
    <3>4. ASSUME NEW T \in Upto(n), T # {}
          PROVE  h[T \ {Pick(T)}] = g[T \ {Pick(T)}]
      <4> DEFINE R == T \ {Pick(T)}
      <4>1. Cardinality(R) = Cardinality(T) - 1
        BY <1>1, <1>2, <3>4, FS_RemoveElement
      <4>2. R \in Upto(m)
        BY <1>1, <3>1, <3>4, <4>1
      <4>3. R \in Upto(n)
        BY <1>1, <3>1, <4>2
      <4>4. h[R] = Unrolled(v, g, R)
        BY <4>3
      <4>5. g[R] = Unrolled(v, g, R)
        BY <3>3, <4>2
      <4> QED
        BY <4>4, <4>5
    <3>5. \A T \in Upto(n) : Unrolled(v, g, T) = Unrolled(v, h, T)
      BY <3>4 DEF Unrolled
    <3>6. IsSum(n, h)
      BY <3>5
    <3> QED
      BY <3>6
  <2> QED
    BY <2>2, <2>3
<1>4. Cardinality(D) \in Nat /\ Upto(Cardinality(D)) = SUBSET D
  BY FS_Subset, FS_CardinalityType
<1>5. PICK g : IsSum(Cardinality(D), g)
  BY <1>3, <1>4
<1>6. g = [T \in SUBSET DOMAIN v |-> Unrolled(v, g, T)]
  BY <1>4, <1>5
<1> QED
  BY <1>6 DEF Sums

\* Total is that solution at the whole domain.
LEMMA TotalIsSum ==
  ASSUME NEW v
  PROVE  Total(v) = Sums(v)[DOMAIN v]
BY DEF Total, Sums, Unrolled, Pick, MapThenSumSet, MapThenFoldSet

\* The recursion, unrolled once.
LEMMA SumsStart ==
  ASSUME NEW D, IsFiniteSet(D), NEW v \in [D -> Nat]
  PROVE  /\ Sums(v)[{}] = 0
         /\ \A T \in SUBSET D : T # {} =>
              Pick(T) \in T /\ Sums(v)[T] = v[Pick(T)] + Sums(v)[T \ {Pick(T)}]
<1>1. DOMAIN v = D
  OBVIOUS
<1>2. \A T \in SUBSET D : Sums(v)[T] = Unrolled(v, Sums(v), T)
  BY <1>1, SumsExist
<1>3. \A T \in SUBSET D : T # {} => Pick(T) \in T
  BY DEF Pick
<1> QED
  BY <1>2, <1>3 DEF Unrolled

\* A part of a total is a natural number.
LEMMA SumsTyped ==
  ASSUME NEW D, IsFiniteSet(D), NEW v \in [D -> Nat]
  PROVE  \A T \in SUBSET D : Sums(v)[T] \in Nat
<1> DEFINE B == {T \in SUBSET D : Sums(v)[T] \notin Nat}
<1>0. \A T \in SUBSET D : T # {} =>
        Pick(T) \in T /\ Sums(v)[T] = v[Pick(T)] + Sums(v)[T \ {Pick(T)}]
  BY SumsStart
<1>1. ASSUME NEW T \in SUBSET D, \A x \in T : T \ {x} \notin B
      PROVE  T \notin B
  <2>1. CASE T = {}
    BY <2>1, SumsStart
  <2>2. CASE T # {}
    <3>1. Pick(T) \in T /\ Sums(v)[T] = v[Pick(T)] + Sums(v)[T \ {Pick(T)}]
      BY <1>0, <2>2
    <3>2. Sums(v)[T \ {Pick(T)}] \in Nat
      BY <1>1, <3>1
    <3>3. v[Pick(T)] \in Nat
      BY <3>1
    <3> QED
      BY <3>1, <3>2, <3>3
  <2> QED
    BY <2>1, <2>2
<1>2. B = {}
  BY <1>1, ByRemoval
<1> QED
  BY <1>2

\* Any element may be taken out of a sum first, not only the one CHOOSE picks.
LEMMA SumsRemove ==
  ASSUME NEW D, IsFiniteSet(D), NEW v \in [D -> Nat], NEW S \in SUBSET D, NEW y \in S
  PROVE  Sums(v)[S] = v[y] + Sums(v)[S \ {y}]
<1> DEFINE Splits(T) == \A x \in T : Sums(v)[T] = v[x] + Sums(v)[T \ {x}]
           B == {T \in SUBSET D : ~Splits(T)}
<1>1. ASSUME NEW T \in SUBSET D, \A x \in T : T \ {x} \notin B
      PROVE  T \notin B
  <2> SUFFICES ASSUME NEW x \in T
               PROVE  Sums(v)[T] = v[x] + Sums(v)[T \ {x}]
    OBVIOUS
  <2> DEFINE p == Pick(T)
  <2>1. p \in T /\ Sums(v)[T] = v[p] + Sums(v)[T \ {p}]
    BY SumsStart
  <2>2. CASE x = p
    BY <2>1, <2>2
  <2>3. CASE x # p
    <3>1. Splits(T \ {p}) /\ Splits(T \ {x})
      BY <1>1, <2>1
    <3>2. Sums(v)[T \ {p}] = v[x] + Sums(v)[(T \ {p}) \ {x}]
      BY <2>3, <3>1
    <3>3. Sums(v)[T \ {x}] = v[p] + Sums(v)[(T \ {x}) \ {p}]
      BY <2>1, <2>3, <3>1
    <3>4. (T \ {p}) \ {x} = (T \ {x}) \ {p}
      OBVIOUS
    <3>5. v[x] \in Nat /\ v[p] \in Nat /\ Sums(v)[(T \ {x}) \ {p}] \in Nat
      BY <2>1, SumsTyped
    <3> HIDE DEF p
    <3>6. Sums(v)[T] = v[p] + (v[x] + Sums(v)[(T \ {x}) \ {p}])
      BY <2>1, <3>2, <3>4
    <3> QED
      BY <3>3, <3>5, <3>6
  <2> QED
    BY <2>2, <2>3
<1>2. B \in SUBSET SUBSET D
  OBVIOUS
<1>3. B = {}
  <2> HIDE DEF B
  <2> QED
    BY <1>1, <1>2, ByRemoval
<1> QED
  BY <1>3

(* A total over a finite set is a natural number, and so is each part of it. *)
LEMMA TotalTyped ==
  ASSUME NEW D, IsFiniteSet(D), NEW v \in [D -> Nat]
  PROVE  Total(v) \in Nat
<1>1. Total(v) = Sums(v)[D]
  BY TotalIsSum
<1> QED
  BY <1>1, SumsTyped

\* Smaller addends over fewer elements make no larger sum.
LEMMA SumsBelow ==
  ASSUME NEW D, IsFiniteSet(D), NEW E \in SUBSET D, NEW u \in [E -> Nat], NEW v \in [D -> Nat],
         \A x \in E : u[x] <= v[x]
  PROVE  \A T \in SUBSET D : Sums(u)[T \cap E] <= Sums(v)[T]
<1> DEFINE B == {T \in SUBSET D : ~(Sums(u)[T \cap E] <= Sums(v)[T])}
<1>0. IsFiniteSet(E)
  BY FS_Subset
<1>a. ASSUME NEW T \in SUBSET D, NEW x \in T
      PROVE  Sums(v)[T] = v[x] + Sums(v)[T \ {x}]
  BY SumsRemove
<1>b. ASSUME NEW T \in SUBSET E, NEW x \in T
      PROVE  Sums(u)[T] = u[x] + Sums(u)[T \ {x}]
  BY <1>0, SumsRemove
<1>c. \A T \in SUBSET D : Sums(v)[T] \in Nat
  BY SumsTyped
<1>1. ASSUME NEW T \in SUBSET D, \A x \in T : T \ {x} \notin B
      PROVE  T \notin B
  <2>1. CASE T = {}
    <3>1. T \cap E = {}
      BY <2>1
    <3>2. Sums(u)[{}] = 0 /\ Sums(v)[{}] = 0
      BY <1>0, SumsStart
    <3> QED
      BY <2>1, <3>1, <3>2
  <2>2. CASE T # {}
    <3>1. PICK x \in T : TRUE
      BY <2>2
    <3> DEFINE R == T \ {x}
    <3>2. Sums(u)[R \cap E] <= Sums(v)[R]
      BY <1>1
    <3>3. Sums(v)[T] = v[x] + Sums(v)[R] /\ v[x] \in Nat /\ Sums(v)[R] \in Nat
      BY <1>a, <1>c
    <3>4. Sums(u)[R \cap E] \in Nat
      BY <1>0, SumsTyped
    <3>5. CASE x \in E
      <4>1. (T \cap E) \ {x} = R \cap E
        OBVIOUS
      <4>2. T \cap E \in SUBSET E /\ x \in T \cap E
        BY <3>5
      <4>3. Sums(u)[T \cap E] = u[x] + Sums(u)[R \cap E]
        BY <1>b, <4>1, <4>2
      <4>4. u[x] \in Nat /\ u[x] <= v[x]
        BY <3>5
      <4> HIDE DEF R
      <4>5. Sums(u)[T \cap E] <= Sums(v)[T]
        BY <3>2, <3>3, <3>4, <4>3, <4>4
      <4> QED
        BY <4>5
    <3>6. CASE x \notin E
      <4>1. T \cap E = R \cap E
        BY <3>6
      <4> HIDE DEF R
      <4>2. Sums(u)[T \cap E] <= Sums(v)[T]
        BY <3>2, <3>3, <3>4, <4>1
      <4> QED
        BY <4>2
    <3> QED
      BY <3>5, <3>6
  <2> QED
    BY <2>1, <2>2
<1>2. B = {}
  BY <1>1, ByRemoval
<1> QED
  BY <1>2

(* Taking addends away, or making them smaller, makes a total no larger. *)
LEMMA TotalGrows ==
  ASSUME NEW D, IsFiniteSet(D), NEW E \in SUBSET D, NEW u \in [E -> Nat], NEW v \in [D -> Nat],
         \A x \in E : u[x] <= v[x]
  PROVE  Total(u) <= Total(v)
<1>1. Total(u) = Sums(u)[E] /\ Total(v) = Sums(v)[D]
  BY TotalIsSum
<1>2. D \cap E = E
  OBVIOUS
<1>3. Sums(u)[D \cap E] <= Sums(v)[D]
  BY SumsBelow
<1> QED
  BY <1>1, <1>2, <1>3

\* Addends that are zero add nothing.
LEMMA SumsOfZeros ==
  ASSUME NEW D, IsFiniteSet(D), NEW v \in [D -> Nat], NEW T \in SUBSET D,
         \A x \in T : v[x] = 0
  PROVE  Sums(v)[T] = 0
<1> DEFINE B == {U \in SUBSET D : U \subseteq T /\ Sums(v)[U] # 0}
<1>1. ASSUME NEW U \in SUBSET D, \A x \in U : U \ {x} \notin B
      PROVE  U \notin B
  <2>1. CASE U = {} \/ ~(U \subseteq T)
    BY <2>1, SumsStart
  <2>2. CASE U # {} /\ U \subseteq T
    <3>1. PICK x \in U : TRUE
      BY <2>2
    <3>2. Sums(v)[U] = v[x] + Sums(v)[U \ {x}]
      BY SumsRemove
    <3>3. v[x] = 0 /\ Sums(v)[U \ {x}] = 0
      BY <1>1, <2>2
    <3> QED
      BY <3>2, <3>3
  <2> QED
    BY <2>1, <2>2
<1>2. B = {}
  BY <1>1, ByRemoval
<1> QED
  BY <1>2

(* A total with one addend that may not be zero is that addend. *)
LEMMA TotalOfOne ==
  ASSUME NEW D, IsFiniteSet(D), NEW v \in [D -> Nat], NEW d \in D,
         \A x \in D \ {d} : v[x] = 0
  PROVE  Total(v) = v[d]
<1>1. Total(v) = Sums(v)[D]
  BY TotalIsSum
<1>2. Sums(v)[D] = v[d] + Sums(v)[D \ {d}]
  BY SumsRemove
<1>3. Sums(v)[D \ {d}] = 0
  BY SumsOfZeros
<1> QED
  BY <1>1, <1>2, <1>3

\* A total of zeros is zero.
LEMMA TotalOfZeros ==
  ASSUME NEW D, IsFiniteSet(D), NEW v \in [D -> Nat], \A x \in D : v[x] = 0
  PROVE  Total(v) = 0
<1>1. Total(v) = Sums(v)[D]
  BY TotalIsSum
<1> QED
  BY <1>1, SumsOfZeros

(* The total of sums is the sum of the totals. *)
LEMMA SumsAdd ==
  ASSUME NEW D, IsFiniteSet(D), NEW u \in [D -> Nat], NEW v \in [D -> Nat]
  PROVE  \A T \in SUBSET D :
           Sums([x \in D |-> u[x] + v[x]])[T] = Sums(u)[T] + Sums(v)[T]
<1> DEFINE w == [x \in D |-> u[x] + v[x]]
<1>0. w \in [D -> Nat] /\ \A x \in D : w[x] = u[x] + v[x]
  OBVIOUS
<1> HIDE DEF w
<1>a. ASSUME NEW T \in SUBSET D, NEW x \in T
      PROVE  Sums(u)[T] = u[x] + Sums(u)[T \ {x}]
  BY SumsRemove
<1>b. ASSUME NEW T \in SUBSET D, NEW x \in T
      PROVE  Sums(v)[T] = v[x] + Sums(v)[T \ {x}]
  BY SumsRemove
<1>c. ASSUME NEW T \in SUBSET D, NEW x \in T
      PROVE  Sums(w)[T] = w[x] + Sums(w)[T \ {x}]
  <2>1. w \in [D -> Nat]
    BY <1>0
  <2> QED
    BY <2>1, SumsRemove
<1>d. \A T \in SUBSET D : Sums(u)[T] \in Nat /\ Sums(v)[T] \in Nat
  BY SumsTyped
<1> DEFINE B == {T \in SUBSET D : Sums(w)[T] # Sums(u)[T] + Sums(v)[T]}
<1>1. ASSUME NEW T \in SUBSET D, \A x \in T : T \ {x} \notin B
      PROVE  T \notin B
  <2>1. CASE T = {}
    <3>1. Sums(u)[{}] = 0 /\ Sums(v)[{}] = 0 /\ Sums(w)[{}] = 0
      BY <1>0, SumsStart
    <3> QED
      BY <2>1, <3>1
  <2>2. CASE T # {}
    <3>1. PICK x \in T : TRUE
      BY <2>2
    <3> DEFINE R == T \ {x}
    <3>2. Sums(w)[R] = Sums(u)[R] + Sums(v)[R]
      BY <1>1
    <3>3. Sums(u)[T] = u[x] + Sums(u)[R] /\ u[x] \in Nat /\ Sums(u)[R] \in Nat
      BY <1>a, <1>d
    <3>4. Sums(v)[T] = v[x] + Sums(v)[R] /\ v[x] \in Nat /\ Sums(v)[R] \in Nat
      BY <1>b, <1>d
    <3>5. Sums(w)[T] = w[x] + Sums(w)[R] /\ w[x] = u[x] + v[x]
      BY <1>0, <1>c
    <3> HIDE DEF R
    <3>6. Sums(w)[T] = Sums(u)[T] + Sums(v)[T]
      BY <3>2, <3>3, <3>4, <3>5
    <3> QED
      BY <3>6
  <2> QED
    BY <2>1, <2>2
<1>2. B = {}
  BY <1>1, ByRemoval
<1> QED
  BY <1>2 DEF w

\* Totals of the sums of two functions.
LEMMA TotalAdds ==
  ASSUME NEW D, IsFiniteSet(D), NEW u \in [D -> Nat], NEW v \in [D -> Nat]
  PROVE  Total([x \in D |-> u[x] + v[x]]) = Total(u) + Total(v)
<1> DEFINE w == [x \in D |-> u[x] + v[x]]
<1>1. Total(u) = Sums(u)[D] /\ Total(v) = Sums(v)[D] /\ Total(w) = Sums(w)[D]
  BY TotalIsSum
<1> QED
  BY <1>1, SumsAdd

\* A function on a finite set has a largest value.
LEMMA HasLargest ==
  ASSUME NEW D, IsFiniteSet(D), NEW v \in [D -> Nat]
  PROVE  D # {} => \E m \in D : \A x \in D : v[x] <= v[m]
<1> DEFINE Has(T) == \E m \in T : \A x \in T : v[x] <= v[m]
           B == {T \in SUBSET D : T # {} /\ ~Has(T)}
<1>1. ASSUME NEW T \in SUBSET D, \A x \in T : T \ {x} \notin B
      PROVE  T \notin B
  <2> SUFFICES ASSUME T # {} PROVE Has(T)
    OBVIOUS
  <2>1. PICK y \in T : TRUE
    OBVIOUS
  <2>2. CASE T = {y}
    BY <2>2
  <2>3. CASE T # {y}
    <3>1. T \ {y} # {} /\ T \ {y} \in SUBSET D
      BY <2>1, <2>3
    <3>2. Has(T \ {y})
      BY <1>1, <3>1
    <3>3. PICK m \in T \ {y} : \A x \in T \ {y} : v[x] <= v[m]
      BY <3>2
    <3>4. \A x \in T : v[x] \in Nat
      OBVIOUS
    <3>5. CASE v[y] <= v[m]
      BY <3>3, <3>5
    <3>6. CASE v[m] <= v[y]
      <4>1. \A x \in T \ {y} : v[x] <= v[y]
        BY <3>3, <3>4, <3>6
      <4>2. v[y] <= v[y]
        BY <3>4
      <4> QED
        BY <4>1, <4>2
    <3> QED
      BY <3>4, <3>5, <3>6
  <2> QED
    BY <2>2, <2>3
<1>2. B \in SUBSET SUBSET D
  OBVIOUS
<1>3. B = {}
  <2> HIDE DEF B
  <2>1. \A T \in SUBSET D : (\A x \in T : T \ {x} \notin B) => T \notin B
    BY <1>1
  <2> QED
    BY <1>2, <2>1, ByRemoval
<1> QED
  BY <1>3

(* Max of the values of a function on a finite set is one of them. *)
LEMMA LargestValue ==
  ASSUME NEW D, IsFiniteSet(D), D # {}, NEW v \in [D -> Nat]
  PROVE  \E m \in D : v[m] = Max({v[x] : x \in D}) /\ \A x \in D : v[x] <= v[m]
<1>5. PICK m \in D : \A x \in D : v[x] <= v[m]
  BY HasLargest
<1> DEFINE V == {v[x] : x \in D}
<1>6. v[m] \in V /\ \A y \in V : v[m] >= y
  BY <1>5
<1>7. Max(V) \in V /\ \A y \in V : Max(V) >= y
  BY <1>6 DEF Max
<1>8. Max(V) >= v[m] /\ v[m] >= Max(V) /\ Max(V) \in Nat /\ v[m] \in Nat
  BY <1>6, <1>7
<1>9. Max(V) = v[m]
  BY <1>8
<1> QED
  BY <1>5, <1>9

\* Multiplication by a number keeps to the numbers and distributes.
LEMMA Distributes ==
  ASSUME NEW a \in Nat, NEW x \in Nat, NEW y \in Nat
  PROVE  a * (x + y) = a * x + a * y /\ a * x \in Nat /\ a * y \in Nat
OBVIOUS

\* A row, a column and the sums by column of a matrix of tasks, weighted by what a task asks.
Weighted(S, a, tasks) == [s \in S |-> a[s] * tasks[s]]
Column(I, m, s) == [j \in I |-> m[j][s]]
Spread(S, I, a, m) == [s \in S |-> a[s] * Total([i \in I |-> m[i][s]])]

\* One column of a matrix, one row taken out.
LEMMA ColumnSums ==
  ASSUME NEW S, NEW I, IsFiniteSet(I), NEW m \in [I -> [S -> Nat]], NEW s \in S,
         NEW J \in SUBSET I, NEW i \in J
  PROVE  Sums(Column(I, m, s))[J] = m[i][s] + Sums(Column(I, m, s))[J \ {i}]
<1> DEFINE v == [j \in I |-> m[j][s]]
<1>1. v \in [I -> Nat]
  OBVIOUS
<1>2. Sums(v)[J] = v[i] + Sums(v)[J \ {i}]
  <2> HIDE DEF v
  <2> QED
    BY ONLY IsFiniteSet(I), <1>1, J \in SUBSET I, i \in J, SumsRemove
<1> QED
  BY <1>2 DEF Column

\* What every instance has within a bound, the fleet has within its size times the bound:
\* the sums by row and by column are the same.
LEMMA FleetHolds ==
  ASSUME NEW S, IsFiniteSet(S), NEW I, IsFiniteSet(I), NEW a \in [S -> Nat], NEW c \in Nat,
         NEW m \in [I -> [S -> Nat]],
         \A i \in I : Total(Weighted(S, a, m[i])) <= c
  PROVE  Total(Spread(S, I, a, m)) <= Cardinality(I) * c
<1> DEFINE Col(s) == [i \in I |-> m[i][s]]
           Part(J) == [s \in S |-> a[s] * Sums(Col(s))[J]]
           B == {J \in SUBSET I : ~(Total(Part(J)) <= Cardinality(J) * c)}
<1>2. \A s \in S : Col(s) \in [I -> Nat]
  OBVIOUS
<1>3. ASSUME NEW s \in S, NEW J \in SUBSET I
      PROVE  Sums(Col(s))[J] \in Nat
  <2> HIDE DEF Col
  <2> QED
    BY <1>2, SumsTyped
<1>4. ASSUME NEW s \in S, NEW J \in SUBSET I, NEW i \in J
      PROVE  Sums(Col(s))[J] = m[i][s] + Sums(Col(s))[J \ {i}]
  <2>1. Sums(Column(I, m, s))[J] = m[i][s] + Sums(Column(I, m, s))[J \ {i}]
    BY ONLY IsFiniteSet(I), m \in [I -> [S -> Nat]], s \in S, J \in SUBSET I, i \in J,
            ColumnSums
  <2> QED
    BY <2>1 DEF Column
<1>5. ASSUME NEW J \in SUBSET I
      PROVE  Part(J) \in [S -> Nat]
  <2>1. ASSUME NEW s \in S PROVE a[s] * Sums(Col(s))[J] \in Nat
    <3>1. a[s] \in Nat /\ Sums(Col(s))[J] \in Nat
      BY <1>3
    <3> QED
      BY <3>1, Distributes
  <2> QED
    BY <2>1
<1>6. ASSUME NEW J \in SUBSET I, \A i \in J : J \ {i} \notin B
      PROVE  J \notin B
  <2>1. CASE J = {}
    <3>1. ASSUME NEW s \in S PROVE Part({})[s] = 0
      <4>1. Sums(Col(s))[{}] = 0
        <5> HIDE DEF Col
        <5> QED
          BY <1>2, SumsStart
      <4>2. a[s] * 0 = 0
        OBVIOUS
      <4> QED
        BY <4>1, <4>2
    <3>2. Part({}) \in [S -> Nat]
      BY <1>5
    <3> HIDE DEF Part
    <3>3. Total(Part({})) = 0
      BY <3>1, <3>2, TotalOfZeros
    <3>4. Cardinality({}) * c = 0
      BY FS_EmptySet
    <3> QED
      BY <2>1, <3>3, <3>4
  <2>2. CASE J # {}
    <3>1. PICK i \in J : TRUE
      BY <2>2
    <3> DEFINE R == J \ {i}
               u == [s \in S |-> a[s] * m[i][s]]
               w == Part(R)
               k == Cardinality(R)
    <3>2. Total(w) <= k * c
      BY <1>6, <3>1
    <3>3. IsFiniteSet(J) /\ Cardinality(J) = k + 1 /\ k \in Nat
      <4>1. IsFiniteSet(J)
        BY FS_Subset
      <4>2. IsFiniteSet(R) /\ Cardinality(R) = Cardinality(J) - 1
        BY <3>1, <4>1, FS_RemoveElement
      <4>3. Cardinality(J) \in Nat /\ Cardinality(R) \in Nat
        BY <4>1, <4>2, FS_CardinalityType
      <4> QED
        BY <4>1, <4>2, <4>3
    <3>4. u \in [S -> Nat] /\ w \in [S -> Nat]
      <4>1. ASSUME NEW s \in S PROVE a[s] * m[i][s] \in Nat
        BY Distributes
      <4>2. w \in [S -> Nat]
        BY <1>5
      <4> QED
        BY <4>1, <4>2
    <3>5. Total(u) <= c
      BY DEF Weighted
    <3>6. Part(J) = [s \in S |-> u[s] + w[s]]
      <4> SUFFICES ASSUME NEW s \in S
                   PROVE  a[s] * Sums(Col(s))[J] = a[s] * m[i][s] + a[s] * Sums(Col(s))[R]
        OBVIOUS
      <4>1. Sums(Col(s))[J] = m[i][s] + Sums(Col(s))[R]
        BY <1>4
      <4>2. Sums(Col(s))[R] \in Nat
        BY <1>3
      <4>3. a[s] \in Nat /\ m[i][s] \in Nat
        OBVIOUS
      <4> HIDE DEF Col, R
      <4> QED
        BY <4>1, <4>2, <4>3, Distributes
    <3>7. Total([s \in S |-> u[s] + w[s]]) = Total(u) + Total(w)
      <4> HIDE DEF u, w
      <4> QED
        BY <3>4, TotalAdds
    <3>8. Total(u) \in Nat /\ Total(w) \in Nat
      <4> HIDE DEF u, w
      <4> QED
        BY <3>4, TotalTyped
    <3>9. (k + 1) * c = k * c + c /\ k * c \in Nat
      <4> HIDE DEF k
      <4>1. c * (k + 1) = c * k + c * 1 /\ c * k \in Nat
        BY <3>3, Distributes
      <4>2. (k + 1) * c = c * (k + 1) /\ k * c = c * k /\ c * 1 = c
        BY <3>3
      <4> QED
        BY <4>1, <4>2
    <3> HIDE DEF u, w, k, Part
    <3>10. Total(Part(J)) <= Cardinality(J) * c
      BY <3>2, <3>3, <3>5, <3>6, <3>7, <3>8, <3>9
    <3> QED
      BY <3>10
  <2> QED
    BY <2>1, <2>2
<1>7. B \in SUBSET SUBSET I
  OBVIOUS
<1>8. B = {}
  <2> HIDE DEF B
  <2> QED
    BY <1>6, <1>7, ByRemoval
<1>9. Total(Part(I)) <= Cardinality(I) * c
  BY <1>8
<1>10. ASSUME NEW s \in S PROVE Total(Col(s)) = Sums(Col(s))[I]
  BY TotalIsSum
<1>11. Part(I) = [s \in S |-> a[s] * Total(Col(s))]
  BY <1>10
<1> QED
  BY <1>9, <1>11 DEF Spread

-----------------------------------------------------------------------------
(***************************************************************************)
(* Ec2Sizing.                                                              *)
(* For every finite set of services, every ladder of shapes, demand and    *)
(* request: type correctness, and that the sizing is honest.               *)
(***************************************************************************)
\* The fields of a demand are numbers.
LEMMA DemandTyped ==
  ASSUME taskDemand \in TaskDemands, NEW s \in SizedServices
  PROVE  /\ taskDemand[s].cpu \in Nat /\ taskDemand[s].mem \in Nat
         /\ taskDemand[s].replicas \in Nat /\ taskDemand[s].percent \in Nat
BY SizingAssumption

\* The fields of a request.
LEMMA RequestTyped ==
  ASSUME asked \in Requests
  PROVE  /\ asked.type \in DOMAIN Shapes \cup {"auto"}
         /\ asked.desired \in Nat /\ asked.max \in Nat
         /\ asked.bridge \in BOOLEAN /\ asked.trunking \in BOOLEAN /\ asked.rolling \in BOOLEAN
BY SizingAssumption

\* What a shape of KNOWN_INSTANCE_SHAPES offers.
LEMMA ShapeTyped ==
  ASSUME NEW t \in DOMAIN Shapes
  PROVE  /\ Shapes[t].vcpu \in Nat \ {0} /\ Shapes[t].mib \in Nat \ {0}
         /\ Shapes[t].mib - RESERVED_MEMORY_MIB \in Nat
         /\ EniSlots(t) \in Nat \ {0} /\ EffectiveSlots(t) \in Nat
         /\ t # "none" /\ t # "auto"
BY SizingAssumption DEF RESERVED_MEMORY_MIB, EniSlots, EffectiveSlots

\* Rounding CPU units up to whole vCPUs decides as comparing the units does.
LEMMA CeilIsBound ==
  ASSUME NEW c \in Nat, NEW v \in Nat
  PROVE  v >= Ceil(c, 1024) <=> c <= v * 1024
BY DEF Ceil

(* A task fits on a type, by what an instance of it offers. *)
Hosts(t, s) ==
  /\ taskDemand[s].cpu <= Shapes[t].vcpu * 1024
  /\ taskDemand[s].mem <= Shapes[t].mib - RESERVED_MEMORY_MIB

(* _smallest_fit compares the largest demands with a shape: every task fits on it. *)
LEMMA LargestFitsIsAllFit ==
  ASSUME taskDemand \in TaskDemands, NEW t \in DOMAIN Shapes
  PROVE  Declared = {} \/ FitsLargest(t) <=> \A s \in SizedServices : Hosts(t, s)
<1> DEFINE cpus == [s \in Declared |-> taskDemand[s].cpu]
           mems == [s \in Declared |-> taskDemand[s].mem]
           v == Shapes[t].vcpu
           a == Shapes[t].mib - RESERVED_MEMORY_MIB
<1>1. cpus \in [Declared -> Nat] /\ mems \in [Declared -> Nat] /\ Declared \subseteq SizedServices
  BY DemandTyped DEF Declared
<1>2. v \in Nat /\ a \in Nat
  BY ShapeTyped
<1>3. IsFiniteSet(Declared)
  BY <1>1, SizingAssumption, FS_Subset
<1>4. ASSUME NEW s \in SizedServices \ Declared
      PROVE  Hosts(t, s)
  <2>1. taskDemand[s].cpu = 0 /\ taskDemand[s].mem = 0
    BY DemandTyped DEF Declared
  <2> QED
    BY <1>2, <2>1 DEF Hosts
<1>5. CASE Declared = {}
  BY <1>4, <1>5
<1>6. CASE Declared # {}
  <2> HIDE DEF cpus, mems
  <2>1. PICK c \in Declared : /\ cpus[c] = Max({cpus[x] : x \in Declared})
                              /\ \A x \in Declared : cpus[x] <= cpus[c]
    BY ONLY <1>1, <1>3, <1>6, LargestValue
  <2>2. PICK m \in Declared : /\ mems[m] = Max({mems[x] : x \in Declared})
                              /\ \A x \in Declared : mems[x] <= mems[m]
    BY ONLY <1>1, <1>3, <1>6, LargestValue
  <2>3. /\ {cpus[x] : x \in Declared} = {taskDemand[s].cpu : s \in Declared}
        /\ {mems[x] : x \in Declared} = {taskDemand[s].mem : s \in Declared}
    BY DEF cpus, mems
  <2>4. FitsLargest(t) <=> v >= Ceil(cpus[c], 1024) /\ a >= mems[m]
    <3>1. FitsLargest(t) <=> /\ v >= Ceil(Max({taskDemand[s].cpu : s \in Declared}), 1024)
                             /\ a >= Max({taskDemand[s].mem : s \in Declared})
      BY DEF FitsLargest
    <3>2. /\ Max({taskDemand[s].cpu : s \in Declared}) = cpus[c]
          /\ Max({taskDemand[s].mem : s \in Declared}) = mems[m]
      BY <2>1, <2>2, <2>3
    <3> QED
      BY <3>1, <3>2
  <2>5. cpus[c] \in Nat /\ mems[m] \in Nat
    BY <1>1
  <2>6. v >= Ceil(cpus[c], 1024) <=> cpus[c] <= v * 1024
    BY <1>2, <2>5, CeilIsBound
  <2>7. \A s \in Declared : cpus[s] = taskDemand[s].cpu /\ mems[s] = taskDemand[s].mem
    BY DEF cpus, mems
  <2>8. ASSUME FitsLargest(t), NEW s \in Declared
        PROVE  Hosts(t, s)
    <3>1. cpus[s] <= cpus[c] /\ mems[s] <= mems[m] /\ cpus[s] \in Nat /\ mems[s] \in Nat
      BY <1>1, <2>1, <2>2
    <3>2. cpus[c] <= v * 1024 /\ mems[m] <= a
      BY <1>2, <2>4, <2>5, <2>6, <2>8
    <3>3. cpus[s] <= v * 1024 /\ mems[s] <= a
      BY <1>2, <2>5, <3>1, <3>2
    <3> QED
      BY <2>7, <3>3 DEF Hosts
  <2>9. ASSUME \A s \in SizedServices : Hosts(t, s)
        PROVE  FitsLargest(t)
    <3>1. Hosts(t, c) /\ Hosts(t, m)
      BY <1>1, <2>9
    <3>2. cpus[c] <= v * 1024 /\ mems[m] <= a
      BY <2>7, <3>1 DEF Hosts
    <3> QED
      BY <1>2, <2>4, <2>5, <2>6, <3>2
  <2> QED
    BY <1>4, <1>6, <2>8, <2>9
<1> QED
  BY <1>5, <1>6

\* An instance with no task on it uses nothing.
LEMMA NothingPlaced ==
  ASSUME NEW a \in [SizedServices -> Nat]
  PROVE  Total([s \in SizedServices |-> a[s] * Empty[s]]) = 0 /\ Total(Empty) = 0
<1> DEFINE v == [s \in SizedServices |-> a[s] * Empty[s]]
<1>1. v \in [SizedServices -> Nat] /\ \A s \in SizedServices : v[s] = 0
  <2>1. ASSUME NEW s \in SizedServices PROVE a[s] * Empty[s] = 0
    BY DEF Empty
  <2> QED
    BY <2>1
<1>2. Empty \in [SizedServices -> Nat] /\ \A s \in SizedServices : Empty[s] = 0
  BY DEF Empty
<1> HIDE DEF v
<1>3. Total(v) = 0
  BY ONLY <1>1, SizingAssumption, TotalOfZeros
<1>4. Total(Empty) = 0
  BY ONLY <1>2, SizingAssumption, TotalOfZeros
<1> QED
  BY <1>3, <1>4 DEF v

\* An instance with one task on it uses what that task asks.
LEMMA OnePlaced ==
  ASSUME NEW a \in [SizedServices -> Nat], NEW d \in SizedServices
  PROVE  /\ Total([s \in SizedServices |-> a[s] * [Empty EXCEPT ![d] = 1][s]]) = a[d]
         /\ Total([Empty EXCEPT ![d] = 1]) = 1
<1> DEFINE e == [Empty EXCEPT ![d] = 1]
           v == [s \in SizedServices |-> a[s] * e[s]]
<1>1. e \in [SizedServices -> Nat] /\ e[d] = 1 /\ \A s \in SizedServices \ {d} : e[s] = 0
  BY DEF Empty
<1>2. v \in [SizedServices -> Nat] /\ v[d] = a[d] /\ \A s \in SizedServices \ {d} : v[s] = 0
  <2> HIDE DEF e
  <2>1. a[d] * e[d] = a[d]
    BY <1>1
  <2>2. ASSUME NEW s \in SizedServices \ {d} PROVE a[s] * e[s] = 0
    BY <1>1
  <2>3. \A s \in SizedServices : a[s] * e[s] \in Nat
    <3>1. ASSUME NEW s \in SizedServices PROVE a[s] * e[s] \in Nat
      BY <2>1, <2>2
    <3> QED
      BY <3>1
  <2> QED
    BY <2>1, <2>2, <2>3
<1> HIDE DEF e, v
<1>3. Total(v) = v[d]
  <2>1. v \in [SizedServices -> Nat]
    BY <1>2
  <2>2. \A s \in SizedServices \ {d} : v[s] = 0
    BY <1>2
  <2> QED
    BY ONLY <2>1, <2>2, SizingAssumption, d \in SizedServices, TotalOfOne
<1>4. Total(e) = e[d]
  <2>1. e \in [SizedServices -> Nat]
    BY <1>1
  <2>2. \A s \in SizedServices \ {d} : e[s] = 0
    BY <1>1
  <2> QED
    BY ONLY <2>1, <2>2, SizingAssumption, d \in SizedServices, TotalOfOne
<1> QED
  BY <1>1, <1>2, <1>3, <1>4 DEF e, v

\* EachFits, without the sums of HasRoom.
LEMMA EachFitsIs ==
  ASSUME taskDemand \in TaskDemands, asked \in Requests, HostType \in DOMAIN Shapes
  PROVE  EachFits <=> \A s \in SizedServices : Hosts(HostType, s)
<1> DEFINE cpus == [s \in SizedServices |-> taskDemand[s].cpu]
           mems == [s \in SizedServices |-> taskDemand[s].mem]
<1>1. cpus \in [SizedServices -> Nat] /\ mems \in [SizedServices -> Nat]
  BY DemandTyped
<1>2. ASSUME NEW d \in SizedServices
      PROVE  HasRoom([Empty EXCEPT ![d] = 1]) <=> Hosts(HostType, d)
  <2> DEFINE e == [Empty EXCEPT ![d] = 1]
  <2> HIDE DEF e
  <2>1. /\ Total([s \in SizedServices |-> cpus[s] * e[s]]) = cpus[d]
        /\ Total([s \in SizedServices |-> mems[s] * e[s]]) = mems[d]
        /\ Total(e) = 1
    <3> HIDE DEF cpus, mems
    <3> QED
      BY <1>1, OnePlaced DEF e
  <2>2. /\ [s \in SizedServices |-> cpus[s] * e[s]]
             = [s \in SizedServices |-> taskDemand[s].cpu * e[s]]
        /\ [s \in SizedServices |-> mems[s] * e[s]]
             = [s \in SizedServices |-> taskDemand[s].mem * e[s]]
    OBVIOUS
  <2>3. EffectiveSlots(HostType) > 0 => 1 <= EffectiveSlots(HostType)
    BY ShapeTyped
  <2>4. HasRoom(e) <=> Hosts(HostType, d)
    BY <2>1, <2>2, <2>3 DEF HasRoom, Hosts
  <2> QED
    BY <2>4 DEF e
<1> QED
  BY <1>2 DEF EachFits

\* The order of the factors in check_fixed_shape_capacity.
LEMMA FleetCapacity ==
  ASSUME NEW n \in Nat, NEW v \in Nat
  PROVE  n * (v * 1024) = n * v * 1024
OBVIOUS

(* ECS cannot place what check_fixed_shape_capacity finds too much for the fleet: the tasks *)
(* of each instance are within what it offers, so those of all are within the totals.       *)
LEMMA TooSmallCannotHost ==
  ASSUME taskDemand \in TaskDemands, asked \in Requests,
         NEW t \in DOMAIN Shapes, HostType = t, NEW n \in Nat,
         load \in [1..n -> [SizedServices -> Nat]], \A i \in 1..n : HasRoom(load[i]),
         TooSmall(t, n)
  PROVE  ~AllPlaced
<1> SUFFICES ASSUME AllPlaced PROVE FALSE
  OBVIOUS
<1> DEFINE S == SizedServices
           I == 1..n
           cpus == [s \in S |-> taskDemand[s].cpu]
           mems == [s \in S |-> taskDemand[s].mem]
           ones == [s \in S |-> 1]
           reps == [s \in S |-> taskDemand[s].replicas]
           slots == EffectiveSlots(t)
<1>1. cpus \in [S -> Nat] /\ mems \in [S -> Nat] /\ ones \in [S -> Nat] /\ reps \in [S -> Nat]
  BY DemandTyped
<1>2. IsFiniteSet(S) /\ IsFiniteSet(I) /\ Cardinality(I) = n
  BY SizingAssumption, FS_Interval
<1>3. /\ Shapes[t].vcpu \in Nat /\ Shapes[t].mib \in Nat /\ slots \in Nat
      /\ Shapes[t].vcpu * 1024 \in Nat
  BY ShapeTyped
<1>4. \A s \in S : Total([i \in I |-> load[i][s]]) = reps[s]
  BY DEF AllPlaced, Placed
<1>5. ASSUME NEW a \in [S -> Nat], NEW c \in Nat,
             \A i \in I : Total([s \in S |-> a[s] * load[i][s]]) <= c
      PROVE  Total([s \in S |-> a[s] * reps[s]]) <= n * c
  <2>1. [s \in S |-> a[s] * reps[s]] = [s \in S |-> a[s] * Total([i \in I |-> load[i][s]])]
    BY <1>4
  <2>2. load \in [I -> [S -> Nat]]
    OBVIOUS
  <2>3. \A i \in I : Total(Weighted(S, a, load[i])) <= c
    BY <1>5 DEF Weighted
  <2>4. Total(Spread(S, I, a, load)) <= Cardinality(I) * c
    <3> HIDE DEF S, I
    <3> QED
      BY ONLY <1>2, <2>2, <2>3, a \in [S -> Nat], c \in Nat, FleetHolds
  <2> QED
    BY <1>2, <2>1, <2>4 DEF Spread
<1>6. ASSUME NEW a \in [S -> Nat]
      PROVE  /\ [s \in S |-> a[s] * reps[s]] \in [S -> Nat]
             /\ Total([s \in Declared |-> a[s] * reps[s]]) <= Total([s \in S |-> a[s] * reps[s]])
  <2> DEFINE v == [s \in S |-> a[s] * reps[s]]
             u == [s \in Declared |-> a[s] * reps[s]]
  <2>1. \A s \in S : a[s] * reps[s] \in Nat
    <3>1. ASSUME NEW s \in S PROVE a[s] * reps[s] \in Nat
      <4>1. a[s] \in Nat /\ reps[s] \in Nat
        BY <1>1
      <4> HIDE DEF reps
      <4> QED
        BY <4>1, Distributes
    <3> QED
      BY <3>1
  <2>2. Declared \in SUBSET S
    BY DEF Declared
  <2>3. v \in [S -> Nat] /\ u \in [Declared -> Nat]
    BY <2>1, <2>2
  <2>4. \A s \in Declared : u[s] <= v[s]
    BY <2>1, <2>2
  <2>5. Total(u) <= Total(v)
    <3> HIDE DEF u, v, S
    <3> QED
      BY ONLY <1>2, <2>2, <2>3, <2>4, TotalGrows
  <2> QED
    BY <2>3, <2>5
<1>7. ASSUME NEW a \in [S -> Nat], NEW c \in Nat,
             \A i \in I : Total([s \in S |-> a[s] * load[i][s]]) <= c
      PROVE  ~(Total([s \in Declared |-> a[s] * reps[s]]) > n * c)
  <2> DEFINE all == Total([s \in S |-> a[s] * reps[s]])
             some == Total([s \in Declared |-> a[s] * reps[s]])
  <2>1. all <= n * c
    BY <1>5, <1>7
  <2>2. some <= all
    BY <1>6
  <2>3. all \in Nat /\ some \in Nat
    <3>1. [s \in S |-> a[s] * reps[s]] \in [S -> Nat]
      BY <1>6
    <3>2. [s \in Declared |-> a[s] * reps[s]] \in [Declared -> Nat]
      BY <3>1 DEF Declared
    <3>3. IsFiniteSet(Declared)
      BY <1>2, FS_Subset DEF Declared
    <3>4. all \in Nat
      BY ONLY <1>2, <3>1, TotalTyped
    <3>5. some \in Nat
      BY ONLY <3>2, <3>3, TotalTyped
    <3> QED
      BY <3>4, <3>5
  <2>4. n * c \in Nat
    BY Distributes
  <2> HIDE DEF all, some
  <2>5. ~(some > n * c)
    BY <2>1, <2>2, <2>3, <2>4
  <2> QED
    BY <2>5 DEF some
<1>8. CASE Declared # {} /\ TotalCpu(Steady) > n * Shapes[t].vcpu * 1024
  <2> DEFINE c == Shapes[t].vcpu * 1024
  <2>1. ASSUME NEW i \in I PROVE Total([s \in S |-> cpus[s] * load[i][s]]) <= c
    <3>1. [s \in S |-> cpus[s] * load[i][s]] = [s \in S |-> taskDemand[s].cpu * load[i][s]]
      OBVIOUS
    <3>2. HasRoom(load[i]) /\ HostType = t
      OBVIOUS
    <3> QED
      BY ONLY <3>1, <3>2 DEF HasRoom
  <2>2. ~(Total([s \in Declared |-> cpus[s] * reps[s]]) > n * c)
    <3>1. c \in Nat
      BY <1>3
    <3> HIDE DEF cpus, reps, c, S, I
    <3> QED
      BY ONLY <1>1, <1>7, <2>1, <3>1
  <2>3. [s \in Declared |-> cpus[s] * reps[s]] = [s \in Declared |-> taskDemand[s].cpu * Steady[s]]
    BY DEF Declared, Steady
  <2>4. ~(TotalCpu(Steady) > n * c)
    BY ONLY <2>2, <2>3 DEF TotalCpu
  <2>5. n * c = n * Shapes[t].vcpu * 1024
    BY <1>3, FleetCapacity
  <2> QED
    BY <1>8, <2>4, <2>5
<1>9. CASE Declared # {} /\ TotalMem(Steady) > n * Shapes[t].mib
  <2> DEFINE c == Shapes[t].mib
  <2>1. ASSUME NEW i \in I PROVE Total([s \in S |-> mems[s] * load[i][s]]) <= c
    <3>1. [s \in S |-> mems[s] * load[i][s]] = [s \in S |-> taskDemand[s].mem * load[i][s]]
      OBVIOUS
    <3>2. Total([s \in S |-> mems[s] * load[i][s]]) <= c - RESERVED_MEMORY_MIB
      BY <3>1 DEF HasRoom
    <3>3. Total([s \in S |-> mems[s] * load[i][s]]) \in Nat
      <4>1. ASSUME NEW s \in S PROVE mems[s] * load[i][s] \in Nat
        <5>1. mems[s] \in Nat /\ load[i][s] \in Nat
          BY <1>1
        <5> HIDE DEF mems
        <5> QED
          BY <5>1, Distributes
      <4>2. [s \in S |-> mems[s] * load[i][s]] \in [S -> Nat]
        BY <4>1
      <4> QED
        BY ONLY <1>2, <4>2, TotalTyped
    <3> HIDE DEF mems
    <3> QED
      BY <1>3, <3>2, <3>3 DEF RESERVED_MEMORY_MIB
  <2>2. ~(Total([s \in Declared |-> mems[s] * reps[s]]) > n * c)
    <3>1. c \in Nat
      BY <1>3
    <3> HIDE DEF mems, reps, c, S, I
    <3> QED
      BY ONLY <1>1, <1>7, <2>1, <3>1
  <2>3. [s \in Declared |-> mems[s] * reps[s]] = [s \in Declared |-> taskDemand[s].mem * Steady[s]]
    BY DEF Declared, Steady
  <2>4. ~(TotalMem(Steady) > n * c)
    BY ONLY <2>2, <2>3 DEF TotalMem
  <2> QED
    BY <1>9, <2>4
<1>10. CASE slots > 0 /\ TaskCount(Steady) > n * slots
  <2>1. ASSUME NEW i \in I PROVE Total([s \in S |-> ones[s] * load[i][s]]) <= slots
    <3>1. [s \in S |-> ones[s] * load[i][s]] = load[i]
      <4>1. load[i] \in [S -> Nat]
        OBVIOUS
      <4> QED
        BY <4>1
    <3>2. Total(load[i]) <= slots
      BY <1>10 DEF HasRoom
    <3> HIDE DEF ones
    <3> QED
      BY <3>1, <3>2
  <2>2. Total([s \in S |-> ones[s] * reps[s]]) <= n * slots
    <3> HIDE DEF ones, reps, slots, S, I
    <3> QED
      BY ONLY <1>1, <1>3, <1>5, <2>1
  <2>3. [s \in S |-> ones[s] * reps[s]] = Steady
    <3>1. ASSUME NEW s \in S PROVE ones[s] * reps[s] = reps[s]
      <4>1. reps[s] \in Nat
        BY <1>1
      <4> QED
        BY <4>1
    <3>2. Steady = [s \in S |-> reps[s]]
      BY DEF Steady
    <3> QED
      BY <3>1, <3>2
  <2>4. Total(Steady) \in Nat /\ n * slots \in Nat
    <3>1. Steady \in [S -> Nat]
      BY <1>1 DEF Steady
    <3>2. Total(Steady) \in Nat
      BY ONLY <1>2, <3>1, TotalTyped
    <3> QED
      BY <1>3, <3>2, Distributes
  <2>5. Total(Steady) <= n * slots
    BY <2>2, <2>3
  <2> HIDE DEF slots
  <2> QED
    BY <1>10, <2>4, <2>5 DEF TaskCount
<1> QED
  BY <1>8, <1>9, <1>10 DEF TooSmall

-----------------------------------------------------------------------------
(* The instances ECS places on for a named instance type. *)
Instances == Given(asked.desired, 1)

\* The strengthening.  No instance is over what it offers, a fleet that was accepted has a
\* type on which the largest demands fit, and a named type was refused for a reason.
SizeInv ==
  /\ SizeTypeOK
  /\ verdict = "open" => load = <<>> /\ fleet = NoFleet
  /\ verdict = "rejected" => fleet = NoFleet
  /\ verdict = "sized" =>
       /\ fleet.type \in DOMAIN Shapes
       /\ asked.type # "auto" => fleet.type = asked.type
       /\ Declared = {} \/ FitsLargest(fleet.type)
  /\ verdict = "rejected" /\ asked.type # "auto" =>
       (Declared # {} /\ ~FitsLargest(asked.type)) \/ TooSmall(asked.type, Instances)
  /\ verdict # "open" /\ asked.type # "auto" =>
       load \in [1..Instances -> [SizedServices -> Nat]]
  /\ verdict # "open" /\ HostType # "auto" =>
       /\ HostType \in DOMAIN Shapes
       /\ \A i \in DOMAIN load : HasRoom(load[i])
       /\ \E k \in Nat : load \in [1..k -> [SizedServices -> Nat]]

(* What a run of SizeInv says of the property. *)
LEMMA SizeInvIsHonest ==
  ASSUME SizeInv
  PROVE  SizingIsHonest
<1>1. taskDemand \in TaskDemands /\ asked \in Requests
  BY DEF SizeInv, SizeTypeOK
<1>2. ASSUME verdict = "sized" PROVE EachFits
  <2>1. HostType = fleet.type /\ fleet.type \in DOMAIN Shapes
    BY <1>2, ShapeTyped DEF SizeInv, HostType
  <2>2. \A s \in SizedServices : Hosts(fleet.type, s)
    BY <1>1, <1>2, <2>1, LargestFitsIsAllFit DEF SizeInv
  <2> QED
    BY <1>1, <2>1, <2>2, EachFitsIs
<1>3. ASSUME verdict = "rejected", asked.type # "auto" PROVE ~AllPlaced \/ ~EachFits
  <2>1. HostType = asked.type /\ asked.type \in DOMAIN Shapes
    BY <1>1, <1>3, RequestTyped DEF SizeInv, HostType, NoFleet
  <2>2. CASE Declared # {} /\ ~FitsLargest(asked.type)
    <3>1. ~(\A s \in SizedServices : Hosts(asked.type, s))
      BY <1>1, <2>1, <2>2, LargestFitsIsAllFit
    <3> QED
      BY <1>1, <2>1, <3>1, EachFitsIs
  <2>3. CASE TooSmall(asked.type, Instances)
    <3>1. load \in [1..Instances -> [SizedServices -> Nat]]
      BY <1>3 DEF SizeInv
    <3>2. DOMAIN load = 1..Instances
      BY <3>1
    <3>3. \A i \in 1..Instances : HasRoom(load[i])
      BY <1>3, <2>1, <3>2, ShapeTyped DEF SizeInv
    <3>4. Instances \in Nat
      BY <1>1, RequestTyped DEF Instances, Given
    <3> QED
      BY <1>1, <2>1, <2>3, <3>1, <3>3, <3>4, TooSmallCannotHost
  <2> QED
    BY <1>3, <2>2, <2>3 DEF SizeInv
<1> QED
  BY <1>2, <1>3 DEF SizingIsHonest

\* The start satisfies the invariant.
LEMMA SizeInitInv ==
  ASSUME SizeInit
  PROVE  SizeInv
BY DEF SizeInit, SizeInv, SizeTypeOK, NoFleet, HostType

\* peak_replicas of a service is a number.
LEMMA PeakTyped ==
  ASSUME NEW d \in [cpu : Nat, mem : Nat, replicas : Nat, percent : Nat]
  PROVE  PeakReplicas(d) \in Nat
<1> DEFINE r == d.replicas
           p == (r * d.percent) \div 100
<1>1. r \in Nat /\ p \in Nat
  <2>1. r \in Nat /\ d.percent \in Nat
    OBVIOUS
  <2>2. r * d.percent \in Nat
    BY <2>1, Distributes
  <2> HIDE DEF r
  <2> QED
    BY <2>1, <2>2
<1> HIDE DEF r, p
<1>2. \E m \in {r, p} : \A y \in {r, p} : m >= y
  BY <1>1
<1>3. Max({r, p}) \in {r, p}
  BY <1>2 DEF Max
<1> QED
  BY <1>1, <1>3 DEF PeakReplicas, r, p

\* The replicas auto_size counts.
LEMMA ReplicasTyped ==
  ASSUME taskDemand \in TaskDemands
  PROVE  Replicas \in [SizedServices -> Nat]
<1>1. taskDemand \in [SizedServices -> [cpu : Nat, mem : Nat, replicas : Nat, percent : Nat]]
  BY SizingAssumption
<1> QED
  BY <1>1, PeakTyped DEF Replicas, Steady

\* The totals of CPU, memory and tasks are numbers.
LEMMA TotalsTyped ==
  ASSUME taskDemand \in TaskDemands, NEW n \in [SizedServices -> Nat]
  PROVE  TotalCpu(n) \in Nat /\ TotalMem(n) \in Nat /\ TaskCount(n) \in Nat
<1> DEFINE S == SizedServices
           cpus == [s \in Declared |-> taskDemand[s].cpu * n[s]]
           mems == [s \in Declared |-> taskDemand[s].mem * n[s]]
<1>1. Declared \in SUBSET SizedServices
  BY DEF Declared
<1>2. IsFiniteSet(SizedServices) /\ IsFiniteSet(Declared)
  BY <1>1, SizingAssumption, FS_Subset
<1>3. ASSUME NEW s \in Declared
      PROVE  taskDemand[s].cpu * n[s] \in Nat /\ taskDemand[s].mem * n[s] \in Nat
  <2>1. taskDemand[s].cpu \in Nat /\ taskDemand[s].mem \in Nat /\ n[s] \in Nat
    BY <1>1, DemandTyped
  <2> QED
    BY <2>1, Distributes
<1>4. cpus \in [Declared -> Nat] /\ mems \in [Declared -> Nat]
  BY <1>3
<1> HIDE DEF cpus, mems
<1>5. Total(cpus) \in Nat /\ Total(mems) \in Nat
  BY ONLY <1>2, <1>4, TotalTyped
<1>6. Total(n) \in Nat
  BY ONLY <1>2, n \in [SizedServices -> Nat], TotalTyped
<1> QED
  BY <1>5, <1>6 DEF TotalCpu, TotalMem, TaskCount, cpus, mems

\* A rounded-up quotient is an integer.
LEMMA CeilTyped ==
  ASSUME NEW a \in Nat, NEW b \in Nat \ {0}
  PROVE  Ceil(a, b) \in Int
BY DEF Ceil

\* auto_size asks for at least one instance.
LEMMA InstancesTyped ==
  ASSUME taskDemand \in TaskDemands, NEW t \in DOMAIN Shapes
  PROVE  InstancesFor(t) \in Nat \ {0}
<1> DEFINE a == Ceil(TotalCpu(Replicas) * 12, Shapes[t].vcpu * 1024 * 10)
           b == Ceil(TotalMem(Replicas) * 12, Shapes[t].mib * 10)
           c == Ceil(TaskCount(Replicas) * 12, EniSlots(t) * 10)
           V == {1, a, b, c}
<1>1. TotalCpu(Replicas) \in Nat /\ TotalMem(Replicas) \in Nat /\ TaskCount(Replicas) \in Nat
  BY ReplicasTyped, TotalsTyped
<1>2. /\ Shapes[t].vcpu \in Nat \ {0} /\ Shapes[t].mib \in Nat \ {0}
      /\ EniSlots(t) \in Nat \ {0}
  BY ShapeTyped
<1>3. /\ TotalCpu(Replicas) * 12 \in Nat /\ TotalMem(Replicas) * 12 \in Nat
      /\ TaskCount(Replicas) * 12 \in Nat
  BY <1>1
<1>4. /\ Shapes[t].vcpu * 1024 * 10 \in Nat \ {0} /\ Shapes[t].mib * 10 \in Nat \ {0}
      /\ EniSlots(t) * 10 \in Nat \ {0}
  BY <1>2
<1>5. a \in Int /\ b \in Int /\ c \in Int
  BY <1>3, <1>4, CeilTyped
<1> HIDE DEF a, b, c
<1>6. \E m \in V : \A y \in V : m >= y
  BY <1>5
<1>7. Max(V) \in V /\ \A y \in V : Max(V) >= y
  BY <1>6 DEF Max
<1>8. Max(V) \in Int /\ Max(V) >= 1
  BY <1>5, <1>7
<1> HIDE DEF V
<1>9. Max(V) \in Nat \ {0}
  BY <1>8
<1> QED
  BY <1>9 DEF InstancesFor, a, b, c, V

(* What only reads the demands and the request keeps its value while they are kept. *)
LEMMA DemandKept ==
  ASSUME UNCHANGED <<taskDemand, asked>>
  PROVE  /\ Declared' = Declared /\ Instances' = Instances
         /\ \A t : FitsLargest(t)' = FitsLargest(t)
         /\ \A t : EffectiveSlots(t)' = EffectiveSlots(t)
         /\ \A t, n : TooSmall(t, n)' = TooSmall(t, n)
<1>1. Declared' = Declared /\ Steady' = Steady /\ Instances' = Instances
  BY DEF Declared, Steady, Instances
<1>2. \A t : FitsLargest(t)' = FitsLargest(t)
  BY <1>1 DEF FitsLargest
<1>3. \A t : EffectiveSlots(t)' = EffectiveSlots(t)
  BY DEF EffectiveSlots
<1>4. \A n : TotalCpu(n)' = TotalCpu(n) /\ TotalMem(n)' = TotalMem(n)
  BY <1>1 DEF TotalCpu, TotalMem
<1>5. \A t, n : TooSmall(t, n)' = TooSmall(t, n)
  BY <1>1, <1>3, <1>4 DEF TooSmall, TaskCount
<1> QED
  BY <1>1, <1>2, <1>3, <1>5

\* What an instance has room for does not change while the demands and its type are kept.
LEMMA RoomKept ==
  ASSUME UNCHANGED <<taskDemand, asked>>, HostType' = HostType, NEW tasks
  PROVE  HasRoom(tasks)' = HasRoom(tasks)
<1>1. \A t : EffectiveSlots(t)' = EffectiveSlots(t)
  BY DemandKept
<1> QED
  BY <1>1 DEF HasRoom

(* An instance with no task on it has room for what it has. *)
LEMMA EmptyHasRoom ==
  ASSUME taskDemand \in TaskDemands, UNCHANGED <<taskDemand, asked>>, HostType' \in DOMAIN Shapes
  PROVE  HasRoom(Empty)'
<1> DEFINE cpus == [s \in SizedServices |-> taskDemand[s].cpu]
           mems == [s \in SizedServices |-> taskDemand[s].mem]
<1>1. cpus \in [SizedServices -> Nat] /\ mems \in [SizedServices -> Nat]
  BY DemandTyped
<1>2. /\ Total([s \in SizedServices |-> cpus[s] * Empty[s]]) = 0
      /\ Total([s \in SizedServices |-> mems[s] * Empty[s]]) = 0
      /\ Total(Empty) = 0
  <2> HIDE DEF cpus, mems
  <2> QED
    BY <1>1, NothingPlaced
<1>3. /\ [s \in SizedServices |-> cpus[s] * Empty[s]]
           = [s \in SizedServices |-> taskDemand'[s].cpu * Empty[s]]
      /\ [s \in SizedServices |-> mems[s] * Empty[s]]
           = [s \in SizedServices |-> taskDemand'[s].mem * Empty[s]]
  OBVIOUS
<1>4. /\ Shapes[HostType'].vcpu * 1024 \in Nat
      /\ Shapes[HostType'].mib - RESERVED_MEMORY_MIB \in Nat
  BY ShapeTyped
<1>5. EffectiveSlots(HostType)' > 0 => 0 <= EffectiveSlots(HostType)'
  <2>1. EniSlots(HostType') \in Nat /\ Shapes[HostType'].trunked \in Nat
    BY ShapeTyped, SizingAssumption
  <2>2. EffectiveSlots(HostType)' \in Nat
    BY <2>1 DEF EffectiveSlots
  <2> QED
    BY <2>2
<1>6. Empty' = Empty
  BY DEF Empty
<1>7. /\ 0 <= Shapes[HostType'].vcpu * 1024
      /\ 0 <= Shapes[HostType'].mib - RESERVED_MEMORY_MIB
  BY <1>4
<1> HIDE DEF cpus, mems
<1> QED
  BY <1>2, <1>3, <1>5, <1>6, <1>7 DEF HasRoom

\* So has every instance of a fleet that starts empty.
LEMMA EmptyHasRooms ==
  ASSUME taskDemand \in TaskDemands, UNCHANGED <<taskDemand, asked>>,
         HostType' \in DOMAIN Shapes, \A i \in DOMAIN load' : load'[i] = Empty
  PROVE  \A i \in DOMAIN load' : HasRoom(load[i])'
<1>1. HasRoom(Empty)'
  BY EmptyHasRoom
<1>2. Empty' = Empty
  BY DEF Empty
<1> TAKE i \in DOMAIN load'
<1>3. load'[i] = Empty'
  BY <1>2
<1> QED
  BY <1>1, <1>3 DEF HasRoom

\* A shape _smallest_fit returns is one of the ladder on which every task fits.
LEMMA FirstRungFits ==
  ASSUME SmallestFit # "none"
  PROVE  SmallestFit \in DOMAIN Shapes /\ (Declared = {} \/ FitsLargest(SmallestFit))
<1> DEFINE rungs == {i \in DOMAIN Ladder : Declared = {} \/ FitsLargest(Ladder[i])}
<1>1. rungs # {} /\ SmallestFit = Ladder[Min(rungs)]
  BY DEF SmallestFit
<1>2. rungs \in SUBSET Nat
  BY SizingAssumption
<1>3. \E i \in rungs : \A j \in rungs : i <= j
  <2> HIDE DEF rungs
  <2> QED
    BY <1>1, <1>2, Smallest
<1>4. Min(rungs) \in rungs
  <2> HIDE DEF rungs
  <2> QED
    BY <1>3 DEF Min
<1>5. Ladder[Min(rungs)] \in DOMAIN Shapes
  BY <1>4, SizingAssumption
<1> QED
  BY <1>1, <1>4, <1>5

\* The minimum of a group of n instances lies between one and n.
LEMMA MinSizeTyped ==
  ASSUME NEW n \in Nat \ {0}
  PROVE  MinSize(n) \in 1..n
<1>1. \E m \in {1, n - 1} : \A y \in {1, n - 1} : m >= y
  OBVIOUS
<1>2. Max({1, n - 1}) \in {1, n - 1} /\ Max({1, n - 1}) >= 1
  BY <1>1 DEF Max
<1> QED
  BY <1>2 DEF MinSize

\* Sizing a stack that names no instance type keeps the invariant.
LEMMA AutoKeeps ==
  ASSUME SizeInv, ResolveAuto
  PROVE  SizeInv'
<1>1. /\ taskDemand \in TaskDemands /\ asked \in Requests /\ verdict = "open"
      /\ asked.type = "auto" /\ fleet = NoFleet
      /\ taskDemand' = taskDemand /\ asked' = asked
      /\ load' = [i \in 1..fleet'.max |-> Empty]
  BY DEF SizeInv, SizeTypeOK, ResolveAuto
<1>2. /\ Declared' = Declared /\ \A t : FitsLargest(t)' = FitsLargest(t)
  BY <1>1, DemandKept
<1>3. Empty \in [SizedServices -> Nat] /\ Empty' = Empty
  BY DEF Empty
<1>4. \A i \in DOMAIN load' : load'[i] = Empty
  BY <1>1
<1> DEFINE type == SmallestFit
           cap == Given(asked.max, DefaultMax)
           n == InstancesFor(type)
<1>5. CASE type = "none" \/ n > cap
  <2>1. verdict' = "rejected" /\ fleet' = NoFleet
    BY <1>1, <1>5 DEF ResolveAuto, Rejected
  <2>2. HostType' = "auto"
    BY <1>1, <2>1 DEF HostType, NoFleet
  <2>3. SizeTypeOK'
    BY <1>1, <1>3, <1>4, <2>1 DEF SizeTypeOK, NoFleet
  <2> QED
    BY <1>1, <2>1, <2>2, <2>3 DEF SizeInv
<1>6. CASE type # "none" /\ ~(n > cap)
  <2>1. /\ verdict' = "sized"
        /\ fleet' = [type |-> type, min |-> MinSize(n), desired |-> Given(asked.desired, n),
                     max |-> Given(asked.max, Min({cap, 2 * n}))]
    BY <1>1, <1>6 DEF ResolveAuto
  <2>2. type \in DOMAIN Shapes /\ (Declared = {} \/ FitsLargest(type))
    BY <1>6, FirstRungFits
  <2>3. n \in Nat \ {0}
    BY <1>1, <2>2, InstancesTyped
  <2>4. MinSize(n) \in 1..n
    BY <2>3, MinSizeTyped
  <2> HIDE DEF type, n
  <2>5. asked.max \in Nat /\ cap \in Nat
    BY <1>1, RequestTyped DEF Given, DefaultMax
  <2>6. fleet'.max \in Nat
    <3>1. 2 * n \in Nat
      BY <2>3
    <3> HIDE DEF cap
    <3>2. \E m \in {cap, 2 * n} : \A y \in {cap, 2 * n} : m <= y
      BY <2>5, <3>1
    <3>3. Min({cap, 2 * n}) \in {cap, 2 * n}
      BY <3>2 DEF Min
    <3> QED
      BY <2>1, <2>5, <3>1, <3>3 DEF Given
  <2>7. asked.desired = 0 => fleet'.min \in 1..fleet'.desired
    BY <2>1, <2>4 DEF Given
  <2>8. HostType' = type
    BY <2>1, <2>2, ShapeTyped DEF HostType
  <2>9. load' \in [1..fleet'.max -> [SizedServices -> Nat]]
    BY <1>1, <1>3
  <2>10. \A i \in DOMAIN load' : HasRoom(load[i])'
    BY <1>1, <1>4, <2>2, <2>8, EmptyHasRooms
  <2>11. SizeTypeOK'
    BY <1>1, <1>3, <1>4, <2>1, <2>2, <2>7 DEF SizeTypeOK
  <2>12. fleet'.type = type
    BY <2>1
  <2> QED
    BY <1>1, <1>2, <2>1, <2>2, <2>6, <2>8, <2>9, <2>10, <2>11, <2>12 DEF SizeInv
<1> QED
  BY <1>5, <1>6

\* Checking a named instance type keeps the invariant.
LEMMA FixedKeeps ==
  ASSUME SizeInv, ResolveFixed
  PROVE  SizeInv'
<1> DEFINE t == asked.type
           n == Instances
           refused == (Declared # {} /\ ~FitsLargest(t)) \/ TooSmall(t, n)
<1>1. /\ taskDemand \in TaskDemands /\ asked \in Requests /\ verdict = "open"
      /\ fleet = NoFleet /\ taskDemand' = taskDemand /\ asked' = asked
      /\ load' = [i \in 1..n |-> Empty]
  BY DEF SizeInv, SizeTypeOK, ResolveFixed, Instances
<1>2. /\ Declared' = Declared /\ \A x : FitsLargest(x)' = FitsLargest(x)
      /\ \A x, k : TooSmall(x, k)' = TooSmall(x, k) /\ n' = n
  BY <1>1, DemandKept
<1>3. t # "auto" /\ t \in DOMAIN Shapes /\ n \in Nat \ {0}
  BY <1>1, RequestTyped DEF ResolveFixed, Instances, Given
<1>4. Empty \in [SizedServices -> Nat] /\ Empty' = Empty
  BY DEF Empty
<1>5. /\ load' \in [1..n -> [SizedServices -> Nat]]
      /\ \A i \in DOMAIN load' : load'[i] = Empty
  BY <1>1, <1>4
<1>6. CASE refused
  <2>1. verdict' = "rejected" /\ fleet' = NoFleet
    BY <1>1, <1>6 DEF ResolveFixed, Rejected, Instances
  <2>2. HostType' = t
    BY <1>1, <2>1 DEF HostType, NoFleet
  <2>3. \A i \in DOMAIN load' : HasRoom(load[i])'
    BY <1>1, <1>3, <1>5, <2>2, EmptyHasRooms
  <2>4. SizeTypeOK'
    BY <1>1, <1>4, <1>5, <2>1 DEF SizeTypeOK, NoFleet
  <2>5. ((Declared # {} /\ ~FitsLargest(asked.type)) \/ TooSmall(asked.type, Instances))'
    BY <1>1, <1>2, <1>6
  <2> HIDE DEF refused
  <2> QED
    BY <1>1, <1>2, <1>3, <1>5, <2>1, <2>2, <2>3, <2>4, <2>5 DEF SizeInv
<1>7. CASE ~refused
  <2>1. /\ verdict' = "sized"
        /\ fleet' = [type |-> t, min |-> 1, desired |-> n, max |-> Given(asked.max, 3)]
    BY <1>1, <1>7 DEF ResolveFixed, Instances
  <2>2. HostType' = t
    BY <1>1, <1>3, <2>1, ShapeTyped DEF HostType
  <2>3. \A i \in DOMAIN load' : HasRoom(load[i])'
    BY <1>1, <1>3, <1>5, <2>2, EmptyHasRooms
  <2>4. fleet'.min \in 1..fleet'.desired
    BY <1>3, <2>1
  <2>5. SizeTypeOK'
    BY <1>1, <1>3, <1>4, <1>5, <2>1, <2>4 DEF SizeTypeOK
  <2>6. (Declared = {} \/ FitsLargest(fleet.type))'
    BY <1>2, <1>7, <2>1
  <2> HIDE DEF refused
  <2> QED
    BY <1>1, <1>2, <1>3, <1>5, <2>1, <2>2, <2>3, <2>5, <2>6 DEF SizeInv
<1> QED
  BY <1>6, <1>7

\* ECS placing a task keeps the invariant: it looks for room first.
LEMMA PlaceKeepsFit ==
  ASSUME SizeInv, NEW s \in SizedServices, PlaceTask(s)
  PROVE  SizeInv'
<1>1. /\ taskDemand \in TaskDemands /\ asked \in Requests /\ verdict # "open"
      /\ HostType # "auto" /\ SizeTypeOK
      /\ UNCHANGED <<taskDemand, asked, verdict, fleet>>
      /\ \A i \in DOMAIN load : HasRoom(load[i])
      /\ HostType \in DOMAIN Shapes
  BY DEF SizeInv, SizeTypeOK, PlaceTask
<1>2. PICK k \in Nat : load \in [1..k -> [SizedServices -> Nat]]
  BY <1>1 DEF SizeInv
<1>3. Room(s) # {} /\ Room(s) \in SUBSET Nat /\ Room(s) \subseteq DOMAIN load
  BY <1>2 DEF PlaceTask, Room
<1>4. \E i \in Room(s) : \A j \in Room(s) : i <= j
  BY <1>3, Smallest
<1> DEFINE h == Min(Room(s))
           w == With(h, s)
<1>5. h \in Room(s)
  BY <1>4 DEF Min
<1>6. h \in DOMAIN load /\ HasRoom(w)
  BY <1>5 DEF Room
<1>7. load' = [load EXCEPT ![h] = w]
  BY DEF PlaceTask
<1>8. w \in [SizedServices -> Nat]
  BY <1>2, <1>6 DEF With
<1>9. HostType' = HostType
  BY <1>1 DEF HostType
<1> HIDE DEF h, w
<1>10. /\ load' \in [1..k -> [SizedServices -> Nat]] /\ DOMAIN load' = DOMAIN load
       /\ load'[h] = w /\ \A i \in DOMAIN load \ {h} : load'[i] = load[i]
  BY <1>2, <1>6, <1>7, <1>8
<1>11. \A tasks : HasRoom(tasks)' = HasRoom(tasks)
  BY <1>1, <1>9, RoomKept
<1>12. ASSUME NEW i \in DOMAIN load'
       PROVE  HasRoom(load[i])'
  <2>1. HasRoom(load'[i])
    BY <1>1, <1>6, <1>10
  <2>2. \A t : EffectiveSlots(t)' = EffectiveSlots(t)
    BY <1>1, DemandKept
  <2> QED
    BY <1>1, <1>9, <2>1, <2>2 DEF HasRoom
<1>13. /\ Declared' = Declared /\ Instances' = Instances
       /\ \A t : FitsLargest(t)' = FitsLargest(t)
       /\ \A t, n : TooSmall(t, n)' = TooSmall(t, n)
  BY <1>1, DemandKept
<1>14. \A i \in DOMAIN load' : load'[i] \in [SizedServices -> Nat]
  BY <1>10
<1>15. SizeTypeOK'
  BY <1>1, <1>14 DEF SizeTypeOK
<1>16. asked.type # "auto" => load' \in [1..Instances -> [SizedServices -> Nat]]
  <2>1. asked.type # "auto" => load \in [1..Instances -> [SizedServices -> Nat]]
    BY <1>1 DEF SizeInv
  <2> QED
    BY <1>10, <2>1
<1> QED
  BY <1>1, <1>9, <1>10, <1>12, <1>13, <1>15, <1>16 DEF SizeInv

\* A step that changes nothing here keeps the invariant.
LEMMA SizeStutters ==
  ASSUME SizeInv, UNCHANGED sizeVars
  PROVE  SizeInv'
<1>1. UNCHANGED <<taskDemand, asked, verdict, fleet, load>>
  BY DEF sizeVars
<1>2. HostType' = HostType
  BY <1>1 DEF HostType
<1>3. \A i : HasRoom(load[i])' = HasRoom(load[i])
  <2>1. \A t : EffectiveSlots(t)' = EffectiveSlots(t)
    BY <1>1, DemandKept
  <2> QED
    BY <1>1, <1>2, <2>1 DEF HasRoom
<1>4. /\ Declared' = Declared /\ Instances' = Instances
      /\ \A t : FitsLargest(t)' = FitsLargest(t)
      /\ \A t, n : TooSmall(t, n)' = TooSmall(t, n)
  BY <1>1, DemandKept
<1> QED
  BY <1>1, <1>2, <1>3, <1>4 DEF SizeInv, SizeTypeOK

\* Every step keeps the invariant.
LEMMA SizeStep ==
  SizeInv /\ [SizeNext]_sizeVars => SizeInv'
BY AutoKeeps, FixedKeeps, PlaceKeepsFit, SizeStutters DEF SizeNext

\* The invariant of the sizing holds for every ladder, shape, demand and request.
THEOREM SizeInductive ==
  SizeSpec => []SizeInv
BY SizeInitInv, SizeStep, PTL DEF SizeSpec

\* Type correctness of the sizing; a group auto_size dimensions has a minimum between one
\* and its desired size.
THEOREM SizeTypeCorrect ==
  SizeSpec => []SizeTypeOK
<1>1. SizeInv => SizeTypeOK
  BY DEF SizeInv
<1> QED
  BY <1>1, SizeInductive, PTL

\* check_fixed_shape_capacity refuses a named type only when ECS could not place the tasks,
\* in any order, and a fleet that is accepted has a type on which every task fits.
THEOREM SizingHonest ==
  SizeSpec => []SizingIsHonest
BY SizeInductive, SizeInvIsHonest, PTL

-----------------------------------------------------------------------------
(***************************************************************************)
(* What auto_size asks for is enough by check_fixed_shape_capacity, though *)
(* the two of autosize.py round, reserve and count replicas differently.   *)
(***************************************************************************)

\* A group that auto_size dimensions as it likes.
OwnSize == verdict = "sized" /\ asked.type = "auto" /\ asked.desired = 0

\* It passes the check a named type has to pass, within the maximum it was allowed.
AutoSizedCovers ==
  OwnSize =>
    /\ ~TooSmall(fleet.type, fleet.desired)
    /\ fleet.desired <= Given(asked.max, DefaultMax) /\ fleet.desired <= fleet.max

\* The invariant: the group has the instances the demand needs.
SizedByDemand ==
  OwnSize =>
    /\ fleet.desired = InstancesFor(fleet.type)
    /\ fleet.desired <= Given(asked.max, DefaultMax) /\ fleet.desired <= fleet.max

\* A quotient that is rounded up covers what was divided.
LEMMA CeilCovers ==
  ASSUME NEW a \in Nat, NEW b \in Nat \ {0}, NEW n \in Nat, n >= Ceil(a, b)
  PROVE  a <= n * b
<1> DEFINE x == a + b - 1
           q == x \div b
<1>1. x \in Nat
  OBVIOUS
<1>2. x = b * q + (x % b) /\ x % b \in 0..(b - 1) /\ q \in Int
  <2> HIDE DEF x
  <2> QED
    BY <1>1
<1>3. n >= q
  BY DEF Ceil
<1>4. b * n >= b * q
  <2> HIDE DEF q
  <2>1. n - q \in Nat
    BY <1>2, <1>3
  <2>2. b * (n - q) \in Nat
    BY <2>1
  <2>3. b * (n - q) = b * n - b * q
    BY <1>2
  <2>4. b * n \in Int /\ b * q \in Int
    BY <1>2
  <2> QED
    BY <2>2, <2>3, <2>4
<1>5. b * q >= a
  <2>1. b * q \in Int /\ x % b \in Int
    BY <1>2
  <2>2. x % b <= b - 1
    BY <1>2
  <2>3. a + b - 1 = b * q + (x % b)
    BY <1>2
  <2> HIDE DEF q, x
  <2> QED
    BY <2>1, <2>2, <2>3
<1>6. b * n \in Int /\ b * q \in Int /\ b * n = n * b
  BY <1>2
<1> HIDE DEF q, x
<1> QED
  BY <1>4, <1>5, <1>6

\* With a headroom of 12/10, it covers what was asked as well.
LEMMA HeadroomCovers ==
  ASSUME NEW a \in Nat, NEW b \in Nat \ {0}, NEW n \in Nat, n >= Ceil(a * 12, b * 10)
  PROVE  a <= n * b
<1>1. a * 12 \in Nat /\ b * 10 \in Nat \ {0}
  OBVIOUS
<1>2. a * 12 <= n * (b * 10)
  BY <1>1, CeilCovers
<1>3. n * (b * 10) = (n * b) * 10 /\ n * b \in Nat
  OBVIOUS
<1> QED
  BY <1>2, <1>3

\* peak_replicas is never below the replicas that run between deploys.
LEMMA PeakIsMore ==
  ASSUME NEW d \in [cpu : Nat, mem : Nat, replicas : Nat, percent : Nat]
  PROVE  PeakReplicas(d) >= d.replicas
<1> DEFINE r == d.replicas
           p == (r * d.percent) \div 100
<1>1. r \in Nat /\ p \in Nat
  <2>1. r \in Nat /\ d.percent \in Nat
    OBVIOUS
  <2>2. r * d.percent \in Nat
    BY <2>1, Distributes
  <2> HIDE DEF r
  <2> QED
    BY <2>1, <2>2
<1> HIDE DEF r, p
<1>2. \E m \in {r, p} : \A y \in {r, p} : m >= y
  BY <1>1
<1>3. Max({r, p}) >= r
  BY <1>2 DEF Max
<1> QED
  BY <1>3 DEF PeakReplicas, r, p

\* More replicas ask for more of everything.
LEMMA TotalsGrow ==
  ASSUME taskDemand \in TaskDemands,
         NEW n \in [SizedServices -> Nat], NEW k \in [SizedServices -> Nat],
         \A s \in SizedServices : n[s] <= k[s]
  PROVE  TotalCpu(n) <= TotalCpu(k) /\ TotalMem(n) <= TotalMem(k) /\ TaskCount(n) <= TaskCount(k)
<1>1. Declared \in SUBSET SizedServices
  BY DEF Declared
<1>2. IsFiniteSet(SizedServices) /\ IsFiniteSet(Declared)
  BY <1>1, SizingAssumption, FS_Subset
<1>3. ASSUME NEW a \in [SizedServices -> Nat]
      PROVE  Total([s \in Declared |-> a[s] * n[s]]) <= Total([s \in Declared |-> a[s] * k[s]])
  <2> DEFINE u == [s \in Declared |-> a[s] * n[s]]
             v == [s \in Declared |-> a[s] * k[s]]
  <2>1. ASSUME NEW s \in Declared
        PROVE  a[s] * n[s] \in Nat /\ a[s] * k[s] \in Nat /\ a[s] * n[s] <= a[s] * k[s]
    <3>1. a[s] \in Nat /\ n[s] \in Nat /\ k[s] \in Nat /\ n[s] <= k[s]
      BY <1>1
    <3>2. k[s] - n[s] \in Nat /\ k[s] = n[s] + (k[s] - n[s])
      BY <3>1
    <3>3. a[s] * k[s] = a[s] * n[s] + a[s] * (k[s] - n[s])
      BY <3>1, <3>2, Distributes
    <3>4. a[s] * n[s] \in Nat /\ a[s] * (k[s] - n[s]) \in Nat
      BY <3>1, <3>2, Distributes
    <3> QED
      BY <3>3, <3>4
  <2>2. u \in [Declared -> Nat] /\ v \in [Declared -> Nat] /\ \A s \in Declared : u[s] <= v[s]
    BY <2>1
  <2> HIDE DEF u, v
  <2>3. Total(u) <= Total(v)
    BY ONLY <1>2, <2>2, TotalGrows
  <2> QED
    BY <2>3 DEF u, v
<1>4. TaskCount(n) <= TaskCount(k)
  <2>1. Total(n) <= Total(k)
    BY <1>2, TotalGrows
  <2> QED
    BY <2>1 DEF TaskCount
<1> DEFINE cpus == [s \in SizedServices |-> taskDemand[s].cpu]
           mems == [s \in SizedServices |-> taskDemand[s].mem]
<1>5. cpus \in [SizedServices -> Nat] /\ mems \in [SizedServices -> Nat]
  BY DemandTyped
<1>6. \A s \in Declared : cpus[s] = taskDemand[s].cpu /\ mems[s] = taskDemand[s].mem
  BY <1>1
<1> HIDE DEF cpus, mems
<1>7. TotalCpu(n) <= TotalCpu(k)
  <2>1. Total([s \in Declared |-> cpus[s] * n[s]]) <= Total([s \in Declared |-> cpus[s] * k[s]])
    BY <1>3, <1>5
  <2>2. /\ TotalCpu(n) = Total([s \in Declared |-> cpus[s] * n[s]])
        /\ TotalCpu(k) = Total([s \in Declared |-> cpus[s] * k[s]])
    BY <1>6 DEF TotalCpu
  <2> QED
    BY <2>1, <2>2
<1>8. TotalMem(n) <= TotalMem(k)
  <2>1. Total([s \in Declared |-> mems[s] * n[s]]) <= Total([s \in Declared |-> mems[s] * k[s]])
    BY <1>3, <1>5
  <2>2. /\ TotalMem(n) = Total([s \in Declared |-> mems[s] * n[s]])
        /\ TotalMem(k) = Total([s \in Declared |-> mems[s] * k[s]])
    BY <1>6 DEF TotalMem
  <2> QED
    BY <2>1, <2>2
<1> QED
  BY <1>4, <1>7, <1>8

\* What auto_size asks for is not too small, and what it answers it has asked for.
LEMMA InstancesCover ==
  ASSUME taskDemand \in TaskDemands, asked \in Requests, NEW t \in DOMAIN Shapes
  PROVE  ~TooSmall(t, InstancesFor(t))
<1> DEFINE n == InstancesFor(t)
           v == Shapes[t].vcpu * 1024
           m == Shapes[t].mib
           e == EniSlots(t)
           a == Ceil(TotalCpu(Replicas) * 12, v * 10)
           b == Ceil(TotalMem(Replicas) * 12, m * 10)
           c == Ceil(TaskCount(Replicas) * 12, e * 10)
           V == {1, a, b, c}
<1>1. Steady \in [SizedServices -> Nat] /\ Replicas \in [SizedServices -> Nat]
  BY DemandTyped, ReplicasTyped DEF Steady
<1>2. \A s \in SizedServices : Steady[s] <= Replicas[s]
  <2>1. taskDemand \in [SizedServices -> [cpu : Nat, mem : Nat, replicas : Nat, percent : Nat]]
    BY SizingAssumption
  <2>2. \A s \in SizedServices : taskDemand[s].replicas <= PeakReplicas(taskDemand[s])
    <3> TAKE s \in SizedServices
    <3>1. taskDemand[s].replicas \in Nat /\ PeakReplicas(taskDemand[s]) \in Nat
      BY <2>1, PeakTyped
    <3> QED
      BY <2>1, <3>1, PeakIsMore
  <2>3. \A s \in SizedServices : taskDemand[s].replicas <= taskDemand[s].replicas
    BY DemandTyped
  <2> QED
    BY <2>2, <2>3 DEF Steady, Replicas
<1>3. /\ TotalCpu(Steady) <= TotalCpu(Replicas) /\ TotalMem(Steady) <= TotalMem(Replicas)
      /\ TaskCount(Steady) <= TaskCount(Replicas)
  BY <1>1, <1>2, TotalsGrow
<1>4. /\ TotalCpu(Steady) \in Nat /\ TotalMem(Steady) \in Nat /\ TaskCount(Steady) \in Nat
      /\ TotalCpu(Replicas) \in Nat /\ TotalMem(Replicas) \in Nat /\ TaskCount(Replicas) \in Nat
  BY <1>1, TotalsTyped
<1>5. v \in Nat \ {0} /\ m \in Nat \ {0} /\ e \in Nat \ {0} /\ EffectiveSlots(t) \in Nat
  BY ShapeTyped
<1>6. n \in Nat
  BY InstancesTyped
<1>7. n = Max(V)
  BY DEF InstancesFor
<1>8. a \in Int /\ b \in Int /\ c \in Int
  <2>1. /\ TotalCpu(Replicas) * 12 \in Nat /\ TotalMem(Replicas) * 12 \in Nat
        /\ TaskCount(Replicas) * 12 \in Nat
    BY <1>4
  <2>2. v * 10 \in Nat \ {0} /\ m * 10 \in Nat \ {0} /\ e * 10 \in Nat \ {0}
    BY <1>5
  <2> QED
    BY <2>1, <2>2, CeilTyped
<1>9. n >= a /\ n >= b /\ n >= c
  <2> HIDE DEF n, a, b, c
  <2>1. \E y \in V : \A z \in V : y >= z
    BY <1>8
  <2>2. \A z \in V : Max(V) >= z
    BY <2>1 DEF Max
  <2> QED
    BY <1>7, <2>2
<1>10. /\ TotalCpu(Replicas) <= n * v /\ TotalMem(Replicas) <= n * m
       /\ TaskCount(Replicas) <= n * e
  <2> HIDE DEF n, v, m, e
  <2> QED
    BY <1>4, <1>5, <1>6, <1>9, HeadroomCovers
<1>11. n * v \in Nat /\ n * m \in Nat /\ n * e \in Nat
  <2> HIDE DEF n, v, m, e
  <2> QED
    BY <1>5, <1>6
<1>12. /\ ~(TotalCpu(Steady) > n * v) /\ ~(TotalMem(Steady) > n * m)
       /\ TaskCount(Steady) <= n * e
  <2> HIDE DEF n, v, m, e
  <2> QED
    BY <1>3, <1>4, <1>10, <1>11
<1>13. n * v = n * Shapes[t].vcpu * 1024
  <2>1. Shapes[t].vcpu \in Nat
    BY ShapeTyped
  <2> HIDE DEF n
  <2> QED
    BY <1>6, <2>1, FleetCapacity
<1>14. ~(EffectiveSlots(t) > 0 /\ TaskCount(Steady) > n * EffectiveSlots(t))
  <2> SUFFICES ASSUME EffectiveSlots(t) > 0
               PROVE  ~(TaskCount(Steady) > n * EffectiveSlots(t))
    OBVIOUS
  <2>1. EffectiveSlots(t) - e \in Nat
    <3>1. /\ Shapes[t].enis \in Nat /\ Shapes[t].trunked \in Nat /\ Shapes[t].enis > 1
          /\ Shapes[t].trunked = 0 \/ Shapes[t].trunked >= Shapes[t].enis
      BY SizingAssumption
    <3>2. \/ EffectiveSlots(t) = Shapes[t].trunked /\ Shapes[t].trunked > 0
          \/ EffectiveSlots(t) = EniSlots(t)
      BY RequestTyped DEF EffectiveSlots
    <3> QED
      BY <3>1, <3>2 DEF EniSlots
  <2> DEFINE f == EffectiveSlots(t)
  <2>2. f \in Nat
    BY <1>5
  <2> HIDE DEF n, e, f
  <2>3. n * f = n * e + n * (f - e)
    BY <1>5, <1>6, <2>1, <2>2 DEF f
  <2>4. n * (f - e) \in Nat /\ n * f \in Nat
    BY <1>6, <2>1, <2>2 DEF f
  <2>5. ~(TaskCount(Steady) > n * f)
    BY <1>4, <1>11, <1>12, <2>3, <2>4
  <2> QED
    BY <2>5 DEF f
<1> QED
  BY <1>12, <1>13, <1>14 DEF TooSmall

\* The demand decides how many instances are needed, and does not change.
LEMMA InstancesKept ==
  ASSUME UNCHANGED <<taskDemand, asked>>
  PROVE  \A t : InstancesFor(t)' = InstancesFor(t)
<1>1. Declared' = Declared /\ Replicas' = Replicas
  BY DEF Declared, Replicas, Steady
<1>2. \A n : TotalCpu(n)' = TotalCpu(n) /\ TotalMem(n)' = TotalMem(n)
  BY <1>1 DEF TotalCpu, TotalMem
<1> QED
  BY <1>1, <1>2 DEF InstancesFor, TaskCount

\* auto_size answers with the instances the demand needs, or refuses.
LEMMA SizedByDemandStep ==
  SizeInv /\ SizedByDemand /\ [SizeNext]_sizeVars => SizedByDemand'
<1> SUFFICES ASSUME SizeInv, SizedByDemand, [SizeNext]_sizeVars PROVE SizedByDemand'
  OBVIOUS
<1>1. CASE ResolveAuto
  <2> DEFINE type == SmallestFit
             cap == Given(asked.max, DefaultMax)
             n == InstancesFor(type)
  <2>1. taskDemand \in TaskDemands /\ asked \in Requests
    BY DEF SizeInv, SizeTypeOK
  <2>2. UNCHANGED <<taskDemand, asked>>
    BY <1>1 DEF ResolveAuto
  <2> SUFFICES ASSUME verdict' = "sized", asked.desired = 0
               PROVE  /\ fleet'.desired = InstancesFor(fleet.type)'
                      /\ fleet'.desired <= cap /\ fleet'.desired <= fleet'.max
    BY <2>2 DEF SizedByDemand, OwnSize, Given
  <2>3. /\ type # "none" /\ ~(n > cap)
        /\ fleet' = [type |-> type, min |-> MinSize(n), desired |-> n,
                     max |-> Given(asked.max, Min({cap, 2 * n}))]
    BY <1>1 DEF ResolveAuto, Rejected, Given
  <2>4. n \in Nat
    BY <2>1, <2>3, FirstRungFits, InstancesTyped
  <2>5. asked.max \in Nat /\ cap \in Nat
    BY <2>1, RequestTyped DEF Given, DefaultMax
  <2>6. \A t : InstancesFor(t)' = InstancesFor(t)
    BY <2>2, InstancesKept
  <2>7. fleet'.desired = InstancesFor(fleet.type)'
    BY <2>3, <2>6
  <2> HIDE DEF n, type
  <2>8. n <= cap
    BY <2>3, <2>4, <2>5
  <2>9. n <= Min({cap, 2 * n})
    <3> HIDE DEF cap
    <3>1. 2 * n \in Nat /\ n <= 2 * n
      BY <2>4
    <3>2. \E k \in {cap, 2 * n} : \A y \in {cap, 2 * n} : k <= y
      BY <2>5, <3>1
    <3>3. Min({cap, 2 * n}) \in {cap, 2 * n}
      BY <3>2 DEF Min
    <3> QED
      BY <2>8, <3>1, <3>3
  <2>10. n <= fleet'.max
    BY <2>3, <2>8, <2>9 DEF Given
  <2> QED
    BY <2>3, <2>7, <2>8, <2>10
<1>2. CASE ResolveFixed
  BY <1>2 DEF ResolveFixed, SizedByDemand, OwnSize
<1>3. ASSUME UNCHANGED <<taskDemand, asked, verdict, fleet>> PROVE SizedByDemand'
  <2>1. \A t : InstancesFor(t)' = InstancesFor(t)
    BY <1>3, InstancesKept
  <2> QED
    BY <1>3, <2>1 DEF SizedByDemand, OwnSize, Given
<1>4. ASSUME NEW s \in SizedServices, PlaceTask(s) PROVE SizedByDemand'
  BY <1>3, <1>4 DEF PlaceTask
<1>5. CASE UNCHANGED sizeVars
  BY <1>3, <1>5 DEF sizeVars
<1> QED
  BY <1>1, <1>2, <1>4, <1>5 DEF SizeNext

\* autosize.py: a group that auto_size dimensions covers the totals of the demand by the very
\* check a named instance type has to pass, and keeps to ec2_capacity.max; whether each task
\* also finds a place is another matter (AutoSizedFleetHostsAll).
THEOREM AutoSizeCoversTotals == SizeSpec => []AutoSizedCovers
<1>1. SizeInit => SizedByDemand
  BY DEF SizeInit, SizedByDemand, OwnSize
<1>2. SizeInv /\ SizedByDemand => AutoSizedCovers
  <2> SUFFICES ASSUME SizeInv, SizedByDemand, OwnSize PROVE AutoSizedCovers
    BY DEF AutoSizedCovers
  <2>1. taskDemand \in TaskDemands /\ asked \in Requests /\ fleet.type \in DOMAIN Shapes
    BY DEF SizeInv, SizeTypeOK, OwnSize
  <2>2. ~TooSmall(fleet.type, InstancesFor(fleet.type))
    BY <2>1, InstancesCover
  <2> QED
    BY <2>2 DEF SizedByDemand, AutoSizedCovers
<1> QED
  BY <1>1, <1>2, SizeInductive, SizedByDemandStep, PTL DEF SizeSpec

-----------------------------------------------------------------------------
(***************************************************************************)
(* MCStackCommands: in each behaviour one component moves and the others   *)
(* rest, each in a state that satisfies its own invariant.                 *)
(***************************************************************************)

AllInv == UpInv /\ DestroyTypeOK /\ RecTypeOK /\ PipesInv /\ SizeInv

\* Where the components rest is where their invariants hold.
LEMMA AtRest ==
  /\ UpRests => UpInv
  /\ DestroyRests => DestroyTypeOK
  /\ RecRests => RecTypeOK
  /\ PipesRest => PipesInv
  /\ SizeRests => SizeInv
<1>1. UpRests => UpInv
  BY UpInitial DEF UpRests
<1>2. DestroyRests => DestroyTypeOK
  BY DEF DestroyRests, DestroyTypeOK
<1>3. RecRests => RecTypeOK
  BY RecInitTyped DEF RecRests
<1>4. PipesRest => PipesInv
  <2> SUFFICES ASSUME PipesRest PROVE PipesInv
    OBVIOUS
  <2>1. PipesTyped
    BY PipesAssumption DEF PipesRest, PipesTyped, Nothing, Streams
  <2>2. LinesKept
    BY PipesAssumption DEF PipesRest, LinesKept, Nothing
  <2>3. ReadToTheEnd
    BY DEF PipesRest, ReadToTheEnd, Closed, Nothing, Streams
  <2> QED
    BY <2>1, <2>2, <2>3 DEF PipesInv
<1>5. SizeRests => SizeInv
  BY SizeInitInv DEF SizeRests
<1> QED
  BY <1>1, <1>2, <1>3, <1>4, <1>5

\* Every start is a start of one component and a rest of the others.
LEMMA AllStart == Init => AllInv
<1> SUFFICES ASSUME Init PROVE AllInv
  OBVIOUS
<1>1. /\ UpInit => UpInv
      /\ DestroyInit => DestroyTypeOK
      /\ RecStarts => RecTypeOK
      /\ PipesInit => PipesInv
      /\ SizeInit => SizeInv
  BY UpInitial, DestroyInitTyped, RecInitTyped, PipesStart, SizeInitInv DEF RecStarts
<1> QED
  BY <1>1, AtRest DEF Init, AllInv

\* A component that is left alone keeps its invariant.
LEMMA AllStay ==
  ASSUME AllInv
  PROVE  /\ UNCHANGED upVars => UpInv'
         /\ UNCHANGED dVars => DestroyTypeOK'
         /\ UNCHANGED recVars => RecTypeOK'
         /\ UNCHANGED pipeVars => PipesInv'
         /\ UNCHANGED sizeVars => SizeInv'
BY UpStep, DestroyStepTyped, RecStepTyped, PipesStep, SizeStep DEF AllInv

\* Every step is a step of one component.
LEMMA AllStep == AllInv /\ [Next]_allVars => AllInv'
<1> SUFFICES ASSUME AllInv, [Next]_allVars PROVE AllInv'
  OBVIOUS
<1>1. /\ UpNext => UpInv'
      /\ DestroyNext => DestroyTypeOK'
      /\ RecNext => RecTypeOK'
      /\ PipesNext => PipesInv'
      /\ SizeNext => SizeInv'
  BY UpStep, DestroyStepTyped, RecStepTyped, PipesStep, SizeStep DEF AllInv
<1>2. CASE UNCHANGED allVars
  <2>1. UNCHANGED <<upVars, dVars, recVars, pipeVars, sizeVars>>
    BY <1>2 DEF allVars
  <2> QED
    BY <2>1, AllStay DEF AllInv
<1>3. CASE Next
  <2>1. \/ UpNext /\ UNCHANGED <<dVars, recVars, pipeVars, sizeVars>>
        \/ DestroyNext /\ UNCHANGED <<upVars, recVars, pipeVars, sizeVars>>
        \/ RecNext /\ UNCHANGED <<upVars, dVars, pipeVars, sizeVars>>
        \/ PipesNext /\ UNCHANGED <<upVars, dVars, recVars, sizeVars>>
        \/ SizeNext /\ UNCHANGED <<upVars, dVars, recVars, pipeVars>>
    BY <1>3 DEF Next
  <2> QED
    BY <1>1, <2>1, AllStay DEF AllInv
<1> QED
  BY <1>2, <1>3

\* Each component keeps its types while the others move, for every value of the constants.
THEOREM StackTypeCorrect == Spec => []TypeOK
<1>1. AllInv => TypeOK
  <2>1. PipesInv => PipesTypeOK
    BY PipesInvTyped
  <2> QED
    BY <2>1, UpTyped DEF AllInv, SizeInv, TypeOK
<1> QED
  BY <1>1, AllStart, AllStep, PTL DEF Spec
==============================================================================
