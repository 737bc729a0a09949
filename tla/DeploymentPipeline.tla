------------------------- MODULE DeploymentPipeline -------------------------
(***************************************************************************)
(* The legacy deployment pipeline: a list of steps over one context, run   *)
(* one after the other, and rolled back in reverse when one fails.  The    *)
(* multi-service pipeline makes an ECS service of every compose service,   *)
(* the standard one a single service of the whole project.  Deployments    *)
(* follow one another; each starts from what the last one, a teardown or a *)
(* delete command left in the database, in ECR, in EFS and in ECS.         *)
(*                                                                         *)
(* AWS is external: a create_service under a name that is taken and an     *)
(* update_service of one that is gone are refused; a rollout completes     *)
(* when the tasks can start, and tasks with a volume cannot without mount  *)
(* targets.  wait_for_stable is on, as the command line has it.            *)
(***************************************************************************)
EXTENDS Integers, FiniteSets

CONSTANTS ComposeServices,
          DependsOn,      \* service -> the services it depends on
          BuildPrimary,   \* service -> the first service of its build group
          WithVolume,     \* the services with a named volume
          Project,        \* the name of the one service of the standard pipeline
          MaxRuns, MaxPipeFaults

ASSUME PipelineAssumption ==
  /\ Project \notin ComposeServices
  /\ DependsOn \in [ComposeServices -> SUBSET ComposeServices]
  /\ BuildPrimary \in [ComposeServices -> ComposeServices]
  /\ MaxRuns \in Nat /\ MaxPipeFaults \in Nat

VARIABLES
  args,      \* of the current run: kind, selected, build, dryRun, tracked
  step,      \* where execute is
  inStep,    \* services the step has still to visit
  handled,   \* the service between its row, its call and its arn
  created,   \* _created_services of the create step
  deployment,\* the Deployment row: "none", "running" or "failed"
  dbRow,     \* ECSService rows: "none", "new" (without an arn) or "arn"
  ecs,       \* in AWS: [there, td, stable]; td is the run it was registered by
  pushed,    \* the run whose image is in the repository of a service
  efs,       \* "none", "bare" (no mount targets) or "mounted"
  runNo, pipeFaults,
  troubled,  \* a call of this run failed
  excused    \* services whose row and AWS were parted by one of the events RetryIsGreen names
pipelineVars == <<args, step, inStep, handled, created, deployment, dbRow, ecs, pushed, efs,
                  runNo, pipeFaults, troubled, excused>>
awsState == <<ecs, pushed, efs>>
runCounts == <<runNo, pipeFaults, troubled, excused>>

EcsNames == ComposeServices \cup {Project}
Deployed == IF args.kind = "standard" THEN {Project} ELSE args.selected
ImagesOf(n) == IF n = Project THEN ComposeServices ELSE {n}
NoService == [there |-> FALSE, td |-> 0, stable |-> FALSE]
BetweenRuns == step \in {"idle", "done", "failed"}

PipelineInit ==
  /\ args = [kind |-> "multi", selected |-> {}, build |-> FALSE, dryRun |-> FALSE,
             tracked |-> FALSE]
  /\ step = "idle" /\ inStep = {} /\ handled = Project /\ created = {}
  /\ deployment = "none"
  /\ dbRow = [n \in EcsNames |-> "none"] /\ ecs = [n \in EcsNames |-> NoService]
  /\ pushed = [s \in ComposeServices |-> 0] /\ efs = "none"
  /\ runNo = 0 /\ pipeFaults = 0 /\ troubled = FALSE /\ excused = {}

-----------------------------------------------------------------------------
(* Up to the task definitions *)

\* A row is written only with a target to write it for, which the command line never has.
InitializeDeployment ==
  /\ BetweenRuns /\ runNo < MaxRuns
  /\ \E kind \in {"multi", "standard"}, selected \in SUBSET ComposeServices \ {{}},
        build, dryRun, tracked \in BOOLEAN :
       /\ kind = "standard" => selected = ComposeServices
       /\ tracked => kind = "standard"
       /\ args' = [kind |-> kind, selected |-> selected, build |-> build, dryRun |-> dryRun,
                   tracked |-> tracked]
       /\ deployment' = IF tracked THEN "running" ELSE "none"
       /\ step' = IF dryRun THEN "finalize" ELSE IF build THEN "build" ELSE "volumes"
       /\ inStep' = {BuildPrimary[s] : s \in ComposeServices}
  /\ runNo' = runNo + 1 /\ troubled' = FALSE /\ created' = {}
  /\ UNCHANGED <<handled, dbRow, awsState, pipeFaults, excused>>

\* One build per group, tagged and pushed again for the repository of each sibling.
BuildAndPushImages(primary) ==
  /\ step = "build" /\ primary \in inStep
  /\ \E reached \in SUBSET {s \in ComposeServices : BuildPrimary[s] = primary} :
       /\ primary \in reached
       /\ pushed' = [s \in ComposeServices |-> IF s \in reached THEN runNo ELSE pushed[s]]
       /\ IF \A s \in ComposeServices : BuildPrimary[s] = primary => s \in reached
          THEN /\ inStep' = inStep \ {primary}
               /\ step' = IF inStep' = {} THEN "volumes" ELSE step
               /\ UNCHANGED <<pipeFaults, troubled>>
          ELSE /\ pipeFaults < MaxPipeFaults /\ pipeFaults' = pipeFaults + 1
               /\ step' = "undo" /\ troubled' = TRUE /\ UNCHANGED inStep
  /\ UNCHANGED <<args, handled, created, deployment, dbRow, ecs, efs, runNo, excused>>

\* get_or_create_file_system: one found by name is returned as it is, mounted or not.
SetupEfsVolumes ==
  /\ step = "volumes"
  /\ \/ /\ WithVolume = {} \/ efs # "none"
        /\ step' = "create" /\ inStep' = Deployed
        /\ UNCHANGED efs
     \/ /\ WithVolume # {} /\ efs = "none"
        /\ efs' = "bare" /\ step' = "mount"
        /\ UNCHANGED inStep
  /\ UNCHANGED <<args, handled, created, deployment, dbRow, ecs, pushed, runCounts>>

CreateMountTargets ==
  /\ step = "mount"
  /\ efs' = "mounted" /\ step' = "create" /\ inStep' = Deployed
  /\ UNCHANGED <<args, handled, created, deployment, dbRow, ecs, pushed, runCounts>>

-----------------------------------------------------------------------------
(* The services *)

\* Dependencies first.  The standard pipeline takes over a service AWS has and it does not;
\* a look at AWS that fails is passed over, as if there were none.
TakesOver(n) == n = Project /\ dbRow[n] = "none" /\ ecs[n].there
GetOrCreateRow(n) ==
  /\ step = "create" /\ n \in inStep
  /\ n \in ComposeServices => DependsOn[n] \cap inStep = {}
  /\ handled' = n /\ step' = "call"
  /\ \/ /\ dbRow' = [dbRow EXCEPT ![n] =
                       IF TakesOver(n) THEN "arn" ELSE IF @ = "none" THEN "new" ELSE @]
        /\ UNCHANGED <<pipeFaults, troubled, excused>>
     \/ /\ TakesOver(n) /\ pipeFaults < MaxPipeFaults /\ pipeFaults' = pipeFaults + 1
        /\ dbRow' = [dbRow EXCEPT ![n] = "new"]
        /\ troubled' = TRUE /\ excused' = excused \cup {n}
  /\ UNCHANGED <<args, inStep, created, deployment, awsState, runNo>>

\* A row with an arn is updated and one without is created; AWS may refuse either.
Accepted(n) == (dbRow[n] = "arn") = ecs[n].there
NewRollout == [there |-> TRUE, td |-> runNo, stable |-> FALSE]

CreateOrUpdateService ==
  /\ step = "call" /\ Accepted(handled)
  /\ ecs' = [ecs EXCEPT ![handled] = NewRollout]
  /\ step' = "record"
  /\ UNCHANGED <<args, inStep, handled, created, deployment, dbRow, pushed, efs, runCounts>>

CallRefused ==
  /\ step = "call" /\ ~Accepted(handled)
  /\ step' = "undo"
  /\ UNCHANGED <<args, inStep, handled, created, deployment, dbRow, awsState, runCounts>>

RecordArn ==
  /\ step = "record"
  /\ dbRow' = [dbRow EXCEPT ![handled] = "arn"]
  /\ created' = IF dbRow[handled] = "new" THEN created \cup {handled} ELSE created
  /\ inStep' = IF inStep = {handled} THEN Deployed ELSE inStep \ {handled}
  /\ step' = IF inStep = {handled} THEN "wait" ELSE "create"
  /\ UNCHANGED <<args, handled, deployment, awsState, runCounts>>

\* Variant: any running deployment will do.
WaitForAny(n) ==
  /\ step = "wait" /\ n \in inStep
  /\ ecs[n].there
  /\ inStep' = inStep \ {n}
  /\ step' = IF inStep' = {} THEN "finalize" ELSE step
  /\ UNCHANGED <<args, handled, created, deployment, dbRow, awsState, runCounts>>

\* wait_for_service_stable: the PRIMARY deployment has COMPLETED.
WaitForStability(n) ==
  /\ step = "wait" /\ n \in inStep
  /\ ecs[n].there /\ ecs[n].stable
  /\ inStep' = inStep \ {n}
  /\ step' = IF inStep' = {} THEN "finalize" ELSE step
  /\ UNCHANGED <<args, handled, created, deployment, dbRow, awsState, runCounts>>

\* External: the tasks of a rollout start, if they can mount what they need.
TasksCanStart(n) == ImagesOf(n) \cap WithVolume # {} => efs = "mounted"
RolloutCompletes(n) ==
  /\ ecs[n].there /\ ~ecs[n].stable /\ TasksCanStart(n)
  /\ ecs' = [ecs EXCEPT ![n].stable = TRUE]
  /\ UNCHANGED <<args, step, inStep, handled, created, deployment, dbRow, pushed, efs, runCounts>>

\* The timeout of a rollout that cannot complete.
WaitTimesOut(n) ==
  /\ step = "wait" /\ n \in inStep /\ ~TasksCanStart(n)
  /\ step' = "undo after create"
  /\ UNCHANGED <<args, inStep, handled, created, deployment, dbRow, awsState, runCounts>>

\* FinalizeDeployment of the standard pipeline reads Deployment.DeploymentStatus, which the
\* model does not have, and takes the exception for a warning: the row stays as it is.
FinalizeDeployment ==
  /\ step = "finalize"
  /\ step' = "done"
  /\ UNCHANGED <<args, inStep, handled, created, deployment, dbRow, awsState, runCounts>>

-----------------------------------------------------------------------------
(* Failure *)

\* A service was created, and its arn is not in its row yet.
Unsaved == IF step = "record" /\ dbRow[handled] = "new" THEN {handled} ELSE {}

\* Any call of a step fails: repositories, builds, volumes, task definitions, services, waits.
\* At "record" create_service or update_service has had its effect: its answer is lost, or
\* the save after it fails, which are one exception to the step.
StepFails ==
  /\ step \in {"build", "volumes", "mount", "create", "call", "record", "wait"}
  /\ pipeFaults < MaxPipeFaults /\ pipeFaults' = pipeFaults + 1
  /\ troubled' = TRUE
  /\ step' = IF step = "wait" THEN "undo after create" ELSE "undo"
  /\ excused' = excused \cup Unsaved
  /\ UNCHANGED <<args, inStep, handled, created, deployment, dbRow, awsState, runNo>>

\* Variant: the cleanup deletes the rows, and only the rows, of what it created.
CleanUpRowsOnly ==
  /\ step = "undo after create"
  /\ step' = "undo"
  /\ dbRow' = [n \in EcsNames |-> IF n \in created THEN "none" ELSE dbRow[n]]
  /\ UNCHANGED <<args, inStep, handled, created, deployment, awsState, runCounts>>

\* cleanup of the create step, which runs only if the step had completed: its first call is
\* scale_service, which ECSService does not have, and the exception is passed over.
CleanUpCreatedServices ==
  /\ step = "undo after create"
  /\ step' = "undo"
  /\ UNCHANGED <<args, inStep, handled, created, deployment, dbRow, awsState, runCounts>>

\* InitializeDeployment.cleanup
ConcludeAsFailed ==
  /\ step = "undo"
  /\ step' = "failed"
  /\ deployment' = IF deployment = "running" THEN "failed" ELSE deployment
  /\ UNCHANGED <<args, inStep, handled, created, dbRow, awsState, runCounts>>

Killed ==
  /\ ~BetweenRuns /\ pipeFaults < MaxPipeFaults /\ pipeFaults' = pipeFaults + 1
  /\ step' = "idle"
  /\ excused' = excused \cup Unsaved
  /\ UNCHANGED <<args, inStep, handled, created, deployment, dbRow, awsState, runNo, troubled>>

\* rc destroy of a v1 project: a failed delete_service is passed over, the row goes either way.
TeardownService(n) ==
  /\ BetweenRuns /\ step' = "idle" /\ dbRow[n] # "none"
  /\ dbRow' = [dbRow EXCEPT ![n] = "none"]
  /\ \/ /\ dbRow[n] = "arn"
        /\ ecs' = [ecs EXCEPT ![n] = NoService] /\ UNCHANGED <<pipeFaults, excused>>
     \/ /\ dbRow[n] = "arn" /\ pipeFaults < MaxPipeFaults /\ pipeFaults' = pipeFaults + 1
        /\ excused' = excused \cup {n} /\ UNCHANGED ecs
     \/ dbRow[n] = "new" /\ UNCHANGED <<ecs, pipeFaults, excused>>
  /\ UNCHANGED <<args, inStep, handled, created, deployment, pushed, efs, runNo, troubled>>

\* The management command deletes the service and keeps its row, arn and all.
DeleteCommand(n) ==
  /\ BetweenRuns /\ step' = "idle" /\ ecs[n].there /\ dbRow[n] = "arn"
  /\ pipeFaults < MaxPipeFaults /\ pipeFaults' = pipeFaults + 1
  /\ ecs' = [ecs EXCEPT ![n] = NoService]
  /\ excused' = excused \cup {n}
  /\ UNCHANGED <<args, inStep, handled, created, deployment, dbRow, pushed, efs, runNo, troubled>>

PipelineNext ==
  \/ InitializeDeployment \/ SetupEfsVolumes \/ CreateMountTargets
  \/ \E s \in ComposeServices : BuildAndPushImages(s)
  \/ CreateOrUpdateService \/ CallRefused \/ RecordArn \/ FinalizeDeployment
  \/ \E n \in EcsNames : \/ GetOrCreateRow(n) \/ WaitForStability(n) \/ RolloutCompletes(n)
                         \/ WaitTimesOut(n) \/ TeardownService(n) \/ DeleteCommand(n)
  \/ StepFails \/ CleanUpCreatedServices \/ ConcludeAsFailed \/ Killed

PipelineSpec == PipelineInit /\ [][PipelineNext]_pipelineVars

-----------------------------------------------------------------------------
PipelineTypeOK ==
  /\ args \in [kind : {"multi", "standard"}, selected : SUBSET ComposeServices,
               build : BOOLEAN, dryRun : BOOLEAN, tracked : BOOLEAN]
  /\ step \in {"idle", "build", "volumes", "mount", "create", "call", "record", "wait",
               "finalize", "done", "undo after create", "undo", "failed"}
  /\ inStep \subseteq EcsNames /\ handled \in EcsNames /\ created \subseteq EcsNames
  /\ deployment \in {"none", "running", "failed"}
  /\ dbRow \in [EcsNames -> {"none", "new", "arn"}]
  /\ ecs \in [EcsNames -> [there : BOOLEAN, td : 0..MaxRuns, stable : BOOLEAN]]
  /\ pushed \in [ComposeServices -> 0..MaxRuns] /\ efs \in {"none", "bare", "mounted"}
  /\ runNo \in 0..MaxRuns /\ pipeFaults \in 0..MaxPipeFaults
  /\ troubled \in BOOLEAN /\ excused \subseteq EcsNames

\* "Pipeline completed successfully": every service the run was for runs, settled, the task
\* definition this run registered, and what the run was to build is in every repository
\* those tasks pull from, whatever failed runs, teardowns and deletes came before.
GreenRunsThisRun ==
  step = "done" /\ ~args.dryRun =>
    \A n \in Deployed :
      /\ ecs[n].there /\ ecs[n].td = runNo /\ ecs[n].stable /\ TasksCanStart(n)
      /\ args.build => \A s \in ImagesOf(n) : pushed[s] = runNo

\* A failed deployment can be repeated: a run none of whose calls fails ends green, but for
\* what the code does not repair.  A service whose row and AWS were parted is refused by
\* every run: created by a run that was killed or failed before the arn was saved (the answer
\* or the save was lost), taken over though the look at AWS failed, torn down though
\* delete_service failed, or deleted by the management command.  And tasks with a volume never
\* start on a file system whose mount targets a run died or failed to make, though "The EFS
\* file system and access points will be reused on the next deployment attempt".
RetryIsGreen ==
  step = "failed" /\ ~troubled =>
    excused \cap Deployed # {} \/ \E n \in Deployed : ~TasksCanStart(n)
=============================================================================
