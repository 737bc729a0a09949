-------------------------------- MODULE RcUp --------------------------------
(***************************************************************************)
(* `rc up`, `rc deploy` and `rc secrets push` (cli_commands/up.py,         *)
(* cli_commands/_dispatchers.py, cli_v2.dispatch_if_v2) against Secrets    *)
(* Manager and ECS: the order in which env files are pushed, task          *)
(* definitions are applied, images are pushed, services are rolled and     *)
(* lifecycle hooks run, while ECS places tasks on its own schedule.        *)
(*                                                                         *)
(* One command runs at a time and the env files are edited between         *)
(* commands.  A secret blob is the version of the env file it was written  *)
(* from, or one of ABSENT, EMPTY ("{}") and PLACEHOLDER (what terraform    *)
(* writes into a secret it creates).  The building of images, the          *)
(* force-roll of `rc deploy` and the wait for it are one step each here:   *)
(* DeployRun and EcsRollout have their detail.                             *)
(***************************************************************************)
EXTENDS Integers, FiniteSets

CONSTANTS Services,      \* compose services
          EcsServices,   \* names of ECS services
          Layouts,       \* the stacks looked at: [compose, ecs, built, hook], ecs the
                         \* rendered names, built those of them with an image of their own,
                         \* hook the one that runs the service with an auto_on_deploy hook
          Secrets,       \* the source=file secrets rc.yml may declare
          UsesOf,        \* ECS service -> the secrets its task definition reads
          MaxVersion,    \* env files go through versions 0..MaxVersion
          KeysAt,        \* secret, version -> the keys of that env file
          MaxRuns,       \* bound on the commands of a behaviour
          MaxEdits,      \* bound on the edits of env files and source code
          Faults         \* whether AWS calls fail and commands are killed

Versions == 0..MaxVersion
ABSENT == -3
EMPTY == -2
PLACEHOLDER == -1
Blobs == {ABSENT, EMPTY, PLACEHOLDER} \cup Versions
NotDemanded == -4

ASSUME RcUpAssumption ==
  /\ MaxVersion \in Nat /\ MaxRuns \in Nat /\ MaxEdits \in Nat
  /\ \A l \in Layouts :
       /\ l.compose \subseteq Services /\ l.ecs \subseteq EcsServices
       /\ l.built \subseteq l.ecs /\ l.hook \in l.ecs
       \* a service is in one ECS service, its own or a task group
       /\ l.compose \subseteq l.ecs => l.ecs = l.compose
  /\ UsesOf \in [EcsServices -> SUBSET Secrets]
  /\ \E Keys \in {UNION {KeysAt[s][v] : s \in Secrets, v \in Versions}} :
       KeysAt \in [Secrets -> [Versions -> SUBSET Keys]]
  /\ Faults \in BOOLEAN

VARIABLES
  layout,    \* the services of the stack
  disk,      \* secret -> version of its env file on the operator's disk
  declared,  \* the secrets rc.yml declares
  code,      \* version of the source the images are built from
  edits,     \* edits so far
  latest,    \* version of the image behind :latest in ECR
  sm,        \* secret -> the blob last written to Secrets Manager
  seen,      \* secret -> the blob a reader gets: it may lag behind sm
  demand,    \* ECS service -> secret -> version its task definition was rendered from
  rollout,   \* ECS service -> "none", "rolling", "steady" or "reverted"
  task,      \* ECS service -> what its running tasks started with
  pc, kind,  \* the step and the kind of the running command
  todo,      \* what is left of the loop the command is in
  wait,      \* the secret being read back, as a set
  rendered,  \* secret -> version the emitted task definitions demand
  unread,    \* secrets verify_secret_keys_readable could not compare, or compared
             \* with a blob that had been written over by one without the keys
  reverted,  \* services the circuit breaker reverted during this command
  warned,    \* the command printed a WARN or a failure
  outcome,   \* of the last command: "failed" if refused or killed, "none" after an edit
  runs       \* commands started so far

smVars == <<sm, seen>>
ecsVars == <<demand, rollout, task>>
opVars == <<layout, disk, declared, code, edits>>
upVars == <<layout, disk, declared, code, edits, latest, sm, seen, demand, rollout, task, pc, kind,
            todo, wait, rendered, unread, reverted, warned, outcome, runs>>

NoRender == [s \in Secrets |-> NotDemanded]
NoTask == [up |-> FALSE, def |-> [s \in Secrets |-> NotDemanded],
           vals |-> [s \in Secrets |-> ABSENT], img |-> 0]
Demands == [Secrets -> Versions \cup {NotDemanded}]
Tasks == [up : BOOLEAN, def : Demands, vals : [Secrets -> Blobs], img : 0..MaxEdits]

LiveKeys(s, blob) == IF blob \in Versions THEN KeysAt[s][blob] ELSE {}
DemandedKeys(s, v) == IF v \in Versions THEN KeysAt[s][v] ELSE {}
Readable(s, v, blob) == DemandedKeys(s, v) \subseteq LiveKeys(s, blob)

\* What emit_terraform puts in the task definition of e for the declared secrets.
TaskDef(e, of) == [s \in Secrets |-> IF s \in UsesOf[e] THEN of[s] ELSE NotDemanded]

UpInit ==
  /\ layout \in Layouts
  /\ disk = [s \in Secrets |-> 0]
  /\ declared \in SUBSET Secrets
  /\ code = 0 /\ edits = 0 /\ latest = 0
  /\ sm \in [Secrets -> {ABSENT, EMPTY}]
  /\ \A s \in Secrets : sm[s] = EMPTY => s \in declared
  /\ seen = sm
  /\ demand = [e \in EcsServices |-> [s \in Secrets |-> NotDemanded]]
  /\ rollout = [e \in EcsServices |-> "none"]
  /\ task = [e \in EcsServices |-> NoTask]
  /\ pc = "idle" /\ kind = "none" /\ todo = {} /\ wait = {}
  /\ rendered = NoRender
  /\ unread = {} /\ reverted = {} /\ warned = FALSE /\ outcome = "none" /\ runs = 0

\* What the session remembers of a command only matters while its outcome is "ok".
Forget(how) ==
  /\ pc' = "idle" /\ kind' = "none" /\ todo' = {} /\ wait' = {} /\ rendered' = NoRender
  /\ unread' = {} /\ reverted' = {} /\ warned' = FALSE /\ outcome' = how
EndOk ==
  /\ pc' = "idle" /\ outcome' = "ok"
  /\ UNCHANGED <<kind, todo, wait, rendered, unread, reverted>>

-----------------------------------------------------------------------------
(* The operator, between two commands. *)

EditEnvFile(s) ==
  /\ pc = "idle" /\ disk[s] < MaxVersion /\ edits < MaxEdits
  /\ edits' = edits + 1
  /\ disk' = [disk EXCEPT ![s] = @ + 1]
  /\ Forget("none")
  /\ UNCHANGED <<layout, declared, code, latest, smVars, ecsVars, runs>>

DeclareSecret(s) ==
  /\ pc = "idle" /\ s \notin declared
  /\ declared' = declared \cup {s}
  /\ Forget("none")
  /\ UNCHANGED <<layout, disk, code, edits, latest, smVars, ecsVars, runs>>

EditCode ==
  /\ pc = "idle" /\ edits < MaxEdits
  /\ edits' = edits + 1
  /\ code' = code + 1
  /\ Forget("none")
  /\ UNCHANGED <<layout, disk, declared, latest, smVars, ecsVars, runs>>

\* rc up pushes the values of existing secrets first; rc deploy renders at once.
Start(k) ==
  /\ pc = "idle" /\ runs < MaxRuns
  /\ kind' = k
  /\ pc' = CASE k = "up" /\ declared # {} -> "prepush"
             [] k = "push" -> "push"
             [] OTHER -> "render"
  /\ todo' = IF pc' \in {"prepush", "push"} THEN declared ELSE {}
  /\ reverted' = {} /\ warned' = FALSE /\ outcome' = "running" /\ runs' = runs + 1
  /\ unread' = {} /\ wait' = {}
  /\ UNCHANGED <<opVars, latest, smVars, ecsVars, rendered>>


\* Where the command goes when its push is over, or has failed.
AfterPush == IF kind = "push" THEN "done" ELSE "hooks"

-----------------------------------------------------------------------------
(* _secrets_push_v2: one secret after the other, each put and read back.    *)
(* The first pass of rc up (prepush) leaves out secrets that do not exist.  *)

SkipAbsent(s) ==
  /\ pc = "prepush" /\ wait = {} /\ s \in todo
  /\ sm[s] = ABSENT \/ Faults
  /\ todo' = todo \ {s}
  /\ UNCHANGED <<opVars, latest, smVars, ecsVars, pc, kind, wait, rendered, unread,
                 reverted, warned, outcome, runs>>

Put(s) ==
  /\ pc \in {"prepush", "push"} /\ wait = {} /\ s \in todo /\ sm[s] # ABSENT
  /\ sm' = [sm EXCEPT ![s] = disk[s]]
  /\ wait' = {s}
  /\ UNCHANGED <<opVars, latest, seen, ecsVars, pc, kind, todo, rendered, unread,
                 reverted, warned, outcome, runs>>

\* Variant: the next secret is pushed without reading this one back.
ReadBackSkipped(s) ==
  /\ s \in wait
  /\ wait' = {} /\ todo' = todo \ {s}
  /\ UNCHANGED <<opVars, latest, smVars, ecsVars, pc, kind, rendered, unread, reverted,
                 warned, outcome, runs>>

\* _wait_for_secret_keys: the keys read back, or the wait times out and only warns.
ReadBack(s) ==
  /\ s \in wait
  /\ \/ Readable(s, disk[s], seen[s]) /\ UNCHANGED warned
     \/ Faults /\ ~Readable(s, disk[s], seen[s]) /\ warned' = TRUE
  /\ wait' = {}
  /\ todo' = todo \ {s}
  /\ UNCHANGED <<opVars, latest, smVars, ecsVars, pc, kind, rendered, unread, reverted,
                 outcome, runs>>

\* put_secret_value raises: rc up and rc deploy warn and go on, rc secrets push fails.
PutFails ==
  /\ pc \in {"prepush", "push"} /\ wait = {}
  /\ \E s \in todo : Faults \/ (pc = "push" /\ sm[s] = ABSENT)
  /\ IF kind = "push"
     THEN Forget("failed")
     ELSE /\ pc' = IF pc = "prepush" THEN "render" ELSE "hooks"
          /\ todo' = {} /\ warned' = TRUE
          /\ UNCHANGED <<kind, wait, rendered, unread, reverted, outcome>>
  /\ UNCHANGED <<opVars, latest, smVars, ecsVars, runs>>

\* The end of the loop.  Without a file secret the push returns before the rollout.
PushDone ==
  /\ pc \in {"prepush", "push"} /\ todo = {}
  /\ pc' = CASE pc = "prepush" -> "render"
             [] pc = "push" /\ declared # {} -> "roll"
             [] OTHER -> AfterPush
  /\ todo' = IF pc = "push" /\ declared # {} THEN layout.compose ELSE {}
  /\ UNCHANGED <<opVars, latest, smVars, ecsVars, kind, wait, rendered, unread, reverted,
                 warned, outcome, runs>>

\* Variant: a service ECS does not know under that name is passed over in silence.
RollQuietly(c) ==
  /\ pc = "roll" /\ c \in todo
  /\ rollout' = [e \in EcsServices |->
                   IF e = c /\ rollout[e] # "none" THEN "rolling" ELSE rollout[e]]
  /\ todo' = todo \ {c}
  /\ UNCHANGED <<opVars, latest, smVars, demand, task, pc, kind, wait, rendered, unread,
                 reverted, warned, outcome, runs>>

\* update_service(forceNewDeployment) under the COMPOSE name; a failure is printed.
RollAfterPush(c) ==
  /\ pc = "roll" /\ c \in todo
  /\ \/ /\ c \in layout.ecs /\ rollout[c] # "none"
        /\ rollout' = [rollout EXCEPT ![c] = "rolling"]
        /\ UNCHANGED warned
     \/ /\ (c \in layout.ecs => rollout[c] = "none") \/ Faults
        /\ warned' = TRUE
        /\ UNCHANGED rollout
  /\ todo' = todo \ {c}
  /\ UNCHANGED <<opVars, latest, smVars, demand, task, pc, kind, wait, rendered, unread,
                 reverted, outcome, runs>>

RollDone ==
  /\ pc = "roll" /\ todo = {}
  /\ pc' = AfterPush
  /\ UNCHANGED <<opVars, latest, smVars, ecsVars, kind, todo, wait, rendered, unread,
                 reverted, warned, outcome, runs>>

-----------------------------------------------------------------------------
(* provider.deploy *)

\* emit_terraform: the task definitions demand the keys of the env files as they are.
Render ==
  /\ pc = "render"
  /\ rendered' = [s \in Secrets |-> IF s \in declared THEN disk[s] ELSE NotDemanded]
  /\ pc' = "verify"
  /\ UNCHANGED <<opVars, latest, smVars, ecsVars, kind, todo, wait, unread, reverted,
                 warned, outcome, runs>>

\* verify_secret_keys_readable: an absent or unreadable secret is not compared.
NotCompared == {s \in declared : seen[s] = ABSENT}
\* Variant: any key in the live secret will do.
MissingAll(skipped) == {s \in declared \ skipped : LiveKeys(s, seen[s]) = {}}
Missing(skipped) == {s \in declared \ skipped : ~Readable(s, disk[s], seen[s])}
\* Read from a copy that is out of date, where the last blob lacks a key.
WrittenOver == {s \in declared : seen[s] # sm[s] /\ ~Readable(s, disk[s], sm[s])}
Verify ==
  /\ pc = "verify"
  /\ \E denied \in IF Faults THEN SUBSET declared ELSE {{}} :
       LET skipped == NotCompared \cup denied IN
         IF Missing(skipped) # {}
         THEN Forget("failed")
         ELSE /\ pc' = "apply" /\ unread' = skipped \cup WrittenOver
              /\ UNCHANGED <<kind, todo, wait, rendered, reverted, warned, outcome>>
  /\ UNCHANGED <<opVars, latest, smVars, ecsVars, runs>>

\* terraform creates the secrets in C and moves the services in E to their task definition.
Terraform(C, E) ==
  /\ sm' = [s \in Secrets |-> IF s \in C /\ sm[s] = ABSENT THEN PLACEHOLDER ELSE sm[s]]
  /\ seen' = [s \in Secrets |-> IF s \in C /\ sm[s] = ABSENT THEN PLACEHOLDER ELSE seen[s]]
  /\ demand' = [e \in EcsServices |-> IF e \in E THEN TaskDef(e, rendered) ELSE demand[e]]
  /\ rollout' = [e \in EcsServices |->
                   IF e \in E /\ (rollout[e] = "none" \/ demand[e] # TaskDef(e, rendered))
                   THEN "rolling" ELSE rollout[e]]

Apply ==
  /\ pc = "apply"
  /\ Terraform(declared, layout.ecs)
  /\ pc' = "build" /\ unread' = {}
  /\ UNCHANGED <<opVars, latest, task, kind, todo, wait, rendered, reverted, warned,
                 outcome, runs>>

\* An apply that fails has done part of its work; the command ends with the error.
ApplyFails ==
  /\ pc = "apply" /\ Faults
  /\ \E E \in SUBSET layout.ecs : E # layout.ecs /\ Terraform(declared, E)
  /\ Forget("failed")
  /\ UNCHANGED <<opVars, latest, task, runs>>

\* _build_and_push_images, then the force-roll of what was pushed, which rc up defers.
BuildAndPush ==
  /\ pc = "build"
  /\ latest' = code
  /\ rollout' = [e \in EcsServices |-> IF kind # "up" /\ e \in layout.built
                                       THEN "rolling" ELSE rollout[e]]
  /\ pc' = IF kind # "up" /\ layout.built # {} THEN "gate" ELSE "autopush"
  /\ UNCHANGED <<opVars, smVars, demand, task, kind, todo, wait, rendered, unread,
                 reverted, warned, outcome, runs>>

BuildFails ==
  /\ pc = "build" /\ Faults
  /\ Forget("failed")
  /\ UNCHANGED <<opVars, latest, smVars, ecsVars, runs>>

\* The provider's _wait_for_services_stable, under the names it has rolled.
GatePasses ==
  /\ pc = "gate" /\ \A e \in layout.built : rollout[e] # "rolling"
  /\ pc' = "autopush"
  /\ UNCHANGED <<opVars, latest, smVars, ecsVars, kind, todo, wait, rendered, unread,
                 reverted, warned, outcome, runs>>

\* Its budget is used up, an error event is flagged or a call raises.
GateFails ==
  /\ pc = "gate" /\ (Faults \/ \E e \in layout.built : rollout[e] = "rolling")
  /\ Forget("failed")
  /\ UNCHANGED <<opVars, latest, smVars, ecsVars, runs>>

\* _auto_push_empty_secrets_if_any: only a blob with no key at all counts as empty.
EmptySecrets == {s \in declared : seen[s] = EMPTY}
AutoPush ==
  /\ pc = "autopush"
  /\ \/ /\ pc' = IF EmptySecrets # {} \/ kind = "up" THEN "push" ELSE "hooks"
        /\ UNCHANGED warned
     \/ /\ Faults
        /\ pc' = IF kind = "up" THEN "push" ELSE "hooks"
        /\ warned' = TRUE
  /\ todo' = IF pc' = "push" THEN declared ELSE {}
  /\ UNCHANGED <<opVars, latest, smVars, ecsVars, kind, wait, rendered, unread, reverted,
                 outcome, runs>>

\* cli_v2's _wait_for_services_stable asks ECS for the COMPOSE names, then the hooks run.
Unsettled == {c \in layout.compose \cap layout.ecs : rollout[c] = "rolling"}
RunHooks ==
  /\ pc = "hooks"
  /\ \/ Unsettled = {} /\ UNCHANGED warned
     \/ (Unsettled # {} \/ Faults) /\ warned' = TRUE
  /\ EndOk
  /\ UNCHANGED <<opVars, latest, smVars, ecsVars, runs>>

SecretsPushEnds ==
  /\ pc = "done"
  /\ Forget("none")
  /\ UNCHANGED <<opVars, latest, smVars, ecsVars, runs>>

\* Ctrl-C, a lost terminal, a cancelled CI job.
Killed ==
  /\ pc # "idle" /\ Faults
  /\ Forget("failed")
  /\ UNCHANGED <<opVars, latest, smVars, ecsVars, runs>>

-----------------------------------------------------------------------------
(* Secrets Manager and ECS *)

Propagate(s) ==
  /\ seen[s] # sm[s]
  /\ seen' = [seen EXCEPT ![s] = sm[s]]
  /\ UNCHANGED <<opVars, latest, sm, ecsVars, pc, kind, todo, wait, rendered, unread,
                 reverted, warned, outcome, runs>>

Placeable(e) == \A s \in Secrets : Readable(s, demand[e][s], seen[s])

\* New tasks read their secrets and the image when they start.
Place(e) ==
  /\ rollout[e] = "rolling" /\ Placeable(e)
  /\ rollout' = [rollout EXCEPT ![e] = "steady"]
  /\ task' = [task EXCEPT ![e] = [up |-> TRUE, def |-> demand[e], vals |-> seen,
                                  img |-> latest]]
  /\ UNCHANGED <<opVars, latest, smVars, demand, pc, kind, todo, wait, rendered, unread,
                 reverted, warned, outcome, runs>>

\* The circuit breaker goes back to the task definition the service ran before.
BreakerReverts(e) ==
  /\ rollout[e] = "rolling" /\ ~Placeable(e) /\ task[e].up
  /\ rollout' = [rollout EXCEPT ![e] = "reverted"]
  /\ demand' = [demand EXCEPT ![e] = task[e].def]
  /\ reverted' = reverted \cup {e}
  /\ UNCHANGED <<opVars, latest, smVars, task, pc, kind, todo, wait, rendered, unread,
                 warned, outcome, runs>>

-----------------------------------------------------------------------------
Command ==
  \/ \E s \in Secrets : SkipAbsent(s) \/ Put(s) \/ ReadBack(s)
  \/ PutFails \/ PushDone \/ RollDone
  \/ \E c \in Services : RollAfterPush(c)
  \/ Render \/ Verify \/ Apply \/ ApplyFails \/ BuildAndPush \/ BuildFails
  \/ GatePasses \/ GateFails \/ AutoPush \/ RunHooks \/ SecretsPushEnds

Operator ==
  \/ \E s \in Secrets : EditEnvFile(s) \/ DeclareSecret(s)
  \/ EditCode
  \/ \E k \in {"up", "deploy", "push"} : Start(k)
  \/ Killed

Aws ==
  \/ \E s \in Secrets : Propagate(s)
  \/ \E e \in EcsServices : Place(e) \/ BreakerReverts(e)

UpNext == Command \/ Operator \/ Aws

Settles ==
  \/ \E s \in Secrets : Propagate(s)
  \/ \E e \in EcsServices : Place(e)

\* A running command goes on; a write becomes visible, a placeable task is placed.
UpFairness == WF_upVars(Command) /\ WF_upVars(Settles)

UpSpec == UpInit /\ [][UpNext]_upVars /\ UpFairness

-----------------------------------------------------------------------------
(* Properties *)

\* The type invariant of the command, Secrets Manager and ECS.
UpTypeOK ==
  /\ layout \in Layouts /\ disk \in [Secrets -> Versions] /\ declared \subseteq Secrets
  /\ code \in 0..MaxEdits /\ edits \in 0..MaxEdits /\ latest \in 0..MaxEdits
  /\ sm \in [Secrets -> Blobs] /\ seen \in [Secrets -> Blobs]
  /\ demand \in [EcsServices -> Demands]
  /\ rollout \in [EcsServices -> {"none", "rolling", "steady", "reverted"}]
  /\ task \in [EcsServices -> Tasks]
  /\ pc \in {"idle", "prepush", "push", "roll", "done", "render", "verify", "apply",
             "build", "gate", "autopush", "hooks"}
  /\ kind \in {"none", "up", "deploy", "push"}
  /\ todo \subseteq Secrets \cup Services /\ wait \subseteq Secrets
  /\ rendered \in Demands
  /\ unread \subseteq Secrets /\ reverted \subseteq EcsServices
  /\ warned \in BOOLEAN /\ runs \in 0..MaxRuns
  /\ outcome \in {"none", "running", "ok", "failed"}

\* verify_secret_keys_readable: terraform never moves a service with running tasks to a
\* task definition demanding a key that cannot be read, unless the check could not compare
\* that secret, or was shown a blob that had been replaced by one without the key.
RollsReadable ==
  [][\A e \in EcsServices :
       demand'[e] # demand[e] /\ rollout'[e] = "rolling" /\ task[e].up =>
         \A s \in Secrets : Readable(s, demand'[e][s], seen[s]) \/ s \in unread]_upVars

UpSucceeded == outcome = "ok" /\ kind = "up" /\ ~warned /\ declared # {}

\* What the tasks of e must have started with for the operator's work to be live.  A value
\* rotated without a new key is not waited for: _wait_for_secret_keys compares keys.
Current(e) ==
  /\ task[e].up
  /\ task[e].img = latest
  /\ \A s \in Secrets : task[e].def[s] # NotDemanded =>
       task[e].vals[s] = disk[s] \/ Readable(s, disk[s], task[e].vals[s])

\* The circuit breaker took e back to a task definition that demands a key its env file
\* has lost: no roll can place it again.
Stranded(e) == e \in reverted /\ \E s \in Secrets : ~Readable(s, demand[e][s], disk[s])

\* An `rc up` with a file secret that ends without a warning leaves no service behind:
\* each runs the pushed image and secrets, or is being rolled to them, under the task
\* definition of this run unless the circuit breaker took it back meanwhile.  Only one it
\* took back to the demand for a key since removed or renamed is left, in silence.
UpToDateAfterUp ==
  UpSucceeded => \A e \in layout.ecs :
    /\ rollout[e] = "rolling" \/ Current(e) \/ Stranded(e)
    /\ demand[e] = TaskDef(e, rendered) \/ e \in reverted

\* Nothing waits for the tasks of a hook that ECS does not have under its compose name (a
\* service prefix, a task group) in an `rc up` without file secrets, or in an `rc deploy`
\* that builds no image for them: cli_v2's wait finds none of its names and returns.
HookUnwaited ==
  /\ layout.hook \notin layout.compose
  /\ IF kind = "up" THEN declared = {} ELSE layout.hook \notin layout.built

\* _wait_for_services_stable (cli_v2.py 1187-1191: "so the hook lands on a task with the
\* latest task definition"): a hook that runs without a warning runs in tasks of the task
\* definition this command applied, unless the breaker took it back or nothing waited.
HookOnLatest ==
  [][pc = "hooks" /\ outcome' = "ok" /\ ~warned' =>
       \/ task[layout.hook].up /\ task[layout.hook].def = TaskDef(layout.hook, rendered)
       \/ layout.hook \in reverted
       \/ HookUnwaited]_upVars

\* No step runs ahead of what it needs: keys before the task definitions that demand them,
\* new tasks before the hooks (provider.py 4244-4330, cli_v2.py 1181-1410).
NothingTooEarly == RollsReadable /\ HookOnLatest

\* After such an `rc up` every service that is not stranded settles on current tasks, if the
\* operator waits.
UpSettles ==
  UpSucceeded ~> \/ \A e \in layout.ecs : (rollout[e] = "steady" /\ Current(e)) \/ Stranded(e)
                 \/ outcome # "ok"
=============================================================================
