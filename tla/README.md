# remote-compose in TLA+

`remote-compose` (`rc`) deploys a docker-compose project to AWS ECS: it renders terraform,
applies it, builds and pushes images, force-rolls the ECS services and waits until the roll
has settled. An older half, a Django application, deploys through its own pipeline and keeps
its deployments in a database. This directory holds specifications of their behaviour, the
model-checking configurations that exercise them, and proofs of the properties that matter
most. Paths below are relative to `src/remote_compose/`; `provider.py` is
`provider/ecs/provider.py`.

Reading order: the roll first (`RollPolicy`, `RollWindow`, `RollGate`, `EcsRollout`), the deploy
around it (`DeployRun`, `BuildBackend`, `CodeBuildBackend`, `StateReconcile`, `TerraformPipes`,
`Ec2Sizing`), the commands of an operator (`RcUp`, `RemoteCommands`, `DbTransfers`, `Ec2Destroy`,
`EphemeralStacks`, `DevHostRegistry`), the older half (`DeploymentPipeline`, `Orchestration`,
`RateLimits`). Proofs of a module `M` are in `M_proofs`, except that the smaller components are
proved together like they are run together: `StackCommands_proofs` (Ec2Destroy, RcUp,
TerraformPipes, Ec2Sizing), `SharedRecords_proofs` (RateLimits, RemoteCommands, Orchestration) and
`Standalone_proofs` (RollWindow, CodeBuildBackend, DbTransfers, DeploymentPipeline). Each of these
three also proves the module its run checks, `MCStackCommands`, `MCSharedRecords` or `MCStandalone`,
type correct.

To run one: `tlc -config MCEcsRollout.cfg MCEcsRollout.tla`; to check proofs:
`tlapm EcsRollout_proofs.tla`.

## 1. Inventory

How the parts interact: the CLI builds a `DeployContext` and calls one provider method
(`deploy`, `destroy`, ...) in one process. A deploy is sequential except for the thread pool of
the image build. Everything hard comes from outside that process: AWS moves on its own (ECS
replaces tasks, rolls back, kills), terraform, docker and the network fail, the user interrupts,
edits, runs a second `rc` in the same directory, and every deploy starts from what the last one
left in files, in ECR and in ECS.

| Component | State | Operations | Hard behaviour | Correct means |
|---|---|---|---|---|
| Rollout policy (`provider.py` 503-738, 1236-1307) | none, pure | statefulness, percentages, refusals, hints, group policy | rounding up and down at every replica count | never accept what cannot roll, never refuse what can |
| Force-roll, watcher, gate (`provider.py` 4973-5329, `services.tf.j2`) | policies, rolled names, seen event ids, deadlines; ECS: deployments, tasks, `deploymentConfiguration` | resolve, roll, baseline, poll, wait | ECS and rc interleave; circuit breaker; deadlines; partial failure | refused configurations touch nothing; stateful tasks never overlap; green means settled |
| Deploy: groups, build, push, roll (`provider.py` 1400-1495, 3437-3577, 3789-4135, `image/`, `no_cache_state.py`) | sentinel file, ECR tags, build cache, local images, pool of builds | apply, plan, re-tag, build, push, roll | failed or killed at any step, next deploy starts from the rest; pool of threads | siblings run one image; a tag names one image; a broken group rolls nothing |
| Dev hosts (`dev_host/service.py`, `cli_commands/dev.py`) | `.rc/dev-hosts.yml`, flock, terraform states, EC2 boxes | up, stop, start, destroy | processes in parallel, failing rollbacks, buffered writes | every box that bills is tracked; no update lost; no command waits for ever |
| Reconcile, plan and apply of a deploy (`provider.py` 3437-3577, 4590-4970, `plan_analysis.py`, `deploy_preflight.py`) | terraform state and its lock, saved plan | look at the lock, probe, import, plan, apply | overlapping deploys, imports that fail for the wrong reason, stale plans | a green deploy owns what was there; what runs is what was announced |
| Destroy and EC2 pre-drain (`provider.py` 5331-5750) | ECS, ASG, capacity providers | scale to 0, drain, destroy | deadlock of drain and 100 % healthy minimum | pre-drain never stops destroy, drains before it shrinks |
| Terraform runner, emitter, backend (`terraform/`) | child process, pipes, rendered files | init, plan, apply, output | two pipes read one after the other | a run ends with all its output |
| Remote build backend (`image/backend.py`, `provider/ecs/ecr_auth.py`) | bucket, project, build, log stream | create, upload, start, poll, drain | two deploys at once, a log that never runs dry, killed clients | the contract of `BuildBackend`: what returns is built and pushed, and it ends |
| `rc up`, secrets (`cli_commands/up.py`, `_dispatchers.py`, `envfile.py`) | env files, Secrets Manager, task definitions, tasks | push, read back, verify, apply, build, auto-push, roll, hooks | eventual consistency, partial pushes, ECS on its own schedule | nothing runs before what it needs; after an `rc up` every service runs what was pushed |
| Ephemeral stacks (`ephemeral.py`, `cli_commands/destroy.py`) | `~/.rc` registry with deadlines | register, renew, destroy, reap | read-modify-write without a lock, list read before a prompt | what has resources has a record; an expired stack is reaped |
| Provider interface, in-memory provider (`provider/base.py`, `fake.py`) | in-memory stacks | same interface | - | the double honours the contract |
| Sizing, network, IAM plans (`autosize.py`, `network_plan.py`, `iam_plan.py`) | none | arithmetic over tasks and CIDRs | rounding, bin packing | a fleet that is accepted hosts its tasks, a refused one could not |
| Configuration parsing (`config/`) | none | validate | - | - |
| State backend and adoption (`state_backend/`) | bucket, lock table, import plan | bootstrap, import | restart half way | idempotent |
| Remote commands and hooks (`provider.py` 5967-6523, `cli_v2.py` 1288-1345, `cli_commands/exec.py`, `run.py`, `lifecycle.py`) | session, one-off task | list, choose, exec, run, wait, probe | sessions break while commands run on, tasks are replaced, probes are not heard | what rc reports is what happened |
| Database backup, restore, dev push (`cli_commands/db.py`, `_dispatchers.py`, `dev_push.py`) | multipart upload, files in the container | dump, cut, upload, complete, unpack, restore | session breaks while the script runs on, leftovers of earlier scripts | a backup is one whole dump or nothing |
| Legacy deployment pipeline (`services/deployment_pipeline/`) | rows, repositories, file system, ECS services | run, roll back, tear down | a step fails after its effect, runs follow failed runs | green runs this run; a failed run can be repeated |
| Legacy orchestration (`services/orchestration_service.py`) | batches, deployments, rows | four strategies, roll back, cancel | a pool, late saves over each other, dead workers | a failed run rolls all of it back; no project stays locked |
| Rate limiter, AWS client cache (`services/rate_limiter.py`, `aws_client_factory.py`) | counters with windows, cached clients | consume, get | check-then-act by clients, windows that end | a limit is a limit |
| Legacy AWS services (`services/*_service.py`) | none | wrappers of single calls | - | - |
| Celery tasks, models, REST (`tasks/`, `models/`, `api/`) | deployment rows | task retries, status changes | retries of what was done, redelivery | the row is released in the end |
| Migration, fixes, diagnostics (`v1_migrate/`, `copilot/`, `doctor.py`, ...) | generated files | generate, report | restart half way | - |

The hazards of this code, each at its line with the properties aimed at it or the reason why
there is none, are in `PROJECT.json`.

## 2. What is modelled

### RollPolicy: operators, no state
The pure functions at the head of `provider.py`: `_is_stateful_service` (`IsStateful`, the three
signals as Booleans), `_deployment_percents` (`Percents`, `PercentsRejected`), the two hints of
its error message, `_group_roll_policy` (`GroupRejected`, `GroupPolicy`) and the rank of
`_DEPLOY_ORDER` (`GroupRank`). A service specification is a record of what these functions read.
The value errors of YAML (not a mapping, a Boolean where an integer is meant) are left to
`IsServiceSpec`; the code refuses them with the same exception.

### RollWindow: is the policy right about ECS?
One service, `old` and `new` tasks. `StartNew` and `StopOld` are ECS's scheduler (external) inside
the window that the healthy minimum, rounded up, and the maximum, rounded down, leave. Every
specification of the bounds is an initial state. `AcceptedNeverWedges` and `RefusedOnlyWhenStuck`
say together that `_deployment_percents` refuses exactly the percentages under which a service "can
never be deployed again".

### RollGate: the abstract promise of a force-roll
A verdict (`rolling`, `gating`, `green`, `red`), the services rolled and those whose deployment
has settled. Green needs every rolled service to have settled, settled is for good, and a verdict
is always reached.

### EcsRollout: the roll, the watcher and the wait, against ECS
| State | Code |
|---|---|
| `members` | the task groups and service specifications of rc.yml |
| `pc`, `todo`, `rolled` | where `_force_new_deployments` stands, groups left in `ordered`, `rolled_names` |
| `seen`, `flagged` | `seen_event_ids` (a count per service: events are only appended), `flagged` |
| `pending`, `scan`, `left` | `pending` of the wait, the part of the comprehension not yet evaluated, polls before `deadline` |
| `primary`, `rollout`, `others`, `cur`, `starting`, `old`, `cfg`, `desired`, `errs` | what ECS keeps of a service (external) |

One action per step of rc between two AWS calls: `Resolve` (all policies before the first
update), `RollGroup(g, n)` (one `update_service` accepted under one of the candidate names),
`RollFails`, `RollDone`, `Baseline`, `WatchPoll`, `WatchDisabled`, `WaitCheck(n)` (one
`describe_services` of the comprehension), `WaitFails`, `WaitRound`. Between any two of them ECS
may start a task, find it healthy, fail it with an event, lose a running task, stop an old one,
drop a drained deployment, complete, or trip the circuit breaker. The breaker goes back to the
last deployment that completed; a service without one ends as FAILED.

Green means *settled*, not *new*: the gate cannot tell a rolled-back deployment from a rolled one
(run `ecs_rollout_breaker`). For a stateful service there is no breaker, and green means new
(`GreenMeansNewForStateful`).

### DeployRun: from the apply to the roll, several deploys in a row
| State | Code |
|---|---|
| `source` | a version per build context, raised by `Edit` and `Fix` |
| `sentinel` | `.rc/no-cache-next-build` |
| `cached`, `stale` | layers of the build cache, and the groups where a fix may be hidden by them |
| `ecr`, `running` | image per repository and tag; image per service |
| `todo`, `specs`, `job`, `image`, `pushed`, `toRoll` | locals of `_build_and_push_images`, of the backend and of the roll |
| `args` | `--services`, `--tag`, `--no-build`, `--no-roll`, `build.push` |

`Begin`, `Applied`, `PlanBuild` (choice of the owners, consumption of the sentinel), `Resolve`
(re-tag or queue), the pool (`StartBuild`, `BuildDone`, `BuildDegraded`, `PushTag`, `JobFails`,
`BackendReturns`, `BackendRaises`), `RollService`, `Finish`; `Abort` is any exception or Ctrl-C at
any step. The roll is one action per service and always succeeds here or aborts: what happens
inside it is EcsRollout.

### DevHostRegistry: concurrent `rc dev` processes
The registry file at the granularity of its system calls: unlocked reads (`Check`, `Mark`),
`flock`, read and modify, `truncate`, `LOCK_UN`, and the flush of the buffered write by `close`
after it. A write over what another process has written meanwhile may leave a file that does not
parse (`torn`). `up` with a failing apply, its rollback and the record of a failed host; `stop`
and `start` with an EC2 call that may be refused; `destroy` with and without `--force`; a process
killed anywhere. terraform's state lock of a host turns a second process away, which `up` takes
for a failed apply.

### StateReconcile: overlapping deploys between the render and the apply
One stack, several `rc deploy` at once. `lock` and `tfstate` are terraform's; `stage`, `on`, `told`
and `plan` are where `deploy` stands, the resource it is reconciling, whether it has announced a
replacement and what its terraform does. The rendered configuration (`emitted`) and the saved plan
(`saved`, `fresh` while the state has not moved since) are files of the terraform directory under
fixed names. Deploys run in one directory or in several (`oneDir`; with a local backend always in
one), and those in one overwrite each other's: terraform plans whatever configuration is there
(`PlanOf`), and `TfApplyBegins` applies whatever plan is there. `overwritten` marks a deploy whose
plan was replaced after it had looked at it. `CheckLocalLock` reads the lock file and goes on;
`ProbeNamed` and `ProbeAlb` ask AWS; an import works (`ImportWorks`), meets an address that is taken
(`AlreadyManaged`) or fails, which means something else for the log group (deleted and left to the
apply), the bucket and the load balancer (the deploy raises). `SavePlan`, `InspectPlan` or
`NoPlanNeeded`, then the apply in two steps, so that another process or a kill can come between any
two. `InsightsCreatesLogs`, `AlbDeleted`, `WiredOutOfBand` and `ForceUnlock` are the world outside.

### BuildBackend and CodeBuildBackend: the contract of a build, and the remote one
`BuildBackend` is the abstract specification of `build_and_push`: a call that returns has pushed
every spec, every call returns or raises, and after a raise its images may still arrive.
`CodeBuildBackend` has one action per AWS call of `AwsCodeBuildBackend` (bucket, project, upload,
start, poll), and the relay of the log page by page with its two drains (`ReadPage`, `CaughtUp`,
`FinalPassEnds`, `DeadlinePasses`). Several calls race to the bucket and the project.
`ImplementsBackend` is the refinement, liveness included. The local backend is in DeployRun.

### TerraformPipes: `TerraformRunner._run`
terraform on two bounded pipes and a reader that reads one to its end before it looks at the
other.

### Ec2Sizing: how many instances
`auto_size` and `check_fixed_shape_capacity` as one resolution each (`ResolveAuto`,
`ResolveFixed`), then ECS placing tasks on the fleet one by one (`PlaceTask`), by what an instance
really offers. The integers are the code's: MiB, CPU units, twelve tenths of headroom. A sum over
services is `Total` of a function. The minimum of a group is at most its desired size where
auto_size computes both; a desired size the user gives is not compared with it, in the code or here.

### RcUp: the commands that carry secrets
`rc up`, `rc deploy` and `rc secrets push` one after the other, with edits of env files and code
between them. `disk`, `sm` and `seen` are a secret in its env file, in Secrets Manager, and as a
reader gets it; `demand` and `task` are what an ECS service's task definition was rendered from
and what its tasks started with. The steps are those of `dispatch_if_v2` and of the dispatchers:
push (`Put`, `SkipAbsent`, `ReadBack`), `Render`, `Verify` (the blocking check of readable keys),
`Apply`, `BuildAndPush`, the gate of `rc deploy` (`GatePasses`, `GateFails`), `AutoPush`,
`RollAfterPush`, `RunHooks`. Reads lag (`Propagate`), ECS places and reverts on its own schedule
(`Place`, `BreakerReverts`), calls fail, commands are killed. A layout is the compose names beside
the ECS names of a stack, which of these have an image of their own, and which runs the service
with the hook: the names differ with a task group or a prefix.

Two places wait for tasks before the hooks run. The provider's gate asks for the names it has
rolled and knows prefixes and groups; `rc up` defers the roll and so skips it. The wait of
`cli_v2.py` 1181-1280 asks for compose names, finds none of a prefixed or grouped stack, and
returns at once without a word, although its docstring says "so the hook lands on a task with the
latest task definition". `HookOnLatest`, the second half of `NothingTooEarly`, is stated for every
layout. In a prefixed or grouped stack it holds of `rc deploy` because of the gate, and of `rc up`
with file secrets because the roll under compose names then prints a warning; `HookUnwaited` names
what is left, where hooks run in old tasks or none: an `rc up` without file secrets, and an `rc
deploy` that builds no image for the service of the hook. Two more things the code does not
promise are named: a service the breaker took back to the demand for a key its env file has lost
(`Stranded`; no roll can place it again, and `rc up` says nothing), and a blob the blocking check
was shown that had already been replaced by one without the key (`WrittenOver`).

The gate also means that the first `rc deploy` of a stack that builds an image and whose secrets
are still empty cannot reach the auto-push after it ("pushing now so tasks can start", `cli_v2.py`
1107-1178): no task can start, and the gate fails first. `rc up` pushes before it rolls.

### RemoteCommands: exec, one-off tasks, hooks
One rc command in a stack whose tasks come and go. `exec` polls (`ListTasks`, `Describe`,
`WatchClock`), takes a task (`Chosen`), opens a session and takes the exit code from its sentinels
(`SessionReturns`), or from nothing (`ExitWithoutSentinels`); `run_one_off` starts a task of its
own (`RunTask`), waits and reads (`WaiterPolls`, `ReadExit`). The processes in the containers go on
without rc. `rc lifecycle` runs a hook by its `mode`, the hooks after a deploy always by exec
(`AsTask`), although `docs/one_off_tasks.md` promises the same for both. A hook that runs once asks
its probe first.

### DbTransfers: `rc db backup` and `rc db push`
Each transfer is a command (`client`) and a shell script in the database container (`script`)
joined by a session that may break. The scripts share the paths `DUMP`, `PART` and `/tmp/_rcpush`.
A backup cuts its dump into presigned parts and uploads them (`Dump`, `CutPart`, `PutPart`); rc
lists the parts, completes the upload and looks at the object, or aborts. A push unpacks and
restores (`Unpack`, `Restore`, `RestoreWithErrors`).

### Ec2Destroy: destroy of a stack on EC2
`ECSProvider.destroy`: `FindServices` (the two ways it gets the names), `DesiredCountZero` per
service, the wait (`PollServices`, `GiveUpWait`), `ShrinkGroup`, `GroupEmpty`, terraform. Every call
may fail and every wait time out; the group drains its instances as soon as it shrinks.

### EphemeralStacks: the registry of stacks with a time to live
`ephemeral.json` read and written back by `rc deploy --ttl`, `rc destroy`, `rc reap`, `rc destroy
--all-ephemeral` and the launchd job, with the truncation as a step of its own; terraform's state
lock per stack; the walk over a list read before the prompt (`targets`). `lost` names the stacks
whose record was dropped by a race, so that the property can say that nothing else drops one.

### DeploymentPipeline: the legacy pipeline
Runs of the standard and the multi-service pipeline one after the other: build, volumes, mount
targets, one row, one call and one arn per service (`GetOrCreateRow`, `CreateOrUpdateService`,
`RecordArn`), the wait, the conclusion, or the rollback in reverse. Failures, kills, teardowns and
deletes come in between; the next run starts from the rows and services they left. A step may fail
after its effect: `StepFails` at "record" is a `create_service` whose answer is lost, or a save
after it that fails (`ecs_service.py` 552-557), one exception to the step; the service is then in
ECS and its row has no ARN (`Unsaved`), so every retry creates it again and is refused by ECS. The
standard pipeline takes a service it finds in AWS over (`TakesOver`), but looks only when it has no
row, and passes over a look that fails. `RetryIsGreen` names these events, and volumes whose mount
targets a run died or failed to make, as the only ones after which a repeated run cannot succeed.

### Orchestration: deployments over one table
`deploy_multiple` with its strategies (`StartRun`, `CollectBatch`, `RollBackNext`) and, beside it,
a Celery `deploy_async` and an operator's cancel. Every deployment is the five steps of
`DeploymentService.deploy` on a row of `rows`; a save writes over whatever another has written
meanwhile. A worker may die and be redelivered (`TaskWorkerDies`, `RunDies`). The remote command of
a deployment may hang (`CommandHangs`): its timeout reaches `exec_command`, but
`recv_exit_status` (`utils/ssh.py` 288) waits without one, and so does the upload (383).

### RateLimits: buckets in a cache
`consume_deploy` as a get and a set per bucket, by clients that may overlap, on a clock of half
seconds against windows and cache timeouts of whole ones. The docstring (163) says tokens are
consumed atomically, and that all requests of a window share one pool (57-60). Neither is so, and
`BucketHoldsItsLimit` says how far off the code can be: `window` and `previous` count what was given
in a window of a bucket and the window before, and how many of these consumes wrote late, over what
another had written since they read. The limit may be given once more for each such writer; and in
the last second the timeout is rounded down to 0, which drops the bucket, so that a window can give
its limit twice. Not more, and no bucket is made new any earlier.

### How the MC modules compose them
`DeployRun` and `EcsRollout` have runs of their own. The smaller components share three runs:
`MCStackCommands` (RcUp, Ec2Destroy, StateReconcile, TerraformPipes, Ec2Sizing), `MCSharedRecords`
(EphemeralStacks, Orchestration, RateLimits, RemoteCommands) and `MCStandalone` (RollWindow,
DevHostRegistry, CodeBuildBackend, DbTransfers, DeploymentPipeline). The components of one run share
no variable: a behaviour is one of them (`part`) while the others rest in a state where nothing fair
is enabled, so each is explored exactly as it would be alone.

## 3. Runs

| Run | Shows |
|---|---|
| `ecs_rollout` | refused configurations roll nothing; stateful services never overlap; green is settled, and new where there is no breaker; no old error is blamed on the roll; the roll implements RollGate with its liveness |
| `ecs_rollout_breaker` (violation) | a deploy that the breaker rolled back is green |
| `ecs_rollout_watcher` (violation) | an error between the roll and the baseline is never flagged |
| `deploy_run` | siblings agree, `--tag X` runs X, tags never move, a broken group rolls nothing, green is no older than the sources it began with, a deploy ends |
| `deploy_run_fix` (violation) | a failed deploy eats the no-cache sentinel, and the next one deploys the layers from before the fix |
| `deploy_run_push` (violation) | `build.push` without a buildx builder reports a push that never happened |
| `stack_commands` | after `rc up` without a warning every service runs, or is rolling to, what was pushed, and settles on it; nothing runs ahead of the keys or tasks it needs, but the hooks of commands that wait for nothing; the EC2 group never shrinks under load without a warning, and terraform is always reached; a green deploy owns what it was to adopt, and drops of out-of-band secrets are announced unless another deploy's plan was saved over the one looked at; a fleet is refused or accepted honestly; a terraform run ends with all its output |
| `shared_records` | a stack with resources has a record unless a named race took it, and a past due one is reaped; a failed orchestration rolls all of it back, and no project stays locked but by a dead worker or a hung remote command; what a bucket gives out beyond its limit is bounded by its late writers and the second in which it is dropped; what rc reports of a remote command is what happened |
| `standalone` | refusals and hints are exact, and an accepted roll finishes; commands one after the other leave no untracked and no falsely stopped dev box, and none waits for ever; CodeBuild implements the contract of a backend; a backup is one whole dump or nothing; a green pipeline runs this run, and a failed one can be repeated but for the named events |
| `db_push_restore` (violation) | a push may restore the dump of an earlier one |
| `auto_size_fleet` (violation) | an auto-sized fleet may be too small for its tasks |
| `dev_host_registry_lost` (violation) | two commands at once can lose a record although both take the lock |

The violation runs are the findings: what the code does there differs from what a comment, a
docstring or the documentation says. `PROJECT.json` quotes both.

Every property of a passing run has a mutant: a definition of the model replaced by a plausible
mistake (the `Variant:` definitions in the modules), under which TLC finds the property broken.

### Bounds and why they are enough
- `ecs_rollout`: two groups, one a scheduler that is stateful by name alone and alone in its task,
  one of two replicas at 50/100 whose live service carries a legacy name and may be new; a second
  configuration that must be refused because of one group only. Two replicas give the states
  between no and all tasks; one failed start trips the breaker; one poll and one sleep reach both
  exits of every loop. The safety results are proved for all values.
- `deploy_run`: a shared group of two services, a group of one, a filter that names the sibling,
  one tag, two versions, one fix, two workers, two deploys: the second starts from anything the
  first can leave behind. Its hazards need two deploys and one edit or fix between them.
- RcUp: two services under their own names, the one with the hook not built by rc, or one service in
  a task group whose ECS name differs; two secrets, of which one has its key renamed and one only
  rotates its value; none, one or both declared at first; two commands with one edit between them,
  each call failing or not. What an earlier command leaves behind is what the second starts from.
  Two versions of an env file reach every excuse but `WrittenOver`, which needs a third; the proofs
  have any number.
- Ec2Destroy: two services, every subset deployed, declared, running and existing.
- StateReconcile: two deploys with two runs between them (`MaxDeployRuns`), in one directory or in
  two, all resources to reconcile, one deploy that replaces the task definition beside one that does
  not: a plan saved over another's needs no more. Proved for all.
- TerraformPipes: pipes of two lines, up to four lines on each: a stream can fit, fill and overflow.
- Ec2Sizing: two services, memory below, at and above the reserved part of the smallest shapes, up
  to four replicas, both shapes of the ladder and a large one, fixed and automatic. `auto_size_fleet`
  uses one service of up to sixteen replicas.
- EphemeralStacks: two stacks, one process by hand beside the reaper, two deploys, one fault, a
  clock that passes the time to live. Two processes make every race named in `lost`.
- Orchestration: two projects, one needing the other, something elsewhere, or each other, with
  batches of one; all strategies; one retry, one death, hang or cancel.
- RateLimits: two clients, a bucket with two tokens and one with one, windows of two and three
  seconds in half-second steps, three deployments: a late writer, a bucket dropped in its last
  second and made new there, and a window that ends are all within five half seconds. Proved for all.
- RemoteCommands: two tasks, one retry of every poll, one fault. Two tasks are the one that is
  listed and the one that replaces it.
- RollWindow: 0 to 4 replicas, and percentages on both sides of every rounding boundary of those
  counts, 0, 100 and out-of-range values included. Proved for all.
- DevHostRegistry: two processes, two hosts, three commands, one kill. Three commands are two at
  once and one after them; a second host is what a lost update loses. `dev_host_registry_lost`
  needs two commands and no kill.
- CodeBuildBackend: two calls of two specs, one unread page: a page is there or is not, whenever
  the relay looks. Two empty passes of the final drain are a first and a last one.
- DbTransfers: two transfers, two faults, dumps of nothing, of just the presigned parts and of one
  more.
- DeploymentPipeline: two services, the one with a volume needed by the other and built with it,
  two runs, two faults: the second run starts from what a failed and disturbed first one left.

`CHECK_DEADLOCK FALSE` is set because each system really stops: a roll that has finished or is
refused, a history whose bounds are used up, no command left.

### Fairness
All of it is weak fairness of code that runs, or of something the code relies on and waits for.

- `EcsRollout` (`RcStep`): rc is one process whose loops sleep, poll and look at a clock. ECS gets
  none, it may do nothing for ever; the gate reaches its verdict all the same.
- `DeployRun` (`DeployStep`): docker, terraform and AWS calls return, one way or the other. Neither
  the developer nor `Abort` is fair.
- `RegistryFairness`: each process' steps. The kernel grants a free flock to a waiter and drops the
  one of a killed process.
- `WindowFairness`: ECS, since the question is whether the percentages let it finish.
- `UpFairness`: a running command goes on; a write becomes visible and a placeable task is placed.
  `UpSettles` is about a stack the operator then leaves alone.
- `DestroyFairness`: destroy goes on, a wait that can time out does, AWS stops what nobody wants. A
  task that cannot be replaced is not stopped by anybody.
- `PipesFairness`: both processes run; nobody has to kill terraform.
- `EphFairness`: a running process goes on, launchd starts the reaper again and again.
- `OrchFairness`: the threads of deployments run, and a call that does not hang ends. A call that
  hangs stays, for the code gives it no timeout: `LockIsReleased` leaves out the rows held by one, as
  it does those of dead workers. Deaths, hangs, cancels and the run itself are not fair.
- `CodeBuildFairness`: rc runs on, deadlines pass, a build ends by itself or by CodeBuild's limit.
  That a log page arrives, or stops arriving, is not assumed.

StateReconcile, Ec2Sizing, RateLimits, RemoteCommands, DbTransfers and DeploymentPipeline have
safety properties only.

## 4. Proofs

RollWindow, in `Standalone_proofs` (for every replica count and all percentages; assumption
`BoundsAssumption`): the task counts are typed (`WindowTyped`), accepted percentages never wedge
(`NeverWedges`), refused ones are stuck (`RefusesOnlyStuck`), together `RefusesExactly`; and the
hint of a refusal is the largest minimum, or the smallest maximum, that can be rolled
(`HintsTight`). The argument is arithmetic about the two roundings: acceptance is `Rollable`, and
every state of the window inherits one of its two ways to move; the hints are the two bounds at
which one rounding reaches the other.

`EcsRollout_proofs` (for every set of groups, services, configurations and budgets; assumption
`RolloutAssumption`: candidates of different groups are disjoint, each live name belongs to a
group, groups are not empty, the budgets are natural numbers). The safety properties are not
inductive. The invariant `IInv` adds

- `PhaseInv`: nothing is rolled before the policies are judged, a group is rolled at most once,
  and a service not yet rolled still wants what it wanted;
- `SettledInv`: what the wait has ticked off stays settled, because a completed deployment that
  stands alone is disturbed only by another roll, and no roll follows the wait;
- `WatchInv`: the event counts only grow, the baseline is not below the count at the roll, and
  nothing is flagged before it;
- `StatefulInv`: a stateful service keeps 0/100 without a breaker, because terraform rendered it so
  and the roll leaves its configuration alone. This is why the judgement of the template and that
  of the roll have to be one function.

`Inductive` proves `Spec => []IInv`; `TypeCorrect`, `RejectedRollsNothing`, `NeverTwoTasks`,
`GreenIsSettled`, `GreenIsNewForStateful` and `NoStaleBlame` follow. `ImplementsGateSafety` proves
that every step is a step of RollGate or leaves it unchanged.

`DeployRun_proofs` (for every stack, every history of deploys, edits, fixes and interruptions, and
every pool size; assumption `DeployAssumption`: `Order` is a finite sequence, `latest` and `none`
are not tags a user passes, the bounds are natural numbers). The invariant adds to `TypeOK`

- `PhaseInv`: an owner is unresolved, re-tagged or in the build, never two of them, and nobody gets
  past the build with a job that is not done;
- `TagInv`: what ECR holds under the requested tag at each stage of a job. A tag is only ever set
  when it was unset, which is why it never moves and why `:latest` and the tag agree afterwards;
- `RollInv`: a sibling runs its group's `:latest` or is still to be rolled;
- `FreshInv`: what a build has made is as new as the deploy and was pushed, unless excused.

`TypeCorrect`, `SiblingsNeverDiverge`, `TagIsWhatRuns`, `GreenRunsFresh`, `TagsNeverMove` and
`BrokenGroupStops` follow from `Inductive`. That the owner of a group is one of its members, for
whatever order of the services, is a least-element argument (`OwnerIsFirst`).

`DevHostRegistry_proofs` (for any processes, hosts and number of commands and kills; assumption
`RegistryAssumption`): `TypeCorrect` in every behaviour, and, while commands run one after the
other, `SoundWhenCalm` from `TrackedWhenCalm` and `StoppedWhenCalm`. The properties say nothing
while a command is under way, so the invariant `CalmInv` follows it: at most one process is away
from rest, and the registry is sound for every host but the one the command is about, in the file
or, between the truncation and the write, in that process's memory (`InStep`).

With commands overlapping and killed at will, an update can be lost (`dev_host_registry_lost`). What
is left of the lock's promise is proved too: `LockExcludes`, no two processes are between lock and
unlock, from `LockInv` (the holder is there, and only it); and `OnlyUnlockedWritesInterfere`, an
action property: a step that changes the file while a process holds the lock is its own truncation,
the buffer another one flushes after its unlock, or the record of a failed create. These two writes
are all there is to repair.

Ec2Destroy, in `StackCommands_proofs` (for any set of services and any failures; assumption
`Ec2Assumption`): `DestroyTypeCorrect` and `DrainsFirst`. `DrainInv` says what has been achieved at
each step (`DrainSoFar`: before the wait every service found wants nothing, after it nothing runs,
and the group is touched only then), that nothing exists but what was deployed, and that the group
has not shrunk before. `FoundAll` is the step that matters: the names rc finds in its own files and,
where those do not tell everything, in the cluster are between them every service that exists.

`StateReconcile_proofs` (for any number of overlapping, failing and killed deploys; assumption
`ReconcileAssumption`): `RecTypeCorrect`, `GreenAdopts` from `AdoptInv` (a plan that has not gone
stale tells the truth about the state, and creates a load balancer only where there is none to
adopt) and `DropsAreAnnounced` from `AnnounceInv`. It says that who applies holds
the lock alone, and that a deploy which is about to apply has told whatever the plan in its directory
drops, or that plan was saved over the one it looked at. That a plan is stale does not help: another
deploy's plan of the same state is not stale, and terraform applies it.

`EphemeralStacks_proofs` (for any processes, stacks and faults; assumption `EphemeralAssumption`):
`EphTypeCorrect` and `LiveIsRegistered`. A record may be only in the memory of a process between
truncation and write, so `RecordInv` says that the record of a live stack is in the file or about to
be written back (`Kept`), that a process that takes one away has torn its stack down
(`RemovedAreGone`), and that a deploy about to apply is registered, or its record is being dropped by
a race that marks it lost (`ApplyIsRegistered`, `Dropping`).

RateLimits, in `SharedRecords_proofs` (for any clients, buckets, limits and windows of two seconds or
more; assumption `LimitAssumption`): `LimitTypeCorrect` and `LimitHolds`, from the invariants `Typed`
and `Held`. `Held` keeps four things of a bucket: what its window gave is at most the count in the
cache, or read by a client that is not late, and one limit more for each late writer (`CountHolds`);
without late writers the cache holds this window until its last second (`CacheHolds`), and so does
whoever has read it (`ReadHolds`); and the window before is over by then, but for that second, and
gave at most one limit beside what the new one has given (`PreviousHolds`).

RcUp, in `StackCommands_proofs` (for any secrets, sets of keys and changes of env files, services,
layouts and bounds; assumption `RcUpAssumption`: a service is in exactly one ECS service, its own or
a task group, as `config/_task_group_types.py` has it, so where all services run under their own
names there is nothing beside them; what is built, and what runs the hook, are among the ECS
services). Four places hold a version of each secret: the env file, Secrets Manager, what its readers
see, and what a task definition demands. `UpInv` says of them that only declared secrets are demanded
(`DemandsSound`) and that what does not roll runs what is demanded of it (`SettledSound`); the
versions are in no order, since a key may be removed and come back. The rest is what a command has
achieved at each step: what it rendered (`RenderSound`), what readers had seen when it applied, and
go on seeing unless that was already written over (`VerifySound`), what was applied (`ApplySound`),
has passed the gate (`GateSound`), was pushed (`PushSound`) and rolled (`RollSound`).
`UpToDateUnlessReverted`, `NoServiceIsLeftBehind` (`UpToDateAfterUp`), `HooksRunOnLatest` and
`NothingRunsAhead` (`NothingTooEarly`) follow without further hypotheses, with the cases they name:

- `Stranded`: a key that is renamed lets the circuit breaker take a service back to a definition that
  demands the old key; rolled under that definition it is taken back again and keeps the old image,
  and `rc up` has ended without a warning;
- `WrittenOver`: rc compares sets of keys, not values (`_wait_for_secret_keys`), so a key that is
  taken away in one version and comes back in the next is found in the old blob that readers still
  see; when the blob without it reaches them, a task that demands the key cannot start;
- `HookUnwaited`: see RcUp in section 2.

TerraformPipes, in `StackCommands_proofs` (any capacity, any number of lines; `PipesAssumption`):
`EndedRunHasAllOutput`, whenever `_run` has returned or raised it has read every line terraform
wrote. `LinesKept` and `ReadToTheEnd` are the invariant. That the run ends is liveness.

RemoteCommands, in `SharedRecords_proofs` (for any tasks, polls and faults; `RemoteAssumption`):
`ReportsAreTrue`. `CommandSound` ties the place of the call to the two processes in the container:
none before the session, an ended one when its exit is read, the command only after the probe; and a
verdict other than success of a process that succeeded is one whose end was never heard (`Told`).

Orchestration, in `SharedRecords_proofs` (for any projects, dependency graphs, strategies, retries,
deaths and cancels; `OrchAssumption`, by which no project is called like one of the two other
threads): `FailedRunsAreRolledBack`. Rows are saved whole, over whatever another has written, so the
invariant is about who may write: a row has one thread and nothing was made from it yet
(`RowsOwned`); a rollback that succeeded has marked its target first, which nobody can bring back
(`RollbackMarks`); what has succeeded is still in the list of deployments, or a rollback was made
from it (`NoneForgotten`).

CodeBuildBackend, in `Standalone_proofs` (for any calls, specs and logs; `BackendAssumption`):
`ImplementsBackendSafety`, every behaviour of the remote build is one of `BackendSafety`, the safety
part of the contract in BuildBackend. Of the steps of the client, all those between the first call
and the end are one `building`; `BuildSound` (a build runs only for a call that started it, and one
that succeeded has pushed all of it) is what makes `Return` a step of the contract.

DbTransfers, in `Standalone_proofs` (for any number of transfers and parts, any sizes and faults;
`TransferAssumption`): `BackupsAreWhole`. The parts of an upload are the first of the dump of its own
run (`PartsUpTo`, `ScriptSound`), up to the last when the script has ended with status 0, and the
upload is completed from just those (`UploadSound`); all this of transfers whose script had the
container to itself, and any two that had not are in `mixed` (`Alone`).

DeploymentPipeline, in `Standalone_proofs` (for any services, images, volumes, runs, kills,
teardowns and deletes; `PipelineAssumption`): `GreenIsThisRun` and `RetriesAreGreen`. `RollSound`
and `PushSound` say what is rolled, settled and pushed at each step of the run; `RowSound` that a
service nobody has parted from its row is in ECS exactly if the row has an ARN, but for the moment
between the call and the save. A failure in that moment parts them, as a kill does. A run without
troubles can then only fail over a service that was parted, or over tasks whose file system an
earlier run left without mount targets.

Ec2Sizing, in `StackCommands_proofs` (for any finite set of services, ladder, shapes, demands and
requests; `SizingAssumption`: a shape has CPU, at least the memory rc reserves and a network
interface besides its primary one, trunking does not take interfaces away, and a named type is one of
the shapes the code knows):

- `SizeTypeCorrect`, and `SizingHonest`: a named type is refused only if no placement holds the
  tasks, and what is accepted has a type on which each task fits by itself. The invariant `SizeInv`
  keeps every instance within what it offers and remembers why a type was refused. From it the
  first half is a counting argument: what each of n instances holds within a bound, the fleet holds
  within n times the bound (`FleetHolds`), for CPU, memory and task slots alike.
- `AutoSizeCoversTotals`: a group `auto_size` dimensions passes, on the totals, the check that
  `check_fixed_shape_capacity` makes of a named type, and stays within `ec2_capacity.max`. The two
  functions round, reserve and count differently; the headroom of a fifth, replicas at their peak and
  rounding up (`CeilCovers`, `HeadroomCovers`, `TotalsGrow`) are what makes the one imply the other.
  It is about totals only: that each task finds a place is what `auto_size_fleet` refutes.

Both need facts about sums over finite sets: that the order of the terms does not matter, that sums
grow with their terms, that the sums by row and by column of a matrix are the same. The library's
induction theorems cannot be used, so `ByRemoval` states induction over the subsets of a finite set
for a set of bad subsets instead of a predicate, and is proved by a bad subset of least size.

The three shared runs move one component while the others rest or stay as they are.
`StackTypeCorrect`, `SharedTypeCorrect` and `StandaloneTypeCorrect` prove `TypeOK` of the whole: the
resting states satisfy the components' own invariants, a step of the moving one keeps its invariant
and leaves the variables of the others alone.

TLC finds each of these inductive invariants to hold on the instance of its run.

Every invariant a passing run checks, and every action property, is thus a theorem. Only
model-checked is what needs fairness: `AcceptedRollFinishes`, the liveness half of `ImplementsGate`
and of `ImplementsBackend`, `DeployEnds`, `CommandsEnd`, `UpSettles`, `TerraformIsReached`,
`RunEndsWithAllOutput`, `PastDueIsReaped`, `LockIsReleased`.

The violation runs are counterexamples, not theorems.

## 5. Not modelled, and why

Much of this repository is text: the terraform emitter, the templates, the parsers and validators of
rc.yml, the translation from copilot and from compose, the doctor, audit and warning reports, the
command-line options. They read files and print files; they keep no state between two steps, nothing
runs beside them, and a model of them would be a transliteration. The wrappers of single AWS calls
(`services/*_service.py`) have no behaviour apart from their callers. That is why the modelled lines
are a small part of all lines although they hold most of the state changes.

Inside the modelled components:

- DeployRun: `_deploy_no_state` (the roll with `reconcile_scale` is covered as the constant
  `ReconcileScale`, by the proofs for both values; the discovery of repositories is not), an image
  group without an ECR repository (skipped with a warning), `RC_DEPLOY_WAIT_S=0` (skips the wait,
  used by tests), the warnings about flapping services (they change nothing). The steps of `deploy`
  before the apply returns are one step that may abort; StateReconcile has those that change state.
- EcsRollout: ECS capacity, placement, load balancers and health-check grace: any start may fail. A
  refused candidate name that is another stack's service in a shared cluster.
- RcUp: one command at a time, env files edited only between commands; the push inside `rc up`
  before the apply and the one after it are the same steps; secrets are pushed in any order; the
  build and the force-roll are one step, and so is the gate after them. `RC_SKIP_SECRET_KEY_CHECK`
  and `RC_DEPLOY_WAIT_S=0`, which skip the blocking check and the gate, `--no-build`, `--services`,
  `--no-state`, scaffolding, the domain wiring and the nginx repair are left out.
- RemoteCommands: one command at a time, others appear through their effect; the launch type of a
  one-off (`resolve_run_launch`), the preference for the current revision (any ready task may be
  taken), the interactive exec and the log fetch are left out. An output that has the begin and end
  sentinels has the exit one.
- DbTransfers: one container; only the tar format of a push; the deletion of the staged object; a
  `KEEP` marker is a session that drops. Scripts that overlap in the container and a full disk are
  excused by `mixed`: their paths are shared and dd's exit status is not looked at.
- Ec2Destroy: a group that does not exist is a call that fails. Ec2Sizing: a minimum of the user's
  and the assertion of trunking.
- EphemeralStacks: a stale terraform lock after a kill, a registry torn so that it is no JSON, which
  every reader refuses until somebody moves it aside (`ephemeral.py` 135-140), the plist.
- StateReconcile: of the preflight, the check of the lock; the others only read. The bin-packing and
  regrouping detectors only print.
- CodeBuildBackend: packaging is one step; every end of a build but SUCCEEDED is one; a build that
  `batch_get_builds` does not find counts as in progress (`backend.py` 973-975), and the model's
  builds are always found; the text of the buildspec; the login cache of `ecr_auth.py`.
- DeploymentPipeline: the infrastructure pipeline, certificates, target groups; every service has a
  task definition and every volume a network configuration: without, the code skips the service with
  a warning (`steps/multi_service.py` 351-356) or the volumes (`steps/efs.py` 45-49) and goes on.
  The cleanup after a failed create step calls `scale_service`, which does not exist, so it deletes
  nothing although its docstring (`steps/multi_service.py` 487) says so; FinalizeDeployment names
  `Deployment.DeploymentStatus` (`finalization.py` 36), which does not exist either. The model does
  what the code does.
- Orchestration: the pool's limit of five is left to the interleaving; a canary strategy without a
  canary project is refused.
- Dev hosts: `list`, `attach`, `ssh`, `reconcile_live` (read only), spot reclaim, the terraform
  module, an external deletion of a box.

Whole components: bootstrap and adoption of a state backend are idempotent calls in a row, each
looked up first; the v1 migration writes files once. The notes in `PROJECT.json` give the reason for
each.

## 6. What is left

Worth doing next, in this order: RcUp with two commands at once; a shared cluster in which the
candidates of two stacks' groups overlap; `_deploy_no_state`; the state backend's bootstrap
interrupted half way. Runs of new components should get bounds as small as the interesting
interleaving allows (two actors, two keys, one fault), and join a run of components they share
nothing with.
