---------------------------- MODULE Orchestration ----------------------------
(***************************************************************************)
(* The legacy Django deployments: one OrchestrationService.deploy_multiple *)
(* over several projects, a Celery deploy_async of one of the projects, an *)
(* operator who cancels a deployment, workers that die and remote commands *)
(* that hang.  They share the Deployment rows; nothing but the rows keeps  *)
(* two deployments of a project apart.  A project is on one target; docker *)
(* compose on the target is external: it runs the project's file, fails or *)
(* never ends.                                                             *)
(***************************************************************************)
EXTENDS Integers, FiniteSets, Sequences
LOCAL INSTANCE SequencesExt

CONSTANTS Projects,      \* the services of the orchestration, by project name
          Graphs,        \* the dependency graphs looked at: project -> projects it needs
          Rank,          \* project -> its place by (priority, name)
          CanaryProjects,\* those on the canary target
          TaskProject,   \* the project of the Celery task
          BatchSize, MaxRetries, MaxOrchFaults

ASSUME OrchAssumption ==
  /\ {"main", "task"} \cap Projects = {}
  \* without a project on the canary target deploy_multiple raises before it deploys
  /\ TaskProject \in Projects /\ CanaryProjects \subseteq Projects /\ CanaryProjects # {}
  /\ BatchSize \in Nat \ {0} /\ MaxRetries \in Nat /\ MaxOrchFaults \in Nat

VARIABLES
  needs, strategy, rollbackOn,   \* the arguments of deploy_multiple
  phase,       \* "start", "deploying", "rolling back", "ended", "refused" or "killed"
  batches,     \* the batches not yet over, the first one is running
  errors,      \* a service of the run failed
  deployments, \* the rows the run got back, in the order of their completion
  rows,        \* the Deployment table: [project, status, of]
  thread,      \* thread -> its step and its row
  retries,     \* of the Celery task
  cancelling,  \* the row an operator loaded to cancel, or 0
  orphans,     \* rows whose worker died
  orchFaults   \* deaths, hangs and cancels so far
orchVars == <<needs, strategy, rollbackOn, phase, batches, errors, deployments, rows, thread,
              retries, cancelling, orphans, orchFaults>>
run == <<needs, strategy, rollbackOn>>
counters == <<retries, cancelling, orphans, orchFaults>>

Threads == Projects \cup {"main", "task"}
InProgress == {"PENDING", "RUNNING"}
NoJob == [step |-> "idle", row |-> 0]

OrchInit ==
  /\ needs \in Graphs /\ rollbackOn \in BOOLEAN
  /\ strategy \in {"sequential", "parallel", "rolling", "canary"}
  /\ phase = "start" /\ batches = <<>> /\ errors = FALSE /\ deployments = <<>>
  /\ rows = <<>>
  /\ thread = [t \in Threads |-> IF t = "task" THEN [step |-> "check", row |-> 0] ELSE NoJob]
  /\ retries = 0 /\ cancelling = 0 /\ orphans = {} /\ orchFaults = 0

-----------------------------------------------------------------------------
(* deploy_multiple *)

\* _sort_by_dependencies: of the projects whose needs are met the first by rank; a cycle
\* leaves some out.
Ready(done) == {p \in Projects \ done : needs[p] \cap Projects \subseteq done}
FirstOf(S) == CHOOSE p \in S : \A q \in S : Rank[p] <= Rank[q]
Sorted ==
  LET upTo[n \in 0..Cardinality(Projects)] ==
        IF n = 0 THEN <<>>
        ELSE LET before == upTo[n - 1]
                 ready == Ready(ToSet(before))
             IN IF ready = {} THEN before ELSE Append(before, FirstOf(ready))
  IN upTo[Cardinality(Projects)]

\* What each strategy runs at once, one batch after the other.
OneByOne(s) == [i \in 1..Len(s) |-> {s[i]}]
InBatches(s) ==
  [b \in 1..((Len(s) + BatchSize - 1) \div BatchSize) |->
     {s[i] : i \in {j \in 1..Len(s) : (j - 1) \div BatchSize = b - 1}}]
Batches(s) ==
  CASE strategy = "sequential" -> OneByOne(s)
    [] strategy = "parallel" -> <<ToSet(s)>>
    [] strategy = "rolling" -> InBatches(s)
    [] strategy = "canary" ->
         OneByOne(SelectSeq(s, LAMBDA p : p \in CanaryProjects))
           \o IF ToSet(s) \subseteq CanaryProjects THEN <<>> ELSE <<ToSet(s) \ CanaryProjects>>

Submit(batch) ==
  thread' = [t \in Threads |-> IF t \in Projects /\ t \in batch
                               THEN [step |-> "check", row |-> 0] ELSE thread[t]]

StartRun ==
  /\ phase = "start"
  /\ IF Len(Sorted) # Cardinality(Projects)
     THEN phase' = "refused" /\ UNCHANGED <<batches, thread>>
     ELSE /\ phase' = "deploying"
          /\ batches' = Batches(Sorted)
          /\ Submit(batches'[1])
  /\ UNCHANGED <<run, errors, deployments, rows, counters>>

BatchOver == \A p \in batches[1] : thread[p].step \in {"done", "raised"}

\* Variant: the deployments of the batches before are forgotten.
OfThisBatch == SelectSeq(deployments, LAMBDA r : rows[r].project \in batches[1])
\* deployments.extend(batch_deployments)
OfAllBatches == deployments

\* The batch is collected; a failure stops the run, the rest is never deployed.
CollectBatch ==
  /\ phase = "deploying" /\ BatchOver
  /\ errors' = (\E p \in batches[1] : thread[p].step = "raised")
  /\ deployments' = OfAllBatches
  /\ IF errors' \/ Len(batches) = 1
     THEN /\ phase' = IF errors' /\ rollbackOn THEN "rolling back" ELSE "ended"
          /\ UNCHANGED <<batches, thread>>
     ELSE /\ batches' = Tail(batches) /\ Submit(batches'[1])
          /\ UNCHANGED phase
  /\ UNCHANGED <<run, rows, counters>>

-----------------------------------------------------------------------------
(* DeploymentService.deploy and rollback, by whichever thread runs them *)

Project(t) ==
  CASE t = "task" -> TaskProject
    [] t = "main" -> rows[thread[t].row].project
    [] OTHER -> t
Step(t, step) == thread' = [thread EXCEPT ![t].step = step]
Row(t) == thread[t].row
SetStatus(r, status) == rows' = [rows EXCEPT ![r].status = status]
NewRow(project, of) == Append(rows, [project |-> project, status |-> "PENDING", of |-> of])
ProjectLocked(project) == \E r \in DOMAIN rows : rows[r].project = project
                                          /\ rows[r].status \in InProgress

\* A DeploymentError ends the task; anything else is retried while retries are left.
Raised(t) ==
  /\ thread' = [thread EXCEPT ![t] = [step |-> "raised", row |-> 0]]
  /\ UNCHANGED retries
Retried(t) ==
  /\ t = "task" /\ retries < MaxRetries
  /\ retries' = retries + 1
  /\ thread' = [thread EXCEPT ![t] = [step |-> "check", row |-> 0]]

\* _check_deployment_lock reads the rows; the row that locks is created afterwards.
CheckDeploymentLock(t) ==
  /\ thread[t].step = "check"
  /\ IF ProjectLocked(Project(t))
     THEN Raised(t)
     ELSE Step(t, "create") /\ UNCHANGED retries
  /\ UNCHANGED <<run, phase, batches, errors, deployments, rows, cancelling, orphans,
                 orchFaults>>

CreateDeployment(t) ==
  /\ thread[t].step = "create"
  /\ rows' = NewRow(Project(t), 0)
  /\ thread' = [thread EXCEPT ![t] = [step |-> "pending", row |-> Len(rows')]]
  /\ UNCHANGED <<run, phase, batches, errors, deployments, counters>>

\* deployment.start() writes RUNNING whatever the row has by now.
StartDeployment(t) ==
  /\ thread[t].step = "pending"
  /\ SetStatus(Row(t), "RUNNING")
  /\ Step(t, "running")
  /\ UNCHANGED <<run, phase, batches, errors, deployments, counters>>

\* docker compose is up and succeed() writes SUCCESS, likewise; a rollback then marks the
\* deployment it was made from.
Succeed(t) ==
  /\ thread[t].step = "running"
  /\ rows' = [r \in DOMAIN rows |->
                CASE r = Row(t) -> [rows[r] EXCEPT !.status = "SUCCESS"]
                  [] r # Row(t) /\ r = rows[Row(t)].of -> [rows[r] EXCEPT !.status = "ROLLED_BACK"]
                  [] OTHER -> rows[r]]
  /\ IF t = "main" THEN thread' = [thread EXCEPT ![t] = NoJob] ELSE Step(t, "done")
  /\ deployments' = IF t \in Projects THEN Append(deployments, Row(t)) ELSE deployments
  /\ UNCHANGED <<run, phase, batches, errors, counters>>

\* Variant: the exception goes by without deployment.fail().
RaiseOnly(t) == UNCHANGED rows
\* "except Exception": deployment.fail().
MarkFailed(t) == SetStatus(Row(t), "FAILED")

\* The connection, the upload, docker compose or a look at the containers fails.
DeploymentFails(t) ==
  /\ thread[t].step = "running"
  /\ MarkFailed(t)
  /\ IF t = "main"
     THEN thread' = [thread EXCEPT ![t] = NoJob] /\ UNCHANGED retries  \* logged, nothing more
     ELSE Raised(t) \/ Retried(t)
  /\ UNCHANGED <<run, phase, batches, errors, deployments, cancelling, orphans,
                 orchFaults>>

\* The deployment's timeout reaches exec_command, but recv_exit_status waits without one, and
\* so does the upload: when the target falls silent the thread stays there, with its row.
CommandHangs(t) ==
  /\ orchFaults < MaxOrchFaults /\ thread[t].step = "running"
  /\ orchFaults' = orchFaults + 1
  /\ Step(t, "hung")
  /\ UNCHANGED <<run, phase, batches, errors, deployments, rows, retries, cancelling, orphans>>

-----------------------------------------------------------------------------
(* _rollback_deployments: the last one first, its own file again *)

RollBackNext ==
  /\ phase = "rolling back" /\ thread["main"] = NoJob
  /\ IF deployments = <<>>
     THEN phase' = "ended" /\ UNCHANGED <<deployments, rows, thread>>
     ELSE LET r == deployments[Len(deployments)] IN
          /\ rows' = NewRow(rows[r].project, r)
          /\ thread' = [thread EXCEPT !["main"] = [step |-> "pending", row |-> Len(rows')]]
          /\ deployments' = SubSeq(deployments, 1, Len(deployments) - 1)
          /\ UNCHANGED phase
  /\ UNCHANGED <<run, batches, errors, counters>>

-----------------------------------------------------------------------------
(* The operator and the workers *)

\* cancel() loads the row, looks at its status and writes it back later.
LoadToCancel ==
  /\ orchFaults < MaxOrchFaults /\ cancelling = 0
  /\ \E r \in DOMAIN rows : rows[r].status \in InProgress /\ cancelling' = r
  /\ orchFaults' = orchFaults + 1
  /\ UNCHANGED <<run, phase, batches, errors, deployments, rows, thread, retries, orphans>>

CancelDeployment ==
  /\ cancelling # 0
  /\ SetStatus(cancelling, "CANCELLED")
  /\ cancelling' = 0
  /\ UNCHANGED <<run, phase, batches, errors, deployments, thread, retries, orphans, orchFaults>>

\* acks_late: the task of a worker that died is delivered again, or is not.
TaskWorkerDies ==
  /\ orchFaults < MaxOrchFaults /\ thread["task"].step \notin {"idle", "done", "raised"}
  /\ orchFaults' = orchFaults + 1
  /\ orphans' = orphans \cup ({Row("task")} \ {0})
  /\ \E again \in BOOLEAN :
       thread' = [thread EXCEPT !["task"] = IF again THEN [step |-> "check", row |-> 0] ELSE NoJob]
  /\ UNCHANGED <<run, phase, batches, errors, deployments, rows, retries, cancelling>>

RunDies ==
  /\ orchFaults < MaxOrchFaults /\ phase \in {"deploying", "rolling back"}
  /\ orchFaults' = orchFaults + 1 /\ phase' = "killed"
  /\ orphans' = orphans \cup ({Row(t) : t \in Threads \ {"task"}} \ {0})
  /\ thread' = [t \in Threads |-> IF t = "task" THEN thread[t] ELSE NoJob]
  /\ UNCHANGED <<run, batches, errors, deployments, rows, retries, cancelling>>

DeploymentSteps ==
  \E t \in Threads :
    CheckDeploymentLock(t) \/ CreateDeployment(t) \/ StartDeployment(t)
      \/ Succeed(t) \/ DeploymentFails(t)
RunSteps == StartRun \/ CollectBatch \/ RollBackNext
Others == LoadToCancel \/ CancelDeployment \/ TaskWorkerDies \/ RunDies
            \/ \E t \in Threads : CommandHangs(t)
OrchNext == DeploymentSteps \/ RunSteps \/ Others

\* Threads run, and a call that does not hang ends; nothing is said of one that hangs.
OrchFairness == WF_orchVars(DeploymentSteps)
OrchSpec == OrchInit /\ [][OrchNext]_orchVars /\ OrchFairness

-----------------------------------------------------------------------------
(* Properties *)

Statuses == InProgress \cup {"SUCCESS", "FAILED", "ROLLED_BACK", "CANCELLED"}

\* The type invariant of the rows and the threads.
OrchTypeOK ==
  /\ phase \in {"start", "deploying", "rolling back", "ended", "refused", "killed"}
  /\ errors \in BOOLEAN /\ orphans \subseteq DOMAIN rows
  /\ \A r \in DOMAIN rows : rows[r].project \in Projects /\ rows[r].status \in Statuses
                            /\ rows[r].of \in 0..(r - 1)
  /\ \A t \in Threads : thread[t].row \in 0..Len(rows)
  /\ cancelling \in 0..Len(rows) /\ retries \in 0..MaxRetries

\* deploy_multiple with rollback_on_failure: once a run with errors has ended, every
\* deployment of it that had succeeded was marked rolled back or its rollback failed,
\* through all batches of all strategies, whatever a cancel writes late.
FailedRunRollsBackAll ==
  phase = "ended" /\ errors /\ rollbackOn =>
    \A p \in Projects : thread[p].step = "done" =>
      \/ rows[Row(p)].status # "SUCCESS"
      \/ \E r \in DOMAIN rows : rows[r].of = Row(p) /\ rows[r].status # "SUCCESS"

\* The rows are the lock: again and again no project is locked by anything but the row of
\* a worker that died, or of a command that hangs though a deployment has a timeout, so it
\* can be deployed again; retries, cancels and the saves that overwrite each other included.
HeldByHang(r) == \E t \in Threads : thread[t] = [step |-> "hung", row |-> r]
LockIsReleased ==
  []<>(\A r \in DOMAIN rows : rows[r].status \in InProgress => r \in orphans \/ HeldByHang(r))
=============================================================================
