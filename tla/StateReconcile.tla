---------------------------- MODULE StateReconcile ----------------------------
(***************************************************************************)
(* What ECSProvider.deploy does between the render and the end of the      *)
(* apply, for deploys of one stack that may overlap: look at the local     *)
(* state lock, import the objects AWS has and terraform's state lacks (the *)
(* container insights log group, the backup bucket, the load balancer of   *)
(* adopt_owned and its listener), save and inspect a plan, apply it.  The  *)
(* rendered configuration and the saved plan are files of the terraform    *)
(* directory, under fixed names: deploys that share it share them.         *)
(*                                                                         *)
(* terraform is external: a command that needs the state takes its lock or *)
(* fails at once, an import or a plan is one step, an apply is two.  The   *)
(* log group and the bucket have the name rc gives them; the load balancer *)
(* and the listener are the operator's ARNs, and terraform would create a  *)
(* second pair beside them.                                                *)
(***************************************************************************)
EXTENDS Integers, FiniteSets

CONSTANTS Deploys,   \* `rc deploy` processes
          MaxDeployRuns,   \* bound on their runs
          RcFaults   \* whether AWS and terraform calls fail and processes are killed

ASSUME ReconcileAssumption == MaxDeployRuns \in Nat /\ RcFaults \in BOOLEAN

Named == {"logs", "bucket"}
Alb == {"lb", "http"}
Res == Named \cup Alb

VARIABLES
  managed,    \* the resources rc.yml has: container_insights, backup.bucket, adopt_owned.alb
  ignoreTd,   \* ignore_task_definition_changes
  localState, \* the backend is local
  oneDir,     \* all deploys run in one directory; with a local backend they do
  wants,      \* deploy -> the launch type its rc.yml asks for
  cloud,      \* resource -> its objects in AWS: "given", the one rc looks for, or "fresh"
  tfstate,    \* resource -> the object in terraform's state, or "none"
  td,         \* launch type of the live task definition, or "none"
  oob,        \* the live revision carries secrets wired on out of band
  lock,       \* the holder of the state lock, as a set
  stage, on,  \* deploy -> its step, and the resource the step is about
  plan,       \* deploy -> what the terraform apply it is in does
  emitted,    \* directory -> the deploy whose configuration is in it
  saved,      \* directory -> the plan in rc-preapply.tfplan
  fresh,      \* directory -> the state has not moved since that plan
  overwritten,\* deploy -> the plan it looked at is no longer the one in its directory
  told,       \* deploy -> the replacement of the task definition was announced
  started     \* runs so far

recCfg == <<managed, ignoreTd, localState, oneDir, wants>>
world == <<cloud, tfstate, td, oob>>
files == <<emitted, saved, fresh, overwritten>>
recVars == <<managed, ignoreTd, localState, oneDir, wants, cloud, tfstate, td, oob, lock,
             stage, on, plan, emitted, saved, fresh, overwritten, told, started>>

\* A directory goes by the name of a deploy.
Dir(p) == IF oneDir THEN CHOOSE q \in Deploys : TRUE ELSE p

NoPlan == [creates |-> {}, launch |-> "FARGATE", replaces |-> FALSE, drops |-> FALSE]
Plans == [creates : SUBSET Res, launch : {"FARGATE", "EC2"}, replaces : BOOLEAN,
          drops : BOOLEAN]

RecInit ==
  /\ managed \in {{"logs"} \cup A \cup B : A \in {{}, {"bucket"}}, B \in {{}, Alb}}
  /\ ignoreTd \in BOOLEAN /\ localState \in BOOLEAN /\ oneDir \in BOOLEAN
  /\ localState => oneDir
  /\ wants \in [Deploys -> {"FARGATE", "EC2"}]
  /\ \E own \in {{}, Alb} :  \* the load balancer rc made before adopt_owned was set
       /\ tfstate = [r \in Res |-> IF r \in own THEN "fresh" ELSE "none"]
       /\ \E there \in SUBSET managed :
            /\ "http" \in there => "lb" \in there
            /\ cloud = [r \in Res |-> (IF r \in there THEN {"given"} ELSE {})
                                      \cup (IF r \in own THEN {"fresh"} ELSE {})]
  /\ td \in {"none", "FARGATE"} /\ oob \in BOOLEAN
  /\ oob => ignoreTd /\ td # "none"
  /\ lock = {}
  /\ stage = [p \in Deploys |-> "idle"] /\ on = [p \in Deploys |-> "none"]
  /\ plan = [p \in Deploys |-> NoPlan] /\ saved = plan
  /\ emitted = [d \in Deploys |-> d] /\ fresh = [d \in Deploys |-> FALSE]
  /\ overwritten = [p \in Deploys |-> FALSE] /\ told = overwritten /\ started = 0

Live(r) == tfstate[r] # "none" /\ tfstate[r] \in cloud[r]
Managing(r, state) == state = [tfstate EXCEPT ![r] = "given"]

\* Whatever writes the state makes every saved plan stale.
StateMoved == fresh' = [d \in Deploys |-> FALSE]
\* The order of the reconcile steps, then the plan.
Following(r) ==
  IF r = "logs" /\ "bucket" \in managed THEN "bucket"
  ELSE IF r \notin {"lb", "http"} /\ "lb" \in managed THEN "lb"
  ELSE IF r = "lb" THEN "http" ELSE "none"
GoOn(p) ==
  LET r == Following(on[p]) IN
  /\ on' = [on EXCEPT ![p] = r]
  /\ stage' = [stage EXCEPT ![p] = CASE r = "none" -> "plan" [] r = "http" -> "import"
                                [] OTHER -> "probe"]
Goto(p, step) == stage' = [stage EXCEPT ![p] = step]
Ends(p) ==
  /\ Goto(p, "idle")
  /\ on' = [on EXCEPT ![p] = "none"] /\ plan' = [plan EXCEPT ![p] = NoPlan]
  /\ told' = [told EXCEPT ![p] = FALSE]
  /\ overwritten' = [overwritten EXCEPT ![p] = FALSE]

-----------------------------------------------------------------------------
(* deploy, up to the reconcile steps *)

\* emit_terraform writes the configuration over the one that is there.
StartStackDeploy(p) ==
  /\ stage[p] = "idle" /\ started < MaxDeployRuns
  /\ started' = started + 1
  /\ emitted' = [emitted EXCEPT ![Dir(p)] = p]
  /\ Goto(p, "check")
  /\ UNCHANGED <<recCfg, world, lock, on, plan, saved, fresh, overwritten, told>>

\* _check_local_state_lock: one look at the lock file, for the local backend only.
CheckLocalLock(p) ==
  /\ stage[p] = "check"
  /\ IF localState /\ lock # {}
     THEN Ends(p)
     ELSE /\ Goto(p, "probe") /\ on' = [on EXCEPT ![p] = "logs"]
          /\ UNCHANGED <<plan, overwritten, told>>
  /\ UNCHANGED <<recCfg, world, lock, emitted, saved, fresh, started>>

\* describe_log_groups, head_bucket: nothing to import, or the look itself failed.
ProbeNamed(p) ==
  /\ stage[p] = "probe" /\ on[p] \in Named
  /\ \/ cloud[on[p]] # {} /\ Goto(p, "import") /\ UNCHANGED on
     \/ (cloud[on[p]] = {} \/ RcFaults) /\ GoOn(p)
  /\ UNCHANGED <<recCfg, world, files, lock, plan, told, started>>

\* Both ARNs must be live: going on would have terraform create a load balancer.
ProbeAlb(p) ==
  /\ stage[p] = "probe" /\ on[p] = "lb"
  /\ \/ /\ \A r \in Alb : "given" \in cloud[r]
        /\ Goto(p, "import")
        /\ UNCHANGED <<on, plan, overwritten, told>>
     \/ /\ RcFaults \/ \E r \in Alb : "given" \notin cloud[r]
        /\ Ends(p)
  /\ UNCHANGED <<recCfg, world, lock, emitted, saved, fresh, started>>

-----------------------------------------------------------------------------
(* terraform import *)

ImportWorks(p) ==
  /\ stage[p] = "import" /\ lock = {}
  /\ tfstate[on[p]] = "none" /\ "given" \in cloud[on[p]]
  /\ Managing(on[p], tfstate')
  /\ StateMoved
  /\ GoOn(p)
  /\ UNCHANGED <<recCfg, cloud, td, oob, lock, plan, emitted, saved, overwritten, told, started>>

\* "already managing" is taken for done, whatever object the state has.
AlreadyManaged(p) ==
  /\ stage[p] = "import" /\ lock = {} /\ tfstate[on[p]] # "none"
  /\ GoOn(p)
  /\ UNCHANGED <<recCfg, world, files, lock, plan, told, started>>

ImportRefused(p) ==
  /\ stage[p] = "import"
  /\ \/ lock # {}
     \/ tfstate[on[p]] = "none" /\ ("given" \notin cloud[on[p]] \/ RcFaults)

\* The log group is deleted for apply to make it again; that may fail too.
LogImportFails(p) ==
  /\ ImportRefused(p) /\ on[p] = "logs"
  /\ \/ cloud' = [cloud EXCEPT !["logs"] = {}]
     \/ RcFaults /\ UNCHANGED cloud
  /\ GoOn(p)
  /\ UNCHANGED <<recCfg, tfstate, td, oob, files, lock, plan, told, started>>

\* The bucket may hold dumps: it is left alone and the apply is left to fail.
BucketImportFails(p) ==
  /\ ImportRefused(p) /\ on[p] = "bucket"
  /\ GoOn(p)
  /\ UNCHANGED <<recCfg, world, files, lock, plan, told, started>>

\* Variant: a failed import of the load balancer is a warning like the bucket's.
AlbImportTolerated(p) ==
  /\ ImportRefused(p) /\ on[p] \in Alb
  /\ GoOn(p)
  /\ UNCHANGED <<recCfg, world, files, lock, plan, told, started>>

AlbImportFails(p) ==
  /\ ImportRefused(p) /\ on[p] \in Alb
  /\ Ends(p)
  /\ UNCHANGED <<recCfg, world, lock, emitted, saved, fresh, started>>

-----------------------------------------------------------------------------
(* terraform plan and apply *)

\* terraform reads the configuration that is in the directory.
PlanOf(p) ==
  LET launch == wants[emitted[Dir(p)]] IN
  [creates |-> {r \in managed : ~Live(r)}, launch |-> launch,
   replaces |-> td # "none" /\ td # launch, drops |-> oob]

\* Variant: only a stack on EC2 has its plan looked at.
NeedsPlanOnEc2(p) == wants[p] = "EC2"
\* _needs_preapply_plan
NeedsPlan(p) == ignoreTd \/ wants[p] = "EC2"

\* terraform plan -out rc-preapply.tfplan
SavePlan(p) ==
  /\ stage[p] = "plan" /\ NeedsPlan(p) /\ lock = {}
  /\ saved' = [saved EXCEPT ![Dir(p)] = PlanOf(p)]
  /\ fresh' = [fresh EXCEPT ![Dir(p)] = TRUE]
  /\ overwritten' = [q \in Deploys |->
        overwritten[q] \/ (stage[q] = "apply" /\ NeedsPlan(q) /\ Dir(q) = Dir(p))]
  /\ Goto(p, "inspect")
  /\ UNCHANGED <<recCfg, world, lock, on, plan, emitted, told, started>>

\* The plan that is in the file now; one that cannot be read is announced too.
InspectPlan(p) ==
  /\ stage[p] = "inspect"
  /\ LET replacement == saved[Dir(p)].replaces /\ saved[Dir(p)].drops IN
       \/ told' = [told EXCEPT ![p] = replacement]
       \/ RcFaults /\ told' = [told EXCEPT ![p] = TRUE]
  /\ Goto(p, "apply")
  /\ UNCHANGED <<recCfg, world, files, lock, on, plan, started>>

NoPlanNeeded(p) ==
  /\ stage[p] = "plan" /\ ~NeedsPlan(p)
  /\ Goto(p, "apply")
  /\ UNCHANGED <<recCfg, world, files, lock, on, plan, told, started>>

\* The lock is held, the saved plan is stale, or terraform fails before it changes anything.
TerraformRefuses(p) ==
  /\ \/ stage[p] = "plan" /\ NeedsPlan(p) /\ (lock # {} \/ RcFaults)
     \/ stage[p] = "apply" /\ (lock # {} \/ RcFaults \/ (NeedsPlan(p) /\ ~fresh[Dir(p)]))
  /\ Ends(p)
  /\ UNCHANGED <<recCfg, world, lock, emitted, saved, fresh, started>>

\* The plan in the file, whoever saved it; without one, a plan of its own.
TfApplyBegins(p) ==
  /\ stage[p] = "apply" /\ lock = {}
  /\ NeedsPlan(p) => fresh[Dir(p)]
  /\ lock' = {p}
  /\ plan' = [plan EXCEPT ![p] = IF NeedsPlan(p) THEN saved[Dir(p)] ELSE PlanOf(p)]
  /\ Goto(p, "applying")
  /\ UNCHANGED <<recCfg, world, files, on, told, started>>

\* What terraform makes of resource r, and when AWS has that object already.
NewObject(r) == IF r \in Named THEN "given" ELSE "fresh"
Collides(r) ==
  \/ NewObject(r) \in cloud[r]
  \/ r = "http" /\ tfstate["lb"] = "given" /\ "given" \in cloud["http"]
Create(done) == cloud' = [r \in Res |-> IF r \in done THEN cloud[r] \cup {NewObject(r)}
                                        ELSE cloud[r]]
Record(done) == tfstate' = [r \in Res |-> IF r \in done THEN NewObject(r) ELSE tfstate[r]]
Register(p, whether) ==
  /\ td' = IF whether THEN plan[p].launch ELSE td
  /\ oob' = IF whether /\ plan[p].replaces THEN FALSE ELSE oob

\* An apply that finds nothing to do leaves the state as it was.
ApplyLeaves(p, done, roll) ==
  /\ Create(done) /\ Record(done) /\ Register(p, roll)
  /\ IF done = {} /\ td' = td THEN UNCHANGED fresh ELSE StateMoved
  /\ lock' = {}
  /\ Ends(p)
  /\ UNCHANGED <<recCfg, emitted, saved, started>>

TfApplyEnds(p) ==
  /\ stage[p] = "applying"
  /\ \A r \in plan[p].creates : ~Collides(r)
  /\ ApplyLeaves(p, plan[p].creates, TRUE)

\* ResourceAlreadyExists and the like: part of the work is done and in the state.
TfApplyFails(p) ==
  /\ stage[p] = "applying"
  /\ RcFaults \/ \E r \in plan[p].creates : Collides(r)
  /\ \E done \in SUBSET {r \in plan[p].creates : ~Collides(r)}, roll \in BOOLEAN :
       ApplyLeaves(p, done, roll)

-----------------------------------------------------------------------------
(* The rest of the world *)

\* A killed apply leaves the lock, and objects the state does not know.
DeployKilled(p) ==
  /\ stage[p] # "idle" /\ RcFaults
  /\ IF stage[p] = "applying"
     THEN \E done \in SUBSET {r \in plan[p].creates : ~Collides(r)} : Create(done)
     ELSE UNCHANGED cloud
  /\ Ends(p)
  /\ UNCHANGED <<recCfg, tfstate, td, oob, lock, emitted, saved, fresh, started>>

\* `terraform force-unlock`, once nobody is applying.
ForceUnlock ==
  /\ \E p \in lock : stage[p] # "applying"
  /\ lock' = {}
  /\ UNCHANGED <<recCfg, world, files, stage, on, plan, told, started>>

\* Container Insights makes its log group when tasks run and there is none.
InsightsCreatesLogs ==
  /\ td # "none" /\ cloud["logs"] = {}
  /\ cloud' = [cloud EXCEPT !["logs"] = {"given"}]
  /\ UNCHANGED <<recCfg, tfstate, td, oob, files, lock, stage, on, plan, told, started>>

AlbDeleted ==
  /\ "given" \in cloud["lb"] \cup cloud["http"]
  /\ \E gone \in {Alb, {"http"}} :
       cloud' = [r \in Res |-> IF r \in gone THEN cloud[r] \ {"given"} ELSE cloud[r]]
  /\ UNCHANGED <<recCfg, tfstate, td, oob, files, lock, stage, on, plan, told, started>>

\* A script registers a revision with secrets rc.yml does not have.
WiredOutOfBand ==
  /\ ignoreTd /\ td # "none" /\ ~oob
  /\ oob' = TRUE
  /\ UNCHANGED <<recCfg, cloud, tfstate, td, files, lock, stage, on, plan, told, started>>

RecNext ==
  \/ \E p \in Deploys :
       \/ StartStackDeploy(p) \/ CheckLocalLock(p) \/ ProbeNamed(p) \/ ProbeAlb(p)
       \/ ImportWorks(p) \/ AlreadyManaged(p) \/ LogImportFails(p)
       \/ BucketImportFails(p) \/ AlbImportFails(p)
       \/ SavePlan(p) \/ InspectPlan(p) \/ NoPlanNeeded(p) \/ TerraformRefuses(p)
       \/ TfApplyBegins(p) \/ TfApplyEnds(p) \/ TfApplyFails(p) \/ DeployKilled(p)
  \/ ForceUnlock \/ InsightsCreatesLogs \/ AlbDeleted \/ WiredOutOfBand

RecSpec == RecInit /\ [][RecNext]_recVars

-----------------------------------------------------------------------------
(* Properties *)

\* The type invariant of the deploys, terraform's state and AWS.
RecTypeOK ==
  /\ managed \subseteq Res
  /\ ignoreTd \in BOOLEAN /\ localState \in BOOLEAN /\ oneDir \in BOOLEAN
  /\ wants \in [Deploys -> {"FARGATE", "EC2"}]
  /\ cloud \in [Res -> SUBSET {"given", "fresh"}]
  /\ tfstate \in [Res -> {"none", "given", "fresh"}]
  /\ td \in {"none", "FARGATE", "EC2"} /\ oob \in BOOLEAN
  /\ lock \subseteq Deploys
  /\ stage \in [Deploys -> {"idle", "check", "probe", "import", "plan", "inspect", "apply",
                            "applying"}]
  /\ on \in [Deploys -> Res \cup {"none"}] /\ plan \in [Deploys -> Plans]
  /\ emitted \in [Deploys -> Deploys] /\ saved \in [Deploys -> Plans]
  /\ fresh \in [Deploys -> BOOLEAN] /\ overwritten \in [Deploys -> BOOLEAN]
  /\ told \in [Deploys -> BOOLEAN] /\ started \in 0..MaxDeployRuns

\* _reconcile_adopt_owned_alb and the other two: a deploy that ends green never leaves the
\* object it was to adopt outside the state with a new one in its place, whatever failed,
\* was killed or ran beside it, unless the state had an object of its own all along: the
\* import takes that one for the adopted one.
GreenOwnsWhatIsThere ==
  [][\A p \in Deploys : TfApplyEnds(p) =>
       \A r \in managed :
         "given" \in cloud'[r] => tfstate'[r] = "given" \/ tfstate[r] = "fresh"]_recVars

\* The announcement is to "describe exactly what runs": with ignore_task_definition_changes
\* an apply drops the out-of-band secrets of a revision, those there when it was planned,
\* only when its deploy has announced it or a deploy in the same directory has saved a plan
\* of its own over the one that was looked at.  The code does not prevent that overwriting
\* (_preapply_plan_path is one name, and the state has not moved, so terraform does not
\* refuse the other's plan); without it, whatever else overlaps, nothing goes unannounced.
ReplacementIsAnnounced ==
  [][\A p \in Deploys :
       stage[p] = "applying" /\ oob /\ ~oob' =>
         told[p] \/ ~plan[p].drops \/ overwritten[p]]_recVars
=============================================================================
