---------------------------- MODULE EphemeralStacks ----------------------------
(***************************************************************************)
(* The registry of stacks deployed with --ttl (ephemeral.py) and the       *)
(* commands that share it: `rc deploy --ttl` registers a stack and applies *)
(* it, `rc destroy` tears one down and unregisters it, `rc reap`, started  *)
(* by hand or by the launchd job, does so for every record past its time   *)
(* (cli_commands/destroy.py).                                              *)
(*                                                                         *)
(* The registry is one JSON file.  register_stack and remove_stack read    *)
(* all of it, then write all of it: write_text truncates the file first,   *)
(* and an empty file reads as the empty list.  Nothing locks it; terraform *)
(* locks the state of each stack.  A terraform apply or destroy is one     *)
(* command here (Ec2Destroy has the detail of a teardown on EC2).          *)
(***************************************************************************)
EXTENDS Integers, FiniteSets

CONSTANTS Stacks,      \* (project, region) pairs
          Clis,        \* rc processes somebody starts by hand
          Reaper,      \* the process the launchd job starts: `rc reap -y`
          Ttl,         \* what --ttl adds to the time of the deploy
          MaxClock,    \* bound on the clock
          MaxDeploys,  \* bound on `rc deploy --ttl` commands
          MaxFaults    \* bound on failed teardowns, killed processes and deleted files

ASSUME EphemeralAssumption ==
  /\ Reaper \notin Clis
  /\ Ttl \in Nat \ {0} /\ MaxClock \in Nat \ {0} /\ MaxDeploys \in Nat /\ MaxFaults \in Nat

Procs == Clis \cup {Reaper}
None == 0  \* no record; times start at 1
Registries == [Stacks -> 0..(MaxClock + Ttl)]
NoRecords == [s \in Stacks |-> None]

VARIABLES
  registry,  \* content of ephemeral.json: stack -> expires_at
  live,      \* the stacks that have resources in AWS
  files,     \* stack -> "rc" (rc.yml there), "tf" (only terraform_dir) or "gone"
  clock,
  step,      \* process -> where it is
  job,       \* process -> "none", "deploy", "destroy" or "reap"
  cur,       \* process -> the stack it works on, as a set
  targets,   \* process -> the stacks it has still to tear down
  snap,      \* process -> the registry it read before its write
  deploys, faults,
  lost       \* stacks whose record was dropped by one of the races below

ephVars == <<registry, live, files, clock, step, job, cur, targets, snap,
             deploys, faults, lost>>
worldVars == <<live, files, clock, deploys, faults>>
procVars == <<step, job, cur, targets, snap>>

EphInit ==
  /\ registry = NoRecords /\ live = {} /\ files = [s \in Stacks |-> "rc"] /\ clock = 1
  /\ step = [p \in Procs |-> "idle"] /\ job = [p \in Procs |-> "none"]
  /\ cur = [p \in Procs |-> {}] /\ targets = [p \in Procs |-> {}]
  /\ snap = [p \in Procs |-> NoRecords]
  /\ deploys = 0 /\ faults = 0 /\ lost = {}

At(p, where) == step[p] = where
Goto(p, where) == step' = [step EXCEPT ![p] = where]
Begin(p, j, where, stacks, todo) ==
  /\ At(p, "idle")
  /\ Goto(p, where)
  /\ job' = [job EXCEPT ![p] = j]
  /\ cur' = [cur EXCEPT ![p] = stacks]
  /\ targets' = [targets EXCEPT ![p] = todo]
  /\ UNCHANGED <<registry, snap, lost>>
Finish(p) ==
  /\ Goto(p, "idle")
  /\ job' = [job EXCEPT ![p] = "none"]
  /\ cur' = [cur EXCEPT ![p] = {}]
  /\ targets' = [targets EXCEPT ![p] = {}]
  /\ snap' = [snap EXCEPT ![p] = NoRecords]
\* Variant: the first failure ends the command.
StopHere(p) == Finish(p)
\* A reap goes on with its next target, whatever became of this one.
NextTarget(p) ==
  IF job[p] = "reap"
  THEN /\ Goto(p, "next")
       /\ cur' = [cur EXCEPT ![p] = {}] /\ snap' = [snap EXCEPT ![p] = NoRecords]
       /\ UNCHANGED <<job, targets>>
  ELSE Finish(p)
Locked(s) == \E p \in Procs : At(p, "destroying") /\ cur[p] = {s}
TornDown(s) == \E p \in Procs :
  step[p] \in {"destroying", "remove", "removing", "truncated"}
  /\ job[p] # "deploy" /\ cur[p] = {s}
Deploying(s) == \E p \in Procs : job[p] = "deploy" /\ cur[p] = {s}
PastDue(s) == registry[s] # None /\ registry[s] <= clock

-----------------------------------------------------------------------------
(* The commands *)

StartDeploy(p, s) ==
  /\ deploys < MaxDeploys
  /\ Begin(p, "deploy", "register", {s}, {})
  /\ deploys' = deploys + 1
  /\ files' = [files EXCEPT ![s] = "rc"]
  /\ UNCHANGED <<live, clock, faults>>

StartDestroy(p, s) ==
  /\ files[s] = "rc"
  /\ Begin(p, "destroy", "destroy", {s}, {})
  /\ UNCHANGED worldVars

\* The targets are listed once: find_expired, or every record with --all.
StartReap(p, all) ==
  LET due == {s \in Stacks : IF all THEN registry[s] # None ELSE PastDue(s)} IN
  /\ due # {}
  /\ Begin(p, "reap", "next", {}, due)
  /\ UNCHANGED worldVars

TakeTarget(p) ==
  /\ At(p, "next")
  /\ \/ /\ targets[p] = {}
        /\ Finish(p)
     \/ /\ \E s \in targets[p] :
             /\ cur' = [cur EXCEPT ![p] = {s}]
             /\ targets' = [targets EXCEPT ![p] = @ \ {s}]
        /\ Goto(p, "destroy")
        /\ UNCHANGED <<job, snap>>
  /\ UNCHANGED <<registry, worldVars, lost>>

-----------------------------------------------------------------------------
(* The registry file: read all, truncate, write all. *)

\* register_stack reads before it writes.
ReadToRegister(p) ==
  /\ At(p, "register")
  /\ snap' = [snap EXCEPT ![p] = registry]
  /\ Goto(p, "registering")
  /\ UNCHANGED <<registry, worldVars, job, cur, targets, lost>>

\* remove_stack leaves the file alone when there is no record.
ReadToRemove(p) ==
  /\ At(p, "remove")
  /\ \E s \in cur[p] :
       \/ /\ registry[s] = None
          /\ NextTarget(p)
       \/ /\ registry[s] # None
          /\ snap' = [snap EXCEPT ![p] = registry]
          /\ Goto(p, "removing")
          /\ UNCHANGED <<job, cur, targets>>
  /\ UNCHANGED <<registry, worldVars, lost>>

Changed(p) == {s \in Stacks : registry[s] # None /\ registry[s] # snap[p][s]}

Truncate(p) ==
  /\ step[p] \in {"registering", "removing"}
  /\ Goto(p, "truncated")
  /\ registry' = NoRecords
  /\ lost' = lost \cup Changed(p)
  /\ UNCHANGED <<worldVars, job, cur, targets, snap>>

\* Variant: the time to live is added to a time that already has it.
NewRegistryLate(p) ==
  [s \in Stacks |-> IF s \notin cur[p] THEN snap[p][s]
                    ELSE IF job[p] = "deploy" THEN clock + Ttl + Ttl ELSE None]
NewRegistry(p) ==
  [s \in Stacks |-> IF s \notin cur[p] THEN snap[p][s]
                    ELSE IF job[p] = "deploy" THEN clock + Ttl ELSE None]

\* remove_stack drops the record whatever it says by now, one renewed by a deploy that is
\* under way included.
Write(p) ==
  /\ At(p, "truncated")
  /\ registry' = NewRegistry(p)
  /\ IF job[p] = "deploy"
     THEN /\ lost' = (lost \cup Changed(p)) \ {s \in cur[p] : ~TornDown(s)}
          /\ Goto(p, "apply")
          /\ UNCHANGED <<job, cur, targets, snap>>
     ELSE /\ lost' = lost \cup Changed(p) \cup {s \in cur[p] : Deploying(s)}
          /\ NextTarget(p)
  /\ UNCHANGED worldVars

-----------------------------------------------------------------------------
(* terraform *)

\* provider.deploy creates the stack, whole or in part, or is refused before it does.
DeployStack(p) ==
  /\ At(p, "apply")
  /\ \E s \in cur[p] :
       \/ /\ ~Locked(s)
          /\ live' = live \cup {s}
          /\ lost' = IF TornDown(s) THEN lost \cup {s} ELSE lost
       \/ UNCHANGED <<live, lost>>
  /\ Finish(p)
  /\ UNCHANGED <<registry, files, clock, deploys, faults>>

\* provider.destroy, or terraform destroy in terraform_dir when rc.yml is gone.
DestroyBegins(p) ==
  /\ At(p, "destroy")
  /\ \E s \in cur[p] : files[s] # "gone" /\ ~Locked(s)
  /\ Goto(p, "destroying")
  /\ UNCHANGED <<registry, worldVars, job, cur, targets, snap, lost>>

StateLocked(p) ==
  /\ At(p, "destroy")
  /\ \E s \in cur[p] : files[s] # "gone" /\ Locked(s)
  /\ NextTarget(p)
  /\ UNCHANGED <<registry, worldVars, lost>>

DestroyEnds(p) ==
  /\ At(p, "destroying")
  /\ live' = live \ cur[p]
  /\ Goto(p, "remove")
  /\ UNCHANGED <<registry, files, clock, deploys, faults, job, cur, targets, snap,
                 lost>>

\* Variant: the record goes although the teardown failed.
DestroyFailsUnnoticed(p) ==
  /\ At(p, "destroying") /\ faults < MaxFaults
  /\ faults' = faults + 1
  /\ Goto(p, "remove")
  /\ UNCHANGED <<registry, live, files, clock, deploys, job, cur, targets, snap, lost>>

DestroyFails(p) ==
  /\ At(p, "destroying") /\ faults < MaxFaults
  /\ faults' = faults + 1
  /\ NextTarget(p)
  /\ UNCHANGED <<registry, live, files, clock, deploys, lost>>

\* With rc.yml and terraform_dir gone an audit decides whether the record may go.
Audit(p) ==
  /\ At(p, "destroy")
  /\ \E s \in cur[p] :
       /\ files[s] = "gone"
       /\ IF s \in live THEN NextTarget(p)
          ELSE Goto(p, "remove") /\ UNCHANGED <<job, cur, targets, snap>>
  /\ UNCHANGED <<registry, worldVars, lost>>

-----------------------------------------------------------------------------
(* The machine *)

\* A process that dies between truncate and write leaves an empty registry.
ProcessKilled(p) ==
  /\ ~At(p, "idle") /\ faults < MaxFaults
  /\ faults' = faults + 1
  /\ lost' = IF At(p, "truncated")
             THEN lost \cup {s \in Stacks : snap[p][s] # None} ELSE lost
  /\ Finish(p)
  /\ UNCHANGED <<registry, live, files, clock, deploys>>

FilesDeleted(s) ==
  /\ files[s] # "gone" /\ faults < MaxFaults
  /\ faults' = faults + 1
  /\ \E f \in {"tf", "gone"} : f # files[s] /\ files' = [files EXCEPT ![s] = f]
  /\ UNCHANGED <<registry, live, clock, procVars, deploys, lost>>

Tick ==
  /\ clock < MaxClock
  /\ clock' = clock + 1
  /\ UNCHANGED <<registry, live, files, procVars, deploys, faults, lost>>

Work(p) ==
  \/ TakeTarget(p) \/ ReadToRegister(p) \/ ReadToRemove(p) \/ Truncate(p) \/ Write(p)
  \/ DeployStack(p) \/ DestroyBegins(p) \/ StateLocked(p) \/ DestroyEnds(p) \/ Audit(p)

EphNext ==
  \/ \E p \in Procs : Work(p) \/ DestroyFails(p) \/ ProcessKilled(p)
  \/ \E p \in Clis, s \in Stacks : StartDeploy(p, s) \/ StartDestroy(p, s)
  \/ \E p \in Clis, all \in BOOLEAN : StartReap(p, all)
  \/ StartReap(Reaper, FALSE)
  \/ \E s \in Stacks : FilesDeleted(s)
  \/ Tick

\* A running process goes on, and launchd starts the reaper again and again.
EphFairness ==
  /\ \A p \in Procs : WF_ephVars(Work(p))
  /\ WF_ephVars(StartReap(Reaper, FALSE))
  /\ WF_ephVars(Tick)

EphSpec == EphInit /\ [][EphNext]_ephVars /\ EphFairness

-----------------------------------------------------------------------------
(* Properties *)

\* The type invariant of the registry, its processes and the stacks.
EphTypeOK ==
  /\ registry \in Registries /\ live \subseteq Stacks
  /\ files \in [Stacks -> {"rc", "tf", "gone"}] /\ clock \in 1..MaxClock
  /\ step \in [Procs -> {"idle", "register", "registering", "apply", "next", "destroy",
                         "destroying", "remove", "removing", "truncated"}]
  /\ job \in [Procs -> {"none", "deploy", "destroy", "reap"}]
  /\ cur \in [Procs -> SUBSET Stacks] /\ targets \in [Procs -> SUBSET Stacks]
  /\ snap \in [Procs -> Registries]
  /\ deploys \in 0..MaxDeploys /\ faults \in 0..MaxFaults /\ lost \subseteq Stacks

\* ephemeral.py:15: the registry is "the single source of truth" for the ephemeral stacks.
\* A stack with resources in AWS has a record, through failed and killed commands alike,
\* unless its record was lost in a race: two overlapping read-modify-writes, a process
\* killed in the middle of a write, or a deploy that overlapped its teardown.
RegisteredUnlessRaced ==
  (\A p \in Procs : ~At(p, "truncated")) =>
    \A s \in live : registry[s] # None \/ s \in lost

\* reap_cmd: "A failure on one stack does not stop the rest".  A stack whose record is past
\* due is torn down in the end, unless somebody renews it or its record or files are gone.
PastDueIsReaped ==
  \A s \in Stacks :
    s \in live /\ PastDue(s) ~> s \notin live \/ ~PastDue(s) \/ files[s] = "gone"
=============================================================================
