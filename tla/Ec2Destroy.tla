------------------------------ MODULE Ec2Destroy ------------------------------
(***************************************************************************)
(* ECSProvider.destroy of a stack whose services run on EC2 capacity: the  *)
(* pre-drain asks ECS to run none of them, waits, shrinks the auto scaling *)
(* group to zero, waits, and only then lets terraform destroy the module.  *)
(* Every AWS call may fail, every wait may time out, services and the      *)
(* compose file may already be gone.                                       *)
(*                                                                         *)
(* ECS and the auto scaling group are external.  A task of a service that  *)
(* still wants tasks is not stopped on a draining instance: the services   *)
(* are rendered with a minimum healthy percent of 100 and there is no      *)
(* other instance for the replacement.                                     *)
(***************************************************************************)
EXTENDS Integers, FiniteSets

CONSTANTS Ec2Services,  \* the names of ECS services
          AwsFails     \* whether AWS calls fail and waits time out

ASSUME Ec2Assumption == IsFiniteSet(Ec2Services) /\ AwsFails \in BOOLEAN

VARIABLES
  ec2Default,  \* rc.yml has default_launch_type: EC2
  onEc2,       \* the services the stack was deployed with on EC2
  inRcYml,     \* those of them rc.yml declares; the rest are in the compose file only
  compose,     \* the compose file is still there
  want,        \* services with a desired count above zero
  run,         \* services with running tasks
  exists,      \* services ECS knows
  instance,    \* "up", "draining" (the group shrinks) or "gone"
  at,          \* where destroy is
  drain,       \* the services the pre-drain has decided on
  left,        \* what is left of its loop or of its wait
  trouble      \* a WARN was printed: a call failed or a wait ran out

cfgVars == <<ec2Default, onEc2, inRcYml, compose>>
awsVars == <<want, run, exists, instance>>
dVars == <<ec2Default, onEc2, inRcYml, compose, want, run, exists, instance, at, drain, left,
           trouble>>

\* launch_type is an rc.yml field: a service only compose knows is on EC2 by default.
DestroyInit ==
  /\ ec2Default \in BOOLEAN /\ compose \in BOOLEAN
  /\ onEc2 \in SUBSET Ec2Services
  /\ inRcYml \in SUBSET onEc2
  /\ ~ec2Default => inRcYml = onEc2
  /\ exists \in SUBSET onEc2
  /\ run \in SUBSET exists /\ want = exists
  /\ instance = "up"
  /\ at = "start" /\ drain = {} /\ left = {} /\ trouble = FALSE

\* _ec2_service_names: without the compose file only what rc.yml declares.
LocalNames == IF compose THEN onEc2 ELSE inRcYml
\* _local_ec2_list_is_complete
LocalIsComplete == ~ec2Default

Warn == trouble' = TRUE

-----------------------------------------------------------------------------
(* _predrain_ec2_capacity *)

\* No EC2 service to be expected, or no ECS client: terraform takes over at once.
SkipPredrain ==
  /\ at = "start"
  /\ \/ LocalNames = {} /\ LocalIsComplete /\ UNCHANGED trouble
     \/ AwsFails /\ Warn
  /\ at' = "terraform"
  /\ UNCHANGED <<cfgVars, awsVars, drain, left>>

\* Variant: the cluster is never asked.
FindLocalServices ==
  /\ at = "start"
  /\ ~(LocalNames = {} /\ LocalIsComplete)
  /\ drain' = LocalNames /\ left' = drain'
  /\ at' = IF drain' = {} THEN "terraform" ELSE "scale_in"
  /\ UNCHANGED <<cfgVars, awsVars, trouble>>

\* The local list, united with what the cluster runs when the list cannot be trusted.
FindServices ==
  /\ at = "start"
  /\ ~(LocalNames = {} /\ LocalIsComplete)
  /\ \/ /\ drain' = LocalNames \cup (IF LocalIsComplete THEN {} ELSE exists)
        /\ UNCHANGED trouble
     \/ /\ ~LocalIsComplete /\ AwsFails
        /\ drain' = LocalNames
        /\ Warn
  /\ at' = IF drain' = {} THEN "terraform" ELSE "scale_in"
  /\ left' = drain'
  /\ UNCHANGED <<cfgVars, awsVars>>

\* Variant: a failed call is tried again, for ever if the service is gone.
DesiredCountZeroRetried(s) ==
  /\ at = "scale_in" /\ s \in left /\ s \in exists
  /\ left' = left \ {s} /\ want' = want \ {s}
  /\ UNCHANGED <<cfgVars, run, exists, instance, at, drain, trouble>>

\* update_service(desiredCount=0); it may fail, and does for a service that is gone.
DesiredCountZero(s) ==
  /\ at = "scale_in" /\ s \in left
  /\ left' = left \ {s}
  /\ \/ /\ s \in exists
        /\ want' = want \ {s}
        /\ UNCHANGED trouble
     \/ /\ s \notin exists \/ AwsFails
        /\ Warn
        /\ UNCHANGED want
  /\ UNCHANGED <<cfgVars, run, exists, instance, at, drain>>

StartWait ==
  /\ at = "scale_in" /\ left = {}
  /\ at' = "wait" /\ left' = drain
  /\ UNCHANGED <<cfgVars, awsVars, drain, trouble>>

\* _wait_for_zero_running_services: a service ECS no longer reports counts as drained.
StillRunning == left \cap exists \cap run
PollServices ==
  /\ at = "wait" /\ left' = StillRunning
  /\ IF left' = {} THEN at' = "shrink" ELSE UNCHANGED at
  /\ UNCHANGED <<cfgVars, awsVars, drain, trouble>>

GiveUpWait ==
  /\ at = "wait"
  /\ AwsFails
  /\ Warn
  /\ left' = {} /\ at' = "shrink"
  /\ UNCHANGED <<cfgVars, awsVars, drain>>

-----------------------------------------------------------------------------
(* _scale_down_ec2_capacity, then terraform *)

ShrinkGroup ==
  /\ at = "shrink"
  /\ instance' = IF instance = "up" THEN "draining" ELSE instance
  /\ at' = "shrinking"
  /\ UNCHANGED <<cfgVars, want, run, exists, drain, left, trouble>>

ShrinkFails ==
  /\ at = "shrink" /\ AwsFails
  /\ Warn
  /\ at' = "terraform"
  /\ UNCHANGED <<cfgVars, awsVars, drain, left>>

\* Leftover container instances are deregistered whether the wait ended well or not.
GroupEmpty ==
  /\ at = "shrinking"
  /\ \/ instance = "gone" /\ UNCHANGED trouble
     \/ AwsFails /\ Warn
  /\ at' = "terraform"
  /\ UNCHANGED <<cfgVars, awsVars, drain, left>>

\* terraform deletes the services and the capacity, if nothing is stuck in its way.
Stuck == instance = "draining" /\ run \cap want # {}
TerraformDestroys ==
  /\ at = "terraform" /\ ~Stuck
  /\ exists' = {} /\ run' = {} /\ want' = {} /\ instance' = "gone"
  /\ at' = "destroyed"
  /\ UNCHANGED <<cfgVars, drain, left, trouble>>

\* The service or the internet gateway delete times out; the command fails.
TerraformFails ==
  /\ at = "terraform"
  /\ run # {} \/ instance # "gone" \/ AwsFails
  /\ at' = "failed"
  /\ UNCHANGED <<cfgVars, awsVars, drain, left, trouble>>

-----------------------------------------------------------------------------
(* ECS and the auto scaling group *)

TaskStops(s) ==
  /\ s \in run \ want
  /\ run' = run \ {s}
  /\ UNCHANGED <<cfgVars, want, exists, instance, at, drain, left, trouble>>

TaskStarts(s) ==
  /\ s \in want \ run /\ instance = "up"
  /\ run' = run \cup {s}
  /\ UNCHANGED <<cfgVars, want, exists, instance, at, drain, left, trouble>>

InstanceTerminates ==
  /\ instance = "draining" /\ run = {}
  /\ instance' = "gone"
  /\ UNCHANGED <<cfgVars, want, run, exists, at, drain, left, trouble>>

Predrain ==
  \/ SkipPredrain \/ FindServices \/ StartWait \/ PollServices \/ GiveUpWait
  \/ \E s \in Ec2Services : DesiredCountZero(s)
  \/ ShrinkGroup \/ ShrinkFails \/ GroupEmpty

DestroyNext ==
  \/ Predrain \/ TerraformDestroys \/ TerraformFails
  \/ \E s \in Ec2Services : TaskStops(s) \/ TaskStarts(s)
  \/ InstanceTerminates

\* destroy goes on, a wait that can time out does, AWS stops what nobody wants.
DestroyFairness ==
  /\ WF_dVars(Predrain \/ TerraformDestroys \/ TerraformFails)
  /\ WF_dVars(GiveUpWait \/ GroupEmpty)
  /\ WF_dVars(InstanceTerminates \/ \E s \in Ec2Services : TaskStops(s))

DestroySpec == DestroyInit /\ [][DestroyNext]_dVars /\ DestroyFairness

-----------------------------------------------------------------------------
(* Properties *)

\* The type invariant of destroy and of the EC2 side of the stack.
DestroyTypeOK ==
  /\ ec2Default \in BOOLEAN /\ compose \in BOOLEAN /\ onEc2 \subseteq Ec2Services
  /\ inRcYml \subseteq Ec2Services
  /\ exists \subseteq Ec2Services /\ run \subseteq Ec2Services /\ want \subseteq Ec2Services
  /\ instance \in {"up", "draining", "gone"}
  /\ at \in {"start", "scale_in", "wait", "shrink", "shrinking", "terraform", "destroyed",
             "failed"}
  /\ drain \subseteq Ec2Services /\ left \subseteq Ec2Services /\ trouble \in BOOLEAN

\* _predrain_ec2_capacity exists to keep the group from shrinking under a service that
\* still wants or runs tasks ("genuine deadlock, not just a slow drain").  It never does,
\* for any service of the stack and even when the compose file is gone, unless it has warned.
NeverShrinksUnderLoad ==
  instance # "up" /\ at # "destroyed" => (want = {} /\ run = {}) \/ trouble

\* Without a warning terraform is handed a stack with no running task and no instance.
HandsOverDrained ==
  at = "terraform" /\ ~trouble /\ drain # {} => run = {} /\ instance = "gone"

\* What the pre-drain is for, both halves of it.
DrainsBeforeDestroy == NeverShrinksUnderLoad /\ HandsOverDrained

\* "Best-effort throughout and must NEVER raise": terraform destroy, the backstop, is
\* reached whatever failed before.
TerraformIsReached == <>(at \in {"destroyed", "failed"})
=============================================================================
