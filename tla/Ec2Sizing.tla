------------------------------ MODULE Ec2Sizing ------------------------------
(***************************************************************************)
(* How many instances of which type host the EC2 tasks of a stack:         *)
(* ECSProvider._resolve_ec2_capacity with auto_size for a stack that names *)
(* no instance_type and check_fixed_shape_capacity for one that does, then *)
(* ECS placing the tasks.  Placing is external: a task takes the first     *)
(* instance with room for its CPU, its memory and its network interface,   *)
(* in any order of the tasks (some order of a first-fit is a best one).    *)
(*                                                                         *)
(* The safety headroom of 1.2 is 12/10 in integers.                        *)
(***************************************************************************)
EXTENDS Integers, FiniteSets, FiniteSetsExt, Sequences

CONSTANTS SizedServices,  \* the services on EC2
          Ladder,         \* the shapes auto_size tries, smallest first
          Shapes,         \* shape -> [vcpu, mib, enis, trunked], trunked 0 when not eligible
          TaskDemands,        \* the demands looked at
          Requests        \* the ec2_capacity blocks looked at

RESERVED_MEMORY_MIB == 256
DefaultMax == 10

\* A shape has the reserved memory and an interface besides its primary one, and trunking
\* gives it more (the rows from autosize.py:200 on).  A named type outside
\* KNOWN_INSTANCE_SHAPES is not checked by the code and not among the Requests.
ASSUME SizingAssumption ==
  /\ IsFiniteSet(SizedServices)
  /\ Ladder \in Seq(DOMAIN Shapes) /\ {"none", "auto"} \cap DOMAIN Shapes = {}
  /\ \A t \in DOMAIN Shapes :
       /\ Shapes[t] \in [vcpu : Nat, mib : Nat, enis : Nat, trunked : Nat]
       /\ Shapes[t].vcpu > 0 /\ Shapes[t].mib >= RESERVED_MEMORY_MIB /\ Shapes[t].enis > 1
       /\ Shapes[t].trunked = 0 \/ Shapes[t].trunked >= Shapes[t].enis
  /\ TaskDemands \subseteq
       [SizedServices -> [cpu : Nat, mem : Nat, replicas : Nat, percent : Nat]]
  /\ Requests \subseteq
       [type : DOMAIN Shapes \cup {"auto"}, desired : Nat, max : Nat,
        rolling : BOOLEAN, bridge : BOOLEAN, trunking : BOOLEAN]

VARIABLES
  taskDemand,  \* service -> [cpu, mem, replicas, percent]; cpu and mem 0 when not declared
  asked,   \* [type, desired, max, rolling, bridge, trunking]; "auto" and 0 when not given
  verdict, \* "open", "rejected" (a ProviderConfigError) or "sized"
  fleet,   \* [type, min, desired, max] of the auto scaling group
  load     \* instance -> service -> tasks
sizeVars == <<taskDemand, asked, verdict, fleet, load>>

NoFleet == [type |-> "none", min |-> 0, desired |-> 0, max |-> 0]
Empty == [s \in SizedServices |-> 0]

SizeInit ==
  /\ taskDemand \in TaskDemands /\ asked \in Requests
  /\ verdict = "open" /\ fleet = NoFleet /\ load = <<>>

-----------------------------------------------------------------------------
(* autosize.py *)

Ceil(a, b) == (a + b - 1) \div b
PeakReplicas(d) == Max({d.replicas, (d.replicas * d.percent) \div 100})
Steady == [s \in SizedServices |-> taskDemand[s].replicas]
Replicas ==
  IF asked.rolling THEN [s \in SizedServices |-> PeakReplicas(taskDemand[s])] ELSE Steady

\* task_eni_slots; without_task_enis is no limit, 0 here.
EniSlots(type) == Shapes[type].enis - 1
EffectiveSlots(type) ==
  CASE asked.bridge -> 0
    [] ~asked.bridge /\ asked.trunking /\ Shapes[type].trunked > 0 -> Shapes[type].trunked
    [] OTHER -> EniSlots(type)

\* The services with a declared demand, and the totals over them.
Total(v) == MapThenSumSet(LAMBDA x : v[x], DOMAIN v)
Declared == {s \in SizedServices : taskDemand[s].cpu > 0 \/ taskDemand[s].mem > 0}
TotalCpu(n) == Total([s \in Declared |-> taskDemand[s].cpu * n[s]])
TotalMem(n) == Total([s \in Declared |-> taskDemand[s].mem * n[s]])
TaskCount(n) == Total(n)

\* Variant: the largest task is held against the nominal memory.
FitsNominal(type) ==
  LET cpu == Max({taskDemand[s].cpu : s \in Declared})
      mem == Max({taskDemand[s].mem : s \in Declared})
  IN Shapes[type].vcpu >= Ceil(cpu, 1024) /\ Shapes[type].mib >= mem
\* _smallest_fit, for one shape: the largest CPU and the largest memory of any task.
FitsLargest(type) ==
  LET cpu == Max({taskDemand[s].cpu : s \in Declared})
      mem == Max({taskDemand[s].mem : s \in Declared})
  IN /\ Shapes[type].vcpu >= Ceil(cpu, 1024)
     /\ Shapes[type].mib - RESERVED_MEMORY_MIB >= mem

SmallestFit ==
  LET rungs == {i \in DOMAIN Ladder : Declared = {} \/ FitsLargest(Ladder[i])}
  IN IF rungs = {} THEN "none" ELSE Ladder[Min(rungs)]

InstancesFor(type) ==
  Max({1, Ceil(TotalCpu(Replicas) * 12, Shapes[type].vcpu * 1024 * 10),
       Ceil(TotalMem(Replicas) * 12, Shapes[type].mib * 10),
       Ceil(TaskCount(Replicas) * 12, EniSlots(type) * 10)})

\* Variant: a fleet that is used to the last unit is refused.
TooSmallOrFull(type, n) ==
  \/ Declared # {} /\ TotalCpu(Steady) >= n * Shapes[type].vcpu * 1024
  \/ Declared # {} /\ TotalMem(Steady) >= n * Shapes[type].mib
  \/ EffectiveSlots(type) > 0 /\ TaskCount(Steady) >= n * EffectiveSlots(type)
\* check_fixed_shape_capacity, the totals.
TooSmall(type, n) ==
  \/ Declared # {} /\ TotalCpu(Steady) > n * Shapes[type].vcpu * 1024
  \/ Declared # {} /\ TotalMem(Steady) > n * Shapes[type].mib
  \/ EffectiveSlots(type) > 0 /\ TaskCount(Steady) > n * EffectiveSlots(type)

-----------------------------------------------------------------------------
(* _resolve_ec2_capacity *)

\* Variant: one less than desired, whatever that is.
MinSizeBelow(n) == n - 1
MinSize(n) == Max({1, n - 1})
Given(asking, default) == IF asking > 0 THEN asking ELSE default
Rejected == verdict' = "rejected" /\ UNCHANGED fleet

ResolveAuto ==
  /\ verdict = "open" /\ asked.type = "auto"
  /\ LET type == SmallestFit
         cap == Given(asked.max, DefaultMax)
     IN IF type = "none" \/ InstancesFor(type) > cap
        THEN Rejected
        ELSE LET n == InstancesFor(type) IN
             /\ verdict' = "sized"
             /\ fleet' = [type |-> type, min |-> MinSize(n),
                          desired |-> Given(asked.desired, n),
                          max |-> Given(asked.max, Min({cap, 2 * n}))]
  /\ load' = [i \in 1..fleet'.max |-> Empty]
  /\ UNCHANGED <<taskDemand, asked>>

\* A rejected fleet is placed on all the same, to see what was rejected.
ResolveFixed ==
  /\ verdict = "open" /\ asked.type # "auto"
  /\ LET n == Given(asked.desired, 1) IN
     /\ IF (Declared # {} /\ ~FitsLargest(asked.type)) \/ TooSmall(asked.type, n)
        THEN Rejected
        ELSE /\ verdict' = "sized"
             /\ fleet' = [type |-> asked.type, min |-> 1, desired |-> n,
                          max |-> Given(asked.max, 3)]
     /\ load' = [i \in 1..n |-> Empty]
  /\ UNCHANGED <<taskDemand, asked>>

-----------------------------------------------------------------------------
(* ECS *)

HostType == IF fleet.type = "none" THEN asked.type ELSE fleet.type

\* What a container instance reports, and the interfaces it has left for tasks.
HasRoom(tasks) ==
  LET shape == Shapes[HostType] IN
  /\ Total([s \in SizedServices |-> taskDemand[s].cpu * tasks[s]]) <= shape.vcpu * 1024
  /\ Total([s \in SizedServices |-> taskDemand[s].mem * tasks[s]])
       <= shape.mib - RESERVED_MEMORY_MIB
  /\ EffectiveSlots(HostType) > 0 => Total(tasks) <= EffectiveSlots(HostType)

With(i, s) == [load[i] EXCEPT ![s] = @ + 1]
Placed(s) == Total([i \in DOMAIN load |-> load[i][s]])
Room(s) == {i \in DOMAIN load : HasRoom(With(i, s))}

PlaceTask(s) ==
  /\ verdict # "open" /\ HostType # "auto"
  /\ Placed(s) < taskDemand[s].replicas
  /\ Room(s) # {}
  /\ load' = [load EXCEPT ![Min(Room(s))] = With(Min(Room(s)), s)]
  /\ UNCHANGED <<taskDemand, asked, verdict, fleet>>

SizeNext == ResolveAuto \/ ResolveFixed \/ \E s \in SizedServices : PlaceTask(s)
SizeSpec == SizeInit /\ [][SizeNext]_sizeVars

-----------------------------------------------------------------------------
(* Properties *)

AllPlaced == \A s \in SizedServices : Placed(s) = taskDemand[s].replicas

\* The type invariant of the sizing.
SizeTypeOK ==
  /\ taskDemand \in TaskDemands /\ asked \in Requests
  /\ verdict \in {"open", "rejected", "sized"}
  /\ fleet.type \in DOMAIN Shapes \cup {"none"}
  /\ verdict = "sized" /\ asked.desired = 0 => fleet.min \in 1..fleet.desired
  /\ \A i \in DOMAIN load : load[i] \in [SizedServices -> Nat]

EachFits == \A s \in SizedServices : HasRoom([Empty EXCEPT ![s] = 1])

\* check_fixed_shape_capacity and _smallest_fit: a named instance type is refused only when
\* a task fits on no instance, or all of them in no arrangement; and a fleet that is
\* accepted has a type on which every single task fits, by what the instance really offers.
SizingIsHonest ==
  /\ verdict = "rejected" /\ asked.type # "auto" => ~AllPlaced \/ ~EachFits
  /\ verdict = "sized" => EachFits

\* README "EC2 capacity": demand that needs more instances than the maximum is refused
\* "rather than silently under-provisioning": in a fleet auto_size accepted every task
\* finds a place by the time the group is at its maximum.
AutoSizedFleetHostsAll ==
  verdict = "sized" /\ asked.type = "auto" =>
    \A s \in SizedServices : Placed(s) < taskDemand[s].replicas => Room(s) # {}
=============================================================================
