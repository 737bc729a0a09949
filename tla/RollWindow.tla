----------------------------- MODULE RollWindow -----------------------------
(***************************************************************************)
(* Rolling one service under the percentages RollPolicy accepts.  ECS      *)
(* replaces the `old` tasks by `new` ones inside the window of running     *)
(* tasks the percentages allow (external: the ECS deployment scheduler).   *)
(* _deployment_percents refuses a configuration exactly when this process  *)
(* would wedge: "a service that can never be deployed again".              *)
(***************************************************************************)
EXTENDS RollPolicy

CONSTANTS
  MaxReplicas,  \* bound on the replica counts the initial states range over
  MinPercents,  \* minimum_healthy_percent values a user may write
  MaxPercents   \* maximum_percent values a user may write

ASSUME BoundsAssumption ==
  /\ MaxReplicas \in Nat
  /\ MinPercents \subseteq Int
  /\ MaxPercents \subseteq Int

VARIABLES
  spec,  \* the service being rolled
  old,   \* running tasks of the outgoing deployment
  new    \* running tasks of the incoming deployment

windowVars == <<spec, old, new>>

Overrides ==
  {<<>>} \cup {[min |-> m] : m \in MinPercents} \cup {[max |-> x] : x \in MaxPercents}
         \cup {[min |-> m, max |-> x] : m \in MinPercents, x \in MaxPercents}

WindowServices ==
  [volumes : 0..1, stateful : {FALSE}, scheduler : BOOLEAN, override : Overrides,
   autoRoll : {TRUE}, replicas : 0..MaxReplicas, rank : {1}]

PercentsAccepted == ~PercentsRejected(spec)
Lo == MinRunning(spec.replicas, Percents(spec).min)
Hi == MaxRunning(spec.replicas, Percents(spec).max)

(* Variant: replacements are started past the desired count. *)
CanStartUnbounded == old + new < Hi

CanStart == new < spec.replicas /\ old + new < Hi
CanStop  == old > 0 /\ old + new - 1 >= Lo
RollFinished == old = 0 /\ new = spec.replicas

WindowTypeOK ==
  /\ spec \in WindowServices
  /\ old \in 0..spec.replicas
  /\ new \in 0..spec.replicas

WindowInit ==
  /\ spec \in WindowServices
  /\ old = spec.replicas
  /\ new = 0

StartNew ==
  /\ CanStart
  /\ new' = new + 1
  /\ UNCHANGED <<spec, old>>

StopOld ==
  /\ CanStop
  /\ old' = old - 1
  /\ UNCHANGED <<spec, new>>

WindowNext == StartNew \/ StopOld

(* ECS keeps working at the roll. *)
WindowFairness == WF_windowVars(WindowNext)

WindowSpec == WindowInit /\ [][WindowNext]_windowVars /\ WindowFairness

(***************************************************************************)
(* Properties                                                              *)
(***************************************************************************)

(* An accepted configuration never wedges: until the roll has finished ECS can
   start a replacement or stop an old task. *)
AcceptedNeverWedges == PercentsAccepted /\ ~RollFinished => CanStart \/ CanStop

(* The other direction, so that the check refuses nothing it need not: a
   stateless configuration with sane bounds is refused only when the roll is
   stuck at its first step. *)
RefusedOnlyWhenStuck ==
  LET p == Percents(spec)
  IN  /\ ~PercentsAccepted
      /\ ~IsStateful(spec)
      /\ p.min \in 0..100
      /\ p.max >= 100
      /\ old = spec.replicas
      /\ new = 0
      => ~CanStart /\ ~CanStop

(* The refusal is exact: _deployment_percents lets through what ECS can roll to the
   end and, within bounds, nothing else (provider.py 672-711). *)
RefusalIsExact == AcceptedNeverWedges /\ RefusedOnlyWhenStuck

(* Both numbers the error message suggests make the refused configuration
   rollable, and neither can be improved by one (provider.py 716-738). *)
HintsAreTight ==
  LET r == spec.replicas
      p == Percents(spec)
      least == SmallestRollableMax(r)
      most == LargestRollableMin(r)
  IN  r >= 1 =>
        /\ Rollable(r, most, p.max)
        /\ Rollable(r, p.min, least)
        /\ ~Rollable(r, most + 1, 100)
        /\ ~Rollable(r, 100, least - 1)

(* Every accepted service finishes its roll once ECS keeps working at it. *)
AcceptedRollFinishes == PercentsAccepted ~> RollFinished
=============================================================================
