----------------------------- MODULE EcsRollout -----------------------------
(***************************************************************************)
(* ECSProvider._force_new_deployments with the post-rollout watcher and    *)
(* the wait for steady state, against the ECS deployment controller.       *)
(*                                                                         *)
(* rc is one sequential process: resolve every policy, update one service  *)
(* per task group in dependency order, take a baseline of the service      *)
(* events, watch for new errors, then poll until every rolled service is   *)
(* steady or the budget is gone.  ECS is external: it replaces tasks       *)
(* inside the percentages of the live deploymentConfiguration, starts can  *)
(* fail, tasks can die, and the circuit breaker may roll a service back.   *)
(***************************************************************************)
EXTENDS RollPolicy, FiniteSets, Functions

CONSTANTS
  Name,           \* ECS service names, live or not
  Live,           \* the names that exist in the cluster
  Group,          \* the task groups the caller's services resolve to
  Configurations, \* the rc.yml configurations a deploy may find, each
                  \* [Group -> sequence of member specifications]
  Candidates,     \* [Group -> sequence of names to try]
  ReconcileScale, \* the --no-state path also writes desiredCount
  MayBeNew,       \* live names this deploy's apply may just have created
  LiveDesired,    \* [Live -> desiredCount before the roll]
  DescribeLimit,  \* services one describe_services call accepts
  WatchBudget,    \* polls of the event watcher; 0 disables it
  WaitBudget,     \* sleeps of the steady-state wait
  FailLimit,      \* failed starts that trip the circuit breaker
  MaxErrors,      \* bound: placement errors per service
  MaxCrashes      \* bound: running tasks that die

ASSUME RolloutAssumption ==
  /\ Live \subseteq Name
  /\ MayBeNew \subseteq Live
  /\ IsFiniteSet(Name)
  /\ \A g \in Group : Range(Candidates[g]) \subseteq Name
  /\ \A g, h \in Group :
       Range(Candidates[g]) \cap Range(Candidates[h]) # {} => g = h
  /\ \A n \in Live : \E g \in Group : n \in Range(Candidates[g])
  /\ LiveDesired \in [Live -> Nat]
  /\ ReconcileScale \in BOOLEAN
  /\ \A c \in Configurations, g \in Group :
       Len(c[g]) > 0 /\ \A i \in DOMAIN c[g] : IsServiceSpec(c[g][i])
  /\ \A k \in {DescribeLimit, WatchBudget, WaitBudget, FailLimit, MaxErrors, MaxCrashes} :
       k \in Nat

VARIABLES
  members,   \* the configuration of this deploy
  \* rc
  pc,        \* where _force_new_deployments stands
  todo,      \* groups still to roll
  rolled,    \* rolled_names
  seen,      \* [Live -> events already in seen_event_ids]
  flagged,   \* services with a placement error reported
  left,      \* polls or sleeps left before the deadline
  scan,      \* pending services not yet described in this round
  pending,   \* services not yet found steady
  \* ECS
  primary,   \* [Live -> which deployment is PRIMARY]
  rollout,   \* [Live -> its rolloutState]
  others,    \* [Live -> another deployment is still listed]
  cur,       \* [Live -> healthy tasks of the PRIMARY deployment]
  starting,  \* [Live -> its tasks that are not healthy yet]
  old,       \* [Live -> tasks of the other deployments]
  cfg,       \* [Live -> deploymentConfiguration]
  desired,   \* [Live -> desiredCount]
  settledOnce, \* [Live -> some deployment has COMPLETED, one to roll back to]
  errs,      \* [Live -> placement error events so far]
  crashes,   \* tasks that died so far
  \* history
  errsAtRoll, \* [Live -> errs when rc rolled the service]
  watched    \* the watcher got its baseline

rcVars == <<members, pc, todo, rolled, seen, flagged, left, scan, pending, watched>>
ecsVars == <<primary, rollout, others, cur, starting, old, cfg, desired, settledOnce,
             errs, crashes, errsAtRoll>>
vars == <<rcVars, ecsVars>>

GroupOf(n) == CHOOSE g \in Group : n \in Range(Candidates[g])
Policy(g) == GroupPolicy(members[g])

Configs == [min : Int, max : Int, breaker : BOOLEAN]

TypeOK ==
  /\ members \in Configurations
  /\ pc \in {"resolve", "roll", "baseline", "watch", "wait", "green", "red"}
  /\ todo \subseteq Group
  /\ rolled \subseteq Live
  /\ seen \in [Live -> Nat]
  /\ flagged \subseteq rolled
  /\ left \in Nat
  /\ scan \subseteq pending
  /\ pending \subseteq rolled
  /\ watched \in BOOLEAN
  /\ primary \in [Live -> {"prior", "mine", "rollback"}]
  /\ rollout \in [Live -> {"IN_PROGRESS", "COMPLETED", "FAILED"}]
  /\ others \in [Live -> BOOLEAN]
  /\ settledOnce \in [Live -> BOOLEAN]
  /\ cur \in [Live -> Nat]
  /\ starting \in [Live -> Nat]
  /\ old \in [Live -> Nat]
  /\ cfg \in [Live -> Configs]
  /\ desired \in [Live -> Nat]
  /\ errs \in [Live -> Nat]
  /\ errsAtRoll \in [Live -> Nat]
  /\ crashes \in Nat

----------------------------------------------------------------------------
(* Variant: the template knows one kind of service only. *)
RenderedAlike(g) == [min |-> 100, max |-> 200, breaker |-> TRUE]

(* The deploymentConfiguration services.tf.j2 renders for a service. *)
RenderedConfig(g) ==
  LET p == Policy(g)
  IN  [min |-> p.percents.min, max |-> p.percents.max, breaker |-> ~p.stateful]

(* A service is either long deployed (one COMPLETED deployment, all its tasks up) or
   was just created by the apply of this deploy and has not placed a task yet. *)
Init ==
  /\ members \in Configurations
  /\ pc = "resolve"
  /\ todo = Group
  /\ rolled = {} /\ flagged = {} /\ scan = {} /\ pending = {}
  /\ left = 0
  /\ watched = FALSE
  /\ \E fresh \in SUBSET MayBeNew : settledOnce = [n \in Live |-> n \notin fresh]
  /\ seen = [n \in Live |-> 0]
  /\ primary = [n \in Live |-> "prior"]
  /\ rollout = [n \in Live |-> IF settledOnce[n] THEN "COMPLETED" ELSE "IN_PROGRESS"]
  /\ others = [n \in Live |-> FALSE]
  /\ cur = [n \in Live |-> IF settledOnce[n] THEN LiveDesired[n] ELSE 0]
  /\ starting = [n \in Live |-> 0]
  /\ old = [n \in Live |-> 0]
  /\ cfg = [n \in Live |-> RenderedConfig(GroupOf(n))]
  /\ desired = LiveDesired
  /\ errs = [n \in Live |-> 0]
  /\ errsAtRoll = [n \in Live |-> 0]
  /\ crashes = 0

----------------------------------------------------------------------------
(* ECS: the deployment controller of one service *)

Healthy(n) == cur[n] + old[n]
Running(n) == cur[n] + starting[n] + old[n]

StartTask(n) ==
  /\ rollout[n] # "FAILED"
  /\ cur[n] + starting[n] < desired[n]
  /\ Running(n) < MaxRunning(desired[n], cfg[n].max)
  /\ starting' = [starting EXCEPT ![n] = @ + 1]
  /\ UNCHANGED <<rcVars, primary, rollout, others, cur, old, cfg, desired, settledOnce,
                 errs, crashes, errsAtRoll>>

TaskHealthy(n) ==
  /\ starting[n] > 0
  /\ starting' = [starting EXCEPT ![n] = @ - 1]
  /\ cur' = [cur EXCEPT ![n] = @ + 1]
  /\ UNCHANGED <<rcVars, primary, rollout, others, old, cfg, desired, settledOnce, errs,
                 crashes, errsAtRoll>>

(* A start fails on a missing image, secret or permission and leaves an event. *)
StartFails(n) ==
  /\ starting[n] > 0
  /\ errs[n] < MaxErrors
  /\ starting' = [starting EXCEPT ![n] = @ - 1]
  /\ errs' = [errs EXCEPT ![n] = @ + 1]
  /\ UNCHANGED <<rcVars, primary, rollout, others, cur, old, cfg, desired, settledOnce,
                 crashes, errsAtRoll>>

TaskDies(n) ==
  /\ cur[n] > 0
  /\ crashes < MaxCrashes
  /\ cur' = [cur EXCEPT ![n] = @ - 1]
  /\ crashes' = crashes + 1
  /\ UNCHANGED <<rcVars, primary, rollout, others, starting, old, cfg, desired,
                 settledOnce, errs, errsAtRoll>>

StopOld(n) ==
  /\ old[n] > 0
  /\ Healthy(n) - 1 >= MinRunning(desired[n], cfg[n].min)
  /\ old' = [old EXCEPT ![n] = @ - 1]
  /\ UNCHANGED <<rcVars, primary, rollout, others, cur, starting, cfg, desired,
                 settledOnce, errs, crashes, errsAtRoll>>

(* The drained deployment leaves the list; that and COMPLETED come in either order. *)
DropOthers(n) ==
  /\ others[n] /\ old[n] = 0
  /\ others' = [others EXCEPT ![n] = FALSE]
  /\ UNCHANGED <<rcVars, primary, rollout, cur, starting, old, cfg, desired, settledOnce,
                 errs, crashes, errsAtRoll>>

CompleteRollout(n) ==
  /\ rollout[n] = "IN_PROGRESS"
  /\ old[n] = 0
  /\ cur[n] = desired[n]
  /\ rollout' = [rollout EXCEPT ![n] = "COMPLETED"]
  /\ settledOnce' = [settledOnce EXCEPT ![n] = TRUE]
  /\ UNCHANGED <<rcVars, primary, others, cur, starting, old, cfg, desired, errs, crashes,
                 errsAtRoll>>

(* The circuit breaker: back to the last deployment that completed, whose tasks become
   PRIMARY again; with none to go back to the deployment stays FAILED. *)
BreakerTrips(n) ==
  /\ cfg[n].breaker
  /\ rollout[n] = "IN_PROGRESS"
  /\ primary[n] # "rollback"
  /\ errs[n] - errsAtRoll[n] >= FailLimit
  /\ IF settledOnce[n]
       THEN /\ primary' = [primary EXCEPT ![n] = "rollback"]
            /\ cur' = [cur EXCEPT ![n] = old[n]]
            /\ old' = [old EXCEPT ![n] = cur[n] + starting[n]]
            /\ starting' = [starting EXCEPT ![n] = 0]
            /\ others' = [others EXCEPT ![n] = TRUE]
            /\ UNCHANGED rollout
       ELSE /\ rollout' = [rollout EXCEPT ![n] = "FAILED"]
            /\ UNCHANGED <<primary, cur, old, starting, others>>
  /\ UNCHANGED <<rcVars, cfg, desired, settledOnce, errs, crashes, errsAtRoll>>

EcsStep(n) ==
  \/ StartTask(n) \/ TaskHealthy(n) \/ StartFails(n) \/ TaskDies(n)
  \/ StopOld(n) \/ DropOthers(n) \/ CompleteRollout(n) \/ BreakerTrips(n)

----------------------------------------------------------------------------
(* rc: roll *)

(* Every group's policy is resolved before any service is touched. *)
Rejected == \E g \in Group : GroupRejected(members[g])

(* Variant: the policies are looked at while rolling. *)
ResolveLazily ==
  /\ pc = "resolve"
  /\ pc' = "roll"
  /\ UNCHANGED <<members, todo, rolled, seen, flagged, left, scan, pending, watched, ecsVars>>

Resolve ==
  /\ pc = "resolve"
  /\ pc' = IF Rejected THEN "red" ELSE "roll"
  /\ UNCHANGED <<members, todo, rolled, seen, flagged, left, scan, pending, watched, ecsVars>>

(* Variant: only an EFS volume makes a service stateful. *)
RollsStatefulByVolumes(g) == members[g][1].volumes > 0

RollsStateful(g) == Policy(g).stateful

(* update_service(forceNewDeployment): a new PRIMARY beside what runs.  A stateful
   service keeps its live deploymentConfiguration. *)
UpdateService(n, g) ==
  /\ primary' = [primary EXCEPT ![n] = "mine"]
  /\ rollout' = [rollout EXCEPT ![n] = "IN_PROGRESS"]
  /\ others' = [others EXCEPT ![n] = TRUE]
  /\ old' = [old EXCEPT ![n] = Running(n)]
  /\ cur' = [cur EXCEPT ![n] = 0]
  /\ starting' = [starting EXCEPT ![n] = 0]
  /\ cfg' = IF RollsStateful(g) THEN cfg
            ELSE [cfg EXCEPT ![n] = [min |-> Policy(g).percents.min,
                                     max |-> Policy(g).percents.max, breaker |-> TRUE]]
  /\ desired' = IF ReconcileScale THEN [desired EXCEPT ![n] = Policy(g).replicas] ELSE desired
  /\ errsAtRoll' = [errsAtRoll EXCEPT ![n] = errs[n]]
  /\ UNCHANGED <<settledOnce, errs, crashes>>

(* Groups go by rank; among equals the name decides, which any order covers. *)
NextGroup(g) ==
  /\ g \in todo
  /\ \A h \in todo : GroupRank(members[g]) <= GroupRank(members[h])

(* The candidate names are tried in order and the first that ECS accepts is rolled.
   Any refusal moves on to the next name: a name that is not there, or a throttled
   call on one that is. *)
RollGroup(g, n) ==
  /\ pc = "roll"
  /\ NextGroup(g)
  /\ n \in Range(Candidates[g]) \cap Live
  /\ UpdateService(n, g)
  /\ todo' = todo \ {g}
  /\ rolled' = rolled \cup {n}
  /\ UNCHANGED <<members, pc, seen, flagged, left, scan, pending, watched>>

(* No candidate was accepted: the error is raised, what was rolled stays rolled. *)
RollFails ==
  /\ pc = "roll"
  /\ todo # {}
  /\ pc' = "red"
  /\ UNCHANGED <<members, todo, rolled, seen, flagged, left, scan, pending, watched, ecsVars>>

StartWait ==
  /\ pc' = "wait"
  /\ pending' = rolled
  /\ scan' = rolled
  /\ left' = WaitBudget

RollDone ==
  /\ pc = "roll"
  /\ todo = {}
  /\ IF WatchBudget > 0 /\ rolled # {}
       THEN pc' = "baseline" /\ UNCHANGED <<left, scan, pending>>
       ELSE StartWait
  /\ UNCHANGED <<members, todo, rolled, seen, flagged, watched, ecsVars>>

----------------------------------------------------------------------------
(* rc: watch the service events *)

(* Variant: no event counts as seen. *)
BaselineForgotten ==
  /\ pc = "baseline"
  /\ pc' = "watch"
  /\ left' = WatchBudget
  /\ watched' = TRUE
  /\ UNCHANGED <<members, todo, rolled, seen, flagged, scan, pending, ecsVars>>

(* One describe_services call for all rolled services, after they were rolled. *)
Baseline ==
  /\ pc = "baseline"
  /\ Cardinality(rolled) <= DescribeLimit
  /\ pc' = "watch"
  /\ left' = WatchBudget
  /\ watched' = TRUE
  /\ seen' = [n \in Live |-> IF n \in rolled THEN errs[n] ELSE seen[n]]
  /\ UNCHANGED <<members, todo, rolled, flagged, scan, pending, ecsVars>>

(* A failed describe_services turns the watcher off with a warning. *)
WatchDisabled ==
  /\ pc \in {"baseline", "watch"}
  /\ StartWait
  /\ UNCHANGED <<members, todo, rolled, seen, flagged, watched, ecsVars>>

NewErrors == {n \in rolled : errs[n] > seen[n]}

WatchPoll ==
  /\ pc = "watch"
  /\ seen' = [n \in Live |-> IF n \in rolled THEN errs[n] ELSE seen[n]]
  /\ flagged' = flagged \cup NewErrors
  /\ IF flagged' # {} \/ left <= 1
       THEN StartWait
       ELSE left' = left - 1 /\ UNCHANGED <<pc, scan, pending>>
  /\ UNCHANGED <<members, todo, rolled, watched, ecsVars>>

----------------------------------------------------------------------------
(* rc: wait for steady state *)

(* One deployment, COMPLETED, with the desired number of running tasks. *)
Steady(n) ==
  /\ ~others[n]
  /\ Healthy(n) = desired[n]
  /\ rollout[n] = "COMPLETED"

WaitCheck(n) ==
  /\ pc = "wait"
  /\ n \in scan
  /\ scan' = scan \ {n}
  /\ pending' = IF Steady(n) THEN pending \ {n} ELSE pending
  /\ UNCHANGED <<members, pc, todo, rolled, seen, flagged, left, watched, ecsVars>>

(* describe_services is not retried here. *)
WaitFails ==
  /\ pc = "wait"
  /\ scan # {}
  /\ pc' = "red"
  /\ UNCHANGED <<members, todo, rolled, seen, flagged, left, scan, pending, watched, ecsVars>>

(* Variant: a deadline that passes is not an error. *)
WaitRoundLenient ==
  /\ pc = "wait"
  /\ scan = {}
  /\ IF pending = {} \/ left = 0
       THEN pc' = "green" /\ UNCHANGED <<left, scan>>
       ELSE left' = left - 1 /\ scan' = pending /\ UNCHANGED pc
  /\ UNCHANGED <<members, todo, rolled, seen, flagged, pending, watched, ecsVars>>

(* Variant: the deadline is never looked at. *)
WaitRoundEndless ==
  /\ pc = "wait"
  /\ scan = {}
  /\ IF pending = {}
       THEN pc' = "green" /\ UNCHANGED <<left, scan>>
       ELSE left' = left - 1 /\ scan' = pending /\ UNCHANGED pc
  /\ UNCHANGED <<members, todo, rolled, seen, flagged, pending, watched, ecsVars>>

WaitRound ==
  /\ pc = "wait"
  /\ scan = {}
  /\ \/ pending = {} /\ pc' = "green" /\ UNCHANGED <<left, scan>>
     \/ pending # {} /\ left = 0 /\ pc' = "red" /\ UNCHANGED <<left, scan>>
     \/ pending # {} /\ left > 0 /\ left' = left - 1 /\ scan' = pending /\ UNCHANGED pc
  /\ UNCHANGED <<members, todo, rolled, seen, flagged, pending, watched, ecsVars>>

RcStep ==
  \/ Resolve \/ RollFails \/ RollDone \/ (\E g \in Group, n \in Live : RollGroup(g, n))
  \/ Baseline \/ WatchDisabled \/ WatchPoll
  \/ (\E n \in Live : WaitCheck(n)) \/ WaitFails \/ WaitRound

Next == RcStep \/ \E n \in Live : EcsStep(n)

(* rc runs until it returns: every loop of it sleeps, polls and looks at a clock. *)
Spec == Init /\ [][Next]_vars /\ WF_vars(RcStep)

----------------------------------------------------------------------------
(* Properties *)

(* A configuration that some group's policy rejects leaves every service alone, also
   those whose own policy is fine (comment at provider.py 5042-5047). *)
RejectedConfigRollsNothing == Rejected => rolled = {}

(* Two tasks never share the data directory of a stateful service: through any roll,
   failure or rollback no more tasks run than the service is meant to have
   (provider.py 524-549, 5076-5085). *)
StatefulNeverOverlaps ==
  \A n \in Live :
    ~Rejected /\ Policy(GroupOf(n)).stateful =>
      Running(n) <= desired[n] \/ Running(n) <= LiveDesired[n]

(* Green is final for the deployments rc waited for: each one has completed or was
   rolled back, and nothing else is listed for its service any more. *)
GreenMeansSettled ==
  pc = "green" => \A n \in rolled : rollout[n] = "COMPLETED" /\ ~others[n]

(* Without a circuit breaker there is no way back: a green roll of a stateful service
   runs the deployment rc started. *)
GreenMeansNewForStateful ==
  pc = "green" => \A n \in rolled : Policy(GroupOf(n)).stateful => primary[n] = "mine"

(* The watcher never blames a roll for an error that was there before it. *)
FlaggedErrorIsNew == \A n \in flagged : seen[n] > errsAtRoll[n]

(* What the deploy says of its gate: green means every rolled service runs the new
   tasks (comment at provider.py 5132-5135). *)
GreenMeansNew == pc = "green" => \A n \in rolled : primary[n] = "mine"

(* What the watcher says of its baseline ("pre-roll event IDs", provider.py 5216): a
   poll that sees an error placed after the roll flags it. *)
NewErrorIsFlagged ==
  [][WatchPoll => ((\E n \in rolled : seen'[n] > errsAtRoll[n]) => flagged' # {})]_vars

(* The roll as its caller sees it: a gate that opens on settled deployments. *)
GateVerdict ==
  IF pc \in {"resolve", "roll"} THEN "rolling"
  ELSE IF pc \in {"baseline", "watch", "wait"} THEN "gating" ELSE pc

Settled == {n \in rolled : rollout[n] = "COMPLETED" /\ ~others[n]}

Gate == INSTANCE RollGate WITH verdict <- GateVerdict, settled <- Settled

ImplementsGate == Gate!GateSpec

----------------------------------------------------------------------------
(* The inductive invariant behind the safety properties *)

(* A configuration is judged before the first roll, and a group is rolled once. *)
PhaseInv ==
  /\ pc = "resolve" => rolled = {}
  /\ Rejected => rolled = {} /\ pc \in {"resolve", "red"}
  /\ \A n \in rolled : GroupOf(n) \notin todo
  /\ \A n \in Live \ rolled : desired[n] = LiveDesired[n]

(* What the wait ticked off stays settled. *)
SettledInv ==
  /\ pc \in {"wait", "green"} =>
       \A n \in rolled \ pending : rollout[n] = "COMPLETED" /\ ~others[n]
  /\ pc = "green" => pending = {}

(* Where the watcher's baseline stands relative to the rolls. *)
WatchInv ==
  /\ \A n \in Live : errs[n] >= seen[n] /\ errs[n] >= errsAtRoll[n]
  /\ pc \in {"resolve", "roll", "baseline"} => flagged = {}
  /\ pc = "watch" => \A n \in rolled : seen[n] >= errsAtRoll[n]
  /\ FlaggedErrorIsNew

(* A stateful service keeps 0/100 and no circuit breaker. *)
StatefulInv ==
  \A n \in Live :
    ~Rejected /\ Policy(GroupOf(n)).stateful =>
      /\ cfg[n].max = 100
      /\ ~cfg[n].breaker
      /\ Running(n) <= desired[n] \/ Running(n) <= LiveDesired[n]
      /\ n \in rolled => primary[n] = "mine"

IInv == TypeOK /\ PhaseInv /\ SettledInv /\ WatchInv /\ StatefulInv
=============================================================================
