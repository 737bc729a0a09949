-------------------------- MODULE EcsRollout_proofs --------------------------
(***************************************************************************)
(* Proofs about EcsRollout for every set of groups and services, every     *)
(* configuration and every bound: type correctness, the gate, the          *)
(* watcher, stop-then-start, and that the roll implements RollGate.        *)
(***************************************************************************)
EXTENDS EcsRollout, TLAPS

(* The service a live name belongs to is determined by the name. *)
LEMMA GroupOfCandidate ==
  ASSUME NEW g \in Group, NEW n \in Range(Candidates[g])
  PROVE  GroupOf(n) = g
BY RolloutAssumption DEF GroupOf

LEMMA GroupOfLive ==
  ASSUME NEW n \in Live
  PROVE  GroupOf(n) \in Group /\ n \in Range(Candidates[GroupOf(n)])
BY RolloutAssumption DEF GroupOf

LEMMA BudgetsTyped == WatchBudget \in Nat /\ WaitBudget \in Nat
BY RolloutAssumption

LEMMA PolicyTyped ==
  ASSUME members \in Configurations, NEW g \in Group
  PROVE  /\ Policy(g).stateful \in BOOLEAN
         /\ Policy(g).percents.min \in Int
         /\ Policy(g).percents.max \in Int
         /\ Policy(g).replicas \in Nat
<1> DEFINE spec == members[g][1]
<1>1. IsServiceSpec(spec)
  BY RolloutAssumption
<1>2. Percents(spec).min \in Int /\ Percents(spec).max \in Int
  BY <1>1 DEF Percents, DefaultPercents, Keys, IsServiceSpec
<1>3. IsStateful(spec) \in BOOLEAN
  BY <1>1 DEF IsStateful, IsServiceSpec
<1> QED
  BY <1>1, <1>2, <1>3 DEF Policy, GroupPolicy, IsServiceSpec

----------------------------------------------------------------------------
(* Type correctness *)

LEMMA InitTyped == Init => TypeOK
<1> SUFFICES ASSUME Init PROVE TypeOK
  OBVIOUS
<1>1. \A n \in Live : RenderedConfig(GroupOf(n)) \in Configs
  BY PolicyTyped, GroupOfLive DEF RenderedConfig, Configs, Init
<1>2. cfg \in [Live -> Configs]
  BY <1>1 DEF Init
<1> QED
  BY <1>2, RolloutAssumption DEF Init, TypeOK

LEMMA EcsStepTyped ==
  ASSUME TypeOK, NEW n \in Live, EcsStep(n)
  PROVE  TypeOK'
<1> USE DEF TypeOK, rcVars
<1>1. CASE StartTask(n)     BY <1>1 DEF StartTask
<1>2. CASE TaskHealthy(n)   BY <1>2 DEF TaskHealthy
<1>3. CASE StartFails(n)    BY <1>3 DEF StartFails
<1>4. CASE TaskDies(n)      BY <1>4 DEF TaskDies
<1>5. CASE StopOld(n)       BY <1>5 DEF StopOld
<1>6. CASE DropOthers(n)    BY <1>6 DEF DropOthers
<1>7. CASE CompleteRollout(n) BY <1>7 DEF CompleteRollout
<1>8. CASE BreakerTrips(n)
  <2>1. CASE settledOnce[n]
    <3>1. cur[n] + starting[n] \in Nat /\ old[n] \in Nat
      OBVIOUS
    <3>2. primary' \in [Live -> {"prior", "mine", "rollback"}]
      BY <1>8, <2>1 DEF BreakerTrips
    <3>3. others' \in [Live -> BOOLEAN]
      BY <1>8, <2>1 DEF BreakerTrips
    <3>4. cur' \in [Live -> Nat]
      BY <1>8, <2>1, <3>1 DEF BreakerTrips
    <3>5. starting' \in [Live -> Nat]
      BY <1>8, <2>1 DEF BreakerTrips
    <3>6. old' \in [Live -> Nat]
      BY <1>8, <2>1, <3>1 DEF BreakerTrips
    <3>7. UNCHANGED <<rcVars, rollout, cfg, desired, settledOnce, errs, crashes, errsAtRoll>>
      BY <1>8, <2>1 DEF BreakerTrips
    <3> QED
      BY <3>2, <3>3, <3>4, <3>5, <3>6, <3>7
  <2>2. CASE ~settledOnce[n]
    BY <1>8, <2>2 DEF BreakerTrips
  <2> QED
    BY <2>1, <2>2
<1> QED
  BY <1>1, <1>2, <1>3, <1>4, <1>5, <1>6, <1>7, <1>8 DEF EcsStep

LEMMA UpdateServiceTyped ==
  ASSUME TypeOK, NEW g \in Group, NEW n \in Live, UpdateService(n, g)
  PROVE  /\ primary' \in [Live -> {"prior", "mine", "rollback"}]
         /\ rollout' \in [Live -> {"IN_PROGRESS", "COMPLETED", "FAILED"}]
         /\ others' \in [Live -> BOOLEAN]
         /\ cur' \in [Live -> Nat]
         /\ starting' \in [Live -> Nat]
         /\ old' \in [Live -> Nat]
         /\ cfg' \in [Live -> Configs]
         /\ desired' \in [Live -> Nat]
         /\ errsAtRoll' \in [Live -> Nat]
<1> USE DEF TypeOK, UpdateService
<1>1. Running(n) \in Nat
  BY DEF Running
<1>2. old' \in [Live -> Nat]
  BY <1>1
<1>3. [min |-> Policy(g).percents.min, max |-> Policy(g).percents.max, breaker |-> TRUE]
        \in Configs
  BY PolicyTyped DEF Configs
<1>4. cfg' \in [Live -> Configs]
  BY <1>3
<1>5. desired' \in [Live -> Nat]
  BY PolicyTyped
<1> QED
  BY <1>2, <1>4, <1>5

LEMMA RcStepTyped ==
  ASSUME TypeOK, RcStep
  PROVE  TypeOK'
<1> USE BudgetsTyped DEF TypeOK, ecsVars
<1>1. CASE Resolve BY <1>1 DEF Resolve
<1>2. CASE RollFails BY <1>2 DEF RollFails
<1>3. CASE RollDone BY <1>3 DEF RollDone, StartWait
<1>4. ASSUME NEW g \in Group, NEW n \in Live, RollGroup(g, n)
      PROVE  TypeOK'
  <2>1. UpdateService(n, g)
    BY <1>4 DEF RollGroup
  <2>2. UNCHANGED <<settledOnce, errs, crashes>>
    BY <2>1 DEF UpdateService
  <2>3. /\ UNCHANGED <<members, pc, seen, flagged, left, scan, pending, watched>>
        /\ todo' \subseteq Group /\ rolled' \subseteq Live /\ rolled \subseteq rolled'
    BY <1>4 DEF RollGroup
  <2> QED
    BY <2>1, <2>2, <2>3, UpdateServiceTyped
<1>5. CASE Baseline BY <1>5 DEF Baseline
<1>6. CASE WatchDisabled BY <1>6 DEF WatchDisabled, StartWait
<1>7. CASE WatchPoll BY <1>7 DEF WatchPoll, StartWait, NewErrors
<1>8. ASSUME NEW n \in Live, WaitCheck(n) PROVE TypeOK'
  BY <1>8 DEF WaitCheck
<1>9. CASE WaitFails BY <1>9 DEF WaitFails
<1>10. CASE WaitRound BY <1>10 DEF WaitRound
<1> QED
  BY <1>1, <1>2, <1>3, <1>4, <1>5, <1>6, <1>7, <1>8, <1>9, <1>10 DEF RcStep

(* Every variable keeps its type, whatever ECS does in between. *)
THEOREM TypeCorrect == Spec => []TypeOK
<1>1. Init => TypeOK
  BY InitTyped
<1>2. TypeOK /\ [Next]_vars => TypeOK'
  <2> SUFFICES ASSUME TypeOK, [Next]_vars PROVE TypeOK'
    OBVIOUS
  <2>1. CASE UNCHANGED vars
    BY <2>1 DEF vars, rcVars, ecsVars, TypeOK
  <2> QED
    BY <2>1, EcsStepTyped, RcStepTyped DEF Next
<1> QED
  BY <1>1, <1>2, PTL DEF Spec

----------------------------------------------------------------------------
(* Frames: which of the two processes moves what *)

LEMMA EcsFrame ==
  ASSUME NEW n \in Live, EcsStep(n)
  PROVE  UNCHANGED <<rcVars, cfg, desired, errsAtRoll>>
BY DEF EcsStep, StartTask, TaskHealthy, StartFails, TaskDies, StopOld, DropOthers,
       CompleteRollout, BreakerTrips

LEMMA RcFrame ==
  ASSUME RcStep
  PROVE  /\ UNCHANGED members
         /\ \/ UNCHANGED <<ecsVars, rolled, todo>>
            \/ \E g \in Group, n \in Live : RollGroup(g, n)
<1>1. CASE Resolve \/ RollFails \/ WaitFails
  BY <1>1 DEF Resolve, RollFails, WaitFails
<1>2. CASE RollDone \/ WatchDisabled
  BY <1>2 DEF RollDone, WatchDisabled
<1>3. CASE Baseline \/ WatchPoll \/ WaitRound
  BY <1>3 DEF Baseline, WatchPoll, WaitRound
<1>4. ASSUME NEW n \in Live, WaitCheck(n) PROVE UNCHANGED <<members, ecsVars, rolled, todo>>
  BY <1>4 DEF WaitCheck
<1>5. ASSUME NEW g \in Group, NEW n \in Live, RollGroup(g, n) PROVE UNCHANGED members
  BY <1>5 DEF RollGroup
<1> QED
  BY <1>1, <1>2, <1>3, <1>4, <1>5 DEF RcStep

LEMMA VerdictFrame ==
  ASSUME UNCHANGED members
  PROVE  (Rejected' <=> Rejected) /\ \A g : Policy(g)' = Policy(g)
BY DEF Rejected, Policy

----------------------------------------------------------------------------
(* A configuration is judged before the first roll *)

LEMMA InitPhase == Init => PhaseInv
BY DEF Init, PhaseInv

LEMMA NextPhase ==
  ASSUME TypeOK, PhaseInv, [Next]_vars
  PROVE  PhaseInv'
<1>1. ASSUME UNCHANGED <<members, pc, todo, rolled, desired>> PROVE PhaseInv'
  BY <1>1, VerdictFrame DEF PhaseInv
<1>2. ASSUME NEW n \in Live, EcsStep(n) PROVE PhaseInv'
  BY <1>1, <1>2, EcsFrame DEF rcVars
<1>3. ASSUME NEW g \in Group, NEW n \in Live, RollGroup(g, n) PROVE PhaseInv'
  <2>1. ~Rejected'
    BY <1>3, VerdictFrame DEF RollGroup, PhaseInv
  <2>2. pc' = "roll"
    BY <1>3 DEF RollGroup
  <2>3. GroupOf(n) = g
    BY <1>3, GroupOfCandidate DEF RollGroup
  <2>4. \A m \in rolled' : GroupOf(m) \notin todo'
    BY <1>3, <2>3 DEF RollGroup, PhaseInv
  <2>5. \A m \in Live \ rolled' : desired'[m] = LiveDesired[m]
    BY <1>3 DEF RollGroup, UpdateService, PhaseInv, TypeOK
  <2> QED
    BY <2>1, <2>2, <2>4, <2>5 DEF PhaseInv
<1>4. ASSUME RcStep, UNCHANGED <<ecsVars, rolled, todo>> PROVE PhaseInv'
  <2>1. UNCHANGED desired /\ UNCHANGED members
    BY <1>4, RcFrame DEF ecsVars
  <2>2. /\ pc' # "resolve"
        /\ Rejected => pc' = "red"
    BY <1>4 DEF RcStep, Resolve, RollFails, RollDone, RollGroup, Baseline, WatchDisabled,
       WatchPoll, WaitCheck, WaitFails, WaitRound, StartWait, PhaseInv
  <2> QED
    BY <1>4, <2>1, <2>2, VerdictFrame DEF PhaseInv
<1> QED
  BY <1>1, <1>2, <1>3, <1>4, RcFrame DEF Next, vars, rcVars, ecsVars

----------------------------------------------------------------------------
(* What the wait ticked off stays settled *)

LEMMA EcsKeepsSettled ==
  ASSUME TypeOK, NEW n \in Live, EcsStep(n), NEW m \in Live, rollout[m] = "COMPLETED", ~others[m]
  PROVE  rollout'[m] = "COMPLETED" /\ ~others'[m]
BY DEF EcsStep, StartTask, TaskHealthy, StartFails, TaskDies, StopOld, DropOthers,
       CompleteRollout, BreakerTrips, TypeOK

LEMMA NextSettled ==
  ASSUME TypeOK, SettledInv, [Next]_vars
  PROVE  SettledInv'
<1>1. CASE UNCHANGED vars
  BY <1>1 DEF SettledInv, vars, rcVars, ecsVars
<1>2. ASSUME NEW n \in Live, EcsStep(n) PROVE SettledInv'
  <2>1. UNCHANGED <<pc, rolled, pending>>
    BY <1>2, EcsFrame DEF rcVars
  <2> QED
    BY <1>2, <2>1, EcsKeepsSettled DEF SettledInv, TypeOK
<1>3. ASSUME NEW g \in Group, NEW n \in Live, RollGroup(g, n) PROVE SettledInv'
  BY <1>3 DEF RollGroup, SettledInv
<1>4. ASSUME NEW n \in Live, WaitCheck(n) PROVE SettledInv'
  BY <1>4 DEF WaitCheck, Steady, SettledInv, ecsVars
<1>5. CASE RollDone \/ WatchDisabled \/ WatchPoll
  BY <1>5 DEF RollDone, WatchDisabled, WatchPoll, StartWait, SettledInv, ecsVars
<1>6. CASE Resolve \/ RollFails \/ Baseline \/ WaitFails
  BY <1>6 DEF Resolve, RollFails, Baseline, WaitFails, SettledInv, ecsVars
<1>7. CASE WaitRound
  BY <1>7 DEF WaitRound, SettledInv, ecsVars
<1> QED
  BY <1>1, <1>2, <1>3, <1>4, <1>5, <1>6, <1>7 DEF Next, RcStep

----------------------------------------------------------------------------
(* The watcher's baseline *)

LEMMA EventsOnlyGrow ==
  ASSUME TypeOK, NEW n \in Live, EcsStep(n), NEW m \in Live
  PROVE  errs'[m] \in Nat /\ errs'[m] >= errs[m]
<1>1. CASE StartFails(n)
  BY <1>1 DEF StartFails, TypeOK
<1>2. CASE UNCHANGED errs
  BY <1>2 DEF TypeOK
<1> QED
  BY <1>1, <1>2 DEF EcsStep, StartTask, TaskHealthy, TaskDies, StopOld, DropOthers,
     CompleteRollout, BreakerTrips

LEMMA NextWatch ==
  ASSUME TypeOK, WatchInv, [Next]_vars
  PROVE  WatchInv'
<1>1. CASE UNCHANGED vars
  BY <1>1 DEF WatchInv, FlaggedErrorIsNew, vars, rcVars, ecsVars
<1>2. ASSUME NEW n \in Live, EcsStep(n) PROVE WatchInv'
  <2>1. UNCHANGED <<pc, rolled, seen, flagged, errsAtRoll>>
    BY <1>2, EcsFrame DEF rcVars
  <2>2. \A m \in Live : errs'[m] >= seen'[m] /\ errs'[m] >= errsAtRoll'[m]
    BY <1>2, <2>1, EventsOnlyGrow DEF WatchInv, TypeOK
  <2> QED
    BY <2>1, <2>2 DEF WatchInv, FlaggedErrorIsNew
<1>3. ASSUME NEW g \in Group, NEW n \in Live, RollGroup(g, n) PROVE WatchInv'
  BY <1>3 DEF RollGroup, UpdateService, WatchInv, FlaggedErrorIsNew, TypeOK
<1>4. CASE Baseline
  BY <1>4 DEF Baseline, WatchInv, FlaggedErrorIsNew, TypeOK, ecsVars
<1>5. CASE WatchPoll
  <2>1. UNCHANGED <<rolled, errs, errsAtRoll>>
    BY <1>5 DEF WatchPoll, ecsVars
  <2>2. \A m \in Live : errs[m] >= seen'[m] /\ (m \in rolled => seen'[m] = errs[m])
    BY <1>5 DEF WatchPoll, WatchInv, TypeOK
  <2>3. pc' \in {"watch", "wait"}
    BY <1>5 DEF WatchPoll, StartWait
  <2>4. ASSUME NEW m \in flagged' PROVE seen'[m] > errsAtRoll[m]
    <3>1. m \in rolled /\ seen'[m] = errs[m]
      BY <1>5, <2>2, <2>4 DEF WatchPoll, NewErrors, TypeOK
    <3>2. CASE m \in flagged
      BY <3>1, <3>2 DEF WatchInv, FlaggedErrorIsNew, TypeOK
    <3>3. CASE m \in NewErrors
      BY <1>5, <3>1, <3>3 DEF WatchPoll, NewErrors, WatchInv, TypeOK
    <3> QED
      BY <1>5, <2>4, <3>2, <3>3 DEF WatchPoll
  <2> QED
    BY <2>1, <2>2, <2>3, <2>4 DEF WatchInv, FlaggedErrorIsNew, TypeOK
<1>6. ASSUME UNCHANGED <<rolled, seen, flagged, errs, errsAtRoll>>,
             pc' \in {"resolve", "roll", "baseline", "watch"} =>
               pc \in {"resolve", "roll", "baseline"} /\ pc' # "watch"
      PROVE  WatchInv'
  BY <1>6 DEF WatchInv, FlaggedErrorIsNew
<1>7. CASE Resolve \/ RollFails \/ RollDone \/ WatchDisabled
  BY <1>6, <1>7 DEF Resolve, RollFails, RollDone, WatchDisabled, StartWait, ecsVars
<1>8. CASE WaitFails \/ WaitRound \/ \E n \in Live : WaitCheck(n)
  BY <1>6, <1>8 DEF WaitFails, WaitRound, WaitCheck, ecsVars
<1> QED
  BY <1>1, <1>2, <1>3, <1>4, <1>5, <1>7, <1>8 DEF Next, RcStep

----------------------------------------------------------------------------
(* Stop-then-start *)

LEMMA StatefulPercents ==
  ASSUME members \in Configurations, ~Rejected, NEW g \in Group, Policy(g).stateful
  PROVE  Policy(g).percents.min = 0 /\ Policy(g).percents.max = 100
<1> DEFINE spec == members[g][1]
<1>1. 1 \in DOMAIN members[g] /\ IsServiceSpec(spec)
  BY RolloutAssumption
<1>2. ~PercentsRejected(spec)
  BY <1>1 DEF Rejected, GroupRejected
<1>3. IsStateful(spec)
  BY DEF Policy, GroupPolicy
<1>4. DOMAIN spec.override = {}
  BY <1>2, <1>3 DEF PercentsRejected
<1>5. Percents(spec).min = 0 /\ Percents(spec).max = 100
  BY <1>3, <1>4 DEF Percents, DefaultPercents, Keys
<1> QED
  BY <1>5 DEF Policy, GroupPolicy

LEMMA FullWindow == \A d \in Nat : MaxRunning(d, 100) = d
BY DEF MaxRunning

LEMMA InitStateful == Init => StatefulInv
<1> SUFFICES ASSUME Init, NEW n \in Live, ~Rejected, Policy(GroupOf(n)).stateful
             PROVE  /\ cfg[n].max = 100
                    /\ ~cfg[n].breaker
                    /\ Running(n) <= desired[n]
                    /\ n \notin rolled
  BY DEF StatefulInv
<1>1. cfg[n].max = 100 /\ ~cfg[n].breaker
  BY StatefulPercents, GroupOfLive DEF Init, RenderedConfig
<1>2. Running(n) <= desired[n] /\ n \notin rolled
  BY RolloutAssumption DEF Init, Running
<1> QED
  BY <1>1, <1>2

(* No step of ECS starts a task of a stateful service beyond the window. *)
LEMMA EcsKeepsCount ==
  ASSUME TypeOK, NEW n \in Live, EcsStep(n), NEW m \in Live,
         cfg[m].max = 100, ~cfg[m].breaker,
         Running(m) <= desired[m] \/ Running(m) <= LiveDesired[m]
  PROVE  /\ Running(m)' <= desired[m] \/ Running(m)' <= LiveDesired[m]
         /\ primary'[m] = primary[m]
<1> USE DEF TypeOK, Running
<1>1. CASE StartTask(n)
  <2>1. MaxRunning(desired[m], cfg[m].max) = desired[m]
    BY FullWindow
  <2>2. CASE m = n
    BY <1>1, <2>1, <2>2 DEF StartTask
  <2>3. CASE m # n
    BY <1>1, <2>3 DEF StartTask
  <2> QED
    BY <2>2, <2>3
<1>2. ASSUME Running(m)' <= Running(m), primary'[m] = primary[m]
      PROVE  /\ Running(m)' <= desired[m] \/ Running(m)' <= LiveDesired[m]
             /\ primary'[m] = primary[m]
  <2>1. LiveDesired[m] \in Nat
    BY RolloutAssumption
  <2>2. Running(m) \in Nat /\ Running(m)' \in Nat
    BY EcsStepTyped
  <2> HIDE DEF Running
  <2> QED
    BY <1>2, <2>1, <2>2
<1>3. CASE TaskHealthy(n)     BY <1>2, <1>3 DEF TaskHealthy
<1>4. CASE StartFails(n)      BY <1>2, <1>4 DEF StartFails
<1>5. CASE TaskDies(n)        BY <1>2, <1>5 DEF TaskDies
<1>6. CASE StopOld(n)         BY <1>2, <1>6 DEF StopOld
<1>7. CASE DropOthers(n)      BY <1>2, <1>7 DEF DropOthers
<1>8. CASE CompleteRollout(n) BY <1>2, <1>8 DEF CompleteRollout
<1>9. CASE BreakerTrips(n)
  <2>1. m # n
    BY <1>9 DEF BreakerTrips
  <2>2. Running(m)' = Running(m) /\ primary'[m] = primary[m]
    BY <1>9, <2>1 DEF BreakerTrips
  <2>3. Running(m) <= Running(m)
    OBVIOUS
  <2> QED
    BY <1>2, <2>2, <2>3
<1> QED
  BY <1>1, <1>3, <1>4, <1>5, <1>6, <1>7, <1>8, <1>9 DEF EcsStep

LEMMA NextStateful ==
  ASSUME TypeOK, PhaseInv, StatefulInv, [Next]_vars
  PROVE  StatefulInv'
<1>1. ASSUME UNCHANGED <<members, rolled, primary, cur, starting, old, cfg, desired>>
      PROVE  StatefulInv'
  BY <1>1, VerdictFrame DEF StatefulInv, Running
<1>2. ASSUME NEW n \in Live, EcsStep(n) PROVE StatefulInv'
  <2>1. UNCHANGED <<members, rolled, cfg, desired>>
    BY <1>2, EcsFrame DEF rcVars
  <2> QED
    BY <1>2, <2>1, EcsKeepsCount, VerdictFrame DEF StatefulInv
<1>3. ASSUME NEW g \in Group, NEW n \in Live, RollGroup(g, n) PROVE StatefulInv'
  <2>1. UNCHANGED members /\ UpdateService(n, g) /\ rolled' = rolled \cup {n}
    BY <1>3 DEF RollGroup
  <2>2. GroupOf(n) = g /\ n \notin rolled
    BY <1>3, GroupOfCandidate DEF RollGroup, NextGroup, PhaseInv
  <2> SUFFICES ASSUME NEW m \in Live, ~Rejected, Policy(GroupOf(m)).stateful
               PROVE  /\ cfg'[m].max = 100
                      /\ ~cfg'[m].breaker
                      /\ Running(m)' <= desired'[m] \/ Running(m)' <= LiveDesired[m]
                      /\ m \in rolled' => primary'[m] = "mine"
    BY <2>1, VerdictFrame DEF StatefulInv
  <2>3. CASE m = n
    <3>1. cfg' = cfg
      BY <2>1, <2>2, <2>3 DEF UpdateService, RollsStateful
    <3>2. Running(n)' = Running(n) /\ primary'[n] = "mine"
      BY <2>1 DEF UpdateService, Running, TypeOK
    <3>3. desired[n] = LiveDesired[n]
      BY <2>2 DEF PhaseInv
    <3> QED
      BY <2>3, <3>1, <3>2, <3>3 DEF StatefulInv
  <2>4. CASE m # n
    <3>1. /\ cfg'[m] = cfg[m] /\ desired'[m] = desired[m] /\ primary'[m] = primary[m]
          /\ Running(m)' = Running(m)
      BY <2>1, <2>4 DEF UpdateService, Running, TypeOK
    <3> QED
      BY <2>1, <2>4, <3>1 DEF StatefulInv
  <2> QED
    BY <2>3, <2>4
<1>4. ASSUME RcStep, UNCHANGED <<ecsVars, rolled, todo>> PROVE StatefulInv'
  BY <1>1, <1>4, RcFrame DEF ecsVars
<1> QED
  BY <1>1, <1>2, <1>3, <1>4, RcFrame DEF Next, vars, rcVars, ecsVars

----------------------------------------------------------------------------
(* The invariant and what follows from it *)

(* The strengthening is inductive: every step of rc and of ECS preserves it. *)
THEOREM Inductive == Spec => []IInv
<1>1. Init => IInv
  BY InitTyped, InitPhase, InitStateful
     DEF IInv, SettledInv, WatchInv, FlaggedErrorIsNew, Init
<1>2. IInv /\ [Next]_vars => IInv'
  <2> SUFFICES ASSUME IInv, [Next]_vars PROVE IInv'
    OBVIOUS
  <2>1. TypeOK'
    <3>1. CASE UNCHANGED vars
      BY <3>1 DEF vars, rcVars, ecsVars, TypeOK, IInv
    <3> QED
      BY <3>1, EcsStepTyped, RcStepTyped DEF Next, IInv
  <2> QED
    BY <2>1, NextPhase, NextSettled, NextWatch, NextStateful DEF IInv
<1> QED
  BY <1>1, <1>2, PTL DEF Spec

(* A rejected configuration leaves every service of every cluster alone: the comment at
   provider.py 5042-5047, for any number of groups in any order. *)
THEOREM RejectedRollsNothing == Spec => []RejectedConfigRollsNothing
<1>1. IInv => RejectedConfigRollsNothing
  BY DEF IInv, PhaseInv, RejectedConfigRollsNothing
<1> QED
  BY <1>1, Inductive, PTL

(* Stop-then-start holds through failed starts, dying tasks and any interleaving with
   the ECS controller (provider.py 524-549, 5076-5085). *)
THEOREM NeverTwoTasks == Spec => []StatefulNeverOverlaps
<1>1. IInv => StatefulNeverOverlaps
  BY DEF IInv, StatefulInv, StatefulNeverOverlaps
<1> QED
  BY <1>1, Inductive, PTL

(* Green is final for every rolled deployment, although rc looks at the services one
   after the other and ECS moves in between (provider.py 5138-5190). *)
THEOREM GreenIsSettled == Spec => []GreenMeansSettled
<1>1. IInv => GreenMeansSettled
  BY DEF IInv, SettledInv, GreenMeansSettled
<1> QED
  BY <1>1, Inductive, PTL

(* A stateful service has no way back, so green means the deployment rc started. *)
THEOREM GreenIsNewForStateful == Spec => []GreenMeansNewForStateful
<1>1. IInv => GreenMeansNewForStateful
  BY DEF IInv, TypeOK, PhaseInv, StatefulInv, GreenMeansNewForStateful
<1> QED
  BY <1>1, Inductive, PTL

(* The watcher never blames the roll for an older error (provider.py 5192-5329). *)
THEOREM NoStaleBlame == Spec => []FlaggedErrorIsNew
<1>1. IInv => FlaggedErrorIsNew
  BY DEF IInv, WatchInv
<1> QED
  BY <1>1, Inductive, PTL

----------------------------------------------------------------------------
(* The roll implements its gate *)

LEMMA SettleOrStutter ==
  ASSUME TypeOK, NEW n \in Live, EcsStep(n)
  PROVE  Gate!GateNext \/ UNCHANGED Gate!gateVars
<1>1. UNCHANGED <<pc, rolled>> /\ GateVerdict' = GateVerdict
  BY EcsFrame DEF rcVars, GateVerdict
<1>2. ASSUME NEW m \in Live, m # n
      PROVE  rollout'[m] = rollout[m] /\ others'[m] = others[m]
  BY <1>2 DEF EcsStep, StartTask, TaskHealthy, StartFails, TaskDies, StopOld, DropOthers,
     CompleteRollout, BreakerTrips, TypeOK
<1>3. \A m \in Settled : m \in Settled'
  BY <1>1, EcsKeepsSettled DEF Settled, TypeOK
<1>4. \A m \in Settled' : m \in Settled \cup {n}
  BY <1>1, <1>2 DEF Settled, TypeOK
<1>5. CASE n \in Settled' /\ n \notin Settled
  <2>1. Settled' = Settled \cup {n} /\ n \in rolled
    BY <1>1, <1>3, <1>4, <1>5 DEF Settled
  <2>2. n \in Name
    BY RolloutAssumption
  <2> QED
    BY <1>1, <1>5, <2>1, <2>2 DEF Gate!GateNext, Gate!Settle
<1>6. CASE n \notin Settled' \/ n \in Settled
  <2>1. Settled' = Settled
    BY <1>3, <1>4, <1>6
  <2> QED
    BY <1>1, <2>1 DEF Gate!gateVars
<1> QED
  BY <1>5, <1>6

LEMMA RollMaps ==
  ASSUME TypeOK, PhaseInv, NEW g \in Group, NEW n \in Live, RollGroup(g, n)
  PROVE  Gate!GateNext
<1>1. n \in Name /\ n \notin rolled
  BY RolloutAssumption, GroupOfCandidate DEF RollGroup, NextGroup, PhaseInv
<1>2. rolled' = rolled \cup {n} /\ GateVerdict = "rolling" /\ GateVerdict' = "rolling"
  BY DEF RollGroup, GateVerdict
<1>3. rollout'[n] = "IN_PROGRESS" /\ \A m \in Live \ {n} :
        rollout'[m] = rollout[m] /\ others'[m] = others[m]
  BY DEF RollGroup, UpdateService, TypeOK
<1>4. Settled' = Settled
  BY <1>1, <1>2, <1>3 DEF Settled, TypeOK
<1> QED
  BY <1>1, <1>2, <1>4 DEF Gate!GateNext, Gate!Roll

LEMMA VerdictMaps ==
  ASSUME IInv, RcStep, UNCHANGED <<ecsVars, rolled, todo>>
  PROVE  Gate!GateNext \/ UNCHANGED Gate!gateVars
<1>1. UNCHANGED rolled /\ Settled' = Settled
  BY DEF Settled, ecsVars
<1>2. ASSUME UNCHANGED GateVerdict PROVE UNCHANGED Gate!gateVars
  BY <1>1, <1>2 DEF Gate!gateVars
<1>3. CASE Resolve \/ RollFails
  BY <1>1, <1>2, <1>3 DEF Resolve, RollFails, GateVerdict, Gate!GateNext, Gate!Red
<1>4. CASE RollDone
  BY <1>1, <1>4 DEF RollDone, StartWait, GateVerdict, Gate!GateNext, Gate!Gate
<1>5. CASE Baseline \/ WatchDisabled \/ WatchPoll
  BY <1>2, <1>5 DEF Baseline, WatchDisabled, WatchPoll, StartWait, GateVerdict
<1>6. ASSUME NEW n \in Live, WaitCheck(n) PROVE UNCHANGED GateVerdict
  BY <1>6 DEF WaitCheck, GateVerdict
<1>7. CASE WaitFails
  BY <1>1, <1>7 DEF WaitFails, GateVerdict, Gate!GateNext, Gate!Red
<1>8. CASE WaitRound
  <2>1. CASE pending = {}
    <3>1. rolled \subseteq Settled
      BY <1>8, <2>1 DEF WaitRound, IInv, SettledInv, Settled
    <3> QED
      BY <1>1, <1>8, <2>1, <3>1 DEF WaitRound, GateVerdict, Gate!GateNext, Gate!Green
  <2>2. CASE pending # {}
    BY <1>1, <1>2, <1>8, <2>2 DEF WaitRound, GateVerdict, Gate!GateNext, Gate!Red
  <2> QED
    BY <2>1, <2>2
<1>9. ASSUME NEW g \in Group, NEW n \in Live, RollGroup(g, n) PROVE UNCHANGED GateVerdict
  BY <1>9 DEF RollGroup, GateVerdict
<1> QED
  BY <1>2, <1>3, <1>4, <1>5, <1>6, <1>7, <1>8, <1>9 DEF RcStep

(* Whatever rc and ECS do, the caller of a roll sees the gate of RollGate: deployments
   are started before the gate closes, none settles twice, and green comes last, after
   all of them have settled. *)
THEOREM ImplementsGateSafety == Spec => Gate!GateSafety
<1>1. Init => Gate!GateInit
  BY DEF Init, Gate!GateInit, GateVerdict, Settled
<1>2. IInv /\ [Next]_vars => [Gate!GateNext]_(Gate!gateVars)
  <2> SUFFICES ASSUME IInv, [Next]_vars PROVE Gate!GateNext \/ UNCHANGED Gate!gateVars
    OBVIOUS
  <2>1. CASE UNCHANGED vars
    BY <2>1 DEF vars, rcVars, ecsVars, Gate!gateVars, GateVerdict, Settled
  <2>2. ASSUME NEW n \in Live, EcsStep(n) PROVE Gate!GateNext \/ UNCHANGED Gate!gateVars
    BY <2>2, SettleOrStutter DEF IInv
  <2>3. CASE RcStep
    BY <2>3, RcFrame, RollMaps, VerdictMaps DEF IInv
  <2> QED
    BY <2>1, <2>2, <2>3 DEF Next
<1> QED
  BY <1>1, <1>2, Inductive, PTL DEF Spec, Gate!GateSafety
=============================================================================
