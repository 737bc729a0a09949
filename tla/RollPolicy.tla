----------------------------- MODULE RollPolicy -----------------------------
(***************************************************************************)
(* The rollout policy of an ECS service: which services roll               *)
(* stop-then-start, which percentages a roll runs under, and which         *)
(* configurations are refused before anything is touched.  Translated      *)
(* from the pure functions at the head of provider/ecs/provider.py.        *)
(*                                                                         *)
(* A service specification is a record                                     *)
(*   volumes    number of EFS mounts                                       *)
(*   stateful   the rc.yml flag                                            *)
(*   scheduler  its name or command reads as a singleton scheduler         *)
(*   override   the rc.yml `deployment:` block, a function from the keys   *)
(*              the user wrote to integers (empty: no block)               *)
(*   autoRoll, replicas, rank (position of its type in _DEPLOY_ORDER)      *)
(***************************************************************************)
EXTENDS Integers, Sequences

Keys == {"min", "max"}

(* What rc.yml parsing guarantees of a specification. *)
IsServiceSpec(spec) ==
  /\ spec.volumes \in Nat
  /\ spec.stateful \in BOOLEAN
  /\ spec.scheduler \in BOOLEAN
  /\ spec.replicas \in Nat
  /\ spec.rank \in Nat
  /\ \A k \in DOMAIN spec.override : spec.override[k] \in Int

(* Any one of three signals makes a service roll one task at a time. *)
IsStateful(spec) == spec.volumes > 0 \/ spec.stateful \/ spec.scheduler

DefaultPercents(spec) ==
  IF IsStateful(spec) THEN [min |-> 0, max |-> 100] ELSE [min |-> 100, max |-> 200]

(* The percentages that result: what the user wrote, else the default. *)
Percents(spec) ==
  [k \in Keys |-> IF k \in DOMAIN spec.override THEN spec.override[k]
                                                ELSE DefaultPercents(spec)[k]]

(* ECS rounds the healthy minimum up and the running maximum down. *)
MinRunning(replicas, pct) == (replicas * pct + 99) \div 100
MaxRunning(replicas, pct) == (replicas * pct) \div 100

(* Variants of the next definition with a plausible mistake each: the room for a
   replacement off by one, and a test of the percentages instead of the task counts
   they round to. *)
RollableOffByOne(replicas, min, max) ==
  \/ MaxRunning(replicas, max) >= replicas
  \/ replicas - 1 >= MinRunning(replicas, min)

RollableByPercent(replicas, min, max) == max > 100 \/ min < 100

(* A roll can begin by starting a replacement or by stopping an old task. *)
Rollable(replicas, min, max) ==
  \/ MaxRunning(replicas, max) >= replicas + 1
  \/ replicas - 1 >= MinRunning(replicas, min)

PercentsRejected(spec) ==
  LET p == Percents(spec)
  IN  /\ DOMAIN spec.override # {}
      /\ \/ ~(DOMAIN spec.override \subseteq Keys)
         \/ IsStateful(spec)
         \/ p.min \notin 0..100
         \/ p.max < 100
         \/ spec.replicas >= 1 /\ ~Rollable(spec.replicas, p.min, p.max)

(* The two numbers the rejection suggests. *)
LargestRollableMin(replicas) ==
  LET fits == {pct \in 0..100 : MinRunning(replicas, pct) <= replicas - 1}
  IN  IF fits = {} THEN 0 ELSE CHOOSE pct \in fits : \A q \in fits : q <= pct

(* ... the second one rounded the wrong way. *)
SmallestMaxRoundedDown(replicas) == ((replicas + 1) * 100) \div replicas

SmallestRollableMax(replicas) == ((replicas + 1) * 100 + replicas - 1) \div replicas

(* The members of a task group are the containers of one task, so they share one
   policy; `members` is the group's sequence of specifications, the anchor first. *)
GroupRejected(members) ==
  \/ \E i \in DOMAIN members : PercentsRejected(members[i])
  \/ \E i \in DOMAIN members :
       \/ IsStateful(members[i]) # IsStateful(members[1])
       \/ Percents(members[i]) # Percents(members[1])
       \/ members[i].autoRoll # members[1].autoRoll
       \/ members[i].replicas # members[1].replicas

GroupPolicy(members) ==
  [stateful |-> IsStateful(members[1]),
   percents |-> Percents(members[1]),
   replicas |-> members[1].replicas]

(* A group takes the rank of its most urgent member. *)
GroupRank(members) ==
  CHOOSE r \in {members[i].rank : i \in DOMAIN members} :
    \A i \in DOMAIN members : r <= members[i].rank
=============================================================================
