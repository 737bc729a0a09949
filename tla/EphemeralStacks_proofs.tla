------------------------ MODULE EphemeralStacks_proofs ------------------------
(***************************************************************************)
(* Proofs about EphemeralStacks for every set of stacks and processes, any *)
(* time to live and any number of deploys, teardowns and faults: type      *)
(* correctness, and that a stack with resources keeps its record unless    *)
(* one of the races took it.                                               *)
(***************************************************************************)
EXTENDS EphemeralStacks, TLAPS

Steps == {"idle", "register", "registering", "apply", "next", "destroy", "destroying",
          "remove", "removing", "truncated"}
Jobs == {"none", "deploy", "destroy", "reap"}

\* The processes; the stacks and the file.
ProcsTyped ==
  /\ step \in [Procs -> Steps] /\ job \in [Procs -> Jobs]
  /\ cur \in [Procs -> SUBSET Stacks] /\ targets \in [Procs -> SUBSET Stacks]
  /\ snap \in [Procs -> Registries]
StacksTyped ==
  /\ registry \in Registries /\ live \subseteq Stacks
  /\ files \in [Stacks -> {"rc", "tf", "gone"}] /\ clock \in 1..MaxClock
  /\ deploys \in 0..MaxDeploys /\ faults \in 0..MaxFaults /\ lost \subseteq Stacks

LEMMA TypedParts == EphTypeOK <=> ProcsTyped /\ StacksTyped
BY DEF EphTypeOK, ProcsTyped, StacksTyped, Steps, Jobs

LEMMA NumbersTyped ==
  Ttl \in Nat \ {0} /\ MaxClock \in Nat \ {0} /\ MaxDeploys \in Nat /\ MaxFaults \in Nat
BY EphemeralAssumption

LEMMA NoRecordsTyped == NoRecords \in Registries /\ \A s \in Stacks : NoRecords[s] = None
BY NumbersTyped DEF NoRecords, Registries, None

(* What a process does when it begins, goes on with its next target, or ends. *)
LEMMA BeginTyped ==
  ASSUME ProcsTyped, NEW p \in Procs, NEW j \in Jobs, NEW where \in Steps,
         NEW stacks \in SUBSET Stacks, NEW todo \in SUBSET Stacks, Begin(p, j, where, stacks, todo)
  PROVE  ProcsTyped' /\ UNCHANGED <<registry, lost>>
BY DEF Begin, Goto, ProcsTyped

LEMMA FinishTyped ==
  ASSUME ProcsTyped, NEW p \in Procs, Finish(p) PROVE ProcsTyped'
BY NoRecordsTyped DEF Finish, Goto, ProcsTyped, Steps, Jobs

LEMMA NextTargetTyped ==
  ASSUME ProcsTyped, NEW p \in Procs, NextTarget(p) PROVE ProcsTyped'
<1>1. CASE job[p] = "reap"
  BY <1>1, NoRecordsTyped DEF NextTarget, Goto, ProcsTyped, Steps
<1>2. CASE job[p] # "reap"
  BY <1>2, FinishTyped DEF NextTarget
<1> QED
  BY <1>1, <1>2

LEMMA GotoTyped ==
  ASSUME ProcsTyped, NEW p \in Procs, NEW where \in Steps, Goto(p, where),
         UNCHANGED <<job, cur, targets, snap>>
  PROVE  ProcsTyped'
BY DEF Goto, ProcsTyped

LEMMA ReadTyped ==
  ASSUME ProcsTyped, StacksTyped, NEW p \in Procs, NEW where \in Steps, Goto(p, where),
         snap' = [snap EXCEPT ![p] = registry], UNCHANGED <<job, cur, targets>>
  PROVE  ProcsTyped'
BY DEF Goto, ProcsTyped, StacksTyped

LEMMA NewRegistryTyped ==
  ASSUME ProcsTyped, StacksTyped, NEW p \in Procs
  PROVE  /\ NewRegistry(p) \in Registries
         /\ \A s \in Stacks : s \notin cur[p] => NewRegistry(p)[s] = snap[p][s]
         /\ \A s \in cur[p] : job[p] = "deploy" => NewRegistry(p)[s] # None
<1>1. clock + Ttl \in 1..(MaxClock + Ttl) /\ None \in 0..(MaxClock + Ttl) /\ clock + Ttl # None
  BY NumbersTyped DEF StacksTyped, None
<1>2. \A s \in Stacks : snap[p][s] \in 0..(MaxClock + Ttl)
  BY DEF ProcsTyped, Registries
<1>3. clock + Ttl \in 0..(MaxClock + Ttl)
  BY <1>1, NumbersTyped
<1>4. cur[p] \subseteq Stacks
  BY DEF ProcsTyped
<1> QED
  BY <1>1, <1>2, <1>3, <1>4 DEF NewRegistry, Registries

LEMMA EphInitTyped == EphInit => EphTypeOK
<1> SUFFICES ASSUME EphInit PROVE ProcsTyped /\ StacksTyped
  BY TypedParts
<1>1. ProcsTyped
  BY NoRecordsTyped DEF EphInit, ProcsTyped, Steps, Jobs
<1>2. StacksTyped
  BY NoRecordsTyped, NumbersTyped DEF EphInit, StacksTyped
<1> QED
  BY <1>1, <1>2

(* The steps of one process, whatever command it runs. *)
Starts(p) ==
  \/ \E s \in Stacks : StartDeploy(p, s) \/ StartDestroy(p, s)
  \/ \E all \in BOOLEAN : StartReap(p, all)
ProcStep(p) == Starts(p) \/ Work(p) \/ DestroyFails(p) \/ ProcessKilled(p)
Around == Tick \/ \E s \in Stacks : FilesDeleted(s)

LEMMA EphNextParts == EphNext => (\E p \in Procs : ProcStep(p)) \/ Around
BY DEF EphNext, ProcStep, Starts, Around, Procs

LEMMA StartsTyped ==
  ASSUME ProcsTyped, StacksTyped, NEW p \in Procs, Starts(p)
  PROVE  /\ ProcsTyped' /\ StacksTyped' /\ UNCHANGED <<registry, lost, live>>
<1> USE DEF Jobs, Steps, worldVars
<1>1. ASSUME NEW s \in Stacks, StartDeploy(p, s)
      PROVE ProcsTyped' /\ StacksTyped' /\ UNCHANGED <<registry, lost, live>>
  <2>1. ProcsTyped' /\ UNCHANGED <<registry, lost>>
    BY <1>1, BeginTyped DEF StartDeploy
  <2>2. deploys' \in 0..MaxDeploys /\ files' \in [Stacks -> {"rc", "tf", "gone"}]
    BY <1>1, NumbersTyped DEF StartDeploy, StacksTyped
  <2> QED
    BY <1>1, <2>1, <2>2 DEF StartDeploy, StacksTyped
<1>2. ASSUME NEW s \in Stacks, StartDestroy(p, s)
      PROVE ProcsTyped' /\ StacksTyped' /\ UNCHANGED <<registry, lost, live>>
  <2>1. ProcsTyped' /\ UNCHANGED <<registry, lost>>
    BY <1>2, BeginTyped DEF StartDestroy
  <2> QED
    BY <1>2, <2>1 DEF StartDestroy, StacksTyped
<1>3. ASSUME NEW all \in BOOLEAN, StartReap(p, all)
      PROVE ProcsTyped' /\ StacksTyped' /\ UNCHANGED <<registry, lost, live>>
  <2> DEFINE due == {s \in Stacks : IF all THEN registry[s] # None ELSE PastDue(s)}
  <2>1. due \in SUBSET Stacks /\ Begin(p, "reap", "next", {}, due) /\ UNCHANGED worldVars
    BY <1>3 DEF StartReap
  <2> HIDE DEF due
  <2>2. ProcsTyped' /\ UNCHANGED <<registry, lost>>
    BY <2>1, BeginTyped
  <2> QED
    BY <2>1, <2>2 DEF StacksTyped
<1> QED
  BY <1>1, <1>2, <1>3 DEF Starts

LEMMA EphStepTyped == EphTypeOK /\ [EphNext]_ephVars => EphTypeOK'
<1> SUFFICES ASSUME ProcsTyped, StacksTyped, [EphNext]_ephVars
             PROVE  ProcsTyped' /\ StacksTyped'
  <2> SUFFICES ASSUME EphTypeOK, [EphNext]_ephVars PROVE EphTypeOK'
    OBVIOUS
  <2>1. ProcsTyped' /\ StacksTyped'
    BY TypedParts
  <2> QED
    BY <2>1 DEF EphTypeOK, ProcsTyped, StacksTyped, Steps, Jobs
<1> USE DEF worldVars
<1>1. ASSUME NEW p \in Procs, Starts(p) PROVE ProcsTyped' /\ StacksTyped'
  BY <1>1, StartsTyped
<1>2. ASSUME NEW p \in Procs, TakeTarget(p) PROVE ProcsTyped' /\ StacksTyped'
  <2>1. StacksTyped'
    BY <1>2 DEF TakeTarget, StacksTyped
  <2>2. CASE targets[p] = {} /\ Finish(p)
    BY <2>1, <2>2, FinishTyped
  <2>3. CASE \E s \in targets[p] : /\ cur' = [cur EXCEPT ![p] = {s}]
                                  /\ targets' = [targets EXCEPT ![p] = @ \ {s}]
                                  /\ Goto(p, "destroy") /\ UNCHANGED <<job, snap>>
    BY <2>1, <2>3 DEF Goto, ProcsTyped, Steps
  <2> QED
    BY <1>2, <2>2, <2>3 DEF TakeTarget
<1>3. ASSUME NEW p \in Procs, ReadToRegister(p) PROVE ProcsTyped' /\ StacksTyped'
  BY <1>3, ReadTyped DEF ReadToRegister, StacksTyped, Steps
<1>4. ASSUME NEW p \in Procs, ReadToRemove(p) PROVE ProcsTyped' /\ StacksTyped'
  <2>1. StacksTyped'
    BY <1>4 DEF ReadToRemove, StacksTyped
  <2>2. \/ NextTarget(p)
        \/ /\ snap' = [snap EXCEPT ![p] = registry]
           /\ Goto(p, "removing") /\ UNCHANGED <<job, cur, targets>>
    BY <1>4 DEF ReadToRemove
  <2> QED
    BY <2>1, <2>2, NextTargetTyped, ReadTyped DEF Steps
<1>5. ASSUME NEW p \in Procs, Truncate(p) PROVE ProcsTyped' /\ StacksTyped'
  <2>1. ProcsTyped'
    BY <1>5, GotoTyped DEF Truncate, Steps
  <2>2. Changed(p) \subseteq Stacks
    BY DEF Changed
  <2> QED
    BY <1>5, <2>1, <2>2, NoRecordsTyped DEF Truncate, StacksTyped
<1>6. ASSUME NEW p \in Procs, Write(p) PROVE ProcsTyped' /\ StacksTyped'
  <2>1. ProcsTyped'
    BY <1>6, GotoTyped, NextTargetTyped DEF Write, Steps
  <2>2. registry' \in Registries
    BY <1>6, NewRegistryTyped DEF Write
  <2>3. Changed(p) \subseteq Stacks /\ cur[p] \subseteq Stacks
    BY DEF Changed, ProcsTyped
  <2>4. lost' \subseteq Stacks
    BY <1>6, <2>3 DEF Write, StacksTyped
  <2> QED
    BY <1>6, <2>1, <2>2, <2>4 DEF Write, StacksTyped
<1>7. ASSUME NEW p \in Procs, DeployStack(p) PROVE ProcsTyped' /\ StacksTyped'
  <2>1. live' \subseteq Stacks /\ lost' \subseteq Stacks
    BY <1>7 DEF DeployStack, StacksTyped, ProcsTyped
  <2>2. ProcsTyped'
    BY <1>7, FinishTyped DEF DeployStack
  <2> QED
    BY <1>7, <2>1, <2>2 DEF DeployStack, StacksTyped
<1>8. ASSUME NEW p \in Procs, DestroyBegins(p) \/ DestroyEnds(p) PROVE ProcsTyped' /\ StacksTyped'
  <2>1. ProcsTyped'
    BY <1>8, GotoTyped DEF DestroyBegins, DestroyEnds, Steps
  <2> QED
    BY <1>8, <2>1 DEF DestroyBegins, DestroyEnds, StacksTyped
<1>9. ASSUME NEW p \in Procs, StateLocked(p) \/ Audit(p) PROVE ProcsTyped' /\ StacksTyped'
  <2>1. ProcsTyped'
    BY <1>9, GotoTyped, NextTargetTyped DEF StateLocked, Audit, Steps
  <2> QED
    BY <1>9, <2>1 DEF StateLocked, Audit, StacksTyped
<1>10. ASSUME NEW p \in Procs, DestroyFails(p) PROVE ProcsTyped' /\ StacksTyped'
  <2>1. ProcsTyped'
    BY <1>10, NextTargetTyped DEF DestroyFails
  <2>2. faults' \in 0..MaxFaults
    BY <1>10, NumbersTyped DEF DestroyFails, StacksTyped
  <2> QED
    BY <1>10, <2>1, <2>2 DEF DestroyFails, StacksTyped
<1>11. ASSUME NEW p \in Procs, ProcessKilled(p) PROVE ProcsTyped' /\ StacksTyped'
  <2>1. ProcsTyped'
    BY <1>11, FinishTyped DEF ProcessKilled
  <2>2. faults' \in 0..MaxFaults
    BY <1>11, NumbersTyped DEF ProcessKilled, StacksTyped
  <2>3. lost' \subseteq Stacks
    BY <1>11 DEF ProcessKilled, StacksTyped
  <2> QED
    BY <1>11, <2>1, <2>2, <2>3 DEF ProcessKilled, StacksTyped
<1>12. CASE Around
  <2>1. CASE Tick
    <3>1. clock' \in 1..MaxClock
      BY <2>1, NumbersTyped DEF Tick, StacksTyped
    <3> QED
      BY <2>1, <3>1 DEF Tick, procVars, ProcsTyped, StacksTyped
  <2>2. ASSUME NEW s \in Stacks, FilesDeleted(s) PROVE ProcsTyped' /\ StacksTyped'
    <3>1. faults' \in 0..MaxFaults /\ files' \in [Stacks -> {"rc", "tf", "gone"}]
      BY <2>2, NumbersTyped DEF FilesDeleted, StacksTyped
    <3> QED
      BY <2>2, <3>1 DEF FilesDeleted, procVars, ProcsTyped, StacksTyped
  <2> QED
    BY <1>12, <2>1, <2>2 DEF Around
<1>13. CASE UNCHANGED ephVars
  BY <1>13 DEF ephVars, ProcsTyped, StacksTyped
<1> QED
  BY <1>1, <1>2, <1>3, <1>4, <1>5, <1>6, <1>7, <1>8, <1>9, <1>10, <1>11, <1>12, <1>13,
     EphNextParts DEF ProcStep, Work

\* Type correctness of the registry file, of the processes that share it, and of the stacks.
THEOREM EphTypeCorrect == EphSpec => []EphTypeOK
BY EphInitTyped, EphStepTyped, PTL DEF EphSpec

----------------------------------------------------------------------------
(* What a process works on at each of its steps. *)

OneStack(p) == \E s \in Stacks : cur[p] = {s}
Shape(p) ==
  /\ step[p] \notin {"idle", "next"} => OneStack(p)
  /\ step[p] \in {"register", "registering", "apply"} => job[p] = "deploy"
  /\ step[p] \in {"next", "destroy", "destroying", "remove", "removing"} => job[p] # "deploy"
  /\ step[p] \in {"removing", "truncated"} /\ job[p] # "deploy" =>
       \A s \in cur[p] : snap[p][s] # None

LEMMA OthersStay ==
  ASSUME ProcsTyped, NEW p \in Procs, ProcStep(p), NEW q \in Procs, q # p
  PROVE  step'[q] = step[q] /\ job'[q] = job[q] /\ cur'[q] = cur[q] /\ snap'[q] = snap[q]
<1> USE DEF ProcsTyped, Goto
<1>1. CASE Starts(p)
  BY <1>1 DEF Starts, StartDeploy, StartDestroy, StartReap, Begin
<1>2. CASE TakeTarget(p) \/ DeployStack(p) \/ ProcessKilled(p)
  BY <1>2 DEF TakeTarget, DeployStack, ProcessKilled, Finish
<1>3. CASE ReadToRegister(p) \/ Truncate(p) \/ DestroyBegins(p) \/ DestroyEnds(p)
  BY <1>3 DEF ReadToRegister, Truncate, DestroyBegins, DestroyEnds
<1>4. CASE ReadToRemove(p) \/ Write(p) \/ StateLocked(p) \/ Audit(p) \/ DestroyFails(p)
  BY <1>4 DEF ReadToRemove, Write, StateLocked, Audit, DestroyFails, NextTarget, Finish
<1> QED
  BY <1>1, <1>2, <1>3, <1>4 DEF ProcStep, Work

LEMMA AroundStays ==
  ASSUME Around \/ UNCHANGED ephVars
  PROVE  UNCHANGED <<registry, live, step, job, cur, snap, lost>>
BY DEF Around, Tick, FilesDeleted, procVars, ephVars

LEMMA FinishShape ==
  ASSUME ProcsTyped, NEW p \in Procs, Finish(p) PROVE step'[p] = "idle"
BY DEF Finish, Goto, ProcsTyped

LEMMA NextTargetShape ==
  ASSUME ProcsTyped, NEW p \in Procs, NextTarget(p)
  PROVE  step'[p] = "idle" \/ (step'[p] = "next" /\ job'[p] # "deploy")
BY FinishShape DEF NextTarget, Goto, ProcsTyped

LEMMA ShapeStep ==
  ASSUME ProcsTyped, NEW p \in Procs, Shape(p), ProcStep(p) PROVE Shape(p)'
<1>1. ASSUME step'[p] = "idle" \/ (step'[p] = "next" /\ job'[p] # "deploy") PROVE Shape(p)'
  BY <1>1 DEF Shape
<1>2. CASE Starts(p)
  <2>1. ASSUME NEW s \in Stacks, StartDeploy(p, s) PROVE Shape(p)'
    <3>1. step'[p] = "register" /\ job'[p] = "deploy" /\ cur'[p] = {s}
      BY <2>1 DEF StartDeploy, Begin, Goto, ProcsTyped
    <3> QED
      BY <3>1 DEF Shape, OneStack
  <2>2. ASSUME NEW s \in Stacks, StartDestroy(p, s) PROVE Shape(p)'
    <3>1. step'[p] = "destroy" /\ job'[p] = "destroy" /\ cur'[p] = {s}
      BY <2>2 DEF StartDestroy, Begin, Goto, ProcsTyped
    <3> QED
      BY <3>1 DEF Shape, OneStack
  <2>3. ASSUME NEW all \in BOOLEAN, StartReap(p, all) PROVE Shape(p)'
    <3>1. step'[p] = "next" /\ job'[p] = "reap"
      BY <2>3 DEF StartReap, Begin, Goto, ProcsTyped
    <3> QED
      BY <1>1, <3>1
  <2> QED
    BY <1>2, <2>1, <2>2, <2>3 DEF Starts
<1>3. CASE TakeTarget(p)
  <2>1. CASE Finish(p)
    BY <1>1, <2>1, FinishShape
  <2>2. CASE \E s \in targets[p] : /\ cur' = [cur EXCEPT ![p] = {s}]
                                  /\ Goto(p, "destroy") /\ UNCHANGED <<job, snap>>
    <3>1. PICK s \in targets[p] : cur'[p] = {s} /\ step'[p] = "destroy" /\ UNCHANGED job
      BY <2>2 DEF Goto, ProcsTyped
    <3>2. s \in Stacks /\ job[p] # "deploy"
      BY <1>3 DEF ProcsTyped, TakeTarget, At, Shape
    <3> QED
      BY <3>1, <3>2 DEF Shape, OneStack
  <2> QED
    BY <1>3, <2>1, <2>2 DEF TakeTarget
<1>4. CASE ReadToRegister(p) \/ DestroyBegins(p) \/ DestroyEnds(p)
  BY <1>4 DEF ReadToRegister, DestroyBegins, DestroyEnds, Goto, At, ProcsTyped, Shape, OneStack
<1>5. CASE ReadToRemove(p)
  <2>1. CASE NextTarget(p)
    BY <1>1, <2>1, NextTargetShape
  <2>2. CASE \E s \in cur[p] : /\ registry[s] # None /\ snap' = [snap EXCEPT ![p] = registry]
                              /\ Goto(p, "removing") /\ UNCHANGED <<job, cur>>
    <3>1. PICK s \in cur[p] : registry[s] # None
      BY <2>2
    <3>2. /\ snap'[p] = registry /\ step'[p] = "removing" /\ UNCHANGED <<job, cur>>
          /\ step[p] = "remove"
      BY <1>5, <2>2 DEF Goto, ProcsTyped, ReadToRemove, At
    <3>3. cur[p] = {s} /\ job[p] # "deploy"
      BY <3>1, <3>2 DEF Shape, OneStack
    <3> QED
      BY <3>1, <3>2, <3>3 DEF Shape, OneStack
  <2> QED
    BY <1>5, <2>1, <2>2 DEF ReadToRemove
<1>6. CASE Truncate(p)
  BY <1>6 DEF Truncate, Goto, ProcsTyped, Shape, OneStack
<1>7. CASE Write(p)
  <2>1. CASE job[p] = "deploy"
    BY <1>7, <2>1 DEF Write, Goto, At, ProcsTyped, Shape, OneStack
  <2>2. CASE job[p] # "deploy"
    BY <1>1, <1>7, <2>2, NextTargetShape DEF Write
  <2> QED
    BY <2>1, <2>2
<1>8. CASE DeployStack(p) \/ ProcessKilled(p)
  BY <1>1, <1>8, FinishShape DEF DeployStack, ProcessKilled
<1>9. CASE StateLocked(p) \/ DestroyFails(p)
  BY <1>1, <1>9, NextTargetShape DEF StateLocked, DestroyFails
<1>10. CASE Audit(p)
  <2>1. CASE NextTarget(p)
    BY <1>1, <2>1, NextTargetShape
  <2>2. CASE Goto(p, "remove") /\ UNCHANGED <<job, cur>>
    BY <1>10, <2>2 DEF Audit, Goto, At, ProcsTyped, Shape, OneStack
  <2> QED
    BY <1>10, <2>1, <2>2 DEF Audit
<1> QED
  BY <1>2, <1>3, <1>4, <1>5, <1>6, <1>7, <1>8, <1>9, <1>10 DEF ProcStep, Work

----------------------------------------------------------------------------
(* The strengthening.  Between a truncate and its write the records are in *)
(* the memory of the process that writes: a stack's record is in the file, *)
(* about to be written back, or lost to a race.                            *)

Truncated(p) == step[p] = "truncated"
WritesBack(p, s) == snap[p][s] # None /\ (s \notin cur[p] \/ job[p] = "deploy")
Drops(p, s) == job[p] # "deploy" /\ s \in cur[p]

Kept(s) ==
  s \in lost \/ registry[s] # None \/ \E p \in Procs : Truncated(p) /\ WritesBack(p, s)
Dropping(s) == \E p \in Procs : Truncated(p) /\ Drops(p, s)

LiveAreKept == \A s \in live : Kept(s)
\* A process that takes a record away has torn the stack down, unless a deploy overlapped it.
RemovedAreGone ==
  \A p \in Procs : \A s \in live :
    Drops(p, s) /\ step[p] \in {"remove", "removing", "truncated"} => s \in lost
\* A deploy about to apply is registered.
ApplyIsRegistered ==
  \A p \in Procs : \A s \in cur[p] : step[p] = "apply" => Kept(s) \/ Dropping(s)

RecordInv ==
  /\ \A p \in Procs : Shape(p)
  /\ LiveAreKept /\ RemovedAreGone /\ ApplyIsRegistered

LEMMA RecordInit == EphInit => RecordInv
BY DEF EphInit, RecordInv, Shape, LiveAreKept, RemovedAreGone, ApplyIsRegistered

\* What a lost record can do: be written anew by a deploy that nobody tears down.
LEMMA LostStays ==
  ASSUME ProcsTyped, StacksTyped, NEW p \in Procs, ProcStep(p), NEW s \in Stacks, s \in lost
  PROVE  s \in lost' \/ (Write(p) /\ job[p] = "deploy" /\ s \in cur[p] /\ ~TornDown(s))
<1>1. CASE Starts(p)
  BY <1>1, StartsTyped
<1>2. CASE Write(p)
  BY <1>2 DEF Write
<1>3. CASE TakeTarget(p) \/ ReadToRegister(p) \/ ReadToRemove(p) \/ Truncate(p) \/ DeployStack(p)
  BY <1>3 DEF TakeTarget, ReadToRegister, ReadToRemove, Truncate, DeployStack
<1>4. CASE \/ DestroyBegins(p) \/ StateLocked(p) \/ DestroyEnds(p) \/ Audit(p)
           \/ DestroyFails(p) \/ ProcessKilled(p)
  BY <1>4 DEF DestroyBegins, StateLocked, DestroyEnds, Audit, DestroyFails, ProcessKilled
<1> QED
  BY <1>1, <1>2, <1>3, <1>4 DEF ProcStep, Work

LEMMA RegistryStays ==
  ASSUME ProcsTyped, StacksTyped, NEW p \in Procs, ProcStep(p), ~Truncate(p), ~Write(p)
  PROVE  UNCHANGED registry
<1>1. CASE Starts(p)
  BY <1>1, StartsTyped
<1>2. CASE TakeTarget(p) \/ ReadToRegister(p) \/ ReadToRemove(p) \/ DeployStack(p)
  BY <1>2 DEF TakeTarget, ReadToRegister, ReadToRemove, DeployStack
<1>3. CASE \/ DestroyBegins(p) \/ StateLocked(p) \/ DestroyEnds(p) \/ Audit(p)
           \/ DestroyFails(p) \/ ProcessKilled(p)
  BY <1>3 DEF DestroyBegins, StateLocked, DestroyEnds, Audit, DestroyFails, ProcessKilled
<1> QED
  BY <1>1, <1>2, <1>3 DEF ProcStep, Work

\* A process between truncate and write goes on with the write, or dies.
LEMMA TruncatedMoves ==
  ASSUME NEW p \in Procs, ProcStep(p), Truncated(p) PROVE Write(p) \/ ProcessKilled(p)
BY DEF Truncated, ProcStep, Work, Starts, StartDeploy, StartDestroy, StartReap, Begin, TakeTarget,
       ReadToRegister, ReadToRemove, Truncate, DeployStack, DestroyBegins, StateLocked,
       DestroyEnds, Audit, DestroyFails, At

\* A kept record stays kept, but for a process that truncates or writes to drop it.
LEMMA KeptStep ==
  ASSUME ProcsTyped, StacksTyped, NEW p \in Procs, ProcStep(p), NEW s \in Stacks, Kept(s)
  PROVE  Kept(s)' \/ ((Truncate(p) \/ Write(p)) /\ Drops(p, s))
<1>1. ASSUME NEW q \in Procs, q # p, Truncated(q), WritesBack(q, s) PROVE Kept(s)'
  <2>1. Truncated(q)' /\ WritesBack(q, s)'
    BY <1>1, OthersStay DEF Truncated, WritesBack
  <2> QED
    BY <2>1 DEF Kept
<1>2. CASE Truncate(p)
  <2>1. step'[p] = "truncated" /\ UNCHANGED <<job, cur, snap>> /\ lost' = lost \cup Changed(p)
        /\ step[p] # "truncated"
    BY <1>2 DEF Truncate, Goto, ProcsTyped
  <2>2. CASE s \in lost \/ (registry[s] # None /\ registry[s] # snap[p][s])
    BY <2>1, <2>2 DEF Changed, Kept
  <2>3. CASE registry[s] # None /\ registry[s] = snap[p][s]
    <3>1. Truncated(p)' /\ (WritesBack(p, s)' \/ Drops(p, s))
      BY <2>1, <2>3 DEF Truncated, WritesBack, Drops
    <3> QED
      BY <1>2, <3>1 DEF Kept
  <2>4. CASE \E q \in Procs : Truncated(q) /\ WritesBack(q, s)
    BY <1>1, <2>1, <2>4 DEF Truncated
  <2> QED
    BY <2>2, <2>3, <2>4 DEF Kept
<1>3. CASE Write(p) /\ ~Drops(p, s)
  <2>1. registry' = NewRegistry(p)
    BY <1>3 DEF Write
  <2>2. CASE s \in cur[p]
    BY <1>3, <2>1, <2>2, NewRegistryTyped DEF Drops, Kept
  <2>3. CASE s \notin cur[p]
    <3>1. registry'[s] = snap[p][s]
      BY <2>1, <2>3, NewRegistryTyped
    <3>2. s \in lost \cup Changed(p) => s \in lost'
      BY <1>3, <2>3 DEF Write
    <3>3. CASE s \in lost
      BY <3>2, <3>3 DEF Kept
    <3>4. CASE registry[s] # None
      BY <3>1, <3>2, <3>4 DEF Kept, Changed
    <3>5. CASE \E q \in Procs : Truncated(q) /\ WritesBack(q, s)
      <4>1. PICK q \in Procs : Truncated(q) /\ WritesBack(q, s)
        BY <3>5
      <4>2. CASE q = p
        BY <3>1, <4>1, <4>2 DEF WritesBack, Kept
      <4> QED
        BY <1>1, <4>1, <4>2
    <3> QED
      BY <3>3, <3>4, <3>5 DEF Kept
  <2> QED
    BY <2>2, <2>3
<1>4. CASE ~Truncate(p) /\ ~Write(p)
  <2>1. UNCHANGED registry /\ (s \in lost => s \in lost')
    BY <1>4, RegistryStays, LostStays
  <2>2. ASSUME Truncated(p), WritesBack(p, s) PROVE s \in lost'
    <3>1. ProcessKilled(p)
      BY <1>4, <2>2, TruncatedMoves
    <3> QED
      BY <2>2, <3>1 DEF ProcessKilled, Truncated, At, WritesBack
  <2> QED
    BY <1>1, <2>1, <2>2 DEF Kept
<1> QED
  BY <1>2, <1>3, <1>4

\* Who makes a stack live: a deploy at its apply.
LEMMA LiveStep ==
  ASSUME ProcsTyped, StacksTyped, NEW p \in Procs, ProcStep(p), NEW s \in live', s \notin live
  PROVE  /\ DeployStack(p) /\ step[p] = "apply" /\ s \in cur[p]
         /\ TornDown(s) => s \in lost'
<1>1. DeployStack(p)
  <2>1. ~Starts(p)
    BY StartsTyped
  <2>2. ~(TakeTarget(p) \/ ReadToRegister(p) \/ ReadToRemove(p) \/ Truncate(p) \/ Write(p))
    BY DEF TakeTarget, ReadToRegister, ReadToRemove, Truncate, Write, worldVars
  <2>3. ~(\/ DestroyBegins(p) \/ StateLocked(p) \/ DestroyEnds(p) \/ Audit(p)
          \/ DestroyFails(p) \/ ProcessKilled(p))
    BY DEF DestroyBegins, StateLocked, DestroyEnds, Audit, DestroyFails, ProcessKilled, worldVars
  <2> QED
    BY <2>1, <2>2, <2>3 DEF ProcStep, Work
<1> QED
  BY <1>1 DEF DeployStack, At

\* A remover at work is what TornDown sees, and a deploy is what Deploying sees.
LEMMA RemoverSeen ==
  ASSUME NEW p \in Procs, Shape(p), NEW s \in cur[p]
  PROVE  /\ Drops(p, s) /\ step[p] \in {"remove", "removing", "truncated"} => TornDown(s)
         /\ step[p] = "apply" => Deploying(s)
<1>1. step[p] \notin {"idle", "next"} => cur[p] = {s}
  BY DEF Shape, OneStack
<1> QED
  BY <1>1 DEF Shape, TornDown, Deploying, Drops

LEMMA LiveAreKeptStep ==
  ASSUME ProcsTyped, StacksTyped, RecordInv, NEW p \in Procs, ProcStep(p), NEW s \in live',
         s \in Stacks
  PROVE  Kept(s)'
<1>1. CASE s \in live
  <2>1. Kept(s)
    BY <1>1 DEF RecordInv, LiveAreKept
  <2>2. CASE (Truncate(p) \/ Write(p)) /\ Drops(p, s)
    <3>1. step[p] \in {"removing", "truncated"}
      BY <2>2 DEF Truncate, Write, At, Drops, RecordInv, Shape
    <3>2. s \in lost
      BY <1>1, <2>2, <3>1 DEF RecordInv, RemovedAreGone
    <3> QED
      BY <2>2, <3>2, LostStays DEF Drops, Kept
  <2> QED
    BY <2>1, <2>2, KeptStep
<1>2. CASE s \notin live
  <2>1. DeployStack(p) /\ step[p] = "apply" /\ s \in cur[p] /\ (TornDown(s) => s \in lost')
    BY <1>2, LiveStep
  <2>2. CASE Kept(s)
    <3>1. ~Truncate(p) /\ ~Write(p)
      BY <2>1 DEF Truncate, Write, At
    <3> QED
      BY <2>2, <3>1, KeptStep
  <2>3. CASE Dropping(s)
    <3>1. TornDown(s)
      BY <2>3, RemoverSeen DEF Dropping, Truncated, Drops, RecordInv
    <3> QED
      BY <2>1, <3>1 DEF Kept
  <2> QED
    BY <2>1, <2>2, <2>3 DEF RecordInv, ApplyIsRegistered
<1> QED
  BY <1>1, <1>2

\* How a process comes to a remover's step: from the one before it, or with the stack gone.
LEMMA RemoverMoves ==
  ASSUME ProcsTyped, NEW p \in Procs, Shape(p), ProcStep(p), NEW s \in live', Drops(p, s)',
         step'[p] \in {"remove", "removing", "truncated"}
  PROVE  Drops(p, s) /\ step[p] \in {"remove", "removing"}
<1> USE DEF Goto, ProcsTyped, Drops
<1>1. CASE Starts(p)
  BY <1>1 DEF Starts, StartDeploy, StartDestroy, StartReap, Begin
<1>2. CASE TakeTarget(p) \/ DeployStack(p) \/ ProcessKilled(p)
  BY <1>2, FinishShape DEF TakeTarget, DeployStack, ProcessKilled
<1>3. CASE ReadToRegister(p) \/ DestroyBegins(p)
  BY <1>3 DEF ReadToRegister, DestroyBegins
<1>4. CASE Truncate(p)
  BY <1>4 DEF Truncate, Shape
<1>5. CASE DestroyEnds(p)
  BY <1>5 DEF DestroyEnds
<1>6. CASE ReadToRemove(p)
  BY <1>6, NextTargetShape DEF ReadToRemove, At
<1>7. CASE Write(p) \/ StateLocked(p) \/ DestroyFails(p)
  BY <1>7, NextTargetShape DEF Write, StateLocked, DestroyFails
<1>8. CASE Audit(p)
  <2>1. CASE NextTarget(p)
    BY <2>1, NextTargetShape
  <2>2. CASE ~NextTarget(p)
    <3>1. PICK t \in cur[p] : t \notin live
      BY <1>8, <2>2 DEF Audit
    <3>2. cur[p] = {t} /\ UNCHANGED <<cur, live>>
      BY <1>8, <2>2, <3>1 DEF Audit, At, Shape, OneStack, worldVars
    <3> QED
      BY <3>1, <3>2
  <2> QED
    BY <2>1, <2>2
<1> QED
  BY <1>1, <1>2, <1>3, <1>4, <1>5, <1>6, <1>7, <1>8 DEF ProcStep, Work

LEMMA RemovedAreGoneStep ==
  ASSUME ProcsTyped, StacksTyped, RecordInv, NEW p \in Procs, ProcStep(p),
         NEW q \in Procs, NEW s \in live', s \in Stacks, Drops(q, s)',
         step'[q] \in {"remove", "removing", "truncated"}
  PROVE  s \in lost'
<1>1. Drops(q, s) /\ step[q] \in {"remove", "removing", "truncated"}
  <2>1. CASE p = q
    BY <2>1, RemoverMoves DEF RecordInv
  <2>2. CASE p # q
    BY <2>2, OthersStay DEF Drops
  <2> QED
    BY <2>1, <2>2
<1>2. TornDown(s)
  BY <1>1, RemoverSeen DEF RecordInv, Drops
<1>3. CASE s \in live
  <2>1. s \in lost
    BY <1>1, <1>3 DEF RecordInv, RemovedAreGone
  <2> QED
    BY <1>2, <2>1, LostStays
<1>4. CASE s \notin live
  BY <1>2, <1>4, LiveStep
<1> QED
  BY <1>3, <1>4

LEMMA ApplyIsRegisteredStep ==
  ASSUME ProcsTyped, StacksTyped, RecordInv, NEW p \in Procs, ProcStep(p),
         NEW q \in Procs, NEW s \in cur'[q], s \in Stacks, step'[q] = "apply"
  PROVE  Kept(s)' \/ Dropping(s)'
<1>1. CASE q = p
  <2>1. Write(p) /\ job[p] = "deploy" /\ s \in cur[p]
    <3> USE DEF Goto, ProcsTyped
    <3>1. ~Starts(p)
      BY <1>1 DEF Starts, StartDeploy, StartDestroy, StartReap, Begin
    <3>2. ~(TakeTarget(p) \/ DeployStack(p) \/ ProcessKilled(p))
      BY <1>1, FinishShape DEF TakeTarget, DeployStack, ProcessKilled
    <3>3. ~(ReadToRegister(p) \/ DestroyBegins(p) \/ Truncate(p) \/ DestroyEnds(p))
      BY <1>1 DEF ReadToRegister, DestroyBegins, Truncate, DestroyEnds
    <3>4. ~(ReadToRemove(p) \/ StateLocked(p) \/ DestroyFails(p) \/ Audit(p))
      BY <1>1, NextTargetShape DEF ReadToRemove, StateLocked, DestroyFails, Audit
    <3>5. Write(p)
      BY <3>1, <3>2, <3>3, <3>4 DEF ProcStep, Work
    <3> QED
      BY <1>1, <3>5, NextTargetShape DEF Write
  <2>2. registry'[s] # None
    BY <2>1, NewRegistryTyped DEF Write
  <2> QED
    BY <2>2 DEF Kept
<1>2. CASE q # p
  <2>1. s \in cur[q] /\ step[q] = "apply" /\ Deploying(s) /\ (Kept(s) \/ Dropping(s))
    BY <1>2, OthersStay, RemoverSeen DEF RecordInv, ApplyIsRegistered
  <2>2. ASSUME Write(p), Drops(p, s) PROVE Kept(s)'
    BY <2>1, <2>2 DEF Write, Drops, Kept
  <2>3. CASE Kept(s)
    <3>1. CASE Truncate(p) /\ Drops(p, s)
      <4>1. Truncated(p)' /\ Drops(p, s)'
        BY <3>1 DEF Truncate, Goto, ProcsTyped, Truncated, Drops
      <4> QED
        BY <4>1 DEF Dropping
    <3> QED
      BY <2>2, <2>3, <3>1, KeptStep
  <2>4. CASE Dropping(s)
    <3>1. PICK r \in Procs : Truncated(r) /\ Drops(r, s)
      BY <2>4 DEF Dropping
    <3>2. CASE r # p
      <4>1. Truncated(r)' /\ Drops(r, s)'
        BY <3>1, <3>2, OthersStay DEF Truncated, Drops
      <4> QED
        BY <4>1 DEF Dropping
    <3>3. CASE r = p /\ ProcessKilled(p)
      <4>1. snap[p][s] # None /\ step[p] = "truncated"
        BY <3>1, <3>3 DEF RecordInv, Shape, Truncated, Drops
      <4> QED
        BY <3>3, <4>1 DEF ProcessKilled, At, Kept
    <3> QED
      BY <2>2, <3>1, <3>2, <3>3, TruncatedMoves
  <2> QED
    BY <2>1, <2>3, <2>4
<1> QED
  BY <1>1, <1>2

LEMMA RecordStep ==
  ASSUME EphTypeOK, RecordInv, [EphNext]_ephVars PROVE RecordInv'
<1>1. ProcsTyped /\ StacksTyped /\ ProcsTyped' /\ StacksTyped'
  <2>1. EphTypeOK'
    BY EphStepTyped
  <2> QED
    BY <2>1 DEF EphTypeOK, ProcsTyped, StacksTyped, Steps, Jobs
<1>2. live' \subseteq Stacks /\ \A q \in Procs : cur'[q] \subseteq Stacks
  BY <1>1 DEF ProcsTyped, StacksTyped
<1>3. CASE \E p \in Procs : ProcStep(p)
  <2>1. PICK p \in Procs : ProcStep(p)
    BY <1>3
  <2>2. ASSUME NEW q \in Procs PROVE Shape(q)'
    <3>1. CASE q = p
      BY <1>1, <2>1, <3>1, ShapeStep DEF RecordInv
    <3>2. CASE q # p
      BY <1>1, <2>1, <3>2, OthersStay DEF RecordInv, Shape, OneStack
    <3> QED
      BY <3>1, <3>2
  <2>3. LiveAreKept'
    BY <1>1, <1>2, <2>1, LiveAreKeptStep DEF LiveAreKept
  <2>4. RemovedAreGone'
    BY <1>1, <1>2, <2>1, RemovedAreGoneStep DEF RemovedAreGone
  <2>5. ApplyIsRegistered'
    BY <1>1, <1>2, <2>1, ApplyIsRegisteredStep DEF ApplyIsRegistered
  <2> QED
    BY <2>2, <2>3, <2>4, <2>5 DEF RecordInv
<1>4. CASE Around \/ UNCHANGED ephVars
  <2>1. UNCHANGED <<registry, live, step, job, cur, snap, lost>>
    BY <1>4, AroundStays
  <2> QED
    BY <2>1 DEF RecordInv, Shape, OneStack, LiveAreKept, RemovedAreGone, ApplyIsRegistered, Kept,
                Dropping, Truncated, WritesBack, Drops
<1> QED
  BY <1>3, <1>4, EphNextParts

\* ephemeral.py's "single source of truth": a stack with resources in AWS has a record, through
\* failed and killed commands, unless a race took it, for any processes, stacks and times.
THEOREM LiveIsRegistered == EphSpec => []RegisteredUnlessRaced
<1>1. EphInit => EphTypeOK /\ RecordInv
  BY EphInitTyped, RecordInit
<1>2. EphTypeOK /\ RecordInv /\ [EphNext]_ephVars => (EphTypeOK /\ RecordInv)'
  BY EphStepTyped, RecordStep
<1>3. RecordInv => RegisteredUnlessRaced
  BY DEF RecordInv, LiveAreKept, Kept, Truncated, RegisteredUnlessRaced, At
<1> QED
  BY <1>1, <1>2, <1>3, PTL DEF EphSpec
=============================================================================
