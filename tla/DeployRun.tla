------------------------------ MODULE DeployRun ------------------------------
(***************************************************************************)
(* ECSProvider.deploy from its terraform apply to its roll: which image    *)
(* groups are built, the re-tag fast path of --tag, the no-cache sentinel  *)
(* that `rc fix` leaves, the parallel build and push, and the roll of      *)
(* every service whose image was pushed.  Deploys follow one another in    *)
(* one project directory; each may fail or be killed at any step and the   *)
(* next one starts from what it left in ECR, in the build cache and in ECS.*)
(*                                                                         *)
(* An image is the version of the sources it was built from; 0 is none.    *)
(***************************************************************************)
EXTENDS Integers, FiniteSets, Sequences

CONSTANTS
  Order,       \* the services of the stack in declaration order, a sequence
  Identity,    \* [Service -> build identity], NoBuild for a pre-built image
  NoBuild,
  ShareRepos,  \* share_image_repos
  AutoRoll,    \* services that are not opted out with auto_roll: false
  Tags,        \* tags a user may pass with --tag, none of them "latest"
  Filters,     \* --services values a user may pass; {} stands for none
  Workers,     \* threads of the local build backend
  MaxVersion,  \* bound: versions of one group's sources
  MaxFixes,    \* bound: `rc fix` runs
  MaxDeploys   \* bound: deploys

Service == {Order[i] : i \in DOMAIN Order}
Buildable == {s \in Service : Identity[s] # NoBuild}
Version == 0..MaxVersion

ASSUME DeployAssumption ==
  /\ Order \in Seq(Service)
  /\ DOMAIN Identity = Service
  /\ AutoRoll \subseteq Service
  /\ ShareRepos \in BOOLEAN
  /\ "latest" \notin Tags /\ "none" \notin Tags
  /\ {} \in Filters /\ \A f \in Filters : f \subseteq Service
  /\ Workers \in Nat \ {0}
  /\ MaxVersion \in Nat \ {0} /\ MaxFixes \in Nat /\ MaxDeploys \in Nat

----------------------------------------------------------------------------
(* Image groups *)

SameImage(s, t) == IF ShareRepos THEN Identity[s] = Identity[t] ELSE s = t

(* The first-declared service of a group owns its repository. *)
Owner(s) ==
  Order[CHOOSE i \in DOMAIN Order :
          /\ SameImage(Order[i], s)
          /\ \A j \in DOMAIN Order : SameImage(Order[j], s) => i <= j]

Owners == {s \in Buildable : Owner(s) = s}
Members(o) == {s \in Buildable : Owner(s) = o}

(* Variant: every member of a group is built. *)
BuildEveryMember(filter) == {s \in Buildable : filter = {} \/ s \in filter}

(* One build per group; a filter that names a sibling builds its owner. *)
ServicesToBuild(filter) ==
  IF filter = {} THEN Owners \cap AutoRoll
  ELSE {o \in Owners : Members(o) \cap filter # {}}

(* Variant: only the services whose names were returned. *)
RollPushedOnly(pushed) == pushed

RollTargets(pushed) == {s \in Buildable : Owner(s) \in pushed}

----------------------------------------------------------------------------
VARIABLES
  source,    \* [Owners -> version of the build context on disk]
  cached,    \* [Owners -> version of the layers in the build cache]
  stale,     \* owners whose cached layers a build may still hit after a fix
  sentinel,  \* .rc/no-cache-next-build exists
  ecr,       \* [Owners -> [Tags and "latest" -> image]]
  running,   \* [Buildable -> image its tasks run]
  pc,        \* where the deploy stands, "idle" between deploys
  args,      \* what it was called with
  noCache,   \* the sentinel was found
  todo,      \* owners not yet resolved to a build or a re-tag
  specs,     \* owners handed to the build backend
  job,       \* [Owners -> state of its build]
  image,     \* [Owners -> image in the local store]
  pushed,    \* owners reported as pushed
  toRoll,    \* services still to roll
  outcome,   \* of the last deploy
  atStart,   \* history: the sources when the deploy began
  excused,   \* history: owners built from stale layers or without a push
  deploys, fixes

local == <<noCache, todo, specs, job, image, pushed, toRoll>>
disk == <<source, cached, stale, sentinel, fixes>>
vars == <<disk, ecr, running, pc, args, local, outcome, atStart, excused, deploys>>

(* The flags of `rc deploy` and build.push of rc.yml.  --no-build looks at neither a tag
   nor the push mode; --no-roll with a tag is left out, what it leaves behind is also
   left by a deploy killed before its roll. *)
Args ==
  {a \in [filter : Filters, tag : Tags \cup {"none"}, noBuild : BOOLEAN, noRoll : BOOLEAN,
          push : BOOLEAN] :
     /\ a.noBuild => a.tag = "none" /\ ~a.push
     /\ a.noRoll => a.tag = "none"}
NoArgs == [filter |-> {}, tag |-> "none", noBuild |-> FALSE, noRoll |-> FALSE, push |-> FALSE]
AllTags == Tags \cup {"latest"}

TypeOK ==
  /\ source \in [Owners -> Version] /\ cached \in [Owners -> Version]
  /\ stale \subseteq Owners
  /\ sentinel \in BOOLEAN
  /\ ecr \in [Owners -> [AllTags -> Version]]
  /\ running \in [Buildable -> Version]
  /\ pc \in {"idle", "apply", "plan", "resolve", "build", "roll"}
  /\ args \in Args
  /\ noCache \in BOOLEAN
  /\ todo \subseteq Owners /\ specs \subseteq Owners \ todo
  /\ job \in [Owners -> {"none", "queued", "building", "tagging", "pushing", "done", "failed"}]
  /\ image \in [Owners -> Version]
  /\ pushed \subseteq Owners
  /\ toRoll \subseteq Service
  /\ outcome \in {"none", "ok", "failed"}
  /\ atStart \in [Owners -> Version]
  /\ excused \subseteq Owners
  /\ deploys \in 0..MaxDeploys /\ fixes \in 0..MaxFixes

(* A stack that was deployed once, from version 1 of every source. *)
Init ==
  /\ source = [o \in Owners |-> 1] /\ cached = [o \in Owners |-> 1]
  /\ stale = {} /\ sentinel = FALSE
  /\ ecr = [o \in Owners |-> [t \in AllTags |-> IF t = "latest" THEN 1 ELSE 0]]
  /\ running = [s \in Buildable |-> 1]
  /\ pc = "idle"
  /\ args = NoArgs
  /\ noCache = FALSE
  /\ todo = {} /\ specs = {} /\ pushed = {} /\ toRoll = {}
  /\ job = [o \in Owners |-> "none"] /\ image = [o \in Owners |-> 0]
  /\ outcome = "none"
  /\ atStart = [o \in Owners |-> 0] /\ excused = {}
  /\ deploys = 0 /\ fixes = 0

----------------------------------------------------------------------------
(* The developer *)

Edit(o) ==
  /\ source[o] < MaxVersion
  /\ source' = [source EXCEPT ![o] = @ + 1]
  /\ UNCHANGED <<cached, stale, sentinel, fixes, ecr, running, pc, args, local, outcome,
                 atStart, excused, deploys>>

(* `rc fix` rewrites files of a build context, which a cached layer may hide, and
   drops the sentinel. *)
Fix(o) ==
  /\ source[o] < MaxVersion /\ fixes < MaxFixes
  /\ source' = [source EXCEPT ![o] = @ + 1]
  /\ stale' = stale \cup {o}
  /\ sentinel' = TRUE
  /\ fixes' = fixes + 1
  /\ UNCHANGED <<cached, ecr, running, pc, args, local, outcome, atStart, excused, deploys>>

----------------------------------------------------------------------------
(* The deploy *)

(* What the process holds in memory goes with it. *)
Forget ==
  /\ noCache' = FALSE
  /\ todo' = {} /\ specs' = {} /\ pushed' = {} /\ toRoll' = {}
  /\ job' = [o \in Owners |-> "none"] /\ image' = [o \in Owners |-> 0]
  /\ excused' = {}

Fail ==
  /\ pc' = "idle" /\ outcome' = "failed"
  /\ Forget
  /\ args' = NoArgs /\ atStart' = [o \in Owners |-> 0]
  /\ UNCHANGED <<disk, ecr, running, deploys>>

Begin(a) ==
  /\ pc = "idle" /\ deploys < MaxDeploys
  /\ pc' = "apply"
  /\ args' = a
  /\ outcome' = "none"
  /\ deploys' = deploys + 1
  /\ Forget
  /\ atStart' = source
  /\ UNCHANGED <<disk, ecr, running>>

(* An exception of any step, a preflight refusal or Ctrl-C: the deploy ends where it
   stands and nothing is undone. *)
Abort == pc # "idle" /\ Fail

(* --no-build rolls what the filter names, or everything, onto the images there are. *)
Applied ==
  /\ pc = "apply"
  /\ IF args.noBuild
       THEN /\ pc' = "roll"
            /\ toRoll' = IF args.noRoll THEN {}
                         ELSE IF args.filter = {} THEN Service ELSE args.filter
       ELSE pc' = "plan" /\ UNCHANGED toRoll
  /\ UNCHANGED <<disk, ecr, running, args, noCache, todo, specs, job, image, pushed, outcome,
                 atStart, excused, deploys>>

(* Nothing to build returns before the sentinel is looked at; else it is consumed,
   whatever this deploy goes on to build. *)
PlanBuild ==
  /\ pc = "plan"
  /\ LET build == ServicesToBuild(args.filter)
     IN  IF build = {}
           THEN pc' = "roll" /\ UNCHANGED <<noCache, sentinel, todo>>
           ELSE /\ pc' = "resolve"
                /\ todo' = build
                /\ noCache' = sentinel
                /\ sentinel' = FALSE
  /\ UNCHANGED <<source, cached, stale, fixes, ecr, running, args, specs, job, image, pushed,
                 toRoll, outcome, atStart, excused, deploys>>

(* Variant: every tag is built anew. *)
TagFoundNever(o) == FALSE

TagFound(o) == args.tag # "none" /\ ecr[o][args.tag] # 0

(* Variant: the found image is reported, but :latest stays where it was. *)
RetagForgotten(o) ==
  /\ TagFound(o)
  /\ pushed' = pushed \cup {o}
  /\ UNCHANGED <<ecr, specs, job>>

(* An image that is there under the requested tag becomes :latest without a build. *)
Retag(o) ==
  /\ TagFound(o)
  /\ ecr' = [ecr EXCEPT ![o]["latest"] = ecr[o][args.tag]]
  /\ pushed' = pushed \cup {o}
  /\ UNCHANGED <<specs, job>>

QueueBuild(o) ==
  /\ ~TagFound(o)
  /\ specs' = specs \cup {o}
  /\ job' = [job EXCEPT ![o] = "queued"]
  /\ UNCHANGED <<ecr, pushed>>

Resolve(o) ==
  /\ pc = "resolve" /\ o \in todo
  /\ todo' = todo \ {o}
  /\ Retag(o) \/ QueueBuild(o)
  /\ UNCHANGED <<disk, running, pc, args, noCache, image, toRoll, outcome, atStart, excused,
                 deploys>>

Resolved ==
  /\ pc = "resolve" /\ todo = {}
  /\ pc' = "build"
  /\ UNCHANGED <<disk, ecr, running, args, local, outcome, atStart, excused, deploys>>

----------------------------------------------------------------------------
(* The local build backend *)

Active == {o \in specs : job[o] \in {"building", "tagging", "pushing"}}
Failed == {o \in specs : job[o] = "failed"}

(* A pool of threads goes on with the other groups when one has failed; a single
   worker runs in the caller and stops there. *)
PoolSize == IF Workers < Cardinality(specs) THEN Workers ELSE Cardinality(specs)

StartBuild(o) ==
  /\ pc = "build" /\ o \in specs /\ job[o] = "queued"
  /\ Cardinality(Active) < PoolSize
  /\ PoolSize > 1 \/ Failed = {}
  /\ job' = [job EXCEPT ![o] = "building"]
  /\ UNCHANGED <<disk, ecr, running, pc, args, noCache, todo, specs, image, pushed, toRoll,
                 outcome, atStart, excused, deploys>>

(* What a build of o can yield: the sources, or cached layers that hide a fix. *)
Yields(o) == {source[o]} \cup (IF o \in stale /\ ~noCache THEN {cached[o]} ELSE {})

(* The layers go to the registry cache too, unless there is no buildx builder or the
   watchdog killed a silent build and it was run again without --cache-to. *)
Built(o, v) ==
  /\ image' = [image EXCEPT ![o] = v]
  /\ \/ /\ cached' = [cached EXCEPT ![o] = v]
        /\ stale' = IF v = source[o] THEN stale \ {o} ELSE stale
     \/ UNCHANGED <<cached, stale>>
  /\ UNCHANGED <<source, sentinel, fixes>>

(* --load leaves the image in the local store, and its tags are pushed one by one. *)
BuildLoaded(o, v) ==
  /\ ~args.push
  /\ job' = [job EXCEPT ![o] = IF args.tag = "none" THEN "pushing" ELSE "tagging"]
  /\ excused' = IF v = source[o] THEN excused ELSE excused \cup {o}
  /\ UNCHANGED ecr

(* --push exports every tag from the build itself. *)
BuildPushed(o, v) ==
  /\ args.push
  /\ job' = [job EXCEPT ![o] = "done"]
  /\ ecr' = [ecr EXCEPT ![o] = [t \in AllTags |->
                IF t = "latest" \/ t = args.tag THEN v ELSE ecr[o][t]]]
  /\ excused' = IF v = source[o] THEN excused ELSE excused \cup {o}

BuildDone(o) ==
  /\ pc = "build" /\ job[o] = "building"
  /\ \E v \in Yields(o) : Built(o, v) /\ (BuildLoaded(o, v) \/ BuildPushed(o, v))
  /\ UNCHANGED <<running, pc, args, noCache, todo, specs, pushed, toRoll, outcome, atStart,
                 deploys>>

(* Without a buildx builder --push degrades to a plain docker build, which pushes
   nothing, and the separate push is skipped because push was asked for. *)
BuildDegraded(o) ==
  /\ pc = "build" /\ job[o] = "building" /\ args.push
  /\ image' = [image EXCEPT ![o] = source[o]]
  /\ job' = [job EXCEPT ![o] = "done"]
  /\ excused' = excused \cup {o}
  /\ UNCHANGED <<disk, ecr, running, pc, args, noCache, todo, specs, pushed, toRoll, outcome,
                 atStart, deploys>>

(* Variant: the push stops after the first tag. *)
PushFirstTag(o) ==
  /\ pc = "build" /\ job[o] \in {"tagging", "pushing"}
  /\ ecr' = [ecr EXCEPT ![o][IF job[o] = "tagging" THEN args.tag ELSE "latest"] = image[o]]
  /\ job' = [job EXCEPT ![o] = "done"]
  /\ UNCHANGED <<disk, running, pc, args, noCache, todo, specs, image, pushed, toRoll, outcome,
                 atStart, excused, deploys>>

(* The requested tag goes first, :latest last. *)
PushTag(o) ==
  /\ pc = "build"
  /\ \/ /\ job[o] = "tagging"
        /\ ecr' = [ecr EXCEPT ![o][args.tag] = image[o]]
        /\ job' = [job EXCEPT ![o] = "pushing"]
     \/ /\ job[o] = "pushing"
        /\ ecr' = [ecr EXCEPT ![o]["latest"] = image[o]]
        /\ job' = [job EXCEPT ![o] = "done"]
  /\ UNCHANGED <<disk, running, pc, args, noCache, todo, specs, image, pushed, toRoll, outcome,
                 atStart, excused, deploys>>

JobFails(o) ==
  /\ pc = "build" /\ o \in Active
  /\ job' = [job EXCEPT ![o] = "failed"]
  /\ UNCHANGED <<disk, ecr, running, pc, args, noCache, todo, specs, image, pushed, toRoll,
                 outcome, atStart, excused, deploys>>

----------------------------------------------------------------------------
(* Variant: the groups that were built are rolled although another one failed. *)
BackendReturnsLenient ==
  /\ pc = "build" /\ Active = {}
  /\ \A o \in specs : job[o] \in {"done", "failed"}
  /\ pushed' = pushed \cup (specs \ Failed)
  /\ pc' = "roll"
  /\ toRoll' = IF args.noRoll THEN {} ELSE RollTargets(pushed')
  /\ UNCHANGED <<disk, ecr, running, args, noCache, todo, specs, job, image, outcome, atStart,
                 excused, deploys>>

BackendReturns ==
  /\ pc = "build"
  /\ \A o \in specs : job[o] = "done"
  /\ pushed' = pushed \cup specs
  /\ pc' = "roll"
  /\ toRoll' = IF args.noRoll THEN {} ELSE RollTargets(pushed')
  /\ UNCHANGED <<disk, ecr, running, args, noCache, todo, specs, job, image, outcome, atStart,
                 excused, deploys>>

(* Variant: it waits for every group to fail. *)
BackendRaisesLate ==
  /\ pc = "build" /\ Failed # {} /\ Failed = specs
  /\ Fail

(* The first failure is raised once no thread is at work any more. *)
BackendRaises ==
  /\ pc = "build" /\ Active = {} /\ Failed # {}
  /\ PoolSize > 1 => \A o \in specs : job[o] # "queued"
  /\ Fail

(* The new tasks of a rolled service pull :latest. *)
RollService(s) ==
  /\ pc = "roll" /\ s \in toRoll
  /\ toRoll' = toRoll \ {s}
  /\ running' = IF s \in Buildable THEN [running EXCEPT ![s] = ecr[Owner(s)]["latest"]]
                ELSE running
  /\ UNCHANGED <<disk, ecr, pc, args, noCache, todo, specs, job, image, pushed, outcome, atStart,
                 excused, deploys>>

Finish ==
  /\ pc = "roll" /\ toRoll = {}
  /\ pc' = "idle" /\ outcome' = "ok"
  /\ UNCHANGED <<disk, ecr, running, args, local, atStart, excused, deploys>>

DeployStep ==
  \/ Applied \/ PlanBuild \/ Resolved \/ BackendReturns \/ BackendRaises \/ Finish
  \/ \E o \in Owners : \/ Resolve(o) \/ StartBuild(o) \/ BuildDone(o) \/ BuildDegraded(o)
                       \/ PushTag(o) \/ JobFails(o)
  \/ \E s \in Service : RollService(s)

Next ==
  \/ DeployStep \/ Abort
  \/ \E a \in Args : Begin(a)
  \/ \E o \in Owners : Edit(o) \/ Fix(o)

(* terraform, docker and the AWS calls return at some point. *)
Spec == Init /\ [][Next]_vars /\ WF_vars(DeployStep)

----------------------------------------------------------------------------
(* Properties *)

Green == pc = "idle" /\ outcome = "ok"

(* A green deploy leaves no sibling behind: all services of a group whose image it
   pushed run that group's :latest (roll_targets_for_pushed, provider.py 1480-1495). *)
SiblingsAgree ==
  Green /\ ~args.noRoll =>
    \A o \in pushed : \A s \in Members(o) : running[s] = ecr[o]["latest"]

(* A green `--tag X` runs exactly what ECR holds under X, built now, built by an
   earlier deploy that failed half way, or re-tagged (provider.py 3803-3809). *)
TagDeployRunsTag ==
  Green /\ ~args.noRoll /\ args.tag # "none" =>
    \A o \in pushed : \A s \in Members(o) :
      ecr[o][args.tag] # 0 => running[s] = ecr[o][args.tag]

(* A tag that a push completed under names that image for ever; only :latest moves. *)
TagsAreImmutable ==
  [][\A o \in Owners, t \in Tags : ecr[o][t] # 0 => ecr'[o][t] = ecr[o][t]]_vars

(* "A broken image group fails the whole deploy" (BuildBackend, backend.py 146-153):
   no service is rolled in a deploy one of whose builds failed. *)
BrokenGroupRollsNothing == [][Failed # {} => UNCHANGED running]_vars

(* Nothing older than the sources a green deploy started from runs afterwards in the
   groups it built, whatever earlier deploys left in ECR, the cache's known staleness
   and the degraded push aside. *)
GreenIsFresh ==
  Green /\ ~args.noRoll =>
    \A o \in specs \ excused : \A s \in Members(o) : running[s] >= atStart[o]

(* A deploy comes to an end. *)
DeployEnds == pc # "idle" ~> pc = "idle"

(* What the sentinel is for (no_cache_state.py 1-17): after an `rc fix` the next green
   build of the group does not deploy the layers from before the fix. *)
FixIsNotHidden ==
  Green /\ ~args.push => \A o \in specs : image[o] >= atStart[o]

(* The contract of a build backend (backend.py 146-153): the services it returns were
   built and pushed. *)
ReturnedIsPushed ==
  Green => \A o \in specs : ecr[o]["latest"] = image[o]

----------------------------------------------------------------------------
(* The inductive invariant behind the safety properties *)

(* Who is where: an owner is unresolved, re-tagged or in the build, never two of them,
   and nobody gets past the build with a job that is not done. *)
PhaseInv ==
  /\ \A o \in Owners \ specs : job[o] = "none"
  /\ todo # {} => pc = "resolve"
  /\ pc \in {"apply", "plan"} => specs = {} /\ pushed = {}
  /\ pc \in {"resolve", "build"} => pushed \cap (todo \cup specs) = {}
  /\ pc = "resolve" => \A o \in specs : job[o] = "queued"
  /\ pc \in {"roll", "idle"} => specs \subseteq pushed /\ \A o \in specs : job[o] = "done"
  /\ pc # "roll" => toRoll = {}

(* What ECR holds under the requested tag while a build of the group is on its way, and
   after it: a build that pushed nothing has left the tag unset. *)
TagInv ==
  \A o \in Owners :
    /\ job[o] = "tagging" => args.tag # "none"
    /\ args.tag # "none" =>
         /\ job[o] \in {"queued", "building", "tagging"} => ecr[o][args.tag] = 0
         /\ job[o] = "pushing" => ecr[o][args.tag] = image[o]
         /\ job[o] = "done" \/ o \in pushed => ecr[o][args.tag] \in {0, ecr[o]["latest"]}

(* A sibling runs its group's :latest or is still to be rolled. *)
RollInv ==
  (pc = "roll" \/ Green) /\ ~args.noRoll =>
    \A o \in pushed : \A s \in Members(o) : s \in toRoll \/ running[s] = ecr[o]["latest"]

(* What a build not excused has made is as new as the deploy, and was pushed. *)
FreshInv ==
  /\ \A o \in Owners : source[o] >= atStart[o]
  /\ \A o \in specs \ excused :
       /\ job[o] \in {"tagging", "pushing", "done"} => image[o] >= atStart[o]
       /\ job[o] = "done" => ecr[o]["latest"] = image[o]

IInv == TypeOK /\ PhaseInv /\ TagInv /\ RollInv /\ FreshInv
=============================================================================
