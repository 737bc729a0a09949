--------------------------- MODULE MCSharedRecords ---------------------------
(* What several processes share without a lock - records, buckets, and the   *)
(* containers a remote command runs in - each component on its own: a        *)
(* behaviour is one of the four while the others rest.                       *)
EXTENDS EphemeralStacks, Orchestration, RateLimits, RemoteCommands
VARIABLE part
allVars == <<ephVars, orchVars, limitVars, remoteVars, part>>

\* "a" needs "b", which comes after it by rank; and the two needing each other.
MCGraphs ==
  {[p \in {"a", "b"} |-> IF p = "a" THEN {"b"} ELSE S] : S \in {{"elsewhere"}, {"a"}}}
MCRank == [p \in {"a", "b"} |-> IF p = "a" THEN 1 ELSE 2]

\* A deployment without a user: the target's bucket, then the global one.
MCBuckets == <<"target", "global">>
MCLimit == [k \in {"target", "global"} |-> IF k = "target" THEN 2 ELSE 1]
MCWindow == [k \in {"target", "global"} |-> IF k = "target" THEN 2 ELSE 3]

\* At rest nothing a component is fair about is enabled.
EphRests ==
  /\ registry = NoRecords /\ live = {} /\ files = [s \in Stacks |-> "rc"] /\ clock = MaxClock
  /\ step = [p \in Procs |-> "idle"] /\ job = [p \in Procs |-> "none"]
  /\ cur = [p \in Procs |-> {}] /\ targets = [p \in Procs |-> {}]
  /\ snap = [p \in Procs |-> NoRecords]
  /\ deploys = 0 /\ faults = 0 /\ lost = {}
OrchRests ==
  /\ needs = CHOOSE g \in Graphs : TRUE
  /\ strategy = "sequential" /\ rollbackOn = FALSE /\ phase = "refused"
  /\ batches = <<>> /\ errors = FALSE /\ deployments = <<>> /\ rows = <<>>
  /\ thread = [t \in Threads |-> NoJob]
  /\ retries = 0 /\ cancelling = 0 /\ orphans = {} /\ orchFaults = 0

RemoteRests ==
  /\ hook = [mode |-> "exec", once |-> FALSE] /\ withStateful = FALSE /\ given = "exec"
  /\ callAt = "over" /\ doing = "command" /\ listed = {} /\ onTask = {} /\ polls = 0
  /\ result = "failed" /\ process = [w \in Parts |-> NoProcess] /\ unheard = {}
  /\ commandFaults = 0 /\ effect = FALSE /\ taskIs = [t \in ServiceTasks |-> "gone"]

\* The hook matters to hooks, the task group to one-off tasks.
RemoteStarts ==
  /\ RemoteInit
  /\ given \notin Hooks => hook = [mode |-> "exec", once |-> FALSE]
  /\ given = "deploy hook" => hook.mode = "exec"
  /\ withStateful => AsTask

Init ==
  \/ part = "ephemeral" /\ EphInit /\ OrchRests /\ LimitInit /\ RemoteRests
  \/ part = "orchestration" /\ EphRests /\ OrchInit /\ LimitInit /\ RemoteRests
  \/ part = "limits" /\ EphRests /\ OrchRests /\ LimitInit /\ RemoteRests
  \/ part = "remote" /\ EphRests /\ OrchRests /\ LimitInit /\ RemoteStarts
Next ==
  /\ UNCHANGED part
  /\ \/ part = "ephemeral" /\ EphNext /\ UNCHANGED <<orchVars, limitVars, remoteVars>>
     \/ part = "orchestration" /\ OrchNext /\ UNCHANGED <<ephVars, limitVars, remoteVars>>
     \/ part = "limits" /\ LimitNext /\ UNCHANGED <<ephVars, orchVars, remoteVars>>
     \/ part = "remote" /\ RemoteNext /\ UNCHANGED <<ephVars, orchVars, limitVars>>
Spec == Init /\ [][Next]_allVars /\ EphFairness /\ OrchFairness

\* The type invariants of the components.
TypeOK == EphTypeOK /\ OrchTypeOK /\ LimitTypeOK /\ RemoteTypeOK
==============================================================================
