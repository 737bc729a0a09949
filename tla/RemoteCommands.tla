--------------------------- MODULE RemoteCommands ---------------------------
(***************************************************************************)
(* A command rc runs inside a stack: `rc exec` in a container that is up,  *)
(* `rc run` as a one-off task of its own, `rc lifecycle` and the hooks     *)
(* after a deploy, which do either.  ECS starts, rolls and stops the tasks *)
(* of the service meanwhile, sessions break and calls fail; what was       *)
(* started in a container goes on without rc.                              *)
(*                                                                         *)
(* The command establishes an effect (a migration, a first user) that the  *)
(* probe of a hook looks for.  Other operators may do so at any time: it   *)
(* is all this command sees of theirs.  Which revision a task is of is     *)
(* left out: among the tasks that are ready rc may take any.               *)
(***************************************************************************)
EXTENDS Naturals, FiniteSets

CONSTANTS ServiceTasks,      \* the tasks ECS starts for the service
          MaxPolls,          \* polls before a deadline
          MaxCommandFaults   \* failed calls, broken sessions and interrupts

ASSUME RemoteAssumption == MaxPolls \in Nat /\ MaxCommandFaults \in Nat

Commands == {"deploy hook", "lifecycle", "exec", "run", "run --no-wait"}
Hooks == {"deploy hook", "lifecycle"}
Parts == {"probe", "command"}

VARIABLES
  hook,        \* [mode, once]: mode and run_once of the hook in rc.yml
  withStateful,\* the service shares a task group with a stateful one
  given,       \* the rc command
  callAt,      \* the step it is at
  doing,       \* "probe" or "command"
  listed,      \* what list_tasks gave
  onTask,      \* the task of the session, as a set
  polls,       \* polls left
  result,      \* how it ended
  process,       \* part -> its process: [state, on], on no task of the service if a one-off
  unheard,     \* the parts whose exit never reached rc
  commandFaults,
  effect,      \* the command, or another operator's, has run to its end
  taskIs       \* task -> "unborn", "pending", "silent", "blocked", "ready" or "gone"

callVars == <<given, callAt, doing, listed, onTask, polls, result>>
remoteVars == <<hook, withStateful, callVars, process, unheard, commandFaults, effect, taskIs>>

NoProcess == [state |-> "none", on |-> {}]
Ended == {"exit 0", "exit 1", "killed"}

RemoteInit ==
  /\ hook \in [mode : {"exec", "task"}, once : BOOLEAN] /\ withStateful \in BOOLEAN
  /\ given \in Commands /\ callAt = "start"
  \* rc.yml refuses run_once without a probe; a probe without it is ignored
  /\ doing = IF given \in Hooks /\ hook.once THEN "probe" ELSE "command"
  /\ listed = {} /\ onTask = {} /\ polls = 0 /\ result = "none"
  /\ process = [w \in Parts |-> NoProcess] /\ unheard = {} /\ commandFaults = 0
  /\ effect = FALSE /\ taskIs = [t \in ServiceTasks |-> "unborn"]

-----------------------------------------------------------------------------
Fault == commandFaults < MaxCommandFaults /\ commandFaults' = commandFaults + 1
NoFault == UNCHANGED commandFaults
Reach(step) == callAt' = step
Elsewhere == UNCHANGED <<hook, withStateful, given, effect, taskIs>>

End(how) ==
  /\ Reach("over") /\ result' = how
  /\ listed' = {} /\ onTask' = {} /\ polls' = 0 /\ UNCHANGED doing

\* An ExecResult: that of a probe decides whether the command runs at all.
Return(code) ==
  IF doing = "probe" /\ code # 0
  THEN /\ Reach("start") /\ doing' = "command"
       /\ listed' = {} /\ onTask' = {} /\ polls' = 0 /\ UNCHANGED result
  ELSE End(IF code # 0 THEN "failed" ELSE IF doing = "probe" THEN "skipped" ELSE "ok")

\* An exception ends the rc command; after a deploy the other hooks do not run either.
Raise == End("raised")

\* Only rc lifecycle looks at the mode of a hook; the hooks after a deploy exec whatever it
\* is (docs/one_off_tasks.md 30-31 says that they run as tasks too).
AsTask ==
  \/ given \in {"run", "run --no-wait"}
  \/ given = "lifecycle" /\ hook.mode = "task"

-----------------------------------------------------------------------------
(* exec *)

StartExec ==
  /\ callAt = "start" /\ ~AsTask /\ Reach("list")
  /\ polls' = MaxPolls
  /\ UNCHANGED <<doing, listed, onTask, result, process, unheard>> /\ NoFault /\ Elsewhere

\* list_tasks with desiredStatus RUNNING gives the tasks that are still starting too.
Listable == {t \in ServiceTasks : taskIs[t] \notin {"unborn", "gone"}}
ListTasks ==
  /\ callAt = "list"
  /\ listed' = Listable /\ Reach(IF Listable = {} THEN "clock" ELSE "describe")
  /\ UNCHANGED <<doing, onTask, polls, result, process, unheard>> /\ NoFault /\ Elsewhere

ListFails ==
  /\ callAt = "list" /\ Raise /\ Fault /\ UNCHANGED <<process, unheard>> /\ Elsewhere

\* A task that has not reported its agent passes for ready; one that is not RUNNING is
\* neither ready nor blocked, and the fallback takes it.
Attachable(S) == {t \in S : taskIs[t] \in {"silent", "ready"}}
Chosen(S) ==
  IF Attachable(S) # {} THEN Attachable(S) ELSE listed \ {t \in S : taskIs[t] = "blocked"}

\* describe_tasks; a failure leaves every listed task as good as another.
Describe ==
  /\ callAt = "describe"
  /\ \E S \in {listed, {}} :
       /\ IF S = {} THEN Fault ELSE NoFault
       /\ \/ Chosen(S) = {} /\ Reach("clock") /\ UNCHANGED onTask
          \/ \E t \in Chosen(S) : Reach("session") /\ onTask' = {t}
  /\ listed' = {}
  /\ UNCHANGED <<doing, polls, result, process, unheard>> /\ Elsewhere

PollAgain ==
  /\ Reach("list") /\ polls' = polls - 1
  /\ UNCHANGED <<doing, listed, onTask, result>>

WatchClock ==
  /\ callAt = "clock"
  /\ \/ polls = 0 /\ Return(1)
     \/ polls > 0 /\ PollAgain
  /\ UNCHANGED <<process, unheard>> /\ NoFault /\ Elsewhere

\* Variant: proc.returncode as it is.
ExitAsIs(returncode) == returncode

\* The exit code where the output lacks a sentinel: proc.returncode or 1.
ExitWithoutSentinels(returncode) == IF returncode = 0 THEN 1 ELSE returncode

OpenSession ==
  /\ callAt = "session" /\ \A t \in onTask : taskIs[t] = "ready"
  /\ Reach("attached")
  /\ process' = [process EXCEPT ![doing] = [state |-> "running", on |-> onTask]]
  /\ UNCHANGED <<doing, listed, onTask, polls, result, unheard>> /\ NoFault /\ Elsewhere

\* execute-command on a task that is not up with its agent, or a session that never opens.
SessionRefused ==
  /\ callAt = "session"
  /\ IF \A t \in onTask : taskIs[t] = "ready" THEN Fault ELSE NoFault
  /\ \E returncode \in {0, 1} : Return(ExitWithoutSentinels(returncode))
  /\ UNCHANGED <<process, unheard>> /\ Elsewhere

State == process[doing].state
Unheard == unheard' = unheard \cup {doing}

\* The sentinels carry the exit code of the process.
SessionReturns ==
  /\ callAt = "attached" /\ State \in {"exit 0", "exit 1"}
  /\ Return(IF State = "exit 0" THEN 0 ELSE 1)
  /\ UNCHANGED <<process, unheard>> /\ NoFault /\ Elsewhere

\* The process may go on or go down with its session.
SessionDrops ==
  /\ callAt = "attached"
  /\ IF State = "killed" THEN NoFault ELSE Fault
  /\ \E returncode \in {0, 1} : Return(ExitWithoutSentinels(returncode))
  /\ Unheard
  /\ process' \in {process, [process EXCEPT ![doing].state = IF @ = "running" THEN "killed" ELSE @]}
  /\ Elsewhere

\* subprocess.TimeoutExpired: 124, and the process in the container is left alone.
SessionTimesOut ==
  /\ callAt = "attached" /\ State = "running"
  /\ Return(124) /\ Unheard
  /\ UNCHANGED process /\ NoFault /\ Elsewhere

-----------------------------------------------------------------------------
(* run_one_off *)

RunTask ==
  /\ callAt = "start" /\ AsTask /\ ~withStateful
  /\ process' = [process EXCEPT ![doing] = [state |-> "placing", on |-> {}]]
  /\ \/ given = "run --no-wait" /\ End("submitted")
     \/ /\ given # "run --no-wait" /\ Reach("waiter") /\ polls' = MaxPolls
        /\ UNCHANGED <<doing, listed, onTask, result>>
  /\ UNCHANGED unheard /\ NoFault /\ Elsewhere

\* _check_run_one_off_group refuses; describe_services or run_task fails.
RunTaskFails ==
  /\ callAt = "start" /\ AsTask
  /\ IF withStateful THEN NoFault ELSE Fault
  /\ Raise /\ UNCHANGED <<process, unheard>> /\ Elsewhere

\* The tasks_stopped waiter raises when its attempts are used up.
WaiterPolls ==
  /\ callAt = "waiter"
  /\ \/ /\ State \in Ended /\ Reach("read")
        /\ UNCHANGED <<doing, listed, onTask, polls, result, unheard>>
     \/ /\ State \notin Ended /\ polls > 0 /\ polls' = polls - 1
        /\ UNCHANGED <<callAt, doing, listed, onTask, result, unheard>>
     \/ State \notin Ended /\ polls = 0 /\ Raise /\ Unheard
  /\ UNCHANGED process /\ NoFault /\ Elsewhere

\* A container that never ran to its end has no exit code, and 1 is returned.
ReadExit ==
  /\ callAt = "read"
  /\ Return(IF State = "exit 0" THEN 0 ELSE 1)
  /\ UNCHANGED <<process, unheard>> /\ NoFault /\ Elsewhere

\* Another call raises, or the user interrupts.
Interrupted ==
  /\ callAt # "over" /\ Raise /\ Fault /\ Unheard
  /\ UNCHANGED process /\ Elsewhere

-----------------------------------------------------------------------------
(* The containers, ECS and the other operators *)

Outside == UNCHANGED <<hook, withStateful, callVars, unheard, commandFaults>>
Becomes(w, state) == process' = [process EXCEPT ![w].state = state]

\* A probe finds the effect or does not; a command may fail without it.
ProbeEnds ==
  /\ process["probe"].state = "running"
  /\ Becomes("probe", IF effect THEN "exit 0" ELSE "exit 1")
  /\ Outside /\ UNCHANGED <<effect, taskIs>>
CommandRunsToItsEnd ==
  /\ process["command"].state = "running"
  /\ \/ Becomes("command", "exit 0") /\ effect' = TRUE
     \/ Becomes("command", "exit 1") /\ UNCHANGED effect
  /\ Outside /\ UNCHANGED taskIs

\* A one-off is placed, or its task stops before or while its container runs.
PlaceOneOff(w) ==
  /\ process[w].state = "placing" /\ Becomes(w, "running")
  /\ Outside /\ UNCHANGED <<effect, taskIs>>
OneOffStops(w) ==
  /\ process[w].on = {} /\ process[w].state \in {"placing", "running"} /\ Becomes(w, "killed")
  /\ Outside /\ UNCHANGED <<effect, taskIs>>

\* A blocked task waits for its agent, or started before enableExecuteCommand was set.
NextLife == [s \in {"unborn", "pending", "silent", "blocked"} |->
  CASE s = "unborn" -> {"pending"}
    [] s = "pending" -> {"silent", "blocked"}
    [] s = "silent" -> {"blocked"}
    [] s = "blocked" -> {"ready"}]
TaskComesUp(t) ==
  /\ taskIs[t] \in DOMAIN NextLife
  /\ \E s \in NextLife[taskIs[t]] : taskIs' = [taskIs EXCEPT ![t] = s]
  /\ Outside /\ UNCHANGED <<effect, process>>

\* The processes of a session end with the task they are in.
StopTask(t) ==
  /\ t \in Listable /\ taskIs' = [taskIs EXCEPT ![t] = "gone"]
  /\ process' = [w \in Parts |->
       IF process[w].state = "running" /\ t \in process[w].on
       THEN [process[w] EXCEPT !.state = "killed"] ELSE process[w]]
  /\ Outside /\ UNCHANGED effect

EffectElsewhere ==
  /\ ~effect /\ effect' = TRUE /\ Outside /\ UNCHANGED <<process, taskIs>>

-----------------------------------------------------------------------------
CallStep ==
  \/ StartExec \/ ListTasks \/ ListFails \/ Describe \/ WatchClock
  \/ OpenSession \/ SessionRefused \/ SessionReturns \/ SessionDrops \/ SessionTimesOut
  \/ RunTask \/ RunTaskFails \/ WaiterPolls \/ ReadExit
RemoteNext ==
  \/ CallStep \/ Interrupted
  \/ ProbeEnds \/ CommandRunsToItsEnd \/ EffectElsewhere
  \/ \E w \in Parts : PlaceOneOff(w) \/ OneOffStops(w)
  \/ \E t \in ServiceTasks : TaskComesUp(t) \/ StopTask(t)

RemoteSpec == RemoteInit /\ [][RemoteNext]_remoteVars

-----------------------------------------------------------------------------
(* Properties *)

RemoteTypeOK ==
  /\ hook \in [mode : {"exec", "task"}, once : BOOLEAN] /\ withStateful \in BOOLEAN
  /\ given \in Commands /\ doing \in Parts
  /\ callAt \in {"start", "list", "describe", "clock", "session", "attached", "waiter",
                 "read", "over"}
  /\ listed \subseteq ServiceTasks /\ onTask \subseteq ServiceTasks /\ polls \in 0..MaxPolls
  /\ result \in {"none", "ok", "failed", "skipped", "raised", "submitted"}
  /\ process \in [Parts -> [state : {"none", "placing", "running"} \cup Ended,
                          on : SUBSET ServiceTasks]]
  /\ unheard \subseteq Parts /\ commandFaults \in 0..MaxCommandFaults /\ effect \in BOOLEAN
  /\ taskIs \in [ServiceTasks -> DOMAIN NextLife \cup {"ready", "gone"}]

\* What rc says of a command is what happened in the container, through refused, broken and
\* timed-out sessions and tasks that are replaced: "ok" only if it ran to its end, "failed" of
\* one that did only if its exit was never heard, "skipped" only if the effect is there, and
\* a hook whose probe was heard to find the effect does not run again
\* (provider.py 6114-6147, 6484-6523, cli_v2.py 1328-1345).
ReportIsTrue ==
  /\ result = "ok" => process["command"].state = "exit 0"
  /\ result = "failed" /\ process["command"].state = "exit 0" => "command" \in unheard
  /\ result = "skipped" => effect
  /\ process["probe"].state = "exit 0" /\ process["command"].state # "none" => "probe" \in unheard

=============================================================================
