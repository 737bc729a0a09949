--------------------------- MODULE DevHostRegistry ---------------------------
(***************************************************************************)
(* The registry of dev hosts, .rc/dev-hosts.yml, under concurrent `rc dev` *)
(* processes: DevHostService.create_host, stop_host, start_host and        *)
(* destroy_host with _locked_state, _load_state and _save_state, against   *)
(* the boxes terraform and EC2 keep.                                       *)
(*                                                                         *)
(* The file is modelled at the granularity of its system calls, because    *)
(* _locked_state truncates it under the lock and writes through a buffer   *)
(* that only close() flushes, after the lock is gone.                      *)
(***************************************************************************)
EXTENDS Naturals, FiniteSets

CONSTANTS
  Proc,        \* rc processes
  Host,        \* names of dev hosts
  MaxCommands, \* bound: commands over all processes
  MaxCrashes   \* bound: processes killed

ASSUME RegistryAssumption ==
  /\ "free" \notin Proc
  /\ Host # {}
  /\ MaxCommands \in Nat /\ MaxCrashes \in Nat

Commands == {"up", "stop", "start", "destroy", "force-destroy"}

(* A record keeps the status rc last wrote and whether the instance id is known. *)
Record == [status : {"running", "pending", "stopped", "failed"}, id : BOOLEAN]
Absent == [status |-> "absent", id |-> FALSE]
Registry == [Host -> Record \cup {Absent}]
Empty == [h \in Host |-> Absent]
NoHost == CHOOSE h \in Host : TRUE   \* what an idle process is about, read by nobody

VARIABLES
  file,    \* contents of the registry file
  torn,    \* the file holds the text of two writers and does not parse
  lock,    \* holder of the flock
  box,     \* [Host -> what terraform and EC2 keep for it]
  tfLock,  \* [Host -> holder of its terraform state lock]
  pc,      \* [Proc -> next step of its command, "idle" between commands]
  cmd,     \* [Proc -> the command]
  on,      \* [Proc -> the host it is about]
  hosts,   \* [Proc -> the registry in its memory]
  commands, crashes,
  overlapped,  \* history: two commands have run at the same time
  registered   \* history: hosts whose last completed update under the lock left a record,
               \* since the last write without it

world == <<box, tfLock>>
store == <<file, torn, lock>>
memory == <<cmd, on, hosts>>
counts == <<commands, crashes, overlapped, registered>>
registryVars == <<store, world, pc, memory, counts>>

RegistryTypeOK ==
  /\ file \in Registry /\ torn \in BOOLEAN
  /\ lock \in Proc \cup {"free"}
  /\ box \in [Host -> {"none", "running", "stopped"}]
  /\ tfLock \in [Host -> Proc \cup {"free"}]
  /\ pc \in [Proc -> {"idle", "check", "apply", "applying", "rollback", "mark", "save", "write",
                      "ec2", "teardown", "lock", "read", "truncate", "unlock", "flush"}]
  /\ cmd \in [Proc -> Commands]
  /\ on \in [Proc -> Host]
  /\ hosts \in [Proc -> Registry]
  /\ commands \in 0..MaxCommands /\ crashes \in 0..MaxCrashes
  /\ overlapped \in BOOLEAN
  /\ registered \subseteq Host

RegistryInit ==
  /\ file = Empty /\ torn = FALSE /\ lock = "free"
  /\ box = [h \in Host |-> "none"] /\ tfLock = [h \in Host |-> "free"]
  /\ pc = [p \in Proc |-> "idle"] /\ cmd = [p \in Proc |-> "up"]
  /\ on = [p \in Proc |-> NoHost]
  /\ hosts = [p \in Proc |-> Empty]
  /\ commands = 0 /\ crashes = 0
  /\ overlapped = FALSE /\ registered = {}

----------------------------------------------------------------------------
Goto(p, step) == pc' = [pc EXCEPT ![p] = step]

Onward(p, step) == Goto(p, step) /\ UNCHANGED memory

(* The command is over, well or not; what was in memory is gone. *)
Leave(p) ==
  /\ Goto(p, "idle")
  /\ cmd' = [cmd EXCEPT ![p] = "up"] /\ on' = [on EXCEPT ![p] = NoHost]
  /\ hosts' = [hosts EXCEPT ![p] = Empty]

Start(p, c, h) ==
  /\ pc[p] = "idle" /\ commands < MaxCommands
  /\ Goto(p, "check")
  /\ cmd' = [cmd EXCEPT ![p] = c] /\ on' = [on EXCEPT ![p] = h]
  /\ commands' = commands + 1
  /\ overlapped' = (overlapped \/ \E q \in Proc : pc[q] # "idle")
  /\ UNCHANGED <<store, world, hosts, crashes, registered>>

Proceeds(p) ==
  LET tracked == file[on[p]] # Absent
  IN  CASE cmd[p] = "up" -> ~tracked
        [] cmd[p] = "force-destroy" -> TRUE
        [] OTHER -> tracked

FirstStep(p) ==
  IF cmd[p] = "up" THEN "apply"
  ELSE IF cmd[p] \in {"destroy", "force-destroy"} THEN "teardown" ELSE "ec2"

(* The first look at the registry takes no lock: it may fall between the truncation
   and the flush of another process, and a torn file raises. *)
Check(p) ==
  /\ pc[p] = "check"
  /\ IF ~torn /\ Proceeds(p)
       THEN Goto(p, FirstStep(p)) /\ hosts' = [hosts EXCEPT ![p] = file] /\ UNCHANGED <<cmd, on>>
       ELSE Leave(p)
  /\ UNCHANGED <<store, world, counts>>

----------------------------------------------------------------------------
(* up: terraform apply, and its way back *)

(* terraform's own state lock turns a second process away, which rc takes for a
   failed apply. *)
ApplyStart(p) ==
  /\ pc[p] = "apply"
  /\ IF tfLock[on[p]] = "free"
       THEN tfLock' = [tfLock EXCEPT ![on[p]] = p] /\ Goto(p, "applying")
       ELSE UNCHANGED tfLock /\ Goto(p, "rollback")
  /\ UNCHANGED <<store, box, memory, counts>>

(* A failed apply may have created the box already. *)
ApplyEnd(p) ==
  /\ pc[p] = "applying"
  /\ tfLock' = [tfLock EXCEPT ![on[p]] = "free"]
  /\ \/ box' = [box EXCEPT ![on[p]] = "running"] /\ Goto(p, "lock")
     \/ box' = [box EXCEPT ![on[p]] = "running"] /\ Goto(p, "rollback")
     \/ UNCHANGED box /\ Goto(p, "rollback")
  /\ UNCHANGED <<store, memory, counts>>

(* Variant: the error of the rollback is swallowed. *)
RollbackOnly(p) ==
  /\ pc[p] = "rollback"
  /\ box' = [box EXCEPT ![on[p]] = "none"] \/ UNCHANGED box
  /\ Leave(p)
  /\ UNCHANGED <<store, tfLock, counts>>

(* terraform destroy of whatever the host's state holds, if that works. *)
Rollback(p) ==
  /\ pc[p] = "rollback"
  /\ \/ /\ tfLock[on[p]] = "free"
        /\ box' = [box EXCEPT ![on[p]] = "none"]
        /\ Leave(p)
     \/ Onward(p, "mark") /\ UNCHANGED box
  /\ UNCHANGED <<store, tfLock, counts>>

(* The record of a failed host is written without the lock: load, truncate, write. *)
Mark(p) ==
  /\ pc[p] = "mark"
  /\ IF torn THEN Leave(p)
     ELSE /\ hosts' = [hosts EXCEPT ![p] =
                         [file EXCEPT ![on[p]] = [status |-> "failed", id |-> FALSE]]]
          /\ Goto(p, "save") /\ UNCHANGED <<cmd, on>>
  /\ UNCHANGED <<store, world, counts>>

Save(p) ==
  /\ pc[p] = "save"
  /\ file' = Empty /\ torn' = FALSE
  /\ Goto(p, "write")
  /\ UNCHANGED <<lock, world, memory, counts>>

(* A write from offset 0.  Over the text of another writer the longer tail survives. *)
Overwrite(p) ==
  \/ file' = hosts[p] /\ torn' = FALSE
  \/ (file # Empty \/ torn) /\ torn' = TRUE /\ UNCHANGED file

Write(p) ==
  /\ pc[p] = "write"
  /\ Overwrite(p)
  /\ registered' = {}
  /\ Leave(p)
  /\ UNCHANGED <<lock, world, commands, crashes, overlapped>>

----------------------------------------------------------------------------
(* stop, start, destroy *)

(* Variant: the error of the EC2 call is only logged. *)
Ec2CallUnchecked(p) ==
  /\ pc[p] = "ec2"
  /\ UNCHANGED box \/ box' = [box EXCEPT ![on[p]] =
                                IF cmd[p] = "stop" THEN "stopped" ELSE "running"]
  /\ Goto(p, "lock")
  /\ UNCHANGED <<store, tfLock, memory, counts>>

(* The call acts on the instance the record names, if it names one; a refusal (a spot
   request that does not settle within the retries, an instance that is gone) raises. *)
Ec2Call(p) ==
  /\ pc[p] = "ec2"
  /\ \/ ~hosts[p][on[p]].id /\ Onward(p, "lock") /\ UNCHANGED box
     \/ /\ hosts[p][on[p]].id /\ box[on[p]] # "none"
        /\ box' = [box EXCEPT ![on[p]] = IF cmd[p] = "stop" THEN "stopped" ELSE "running"]
        /\ Onward(p, "lock")
     \/ hosts[p][on[p]].id /\ Leave(p) /\ UNCHANGED box
  /\ UNCHANGED <<store, tfLock, counts>>

Teardown(p) ==
  /\ pc[p] = "teardown"
  /\ \/ /\ tfLock[on[p]] = "free"
        /\ box' = [box EXCEPT ![on[p]] = "none"]
        /\ Onward(p, "lock")
     \/ Leave(p) /\ UNCHANGED box
  /\ UNCHANGED <<store, tfLock, counts>>

----------------------------------------------------------------------------
(* _locked_state *)

Lock(p) ==
  /\ pc[p] = "lock" /\ lock = "free"
  /\ lock' = p
  /\ Goto(p, "read")
  /\ UNCHANGED <<file, torn, world, memory, counts>>

(* What the body of the with statement makes of the host's record.  terraform output
   may fail after the apply, which leaves a new record without its instance id. *)
Updates(p, r) ==
  CASE cmd[p] = "up" -> {[status |-> "running", id |-> TRUE], [status |-> "pending", id |-> FALSE]}
    [] cmd[p] = "stop" /\ r # Absent -> {[r EXCEPT !.status = "stopped"]}
    [] cmd[p] = "start" /\ r # Absent -> {[r EXCEPT !.status = "running"]}
    [] cmd[p] \in {"destroy", "force-destroy"} -> {Absent}
    [] OTHER -> {r}

Modify(p) ==
  \E r \in Updates(p, file[on[p]]) : hosts' = [hosts EXCEPT ![p] = [file EXCEPT ![on[p]] = r]]

(* A file that does not parse raises, and the finally clause unlocks. *)
Read(p) ==
  /\ pc[p] = "read"
  /\ IF torn THEN lock' = "free" /\ Leave(p)
     ELSE Modify(p) /\ Goto(p, "truncate") /\ UNCHANGED <<cmd, on, lock>>
  /\ UNCHANGED <<file, torn, world, counts>>

(* truncate() reaches the file at once, write() stays in the buffer. *)
Truncate(p) ==
  /\ pc[p] = "truncate"
  /\ file' = Empty /\ torn' = FALSE
  /\ Goto(p, "unlock")
  /\ UNCHANGED <<lock, world, memory, counts>>

Unlock(p) ==
  /\ pc[p] = "unlock"
  /\ lock' = "free"
  /\ Goto(p, "flush")
  /\ UNCHANGED <<file, torn, world, memory, counts>>

(* close() of the with block writes the buffer. *)
Flush(p) ==
  /\ pc[p] = "flush"
  /\ Overwrite(p)
  /\ registered' = IF hosts[p][on[p]] = Absent THEN registered \ {on[p]}
                   ELSE registered \cup {on[p]}
  /\ Leave(p)
  /\ UNCHANGED <<lock, world, commands, crashes, overlapped>>

----------------------------------------------------------------------------
Step(p) ==
  \/ Check(p) \/ ApplyStart(p) \/ ApplyEnd(p) \/ Rollback(p) \/ Mark(p) \/ Save(p) \/ Write(p)
  \/ Ec2Call(p) \/ Teardown(p) \/ Lock(p) \/ Read(p) \/ Truncate(p) \/ Unlock(p) \/ Flush(p)

(* Variant: a lock file whose existence is the lock. *)
CrashKeepsLock(p) ==
  /\ pc[p] # "idle" /\ crashes < MaxCrashes
  /\ crashes' = crashes + 1
  /\ tfLock' = [h \in Host |-> IF tfLock[h] = p THEN "free" ELSE tfLock[h]]
  /\ Leave(p)
  /\ UNCHANGED <<store, box, commands, overlapped, registered>>

(* The kernel drops the locks of a killed process, and its buffer with it. *)
Crash(p) ==
  /\ pc[p] # "idle" /\ crashes < MaxCrashes
  /\ crashes' = crashes + 1
  /\ lock' = IF lock = p THEN "free" ELSE lock
  /\ tfLock' = [h \in Host |-> IF tfLock[h] = p THEN "free" ELSE tfLock[h]]
  /\ Leave(p)
  /\ UNCHANGED <<file, torn, box, commands, overlapped, registered>>

RegistryNext ==
  \E p \in Proc : Step(p) \/ Crash(p) \/ \E c \in Commands, h \in Host : Start(p, c, h)

(* Every process runs on; the kernel hands the flock to a waiter. *)
RegistryFairness == \A p \in Proc : WF_registryVars(Step(p))

RegistrySpec == RegistryInit /\ [][RegistryNext]_registryVars /\ RegistryFairness

----------------------------------------------------------------------------
(* Properties *)

AtRest == \A p \in Proc : pc[p] = "idle"
Calm == AtRest /\ ~overlapped /\ crashes = 0

(* One command after the other, with applies, rollbacks and EC2 calls failing anywhere:
   a box that exists is in the registry, "better a tracked orphan than an invisible one"
   (service.py 433-435). *)
BoxesAreTracked ==
  Calm => \A h \in Host : box[h] # "none" => ~torn /\ file[h] # Absent

(* A box the registry calls stopped does not run and bill, unless its record came from a
   failed create and names no instance. *)
StoppedIsStopped ==
  Calm => \A h \in Host : file[h].status = "stopped" /\ file[h].id => box[h] # "running"

(* Commands one after the other, failing anywhere: no box bills that the registry does not
   know or calls stopped (service.py 427-470, 575-600). *)
RegistryIsSound == BoxesAreTracked /\ StoppedIsStopped

(* Nobody waits for ever, whoever is killed while it holds the lock (service.py 247-265). *)
CommandsEnd == \A p \in Proc : (pc[p] # "idle") ~> (pc[p] = "idle")

(* What the lock is for (service.py 247-265): of several updates at once none is lost. *)
NoUpdateLost == AtRest /\ crashes = 0 /\ ~torn => \A h \in registered : file[h] # Absent

----------------------------------------------------------------------------
(* The inductive invariant behind the safety properties *)

(* What the two properties ask of one host's record, which may still be in memory. *)
Sound(r, h) ==
  /\ box[h] # "none" => r # Absent
  /\ r.status = "stopped" /\ r.id => box[h] # "running"

(* What a process relies on at each step of its command when it has the registry to
   itself: the registry is sound up to the host the command is about, in the file or,
   between the truncation and the write, in memory. *)
InStep(p) ==
  /\ pc[p] \in {"check", "apply", "ec2", "teardown"} => \A h \in Host : Sound(file[h], h)
  /\ pc[p] \in {"applying", "rollback", "mark", "lock", "read"} =>
       \A h \in Host \ {on[p]} : Sound(file[h], h)
  /\ pc[p] \in {"apply", "applying", "rollback", "mark"} =>
       cmd[p] = "up" /\ file[on[p]] = Absent
  /\ pc[p] = "ec2" => cmd[p] \in {"stop", "start"} /\ file[on[p]] # Absent /\ hosts[p] = file
  /\ pc[p] = "teardown" => cmd[p] \in {"destroy", "force-destroy"}
  /\ pc[p] \in {"lock", "read"} => \A r \in Updates(p, file[on[p]]) : Sound(r, on[p])
  /\ pc[p] \in {"save", "write", "truncate", "unlock", "flush"} =>
       \A h \in Host : Sound(hosts[p][h], h)
  /\ pc[p] \in {"write", "unlock", "flush"} => file = Empty

(* While nobody was killed and no two commands ran at once, at most one command is under
   way. *)
CalmInv ==
  ~overlapped /\ crashes = 0 =>
    /\ ~torn
    /\ \A p, q \in Proc : pc[p] # "idle" /\ pc[q] # "idle" => p = q
    /\ AtRest => \A h \in Host : Sound(file[h], h)
    /\ \A p \in Proc : InStep(p)

IInv == RegistryTypeOK /\ CalmInv
=============================================================================
