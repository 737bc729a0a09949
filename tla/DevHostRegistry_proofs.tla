------------------------ MODULE DevHostRegistry_proofs ------------------------
(***************************************************************************)
(* Proofs about DevHostRegistry for every set of processes and hosts and   *)
(* any number of commands: type correctness, that commands which run one   *)
(* after the other keep the registry in step with what exists, and what    *)
(* the lock keeps of its promise when they overlap.                        *)
(***************************************************************************)
EXTENDS DevHostRegistry, TLAPS

LEMMA HostTyped == NoHost \in Host
BY RegistryAssumption DEF NoHost

LEMMA EmptyTyped == Empty \in Registry
BY DEF Empty, Registry

LEMMA BoundsTyped == MaxCommands \in Nat /\ MaxCrashes \in Nat
BY RegistryAssumption

LEMMA UpdatesTyped ==
  ASSUME NEW p \in Proc, NEW r \in Record \cup {Absent}
  PROVE  Updates(p, r) \subseteq Record \cup {Absent}
<1> SUFFICES ASSUME NEW u \in Updates(p, r) PROVE u \in Record \cup {Absent}
  OBVIOUS
<1>1. CASE cmd[p] = "up"
  <2>1. u = [status |-> "running", id |-> TRUE] \/ u = [status |-> "pending", id |-> FALSE]
    BY <1>1 DEF Updates
  <2>2. [status |-> "running", id |-> TRUE] \in Record
    BY DEF Record
  <2>3. [status |-> "pending", id |-> FALSE] \in Record
    BY DEF Record
  <2> QED
    BY <2>1, <2>2, <2>3
<1>2. CASE cmd[p] = "stop" /\ r # Absent
  <2>1. u = [r EXCEPT !.status = "stopped"]
    BY <1>2 DEF Updates
  <2> QED
    BY <1>2, <2>1 DEF Record
<1>3. CASE cmd[p] = "start" /\ r # Absent
  <2>1. u = [r EXCEPT !.status = "running"]
    BY <1>3 DEF Updates
  <2> QED
    BY <1>3, <2>1 DEF Record
<1>4. CASE cmd[p] \in {"destroy", "force-destroy"}
  BY <1>4 DEF Updates
<1>5. CASE /\ cmd[p] # "up" /\ ~(cmd[p] = "stop" /\ r # Absent)
           /\ ~(cmd[p] = "start" /\ r # Absent)
           /\ cmd[p] \notin {"destroy", "force-destroy"}
  BY <1>5 DEF Updates
<1> QED
  BY <1>1, <1>2, <1>3, <1>4, <1>5

----------------------------------------------------------------------------
(* Type correctness *)

Steps == {"idle", "check", "apply", "applying", "rollback", "mark", "save", "write", "ec2",
          "teardown", "lock", "read", "truncate", "unlock", "flush"}

LEMMA InitTyped == RegistryInit => RegistryTypeOK
<1> SUFFICES ASSUME RegistryInit PROVE RegistryTypeOK
  OBVIOUS
<1>1. on \in [Proc -> Host] /\ hosts \in [Proc -> Registry] /\ file \in Registry
  BY HostTyped, EmptyTyped DEF RegistryInit
<1>2. commands \in 0..MaxCommands /\ crashes \in 0..MaxCrashes
  BY BoundsTyped DEF RegistryInit
<1>3. /\ box \in [Host -> {"none", "running", "stopped"}]
      /\ tfLock \in [Host -> Proc \cup {"free"}]
      /\ cmd \in [Proc -> Commands] /\ pc \in [Proc -> Steps]
  BY DEF RegistryInit, Commands, Steps
<1> QED
  BY <1>1, <1>2, <1>3 DEF RegistryInit, RegistryTypeOK, Steps

(* What each action does to the memory of its process. *)
LEMMA LeaveTyped ==
  ASSUME RegistryTypeOK, NEW p \in Proc, Leave(p)
  PROVE  /\ pc' \in [Proc -> Steps] /\ cmd' \in [Proc -> Commands]
         /\ on' \in [Proc -> Host] /\ hosts' \in [Proc -> Registry]
BY HostTyped, EmptyTyped DEF Leave, Goto, RegistryTypeOK, Steps, Commands

LEMMA GotoTyped ==
  ASSUME RegistryTypeOK, NEW p \in Proc, NEW step \in Steps, Goto(p, step)
  PROVE  pc' \in [Proc -> Steps]
BY DEF Goto, RegistryTypeOK, Steps

LEMMA OverwriteTyped ==
  ASSUME RegistryTypeOK, NEW p \in Proc, Overwrite(p)
  PROVE  file' \in Registry /\ torn' \in BOOLEAN
BY DEF Overwrite, RegistryTypeOK

LEMMA StepTyped == RegistryTypeOK /\ [RegistryNext]_registryVars => RegistryTypeOK'
<1> SUFFICES ASSUME RegistryTypeOK, [RegistryNext]_registryVars
             PROVE  RegistryTypeOK'
  OBVIOUS
<1> USE DEF world, store, memory, counts, Steps
<1>1. ASSUME NEW p \in Proc, NEW c \in Commands, NEW h \in Host, Start(p, c, h)
      PROVE  RegistryTypeOK'
  <2>1. commands' \in 0..MaxCommands
    BY <1>1, BoundsTyped DEF Start, RegistryTypeOK
  <2> QED
    BY <1>1, <2>1 DEF Start, Goto, RegistryTypeOK
<1>2. ASSUME NEW p \in Proc, Check(p)
      PROVE  RegistryTypeOK'
  <2>1. CASE Leave(p)
    BY <1>2, <2>1, LeaveTyped DEF Check, RegistryTypeOK
  <2>2. CASE Goto(p, FirstStep(p)) /\ hosts' = [hosts EXCEPT ![p] = file] /\ UNCHANGED <<cmd, on>>
    <3>1. pc' \in [Proc -> Steps]
      BY <2>2, GotoTyped DEF FirstStep
    <3>2. hosts' \in [Proc -> Registry]
      BY <2>2 DEF RegistryTypeOK
    <3> QED
      BY <1>2, <2>2, <3>1, <3>2 DEF Check, RegistryTypeOK
  <2> QED
    BY <1>2, <2>1, <2>2 DEF Check
<1>3. ASSUME NEW p \in Proc, ApplyStart(p) \/ ApplyEnd(p)
      PROVE  RegistryTypeOK'
  BY <1>3 DEF ApplyStart, ApplyEnd, Goto, RegistryTypeOK
<1>4. ASSUME NEW p \in Proc, Rollback(p) \/ Ec2Call(p) \/ Teardown(p)
      PROVE  RegistryTypeOK'
  <2>1. box' \in [Host -> {"none", "running", "stopped"}]
    BY <1>4 DEF Rollback, Ec2Call, Teardown, RegistryTypeOK
  <2>2. CASE Leave(p)
    BY <1>4, <2>1, <2>2, LeaveTyped DEF Rollback, Ec2Call, Teardown, RegistryTypeOK
  <2>3. ASSUME NEW step \in Steps, Onward(p, step)
        PROVE  RegistryTypeOK'
    BY <1>4, <2>1, <2>3, GotoTyped DEF Rollback, Ec2Call, Teardown, Onward, RegistryTypeOK
  <2> QED
    BY <1>4, <2>2, <2>3 DEF Rollback, Ec2Call, Teardown
<1>5. ASSUME NEW p \in Proc, Mark(p)
      PROVE  RegistryTypeOK'
  <2>1. CASE Leave(p)
    BY <1>5, <2>1, LeaveTyped DEF Mark, RegistryTypeOK
  <2>2. CASE ~torn
    <3>1. [file EXCEPT ![on[p]] = [status |-> "failed", id |-> FALSE]] \in Registry
      BY DEF RegistryTypeOK, Registry, Record
    <3> QED
      BY <1>5, <2>2, <3>1 DEF Mark, Goto, RegistryTypeOK
  <2> QED
    BY <1>5, <2>1, <2>2 DEF Mark
<1>6. ASSUME NEW p \in Proc, Save(p) \/ Truncate(p) \/ Unlock(p) \/ Lock(p)
      PROVE  RegistryTypeOK'
  BY <1>6, EmptyTyped DEF Save, Truncate, Unlock, Lock, Goto, RegistryTypeOK
<1>7. ASSUME NEW p \in Proc, Write(p) \/ Flush(p)
      PROVE  RegistryTypeOK'
  <2>1. Leave(p) /\ Overwrite(p)
    BY <1>7 DEF Write, Flush
  <2>2. registered' \subseteq Host
    BY <1>7 DEF Write, Flush, RegistryTypeOK
  <2> QED
    BY <1>7, <2>1, <2>2, LeaveTyped, OverwriteTyped DEF Write, Flush, RegistryTypeOK
<1>8. ASSUME NEW p \in Proc, Read(p)
      PROVE  RegistryTypeOK'
  <2>1. CASE torn
    BY <1>8, <2>1, LeaveTyped DEF Read, RegistryTypeOK
  <2>2. CASE ~torn
    <3>1. file[on[p]] \in Record \cup {Absent}
      BY DEF RegistryTypeOK, Registry
    <3>2. PICK r \in Updates(p, file[on[p]]) :
            hosts' = [hosts EXCEPT ![p] = [file EXCEPT ![on[p]] = r]]
      BY <1>8, <2>2 DEF Read, Modify
    <3>3. [file EXCEPT ![on[p]] = r] \in Registry
      BY <3>1, <3>2, UpdatesTyped DEF RegistryTypeOK, Registry
    <3> QED
      BY <1>8, <2>2, <3>2, <3>3 DEF Read, Goto, RegistryTypeOK
  <2> QED
    BY <2>1, <2>2
<1>9. ASSUME NEW p \in Proc, Crash(p)
      PROVE  RegistryTypeOK'
  <2>1. crashes' \in 0..MaxCrashes
    BY <1>9, BoundsTyped DEF Crash, RegistryTypeOK
  <2>2. tfLock' \in [Host -> Proc \cup {"free"}]
    BY <1>9 DEF Crash, RegistryTypeOK
  <2> QED
    BY <1>9, <2>1, <2>2, LeaveTyped DEF Crash, RegistryTypeOK
<1>10. CASE UNCHANGED registryVars
  BY <1>10 DEF registryVars, RegistryTypeOK
<1> QED
  BY <1>1, <1>2, <1>3, <1>4, <1>5, <1>6, <1>7, <1>8, <1>9, <1>10 DEF RegistryNext, Step

----------------------------------------------------------------------------
(* Commands that run one after the other *)

LEMMA Alone ==
  ASSUME CalmInv, ~overlapped, crashes = 0, NEW p \in Proc, pc[p] # "idle"
  PROVE  ~torn /\ InStep(p) /\ \A q \in Proc \ {p} : pc[q] = "idle"
BY DEF CalmInv

(* The only process leaves a sound registry behind ... *)
LEMMA Settles ==
  ASSUME RegistryTypeOK, NEW p \in Proc, \A q \in Proc \ {p} : pc[q] = "idle",
         Leave(p), ~torn', (\A h \in Host : Sound(file[h], h))'
  PROVE  CalmInv'
<1>1. \A q \in Proc : pc'[q] = "idle"
  BY DEF Leave, Goto, RegistryTypeOK
<1>2. \A q \in Proc : InStep(q)'
  BY <1>1 DEF InStep
<1> QED
  BY <1>1, <1>2 DEF CalmInv

(* ... or moves on to a step that finds what it relies on. *)
LEMMA MovesOn ==
  ASSUME RegistryTypeOK, NEW p \in Proc, \A q \in Proc \ {p} : pc[q] = "idle",
         NEW step \in Steps \ {"idle"}, Goto(p, step), ~torn', InStep(p)'
  PROVE  CalmInv'
<1>1. pc'[p] # "idle" /\ \A q \in Proc \ {p} : pc'[q] = "idle"
  BY DEF Goto, RegistryTypeOK
<1>2. \A q \in Proc : InStep(q)'
  BY <1>1 DEF InStep
<1>3. ~AtRest'
  BY <1>1 DEF AtRest
<1> QED
  BY <1>1, <1>2, <1>3 DEF CalmInv

LEMMA InitCalm == RegistryInit => CalmInv
<1> SUFFICES ASSUME RegistryInit PROVE CalmInv
  OBVIOUS
<1>1. \A p \in Proc : pc[p] = "idle"
  BY DEF RegistryInit
<1>2. \A p \in Proc : InStep(p)
  BY <1>1 DEF InStep
<1>3. \A h \in Host : Sound(file[h], h)
  BY DEF RegistryInit, Sound, Empty, Absent
<1> QED
  BY <1>1, <1>2, <1>3 DEF CalmInv, RegistryInit

LEMMA CalmStep == RegistryTypeOK /\ CalmInv /\ [RegistryNext]_registryVars => CalmInv'
<1> SUFFICES ASSUME RegistryTypeOK, CalmInv, [RegistryNext]_registryVars, ~overlapped', crashes' = 0
             PROVE  CalmInv'
  BY DEF CalmInv
<1> USE DEF world, store, memory, counts
<1>1. ASSUME NEW p \in Proc, NEW c \in Commands, NEW h \in Host, Start(p, c, h)
      PROVE  CalmInv'
  <2>1. \A q \in Proc : pc[q] = "idle"
    BY <1>1 DEF Start
  <2>2. ~torn' /\ (\A k \in Host : Sound(file[k], k))'
    BY <1>1, <2>1 DEF Start, CalmInv, AtRest, Sound
  <2>3. pc'[p] = "check"
    BY <1>1 DEF Start, Goto, RegistryTypeOK
  <2>4. InStep(p)'
    BY <2>2, <2>3 DEF InStep
  <2> QED
    BY <1>1, <2>1, <2>2, <2>4, MovesOn DEF Start, Steps
<1>2. ASSUME NEW p \in Proc, Step(p)
      PROVE  CalmInv'
  <2>1. pc[p] # "idle"
    BY <1>2 DEF Step, Check, ApplyStart, ApplyEnd, Rollback, Mark, Save, Write, Ec2Call,
                Teardown, Lock, Read, Truncate, Unlock, Flush
  <2>2. ~overlapped /\ crashes = 0
    BY <1>2 DEF Step, Check, ApplyStart, ApplyEnd, Rollback, Mark, Save, Write, Ec2Call,
                Teardown, Lock, Read, Truncate, Unlock, Flush
  <2>3. ~torn /\ InStep(p) /\ \A q \in Proc \ {p} : pc[q] = "idle"
    BY <2>1, <2>2, Alone
  <2> USE <2>3
  <2>4. CASE Check(p)
    <3>1. \A h \in Host : Sound(file[h], h)'
      BY <2>4 DEF Check, InStep, Sound
    <3>2. CASE Leave(p)
      BY <2>4, <3>1, <3>2, Settles DEF Check
    <3>3. CASE Proceeds(p) /\ Goto(p, FirstStep(p)) /\ hosts' = [hosts EXCEPT ![p] = file]
                 /\ UNCHANGED <<cmd, on>>
      <4>1. pc'[p] = FirstStep(p) /\ FirstStep(p) \in {"apply", "teardown", "ec2"}
        BY <3>3 DEF Goto, RegistryTypeOK, FirstStep
      <4>2. pc'[p] = "apply" => cmd'[p] = "up" /\ (file[on[p]] = Absent)'
        BY <2>4, <3>3, <4>1 DEF FirstStep, Proceeds, Check
      <4>3. pc'[p] = "teardown" => cmd'[p] \in {"destroy", "force-destroy"}
        BY <3>3, <4>1 DEF FirstStep
      <4>4. pc'[p] = "ec2" => /\ cmd'[p] \in {"stop", "start"} /\ (file[on[p]] # Absent)'
                              /\ hosts'[p] = file'
        BY <2>4, <3>3, <4>1 DEF FirstStep, Proceeds, Check, RegistryTypeOK, Commands
      <4>5. InStep(p)'
        BY <3>1, <4>1, <4>2, <4>3, <4>4 DEF InStep
      <4> QED
        BY <2>4, <3>3, <4>1, <4>5, MovesOn DEF Check, Steps
    <3> QED
      BY <2>4, <3>2, <3>3 DEF Check
  <2>5. CASE ApplyStart(p)
    <3>1. pc'[p] \in {"applying", "rollback"}
      BY <2>5 DEF ApplyStart, Goto, RegistryTypeOK
    <3>2. InStep(p)'
      BY <2>5, <3>1 DEF ApplyStart, InStep, Sound
    <3> QED
      BY <2>5, <3>2, MovesOn DEF ApplyStart, Steps
  <2>6. CASE ApplyEnd(p)
    <3>1. /\ pc'[p] \in {"lock", "rollback"}
          /\ pc[p] = "applying"
          /\ \A h \in Host \ {on[p]} : box'[h] = box[h]
      BY <2>6 DEF ApplyEnd, Goto, RegistryTypeOK
    <3>2. \A h \in Host \ {on[p]} : Sound(file[h], h)'
      BY <2>6, <3>1 DEF ApplyEnd, InStep, Sound
    <3>3. (pc[p] = "lock" => \A r \in Updates(p, file[on[p]]) : Sound(r, on[p]))'
      <4> SUFFICES ASSUME NEW r \in Updates(p, file[on[p]])', pc'[p] = "lock"
                   PROVE  Sound(r, on[p])'
        OBVIOUS
      <4>1. \/ r = [status |-> "running", id |-> TRUE]
            \/ r = [status |-> "pending", id |-> FALSE]
        BY <2>6, <3>1 DEF ApplyEnd, InStep, Updates
      <4> QED
        BY <4>1 DEF Sound, Absent
    <3>4. InStep(p)'
      BY <2>6, <3>1, <3>2, <3>3 DEF InStep, ApplyEnd
    <3> QED
      BY <2>6, <3>4, MovesOn DEF ApplyEnd, Steps
  <2>7. CASE Rollback(p)
    <3>1. pc[p] = "rollback" /\ file[on[p]] = Absent
          /\ \A h \in Host \ {on[p]} : Sound(file[h], h)
      BY <2>7 DEF Rollback, InStep
    <3>2. CASE box' = [box EXCEPT ![on[p]] = "none"] /\ Leave(p)
      <4>1. \A h \in Host : Sound(file[h], h)'
        BY <2>7, <3>1, <3>2 DEF Rollback, Sound, Absent, RegistryTypeOK
      <4> QED
        BY <2>7, <3>2, <4>1, Settles DEF Rollback
    <3>3. CASE Onward(p, "mark") /\ UNCHANGED box
      <4>1. pc'[p] = "mark"
        BY <3>3 DEF Onward, Goto, RegistryTypeOK
      <4>2. InStep(p)'
        BY <2>7, <3>1, <3>3, <4>1 DEF Rollback, Onward, InStep, Sound
      <4> QED
        BY <2>7, <3>3, <4>2, MovesOn DEF Rollback, Onward, Steps
    <3> QED
      BY <2>7, <3>2, <3>3 DEF Rollback
  <2>8. CASE Mark(p)
    <3> DEFINE failed == [status |-> "failed", id |-> FALSE]
    <3>1. /\ hosts' = [hosts EXCEPT ![p] = [file EXCEPT ![on[p]] = failed]]
          /\ Goto(p, "save") /\ pc'[p] = "save" /\ pc[p] = "mark" /\ box' = box
      BY <2>8 DEF Mark, Goto, RegistryTypeOK
    <3>2. \A h \in Host : Sound(hosts[p][h], h)'
      <4> SUFFICES ASSUME NEW h \in Host PROVE Sound(hosts[p][h], h)'
        OBVIOUS
      <4>1. hosts'[p][h] = IF h = on[p] THEN failed ELSE file[h]
        BY <3>1 DEF RegistryTypeOK, Registry
      <4>2. Sound(failed, h)'
        BY DEF Sound, Absent
      <4>3. h # on[p] => Sound(file[h], h)
        BY <3>1 DEF InStep
      <4> QED
        BY <3>1, <4>1, <4>2, <4>3 DEF Sound
    <3>3. InStep(p)'
      BY <3>1, <3>2 DEF InStep
    <3> QED
      BY <2>8, <3>1, <3>3, MovesOn DEF Mark, Steps
  <2>9. CASE Save(p) \/ Truncate(p) \/ Unlock(p)
    <3>1. /\ pc[p] \in {"save", "truncate", "unlock"} /\ pc'[p] \in {"write", "unlock", "flush"}
          /\ ~torn' /\ file' = Empty
      BY <2>9 DEF Save, Truncate, Unlock, Goto, RegistryTypeOK, InStep
    <3>2. \A h \in Host : Sound(hosts[p][h], h)'
      BY <2>9, <3>1 DEF Save, Truncate, Unlock, InStep, Sound
    <3>3. InStep(p)'
      BY <3>1, <3>2 DEF InStep
    <3> QED
      BY <2>9, <3>1, <3>3, MovesOn DEF Save, Truncate, Unlock, Steps
  <2>10. CASE Write(p) \/ Flush(p)
    <3>1. /\ pc[p] \in {"write", "flush"} /\ Leave(p) /\ Overwrite(p)
          /\ box' = box
      BY <2>10 DEF Write, Flush
    <3>2. file = Empty /\ \A h \in Host : Sound(hosts[p][h], h)
      BY <3>1 DEF InStep
    <3>3. file' = hosts[p] /\ ~torn'
      BY <3>1, <3>2 DEF Overwrite
    <3>4. \A h \in Host : Sound(file[h], h)'
      BY <3>1, <3>2, <3>3 DEF Sound
    <3> QED
      BY <3>1, <3>3, <3>4, Settles
  <2>11. CASE Ec2Call(p)
    <3>1. /\ pc[p] = "ec2" /\ hosts[p] = file /\ file' = file /\ ~torn'
          /\ cmd[p] \in {"stop", "start"} /\ file[on[p]] # Absent
          /\ \A h \in Host : Sound(file[h], h)
      BY <2>11 DEF Ec2Call, InStep
    <3>2. on[p] \in Host /\ file[on[p]] \in Record
      BY <3>1 DEF RegistryTypeOK, Registry
    <3>3. CASE Leave(p) /\ UNCHANGED box
      <4>1. \A h \in Host : Sound(file[h], h)'
        BY <3>1, <3>3 DEF Sound
      <4> QED
        BY <3>1, <3>3, <4>1, Settles
    <3>4. CASE /\ Onward(p, "lock")
               /\ \/ ~file[on[p]].id /\ UNCHANGED box
                  \/ box' = [box EXCEPT ![on[p]] = IF cmd[p] = "stop" THEN "stopped"
                                                   ELSE "running"]
      <4>1. pc'[p] = "lock" /\ UNCHANGED <<cmd, on, hosts>>
        BY <3>4 DEF Onward, Goto, RegistryTypeOK
      <4>2. \A h \in Host \ {on[p]} : Sound(file[h], h)'
        BY <3>1, <3>4 DEF Sound, RegistryTypeOK
      <4>3. (\A r \in Updates(p, file[on[p]]) : Sound(r, on[p]))'
        <5> SUFFICES ASSUME NEW r \in Updates(p, file[on[p]])'
                     PROVE  Sound(r, on[p])'
          BY <4>1
        <5>1. r = [file[on[p]] EXCEPT !.status = IF cmd[p] = "stop" THEN "stopped" ELSE "running"]
          BY <3>1, <4>1 DEF Updates
        <5>2. /\ r.status = IF cmd[p] = "stop" THEN "stopped" ELSE "running"
              /\ r.id = file[on[p]].id
          BY <3>2, <5>1 DEF Record
        <5>3. r # Absent
          BY <3>1, <5>2 DEF Absent
        <5>4. r.status = "stopped" /\ r.id => box'[on[p]] # "running"
          BY <3>1, <3>2, <3>4, <5>2 DEF RegistryTypeOK
        <5> QED
          BY <4>1, <5>3, <5>4 DEF Sound
      <4>4. InStep(p)'
        BY <4>1, <4>2, <4>3 DEF InStep
      <4> QED
        BY <3>1, <3>4, <4>4, MovesOn DEF Onward, Steps
    <3> QED
      BY <2>11, <3>1, <3>3, <3>4 DEF Ec2Call
  <2>12. CASE Teardown(p)
    <3>1. /\ pc[p] = "teardown" /\ file' = file /\ ~torn'
          /\ cmd[p] \in {"destroy", "force-destroy"}
          /\ \A h \in Host : Sound(file[h], h)
      BY <2>12 DEF Teardown, InStep
    <3>2. CASE Leave(p) /\ UNCHANGED box
      <4>1. \A h \in Host : Sound(file[h], h)'
        BY <3>1, <3>2 DEF Sound
      <4> QED
        BY <3>1, <3>2, <4>1, Settles
    <3>3. CASE box' = [box EXCEPT ![on[p]] = "none"] /\ Onward(p, "lock")
      <4>1. pc'[p] = "lock" /\ UNCHANGED <<cmd, on, hosts>>
        BY <3>3 DEF Onward, Goto, RegistryTypeOK
      <4>2. \A h \in Host \ {on[p]} : Sound(file[h], h)'
        BY <3>1, <3>3 DEF Sound, RegistryTypeOK
      <4>3. Updates(p, file[on[p]])' = {Absent}
        BY <3>1, <4>1 DEF Updates
      <4>4. Sound(Absent, on[p])'
        BY <3>3, <4>1 DEF Sound, Absent, RegistryTypeOK
      <4>5. InStep(p)'
        BY <4>1, <4>2, <4>3, <4>4 DEF InStep
      <4> QED
        BY <3>1, <3>3, <4>5, MovesOn DEF Onward, Steps
    <3> QED
      BY <2>12, <3>2, <3>3 DEF Teardown
  <2>13. CASE Lock(p)
    <3>1. /\ pc[p] = "lock" /\ pc'[p] = "read"
          /\ UNCHANGED <<file, torn, box, cmd, on, hosts>>
      BY <2>13 DEF Lock, Goto, RegistryTypeOK
    <3>2. InStep(p)'
      BY <3>1 DEF InStep, Sound, Updates
    <3> QED
      BY <2>13, <3>1, <3>2, MovesOn DEF Lock, Steps
  <2>14. CASE Read(p)
    <3>1. /\ pc[p] = "read" /\ Goto(p, "truncate") /\ pc'[p] = "truncate" /\ Modify(p)
          /\ UNCHANGED <<file, torn, box, on>>
      BY <2>14 DEF Read, Goto, RegistryTypeOK
    <3>2. PICK r \in Updates(p, file[on[p]]) :
            hosts' = [hosts EXCEPT ![p] = [file EXCEPT ![on[p]] = r]]
      BY <3>1 DEF Modify
    <3>3. \A h \in Host : Sound(hosts[p][h], h)'
      <4> SUFFICES ASSUME NEW h \in Host PROVE Sound(hosts[p][h], h)'
        OBVIOUS
      <4>1. hosts'[p][h] = IF h = on[p] THEN r ELSE file[h]
        BY <3>2 DEF RegistryTypeOK, Registry
      <4>2. Sound(r, on[p]) /\ (h # on[p] => Sound(file[h], h))
        BY <3>1, <3>2 DEF InStep
      <4> QED
        BY <3>1, <4>1, <4>2 DEF Sound
    <3>4. InStep(p)'
      BY <3>1, <3>3 DEF InStep
    <3> QED
      BY <3>1, <3>4, MovesOn DEF Steps
  <2> QED
    BY <1>2, <2>4, <2>5, <2>6, <2>7, <2>8, <2>9, <2>10, <2>11, <2>12, <2>13, <2>14 DEF Step
<1>3. ASSUME NEW p \in Proc, Crash(p)
      PROVE  FALSE
  BY <1>3 DEF Crash, RegistryTypeOK
<1>4. CASE UNCHANGED registryVars
  BY <1>4 DEF registryVars, CalmInv, InStep, Sound, Updates, AtRest
<1> QED
  BY <1>1, <1>2, <1>3, <1>4 DEF RegistryNext

----------------------------------------------------------------------------
(* RegistryTypeOK and CalmInv together are kept by every step of every process. *)
THEOREM Inductive == RegistrySpec => []IInv
<1>1. RegistryInit => IInv
  BY InitTyped, InitCalm DEF IInv
<1>2. IInv /\ [RegistryNext]_registryVars => IInv'
  BY StepTyped, CalmStep DEF IInv
<1> QED
  BY <1>1, <1>2, PTL DEF RegistrySpec

(* Whoever is killed and whatever overlaps, the file and every process's memory hold a
   registry, and every process is at a step of its command. *)
THEOREM TypeCorrect == RegistrySpec => []RegistryTypeOK
<1>1. IInv => RegistryTypeOK
  BY DEF IInv
<1> QED
  BY <1>1, Inductive, PTL

(* While commands ran one after the other, a box that exists is in the registry. *)
THEOREM TrackedWhenCalm == RegistrySpec => []BoxesAreTracked
<1>1. IInv => BoxesAreTracked
  BY DEF IInv, CalmInv, BoxesAreTracked, Calm, Sound
<1> QED
  BY <1>1, Inductive, PTL

(* While commands ran one after the other, what the registry calls stopped is stopped. *)
THEOREM StoppedWhenCalm == RegistrySpec => []StoppedIsStopped
<1>1. IInv => StoppedIsStopped
  BY DEF IInv, CalmInv, StoppedIsStopped, Calm, Sound
<1> QED
  BY <1>1, Inductive, PTL

(* Both together: what the registry says of a box is enough to find and to stop it. *)
THEOREM SoundWhenCalm == RegistrySpec => []RegistryIsSound
<1>1. BoxesAreTracked /\ StoppedIsStopped => RegistryIsSound
  BY DEF RegistryIsSound
<1> QED
  BY <1>1, TrackedWhenCalm, StoppedWhenCalm, PTL

----------------------------------------------------------------------------
(* The lock, whatever overlaps and whoever is killed *)

(* Between flock(LOCK_EX) and flock(LOCK_UN). *)
InSection(p) == pc[p] \in {"read", "truncate", "unlock"}

(* The invariant: the holder is in the section, and only it is. *)
LockInv == \A p \in Proc : lock = p <=> InSection(p)

MutualExclusion == \A p, q \in Proc : InSection(p) /\ InSection(q) => p = q

(* The writes that do not take part in the lock: the buffer that close() flushes after the
   unlock, and the record of a failed create. *)
WritesUnlocked(q) == pc[q] \in {"save", "write", "flush"}

(* A step that changes the file while p holds the lock is p's own truncation, or one of
   the unlocked writes of another process. *)
InterferenceIsNamed ==
  \A p \in Proc :
    lock = p /\ <<file, torn>>' # <<file, torn>> =>
      (pc[p] = "truncate" /\ pc'[p] = "unlock") \/ \E q \in Proc \ {p} : WritesUnlocked(q)

LEMMA LockStarts == RegistryInit => LockInv
BY RegistryAssumption DEF RegistryInit, LockInv, InSection

(* A process that is neither in the section before nor after a step leaves the lock to
   whom it belongs. *)
LEMMA StaysOutside ==
  ASSUME RegistryTypeOK, LockInv, NEW p \in Proc, NEW step \in Steps,
         ~InSection(p), step \notin {"read", "truncate", "unlock"},
         Goto(p, step), UNCHANGED lock
  PROVE  LockInv'
BY DEF RegistryTypeOK, LockInv, InSection, Goto, Steps

(* A process that leaves gives the lock back if it has it. *)
LEMMA LeavesFree ==
  ASSUME RegistryTypeOK, LockInv, NEW p \in Proc,
         Goto(p, "idle"), lock' = IF lock = p THEN "free" ELSE lock
  PROVE  LockInv'
BY RegistryAssumption DEF RegistryTypeOK, LockInv, InSection, Goto

LEMMA LockStep == RegistryTypeOK /\ LockInv /\ [RegistryNext]_registryVars => LockInv'
<1> SUFFICES ASSUME RegistryTypeOK, LockInv, [RegistryNext]_registryVars PROVE LockInv'
  OBVIOUS
<1> USE DEF store, Steps
<1>1. ASSUME NEW p \in Proc, NEW c \in Commands, NEW h \in Host, Start(p, c, h)
      PROVE  LockInv'
  BY <1>1, StaysOutside DEF Start, InSection
<1>2. ASSUME NEW p \in Proc, Leave(p), ~InSection(p), UNCHANGED lock
      PROVE  LockInv'
  BY <1>2, StaysOutside DEF Leave
<1>3. ASSUME NEW p \in Proc,
             \/ Check(p) \/ ApplyStart(p) \/ ApplyEnd(p) \/ Rollback(p) \/ Mark(p)
             \/ Save(p) \/ Write(p) \/ Ec2Call(p) \/ Teardown(p) \/ Flush(p)
      PROVE  LockInv'
  <2>1. ~InSection(p) /\ UNCHANGED lock
    BY <1>3 DEF InSection, Check, ApplyStart, ApplyEnd, Rollback, Mark, Save, Write, Ec2Call,
       Teardown, Flush
  <2>2. \/ Leave(p)
        \/ \E step \in Steps \ {"read", "truncate", "unlock"} : Goto(p, step)
    BY <1>3 DEF Check, FirstStep, ApplyStart, ApplyEnd, Rollback, Mark, Save, Write, Ec2Call,
       Teardown, Flush, Onward
  <2> QED
    BY <2>1, <2>2, <1>2, StaysOutside
<1>4. ASSUME NEW p \in Proc, Lock(p)
      PROVE  LockInv'
  BY <1>4, RegistryAssumption DEF Lock, Goto, LockInv, InSection, RegistryTypeOK
<1>5. ASSUME NEW p \in Proc, Read(p)
      PROVE  LockInv'
  <2>1. lock = p
    BY <1>5 DEF Read, LockInv, InSection
  <2>2. CASE torn
    BY <1>5, <2>1, <2>2, LeavesFree DEF Read, Leave
  <2>3. CASE ~torn
    BY <1>5, <2>1, <2>3 DEF Read, Goto, LockInv, InSection, RegistryTypeOK
  <2> QED
    BY <2>2, <2>3
<1>6. ASSUME NEW p \in Proc, Truncate(p)
      PROVE  LockInv'
  BY <1>6 DEF Truncate, Goto, LockInv, InSection, RegistryTypeOK
<1>7. ASSUME NEW p \in Proc, Unlock(p)
      PROVE  LockInv'
  BY <1>7, RegistryAssumption DEF Unlock, Goto, LockInv, InSection, RegistryTypeOK
<1>8. ASSUME NEW p \in Proc, Crash(p)
      PROVE  LockInv'
  BY <1>8, LeavesFree DEF Crash, Leave
<1>9. CASE UNCHANGED registryVars
  BY <1>9 DEF registryVars, LockInv, InSection
<1> QED
  BY <1>1, <1>3, <1>4, <1>5, <1>6, <1>7, <1>8, <1>9 DEF RegistryNext, Step

THEOREM LockInductive == RegistrySpec => []LockInv
<1>1. RegistryTypeOK /\ LockInv /\ [RegistryNext]_registryVars => LockInv'
  BY LockStep
<1> QED
  BY <1>1, LockStarts, TypeCorrect, PTL DEF RegistrySpec

(* No two processes are between lock and unlock, kills included (service.py 247-265: "no
   stale lock left behind"). *)
THEOREM LockExcludes == RegistrySpec => []MutualExclusion
<1>1. LockInv => MutualExclusion
  BY DEF LockInv, MutualExclusion
<1> QED
  BY <1>1, LockInductive, PTL

(* An update that was lost although it held the lock was lost to one of the two writes
   that pass it by: there is no third way (service.py 252-265, 433-470). *)
THEOREM OnlyUnlockedWritesInterfere ==
  RegistrySpec => [][InterferenceIsNamed]_registryVars
<1>1. RegistryTypeOK /\ LockInv /\ [RegistryNext]_registryVars => [InterferenceIsNamed]_registryVars
  <2> SUFFICES ASSUME RegistryTypeOK, LockInv, RegistryNext, NEW p \in Proc, lock = p,
                      <<file, torn>>' # <<file, torn>>
               PROVE  \/ pc[p] = "truncate" /\ pc'[p] = "unlock"
                      \/ \E q \in Proc \ {p} : WritesUnlocked(q)
    BY DEF InterferenceIsNamed
  <2>1. InSection(p)
    BY DEF LockInv
  <2>2. PICK q \in Proc :
          \/ Step(q) \/ Crash(q)
          \/ \E c \in Commands, h \in Host : Start(q, c, h)
    BY DEF RegistryNext
  <2>3. Save(q) \/ Write(q) \/ Truncate(q) \/ Flush(q)
    BY <2>2 DEF Step, Crash, Start, Check, ApplyStart, ApplyEnd, Rollback, Mark, Ec2Call,
       Teardown, Lock, Read, Unlock, store
  <2>4. CASE Truncate(q)
    <3>1. InSection(q) /\ q = p
      BY <2>1, <2>4 DEF Truncate, InSection, LockInv
    <3> QED
      BY <2>4, <3>1 DEF Truncate, Goto, RegistryTypeOK
  <2>5. CASE Save(q) \/ Write(q) \/ Flush(q)
    <3>1. WritesUnlocked(q) /\ ~InSection(q)
      BY <2>5 DEF Save, Write, Flush, WritesUnlocked, InSection
    <3> QED
      BY <2>1, <3>1
  <2> QED
    BY <2>3, <2>4, <2>5
<1> QED
  BY <1>1, LockInductive, TypeCorrect, PTL DEF RegistrySpec
=============================================================================
