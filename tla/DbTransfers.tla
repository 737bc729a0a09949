----------------------------- MODULE DbTransfers -----------------------------
(***************************************************************************)
(* rc db backup and rc db push: a command on the operator's machine and a  *)
(* shell script it runs in a container of the database service, over a     *)
(* session that may break while the script goes on.  The scripts of all    *)
(* commands share their paths under /tmp of the one container.             *)
(*                                                                         *)
(* A backup is cut into parts that are uploaded to presigned addresses of  *)
(* one multipart upload; rc completes it from what S3 lists and looks at   *)
(* the object.  A push stages a tar archive in S3, which the script        *)
(* unpacks and restores.  Several commands may be under way at once.       *)
(***************************************************************************)
EXTENDS Naturals, FiniteSets

CONSTANTS
  MaxTransfers,   \* bound: commands given
  MaxTransferFaults,
  Presigned,      \* part addresses signed in advance, _BACKUP_MAX_PARTS
  DumpSizes       \* how many parts a dump of the database may need

ASSUME TransferAssumption ==
  /\ MaxTransfers \in Nat /\ MaxTransferFaults \in Nat /\ Presigned \in Nat \ {0}
  /\ DumpSizes \subseteq Nat

Transfers == 1..MaxTransfers
None == 0

VARIABLES
  given,     \* commands given so far
  kindOf,    \* [Transfers -> "backup" or "push"]
  client,    \* [Transfers -> where the command is, or how it ended]
  script,    \* [Transfers -> where its script in the container is]
  exit,      \* [Transfers -> exit code and what pg_restore printed]
  dumpFile,  \* DUMP: [of, parts] or nothing
  partFile,  \* PART: [of, no, whole] or nothing
  cut,       \* [Transfers -> parts uploaded, of how many]
  uploads,   \* [Transfers -> the multipart upload: [open, parts]]
  object,    \* [Transfers -> the parts the completed object was made of]
  unpacked,  \* pushes whose directory lies under /tmp/_rcpush
  chosen,    \* [Transfers -> the directory its script restores]
  db,        \* the push whose dump the database holds, and whether all of it
  transferFaults,
  mixed,     \* commands whose script shared the container, or its disk was full
  leftover   \* pushes that found another push's directory

NoFile == [of |-> None, no |-> 0, whole |-> FALSE]
NoDump == [of |-> None, parts |-> 0]
Running == [code |-> "running", restore |-> "none"]

clientVars == <<given, kindOf, client>>
containerVars == <<script, exit, dumpFile, partFile, cut>>
restoreVars == <<unpacked, chosen, db, leftover>>
s3Vars == <<uploads, object>>
transferVars == <<clientVars, containerVars, restoreVars, s3Vars, transferFaults, mixed>>

InContainer(r) == script[r] \notin {"none", "over"}
Over(r) == client[r] \in {"complete", "failed", "raised"}

TransfersInit ==
  /\ given = 0
  /\ kindOf = [r \in Transfers |-> "backup"] /\ client = [r \in Transfers |-> "none"]
  /\ script = [r \in Transfers |-> "none"] /\ exit = [r \in Transfers |-> Running]
  /\ dumpFile = NoDump /\ partFile = NoFile
  /\ cut = [r \in Transfers |-> [done |-> 0, all |-> 0]]
  /\ uploads = [r \in Transfers |-> [open |-> FALSE, parts |-> {}]]
  /\ object = [r \in Transfers |-> {}]
  /\ unpacked = {} /\ chosen = [r \in Transfers |-> None]
  /\ db = [of |-> None, whole |-> TRUE]
  /\ transferFaults = 0 /\ mixed = {} /\ leftover = {}

-----------------------------------------------------------------------------
(* The command *)

Fault == transferFaults < MaxTransferFaults /\ transferFaults' = transferFaults + 1
NoFault == UNCHANGED transferFaults

Client(r, from, to) == client[r] = from /\ client' = [client EXCEPT ![r] = to]

\* create_multipart_upload or upload_file, then exec: the script starts in the container.
StartTransfer(kind) ==
  LET r == given + 1
      others == {q \in Transfers : InContainer(q)}
  IN  /\ given < MaxTransfers /\ given' = r
      /\ kindOf' = [kindOf EXCEPT ![r] = kind]
      /\ client' = [client EXCEPT ![r] = "exec"]
      /\ script' = [script EXCEPT ![r] = IF kind = "backup" THEN "dump" ELSE "unpack"]
      /\ uploads' = [uploads EXCEPT ![r].open = (kind = "backup")]
      /\ mixed' = IF others = {} THEN mixed ELSE mixed \cup others \cup {r}
      /\ UNCHANGED <<exit, dumpFile, partFile, cut, object, restoreVars, transferFaults>>

\* No task is ready within the budget, or the exec itself fails: nothing runs.
ExecFails(r) ==
  /\ Client(r, "exec", IF kindOf[r] = "backup" THEN "abort" ELSE "failed")
  /\ script[r] \in {"dump", "unpack"} /\ script' = [script EXCEPT ![r] = "over"]
  /\ Fault
  /\ UNCHANGED <<given, kindOf, exit, dumpFile, partFile, cut, restoreVars, s3Vars, mixed>>

\* The session ends with the script and its exit code comes from the sentinel.
ExecReturns(r) ==
  /\ client[r] = "exec" /\ script[r] = "over"
  /\ client' = [client EXCEPT ![r] =
       IF kindOf[r] = "backup"
       THEN IF exit[r].code = "0" THEN "list" ELSE "abort"
       ELSE IF exit[r].restore \in {"all", "ignored"} THEN "complete" ELSE "failed"]
  /\ NoFault
  /\ UNCHANGED <<given, kindOf, containerVars, restoreVars, s3Vars, mixed>>

\* The session breaks, idles out or meets its timeout; the script may go on without it.
SessionDrops(r) ==
  /\ Client(r, "exec", IF kindOf[r] = "backup" THEN "abort" ELSE "failed")
  /\ InContainer(r)
  /\ script' = script \/ script' = [script EXCEPT ![r] = "over"]
  /\ Fault
  /\ UNCHANGED <<given, kindOf, exit, dumpFile, partFile, cut, restoreVars, s3Vars, mixed>>

\* _abort; a failure of its own is a warning.
AbortUpload(r) ==
  /\ Client(r, "abort", "failed")
  /\ uploads' = [uploads EXCEPT ![r] = [open |-> FALSE, parts |-> {}]]
  /\ NoFault
  /\ UNCHANGED <<given, kindOf, containerVars, restoreVars, object, mixed>>

AbortFails(r) ==
  /\ Client(r, "abort", "raised")
  /\ Fault
  /\ UNCHANGED <<given, kindOf, containerVars, restoreVars, s3Vars, mixed>>

\* list_parts, every page; what it raises is not caught.
ListParts(r) ==
  /\ \/ Client(r, "list", IF uploads[r].parts = {} THEN "abort" ELSE "completing") /\ NoFault
     \/ Client(r, "list", "raised") /\ Fault
  /\ UNCHANGED <<given, kindOf, containerVars, restoreVars, s3Vars, mixed>>

CompleteUpload(r) ==
  /\ Client(r, "completing", "verify")
  /\ object' = [object EXCEPT ![r] = uploads[r].parts]
  /\ uploads' = [uploads EXCEPT ![r] = [open |-> FALSE, parts |-> {}]]
  /\ NoFault
  /\ UNCHANGED <<given, kindOf, containerVars, restoreVars, mixed>>

CompleteFails(r) ==
  /\ Client(r, "completing", "abort")
  /\ Fault
  /\ UNCHANGED <<given, kindOf, containerVars, restoreVars, s3Vars, mixed>>

VerifyObject(r) ==
  /\ \/ Client(r, "verify", IF object[r] # {} THEN "complete" ELSE "failed") /\ NoFault
     \/ Client(r, "verify", "failed") /\ Fault
  /\ UNCHANGED <<given, kindOf, containerVars, restoreVars, s3Vars, mixed>>

ClientKilled(r) ==
  /\ client[r] # "none" /\ ~Over(r) /\ client' = [client EXCEPT ![r] = "raised"]
  /\ Fault
  /\ UNCHANGED <<given, kindOf, containerVars, restoreVars, s3Vars, mixed>>

-----------------------------------------------------------------------------
(* The dump script *)

ScriptOnly(r) == UNCHANGED <<clientVars, restoreVars, s3Vars>>
Exits(r, code) ==
  /\ script' = [script EXCEPT ![r] = "over"]
  /\ exit' = [exit EXCEPT ![r].code = code]

\* pg_dump, wc and the count of the parts; a dump that is empty or too large goes.
Dump(r) ==
  /\ script[r] = "dump"
  /\ \E n \in DumpSizes :
       IF n = 0 \/ n > Presigned
       THEN Exits(r, "1") /\ dumpFile' = NoDump /\ UNCHANGED cut
       ELSE /\ dumpFile' = [of |-> r, parts |-> n]
            /\ cut' = [cut EXCEPT ![r] = [done |-> 0, all |-> n]]
            /\ script' = [script EXCEPT ![r] = "cut"] /\ UNCHANGED exit
  /\ NoFault /\ ScriptOnly(r) /\ UNCHANGED <<partFile, mixed>>

DumpFails(r) ==
  /\ script[r] = "dump"
  /\ Exits(r, "1") /\ dumpFile' = NoDump
  /\ Fault /\ ScriptOnly(r) /\ UNCHANGED <<partFile, cut, mixed>>

\* dd, whose status nobody looks at: without a dump it leaves PART as it was, and on a disk
\* that is full it writes less than a part.
CutPart(r) ==
  /\ script[r] = "cut" /\ script' = [script EXCEPT ![r] = "put"]
  /\ \/ /\ partFile' = IF dumpFile = NoDump THEN partFile
                       ELSE [of |-> dumpFile.of, no |-> cut[r].done + 1, whole |-> TRUE]
        /\ NoFault /\ UNCHANGED mixed
     \/ /\ partFile' = [of |-> r, no |-> cut[r].done + 1, whole |-> FALSE]
        /\ Fault /\ mixed' = mixed \cup {r}
  /\ ScriptOnly(r) /\ UNCHANGED <<exit, dumpFile, cut>>

\* curl -f: a refusal is an exit.
Stored(r) ==
  uploads' = [uploads EXCEPT ![r].parts = @ \cup {[at |-> cut[r].done + 1, is |-> partFile]}]

\* Variant: curl without -f.
PutAnyway(r) ==
  /\ script[r] = "put"
  /\ \/ uploads[r].open /\ partFile # NoFile /\ Stored(r) /\ NoFault
     \/ ~(uploads[r].open /\ partFile # NoFile) /\ NoFault /\ UNCHANGED uploads
     \/ Fault /\ UNCHANGED uploads
  /\ cut' = [cut EXCEPT ![r].done = @ + 1]
  /\ IF cut'[r].done = cut[r].all
     THEN Exits(r, "0") /\ dumpFile' = NoDump /\ partFile' = NoFile
     ELSE script' = [script EXCEPT ![r] = "cut"] /\ UNCHANGED <<exit, dumpFile, partFile>>
  /\ UNCHANGED <<clientVars, restoreVars, object, mixed>>

PutPart(r) ==
  /\ script[r] = "put" /\ uploads[r].open /\ partFile # NoFile
  /\ Stored(r)
  /\ cut' = [cut EXCEPT ![r].done = @ + 1]
  /\ IF cut'[r].done = cut[r].all
     THEN Exits(r, "0") /\ dumpFile' = NoDump /\ partFile' = NoFile
     ELSE script' = [script EXCEPT ![r] = "cut"] /\ UNCHANGED <<exit, dumpFile, partFile>>
  /\ NoFault /\ UNCHANGED <<clientVars, restoreVars, object, mixed>>

\* Refused, lost, or stored with its answer lost.
PutFails(r) ==
  /\ script[r] = "put"
  /\ \/ ~(uploads[r].open /\ partFile # NoFile) /\ NoFault /\ UNCHANGED uploads
     \/ Fault /\ UNCHANGED uploads
     \/ uploads[r].open /\ partFile # NoFile /\ Fault /\ Stored(r)
  /\ Exits(r, "1") /\ dumpFile' = NoDump /\ partFile' = NoFile
  /\ UNCHANGED <<clientVars, restoreVars, cut, object, mixed>>

-----------------------------------------------------------------------------
(* The restore script, under set -e *)

\* Download, tar, and the first directory that find comes upon.
Unpack(r) ==
  /\ script[r] = "unpack" /\ script' = [script EXCEPT ![r] = "restore"]
  /\ unpacked' = unpacked \cup {r}
  /\ \E d \in unpacked' : chosen' = [chosen EXCEPT ![r] = d]
  /\ leftover' = IF unpacked \subseteq {r} THEN leftover ELSE leftover \cup {r}
  /\ NoFault /\ UNCHANGED <<clientVars, exit, dumpFile, partFile, cut, db, s3Vars, mixed>>

UnpackFails(r) ==
  /\ script[r] = "unpack" /\ Exits(r, "1")
  /\ Fault /\ UNCHANGED <<clientVars, dumpFile, partFile, cut, restoreVars, s3Vars, mixed>>

\* Exit code 0, which pg_restore may give in spite of errors it printed: the last command of
\* the script removes what it unpacked.
Restore(r) ==
  /\ script[r] = "restore"
  /\ script' = [script EXCEPT ![r] = "over"]
  /\ \E restore \in {"all", "some"} :
       /\ exit' = [exit EXCEPT ![r] = [code |-> "0", restore |-> restore]]
       /\ db' = [of |-> chosen[r], whole |-> restore = "all"]
  /\ unpacked' = {}
  /\ NoFault
  /\ UNCHANGED <<clientVars, dumpFile, partFile, cut, chosen, leftover, s3Vars, mixed>>

\* pg_restore exits 1: past objects it ignored and counted, or before its end.  set -e ends
\* the script there, so nothing is removed.
RestoreWithErrors(r) ==
  /\ script[r] = "restore"
  /\ script' = [script EXCEPT ![r] = "over"]
  /\ \E restore \in {"ignored", "broken"} :
       /\ exit' = [exit EXCEPT ![r] = [code |-> "1", restore |-> restore]]
       /\ db' = [of |-> chosen[r], whole |-> restore = "ignored"]
  /\ NoFault
  /\ UNCHANGED <<clientVars, dumpFile, partFile, cut, unpacked, chosen, leftover, s3Vars, mixed>>

\* A roll or the scheduler replaces the task: scripts and /tmp are gone.
ContainerReplaced ==
  /\ \E q \in Transfers : InContainer(q)
  /\ Fault
  /\ script' = [r \in Transfers |-> IF InContainer(r) THEN "over" ELSE script[r]]
  /\ exit' = [r \in Transfers |-> IF InContainer(r) THEN [exit[r] EXCEPT !.code = "1"]
                                                    ELSE exit[r]]
  /\ dumpFile' = NoDump /\ partFile' = NoFile /\ unpacked' = {}
  /\ UNCHANGED <<clientVars, cut, chosen, db, leftover, s3Vars, mixed>>

TransfersNext ==
  \/ \E kind \in {"backup", "push"} : StartTransfer(kind)
  \/ \E r \in Transfers :
       \/ ExecFails(r) \/ ExecReturns(r) \/ SessionDrops(r) \/ AbortUpload(r) \/ AbortFails(r)
       \/ ListParts(r) \/ CompleteUpload(r) \/ CompleteFails(r) \/ VerifyObject(r)
       \/ ClientKilled(r)
       \/ Dump(r) \/ DumpFails(r) \/ CutPart(r) \/ PutPart(r) \/ PutFails(r)
       \/ Unpack(r) \/ UnpackFails(r) \/ Restore(r) \/ RestoreWithErrors(r)
  \/ ContainerReplaced

TransfersSpec == TransfersInit /\ [][TransfersNext]_transferVars

-----------------------------------------------------------------------------
TransfersTypeOK ==
  /\ given \in 0..MaxTransfers /\ kindOf \in [Transfers -> {"backup", "push"}]
  /\ client \in [Transfers -> {"none", "exec", "abort", "list", "completing", "verify",
                               "complete", "failed", "raised"}]
  /\ script \in [Transfers -> {"none", "dump", "cut", "put", "unpack", "restore", "over"}]
  /\ exit \in [Transfers -> [code : {"running", "0", "1"},
                             restore : {"none", "all", "some", "ignored", "broken"}]]
  /\ dumpFile \in [of : 0..MaxTransfers, parts : 0..Presigned]
  /\ partFile \in [of : 0..MaxTransfers, no : 0..Presigned, whole : BOOLEAN]
  /\ cut \in [Transfers -> [done : 0..Presigned, all : 0..Presigned]]
  /\ \A r \in Transfers :
       /\ uploads[r].open \in BOOLEAN
       /\ \A p \in uploads[r].parts \cup object[r] : p.at \in 1..Presigned
  /\ unpacked \subseteq Transfers /\ chosen \in [Transfers -> 0..MaxTransfers]
  /\ db \in [of : 0..MaxTransfers, whole : BOOLEAN]
  /\ transferFaults \in 0..MaxTransferFaults
  /\ mixed \subseteq Transfers /\ leftover \subseteq Transfers

\* The parts of the whole dump of r, each in its place.
WholeDump(r) ==
  {[at |-> n, is |-> [of |-> r, no |-> n, whole |-> TRUE]] : n \in 1..cut[r].all}

\* Of a backup whose script had the container to itself, whatever failed: reported complete,
\* the object is one whole dump of this very run; reported failed, no part is left to bill
\* (_dispatchers.py 787-799, 857-917).
BackupIsWholeOrNothing ==
  \A r \in Transfers \ mixed : kindOf[r] = "backup" =>
    /\ client[r] = "complete" => cut[r].all > 0 /\ object[r] = WholeDump(r)
    /\ client[r] = "failed" => uploads[r].parts = {}

\* rc db push "downloads the dump and restores it": after a push that nothing overlapped and
\* that was reported complete, the database holds that dump.
PushRestoresItsDump ==
  \A r \in Transfers \ mixed :
    kindOf[r] = "push" /\ client[r] = "complete" /\ r = given => db.of = r
=============================================================================
