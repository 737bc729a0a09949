-------------------------- MODULE CodeBuildBackend --------------------------
(***************************************************************************)
(* The remote build backend, AwsCodeBuildBackend.build_and_push, called by *)
(* one or several deploys at once: the context goes to a bucket and a      *)
(* CodeBuild project is looked up, each created if missing; a build is     *)
(* started and polled, and its log relayed from a stream that may never    *)
(* run dry.                                                                *)
(*                                                                         *)
(* External: S3, CodeBuild (whose own time limit ends every build) and     *)
(* CloudWatch, which goes on handing out pages after the build is over.    *)
(***************************************************************************)
EXTENDS Naturals, FiniteSets

CONSTANTS
  Calls,      \* calls of build_and_push
  Specs,      \* the images each of them is to build
  MaxUnread,  \* bound: log pages CloudWatch has and rc has not read
  EmptyTries  \* CODEBUILD_FINAL_DRAIN_EMPTY_TRIES

ASSUME BackendAssumption == MaxUnread \in Nat \ {0} /\ EmptyTries \in Nat \ {0}

VARIABLES
  bucket,     \* the source bucket: "none", "mine", or of another account
  cbProject,  \* the CodeBuild project exists
  atStep,     \* [Calls -> where the call is]
  buildStatus,\* [Calls -> "none" before start_build; "FAILED" is any bad end]
  inEcr,      \* [Calls -> specs whose tags its build pushed]
  unread,     \* [Calls -> log pages a drain can read]
  late,       \* [Calls -> the deadline of the drain has passed]
  passes,     \* [Calls -> passes of the final drain in a row that read nothing]
  gotPage     \* [Calls -> this pass read a page, or its token moved]

cbShared == <<bucket, cbProject>>
cbBuild == <<buildStatus, inEcr>>
cbLog == <<unread, late, passes, gotPage>>
cbVars == <<cbShared, atStep, cbBuild, cbLog>>

CodeBuildInit ==
  /\ bucket \in {"none", "mine", "theirs"} /\ cbProject \in BOOLEAN
  /\ atStep = [c \in Calls |-> "waiting"]
  /\ buildStatus = [c \in Calls |-> "none"] /\ inEcr = [c \in Calls |-> {}]
  /\ unread = [c \in Calls |-> 0] /\ late = [c \in Calls |-> FALSE]
  /\ passes = [c \in Calls |-> 0] /\ gotPage = [c \in Calls |-> FALSE]

Drains == {"drain", "final drain"}
Goes(c, from, to) == atStep[c] = from /\ atStep' = [atStep EXCEPT ![c] = to]

-----------------------------------------------------------------------------
(* Bucket, project, build *)

PackageContext(c) ==
  /\ Goes(c, "waiting", "bucket")
  /\ UNCHANGED <<cbShared, cbBuild, cbLog>>

\* head_bucket: any error counts as missing, that of another account's bucket as well.
HeadBucket(c) ==
  /\ Goes(c, "bucket", IF bucket = "mine" THEN "upload" ELSE "create bucket")
  /\ UNCHANGED <<cbShared, cbBuild, cbLog>>

\* A bucket that exists by now, whosever it is, is no error; putting into it may be.
CreateBucket(c) ==
  /\ Goes(c, "create bucket", "upload")
  /\ bucket' = IF bucket = "none" THEN "mine" ELSE bucket
  /\ UNCHANGED <<cbProject, cbBuild, cbLog>>

UploadContext(c) ==
  /\ Goes(c, "upload", IF bucket = "mine" THEN "project" ELSE "raised")
  /\ UNCHANGED <<cbShared, cbBuild, cbLog>>

DescribeProject(c) ==
  /\ Goes(c, "project", IF cbProject THEN "start" ELSE "create project")
  /\ UNCHANGED <<cbShared, cbBuild, cbLog>>

\* Unlike the bucket, a project someone else has created meanwhile raises.
CreateProject(c) ==
  /\ Goes(c, "create project", IF cbProject THEN "raised" ELSE "start")
  /\ cbProject' = TRUE
  /\ UNCHANGED <<bucket, cbBuild, cbLog>>

StartBuild(c) ==
  /\ Goes(c, "start", "poll")
  /\ buildStatus' = [buildStatus EXCEPT ![c] = "IN_PROGRESS"]
  /\ UNCHANGED <<cbShared, inEcr, cbLog>>

-----------------------------------------------------------------------------
(* Following it *)

NoDrain(c) ==
  /\ unread' = [unread EXCEPT ![c] = 0] /\ late' = [late EXCEPT ![c] = FALSE]
  /\ passes' = [passes EXCEPT ![c] = 0] /\ gotPage' = [gotPage EXCEPT ![c] = FALSE]

PollBuild(c) ==
  /\ Goes(c, "poll", IF buildStatus[c] = "IN_PROGRESS" THEN "drain" ELSE "final drain")
  /\ UNCHANGED <<cbShared, cbBuild, cbLog>>

Drained(c) ==
  /\ atStep' = [atStep EXCEPT ![c] = IF @ = "drain" THEN "poll" ELSE "ended"]
  /\ NoDrain(c)

\* Variant: the drain goes on until the stream has no more to give.
ReadEveryPage(c) ==
  /\ atStep[c] \in Drains /\ unread[c] > 0
  /\ unread' = [unread EXCEPT ![c] = @ - 1]
  /\ gotPage' = [gotPage EXCEPT ![c] = atStep[c] = "final drain"]
  /\ UNCHANGED <<cbShared, cbBuild, atStep, late, passes>>

\* get_log_events: one page; past the deadline _drain_logs goes back to its caller.
ReadPage(c) ==
  /\ atStep[c] \in Drains /\ unread[c] > 0
  /\ IF late[c] THEN Drained(c)
     ELSE /\ unread' = [unread EXCEPT ![c] = @ - 1]
          /\ gotPage' = [gotPage EXCEPT ![c] = atStep[c] = "final drain"]
          /\ UNCHANGED <<atStep, late, passes>>
  /\ UNCHANGED <<cbShared, cbBuild>>

\* Caught up, or get_log_events failed: back to the poll.
CaughtUp(c) ==
  /\ atStep[c] = "drain" /\ Drained(c)
  /\ UNCHANGED <<cbShared, cbBuild>>

\* The final drain wants EmptyTries passes in a row without a page, or its deadline.
FinalPassEnds(c) ==
  LET empty == IF gotPage[c] THEN 0 ELSE passes[c] + 1
  IN  /\ atStep[c] = "final drain"
      /\ IF empty = EmptyTries \/ late[c] THEN Drained(c)
         ELSE /\ passes' = [passes EXCEPT ![c] = empty]
              /\ gotPage' = [gotPage EXCEPT ![c] = FALSE]
              /\ UNCHANGED <<atStep, unread, late>>
      /\ UNCHANGED <<cbShared, cbBuild>>

\* Only SUCCEEDED returns.
Conclude(c) ==
  /\ Goes(c, "ended", IF buildStatus[c] = "SUCCEEDED" THEN "returned" ELSE "raised")
  /\ UNCHANGED <<cbShared, cbBuild, cbLog>>

\* Any call but head_bucket and get_log_events raises, one that polls a running build too.
CallRaises(c) ==
  /\ atStep[c] \in {"create bucket", "upload", "project", "create project", "start", "poll"}
  /\ atStep' = [atStep EXCEPT ![c] = "raised"]
  /\ UNCHANGED <<cbShared, cbBuild, cbLog>>

CallKilled(c) ==
  /\ atStep[c] \notin {"waiting", "returned", "raised"}
  /\ atStep' = [atStep EXCEPT ![c] = "raised"] /\ NoDrain(c)
  /\ UNCHANGED <<cbShared, cbBuild>>

-----------------------------------------------------------------------------
(* External *)

\* The commands of the build phase run one by one, and the first failure ends it.
BuildPushes(c) ==
  /\ buildStatus[c] = "IN_PROGRESS"
  /\ \E s \in Specs \ inEcr[c] : inEcr' = [inEcr EXCEPT ![c] = @ \cup {s}]
  /\ UNCHANGED <<cbShared, atStep, buildStatus, cbLog>>

BuildSucceeds(c) ==
  /\ buildStatus[c] = "IN_PROGRESS" /\ inEcr[c] = Specs
  /\ buildStatus' = [buildStatus EXCEPT ![c] = "SUCCEEDED"]
  /\ UNCHANGED <<cbShared, atStep, inEcr, cbLog>>

BuildFails(c) ==
  /\ buildStatus[c] = "IN_PROGRESS"
  /\ buildStatus' = [buildStatus EXCEPT ![c] = "FAILED"]
  /\ UNCHANGED <<cbShared, atStep, inEcr, cbLog>>

LogArrives(c) ==
  /\ atStep[c] \in Drains /\ unread[c] < MaxUnread
  /\ unread' = [unread EXCEPT ![c] = @ + 1]
  /\ UNCHANGED <<cbShared, atStep, cbBuild, late, passes, gotPage>>

DeadlinePasses(c) ==
  /\ atStep[c] \in Drains /\ ~late[c]
  /\ late' = [late EXCEPT ![c] = TRUE]
  /\ UNCHANGED <<cbShared, atStep, cbBuild, unread, passes, gotPage>>

-----------------------------------------------------------------------------
ClientStep(c) ==
  \/ HeadBucket(c) \/ CreateBucket(c) \/ UploadContext(c)
  \/ DescribeProject(c) \/ CreateProject(c) \/ StartBuild(c)
  \/ PollBuild(c) \/ ReadPage(c) \/ (unread[c] = 0 /\ CaughtUp(c))
  \/ (unread[c] = 0 /\ FinalPassEnds(c)) \/ Conclude(c)

BuildStep(c) == BuildPushes(c) \/ BuildSucceeds(c) \/ BuildFails(c)

CodeBuildNext ==
  \E c \in Calls : \/ PackageContext(c) \/ ClientStep(c) \/ BuildStep(c)
                   \/ CaughtUp(c) \/ FinalPassEnds(c) \/ CallRaises(c) \/ CallKilled(c)
                   \/ LogArrives(c) \/ DeadlinePasses(c)

\* rc runs on, time passes, and a build ends by itself or by CodeBuild's time limit.
CodeBuildFairness ==
  \A c \in Calls : /\ WF_cbVars(ClientStep(c)) /\ WF_cbVars(DeadlinePasses(c))
                   /\ WF_cbVars(BuildStep(c))

CodeBuildSpec == CodeBuildInit /\ [][CodeBuildNext]_cbVars /\ CodeBuildFairness

-----------------------------------------------------------------------------
CodeBuildTypeOK ==
  /\ bucket \in {"none", "mine", "theirs"} /\ cbProject \in BOOLEAN
  /\ atStep \in [Calls -> {"waiting", "bucket", "create bucket", "upload", "project",
                       "create project", "start", "poll", "drain", "final drain", "ended",
                       "returned", "raised"}]
  /\ buildStatus \in [Calls -> {"none", "IN_PROGRESS", "SUCCEEDED", "FAILED"}]
  /\ inEcr \in [Calls -> SUBSET Specs]
  /\ unread \in [Calls -> 0..MaxUnread] /\ late \in [Calls -> BOOLEAN]
  /\ passes \in [Calls -> 0..EmptyTries] /\ gotPage \in [Calls -> BOOLEAN]

\* The call as the provider sees it.
Outcome ==
  [c \in Calls |-> IF atStep[c] \in {"waiting", "returned", "raised"} THEN atStep[c] ELSE "building"]

Contract == INSTANCE BuildBackend WITH outcome <- Outcome, arrived <- inEcr

\* Other deploys may race it to the bucket and the project, any call may fail, the log may
\* never run dry: what returns is built and pushed, and it does end.  The contract is that
\* of src/remote_compose/image/backend.py 134-153.
ImplementsBackend == Contract!BackendSpec
=============================================================================
