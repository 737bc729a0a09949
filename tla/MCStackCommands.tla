--------------------------- MODULE MCStackCommands ---------------------------
(* The commands of one operator and what they call, each component on its    *)
(* own: a behaviour is one of the five while the others rest.                *)
EXTENDS RcUp, Ec2Destroy, StateReconcile, TerraformPipes, Ec2Sizing
VARIABLE part
allVars == <<upVars, dVars, recVars, pipeVars, sizeVars, part>>

\* Two services under their own names, the one with the hook pulled and not built; and
\* "api" alone, in a task group the templates render as "grp".  In version 1 secret "a" has
\* its key renamed, "b" only rotates its value.
MCLayouts ==
  {[compose |-> {"web", "api"}, ecs |-> {"web", "api"}, built |-> {"web"}, hook |-> "api"],
   [compose |-> {"api"}, ecs |-> {"grp"}, built |-> {"grp"}, hook |-> "grp"]}
MCUsesOf == [e \in {"web", "api", "grp"} |-> IF e = "web" THEN {"b"} ELSE {"a", "b"}]
MCKeysAt == [s \in {"a", "b"} |->
              [v \in 0..1 |-> IF s = "a" /\ v = 1 THEN {"k1"} ELSE {"k0"}]]

\* Rows of T3_LADDER and KNOWN_INSTANCE_SHAPES; rc passes no CPU demand.
MCLadder == <<"t3.small", "t3.medium">>
MCShapes ==
  [t \in {"t3.small", "t3.medium", "m5.large"} |->
     CASE t = "t3.small" -> [vcpu |-> 2, mib |-> 2048, enis |-> 3, trunked |-> 0]
       [] t = "t3.medium" -> [vcpu |-> 2, mib |-> 4096, enis |-> 3, trunked |-> 0]
       [] t = "m5.large" -> [vcpu |-> 2, mib |-> 8192, enis |-> 3, trunked |-> 10]]
MCDemands ==
  [{"x", "y"} -> [cpu : {0}, mem : {512, 896, 2048}, replicas : {0, 1, 4}, percent : {200}]]
MCRequests ==
  [type : {"auto"}, desired : {0}, max : {3}, rolling : BOOLEAN, bridge : {FALSE},
   trunking : {FALSE}]
    \cup [type : {"t3.small", "m5.large"}, desired : {0, 2}, max : {3}, rolling : {FALSE},
          bridge : BOOLEAN, trunking : BOOLEAN]

\* At rest nothing a component is fair about is enabled.
UpRests == UpInit /\ declared = {} /\ layout.ecs = {"grp"}
DestroyRests ==
  /\ ec2Default = FALSE /\ compose = TRUE /\ onEc2 = {} /\ inRcYml = {} /\ exists = {}
  /\ run = {} /\ want = {} /\ instance = "gone" /\ at = "destroyed" /\ drain = {}
  /\ left = {} /\ trouble = FALSE
RecRests ==
  /\ RecInit /\ managed = {"logs"} /\ ignoreTd = FALSE /\ localState = FALSE
  /\ oneDir = FALSE /\ wants = [p \in Deploys |-> "FARGATE"] /\ td = "none"
  /\ \A r \in Res : cloud[r] = {}
PipesRest ==
  /\ toWrite = Nothing /\ pipe = Nothing /\ taken = Nothing /\ written = Nothing
  /\ child = "ok" /\ reader = "returned"
SizeRests ==
  /\ SizeInit
  /\ taskDemand = CHOOSE d \in TaskDemands : TRUE
  /\ asked = CHOOSE q \in Requests : TRUE

\* Two overlapping deploys of a stack that has everything rc reconciles: one keeps Fargate,
\* one moves to EC2.
RecStarts ==
  /\ RecInit
  /\ managed = Res /\ td = "FARGATE" /\ ~oob /\ localState = ignoreTd /\ oneDir = ignoreTd
  /\ wants = [p \in Deploys |-> IF p = "p" THEN "FARGATE" ELSE "EC2"]
  /\ cloud["http"] = {"given"} \/ tfstate["lb"] = "fresh"
  /\ cloud["logs"] = cloud["bucket"]

Init ==
  \/ part = "up" /\ UpInit /\ sm["b"] = ABSENT
       /\ declared \in (IF layout.ecs = {"grp"} THEN {{}, Secrets} ELSE {{"a"}, Secrets})
       /\ DestroyRests /\ RecRests /\ PipesRest /\ SizeRests
  \/ part = "destroy" /\ UpRests /\ DestroyInit /\ RecRests /\ PipesRest /\ SizeRests
  \/ part = "reconcile" /\ UpRests /\ DestroyRests /\ RecStarts /\ PipesRest /\ SizeRests
  \/ part = "pipes" /\ UpRests /\ DestroyRests /\ RecRests /\ PipesInit /\ SizeRests
  \/ part = "size" /\ UpRests /\ DestroyRests /\ RecRests /\ PipesRest /\ SizeInit
Next ==
  /\ UNCHANGED part
  /\ \/ /\ part = "up" /\ UpNext
        /\ UNCHANGED <<dVars, recVars, pipeVars, sizeVars>>
     \/ /\ part = "destroy" /\ DestroyNext
        /\ UNCHANGED <<upVars, recVars, pipeVars, sizeVars>>
     \/ /\ part = "reconcile" /\ RecNext
        /\ UNCHANGED <<upVars, dVars, pipeVars, sizeVars>>
     \/ /\ part = "pipes" /\ PipesNext
        /\ UNCHANGED <<upVars, dVars, recVars, sizeVars>>
     \/ /\ part = "size" /\ SizeNext
        /\ UNCHANGED <<upVars, dVars, recVars, pipeVars>>
Spec == Init /\ [][Next]_allVars /\ UpFairness /\ DestroyFairness /\ PipesFairness

\* The type invariants of the components.
TypeOK == UpTypeOK /\ DestroyTypeOK /\ RecTypeOK /\ PipesTypeOK /\ SizeTypeOK
==============================================================================
