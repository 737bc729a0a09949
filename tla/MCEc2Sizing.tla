----------------------------- MODULE MCEc2Sizing -----------------------------
(* One service of many tasks, on the default ladder. *)
EXTENDS Ec2Sizing

MCLadder == <<"t3.small", "t3.medium", "t3.large", "t3.xlarge", "t3.2xlarge">>
Row(cpus, gib, eni) == [vcpu |-> cpus, mib |-> gib * 1024, enis |-> eni, trunked |-> 0]
MCShapes ==
  [t \in {MCLadder[i] : i \in DOMAIN MCLadder} |->
     CASE t = "t3.small" -> Row(2, 2, 3)
       [] t = "t3.medium" -> Row(2, 4, 3)
       [] t = "t3.large" -> Row(2, 8, 3)
       [] t = "t3.xlarge" -> Row(4, 16, 4)
       [] t = "t3.2xlarge" -> Row(8, 32, 4)]
MCDemands ==
  [{"worker"} -> [cpu : {0}, mem : {1024, 4096}, replicas : {4, 16}, percent : {100, 200}]]
MCRequests ==
  [type : {"auto"}, desired : {0}, max : {0, 12}, rolling : BOOLEAN, bridge : {FALSE},
   trunking : {FALSE}]
==============================================================================
