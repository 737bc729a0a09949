------------------------------ MODULE RollGate ------------------------------
(***************************************************************************)
(* What a force-roll promises its caller, without saying how: it starts    *)
(* deployments, then gates on them, and reports green only when every      *)
(* deployment it started has settled.  _force_new_deployments and its      *)
(* two watchers are the implementation (EcsRollout).                       *)
(***************************************************************************)
CONSTANT Name  \* ECS service names

VARIABLES
  verdict,  \* "rolling", "gating", then "green" or "red"
  rolled,   \* services a deployment was started on
  settled   \* those whose deployment ECS has finished with

gateVars == <<verdict, rolled, settled>>

GateInit ==
  /\ verdict = "rolling"
  /\ rolled = {}
  /\ settled = {}

Roll(n) ==
  /\ verdict = "rolling"
  /\ n \notin rolled
  /\ rolled' = rolled \cup {n}
  /\ UNCHANGED <<verdict, settled>>

Gate ==
  /\ verdict = "rolling"
  /\ verdict' = "gating"
  /\ UNCHANGED <<rolled, settled>>

Settle(n) ==
  /\ n \in rolled \ settled
  /\ settled' = settled \cup {n}
  /\ UNCHANGED <<verdict, rolled>>

Green ==
  /\ verdict = "gating"
  /\ rolled \subseteq settled
  /\ verdict' = "green"
  /\ UNCHANGED <<rolled, settled>>

Red ==
  /\ verdict \in {"rolling", "gating"}
  /\ verdict' = "red"
  /\ UNCHANGED <<rolled, settled>>

GateNext == (\E n \in Name : Roll(n) \/ Settle(n)) \/ Gate \/ Green \/ Red

GateSafety == GateInit /\ [][GateNext]_gateVars

(* The gate always comes to a verdict. *)
GateSpec == GateSafety /\ WF_gateVars(Gate \/ Green \/ Red)
=============================================================================
