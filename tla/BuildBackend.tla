---------------------------- MODULE BuildBackend ----------------------------
(***************************************************************************)
(* The contract of BuildBackend.build_and_push, whatever runs the build:   *)
(* a call that returns has built every spec and pushed its tags, and       *)
(* nothing of it is pushed any more; a call that cannot do so raises; and  *)
(* every call ends.  After a call has raised, its images may still move.   *)
(***************************************************************************)
CONSTANTS Calls, Specs

VARIABLES
  outcome,  \* [Calls -> "waiting", "building", "returned" or "raised"]
  arrived   \* [Calls -> the specs whose tags the call has pushed]

backendVars == <<outcome, arrived>>

BackendInit ==
  /\ outcome = [c \in Calls |-> "waiting"]
  /\ arrived = [c \in Calls |-> {}]

Ends(c, o) ==
  /\ outcome[c] = "building"
  /\ outcome' = [outcome EXCEPT ![c] = o]
  /\ UNCHANGED arrived

Ask(c) ==
  /\ outcome[c] = "waiting"
  /\ outcome' = [outcome EXCEPT ![c] = "building"]
  /\ UNCHANGED arrived

Push(c, s) ==
  /\ outcome[c] \in {"building", "raised"}
  /\ arrived' = [arrived EXCEPT ![c] = @ \cup {s}]
  /\ UNCHANGED outcome

Return(c) == arrived[c] = Specs /\ Ends(c, "returned")
Raise(c) == Ends(c, "raised")

BackendNext ==
  \E c \in Calls : Ask(c) \/ Return(c) \/ Raise(c) \/ \E s \in Specs : Push(c, s)

BackendSafety == BackendInit /\ [][BackendNext]_backendVars

BackendSpec ==
  /\ BackendSafety
  /\ \A c \in Calls : WF_backendVars(Return(c) \/ Raise(c))
=============================================================================
