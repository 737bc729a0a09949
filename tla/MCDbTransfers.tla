----------------------------- MODULE MCDbTransfers -----------------------------
(* Two pushes one after the other, nothing failing but pg_restore. *)
EXTENDS DbTransfers
Spec == TransfersInit /\ [][TransfersNext]_transferVars
================================================================================
