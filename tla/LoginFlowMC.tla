----------------------------- MODULE LoginFlowMC -----------------------------
(* Small instances of LoginFlow for TLC. *)
EXTENDS LoginFlow
==============================================================================
