---------------------------- MODULE MCClearCycle ----------------------------
(* Every control once and one resume. *)
EXTENDS ClearCycle
=============================================================================
