---------------------------- MODULE MCLoadEngine ----------------------------
(* Instances of LoadEngine for TLC. *)
EXTENDS LoadEngine
=============================================================================
