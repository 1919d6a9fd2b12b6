---------------------------- MODULE MCCompetition ----------------------------
(* Competition for TLC. *)
EXTENDS Competition
=============================================================================
