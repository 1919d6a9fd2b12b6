--------------------------- MODULE MCContestRunner ---------------------------
(* Instances of ContestRunner for TLC. *)
EXTENDS ContestRunner
=============================================================================
