---------------------------- MODULE MCMatchEngine ----------------------------
(* Instances of MatchEngine for TLC. *)
EXTENDS MatchEngine, TLC

CONSTANTS c1, c2

\* The contestants are treated alike.
Symmetry == Permutations(Contestants)
=============================================================================
