---------------------------- MODULE MCJudgeQueue ----------------------------
(* JudgeQueue for TLC. *)
EXTENDS JudgeQueue
=============================================================================
