-------------------------- MODULE MCOrderSequencer --------------------------
(* OrderSequencer for TLC: gateway threads are interchangeable.             *)
EXTENDS OrderSequencer, TLC

GatewaySymmetry == Permutations(Producers)
=============================================================================
