-------------------------- MODULE MCFpgaSequencer --------------------------
(* Three ports: one gateway with one contestant, one that also sends beats  *)
(* the parser rejects, one whose beats change contestant.  Three is not a   *)
(* power of two, so the arbiter's reset of rr_priority is exercised.        *)
EXTENDS FpgaSequencer, TLC

Beat(type, id) == [msg_type |-> type, contestant_id |-> id]

MCBus == {0 :> Beat(10, 0) @@ 1 :> x @@ 2 :> y :
              x \in {Beat(11, 1), Beat(99, 1)}, y \in {Beat(10, 2), Beat(10, 3)}}

MCMaxOrders == 0 :> 1 @@ 1 :> 2 @@ 2 :> 2

=============================================================================
