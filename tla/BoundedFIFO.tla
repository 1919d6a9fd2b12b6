---------------------------- MODULE BoundedFIFO -----------------------------
(***************************************************************************)
(* What every single-producer single-consumer channel of the code base      *)
(* promises: batches go in at the back, come out at the front, in order,    *)
(* and at most Capacity elements are inside.                                *)
(***************************************************************************)
EXTENDS Naturals, Sequences

CONSTANTS Values, Capacity

VARIABLES queue,   \* the elements inside
          got      \* everything taken out so far

fifoVars == <<queue, got>>

Init == queue = <<>> /\ got = <<>>

Put(items) ==
    /\ Len(queue) + Len(items) <= Capacity
    /\ queue' = queue \o items
    /\ got' = got

Get(n) ==
    /\ queue' = SubSeq(queue, n + 1, Len(queue))
    /\ got' = got \o SubSeq(queue, 1, n)

Next == \/ \E n \in 0 .. Capacity : \E items \in [1 .. n -> Values] : Put(items)
        \/ \E n \in 0 .. Len(queue) : Get(n)

Spec == Init /\ [][Next]_fifoVars
=============================================================================
