--------------------------- MODULE MCBridgeSession ---------------------------
(* Instances of BridgeSession for TLC. *)
EXTENDS BridgeSession

Order(side, type, price, qty) == [side |-> side, type |-> type, price |-> price, qty |-> qty]

\* Two prices, a market order of three, and a taker of two that may rest.
SmallFlow == {Order("SELL", "LIMIT", 1, 1), Order("SELL", "LIMIT", 2, 1),
              Order("BUY", "MARKET", 0, 3), Order("BUY", "LIMIT", 2, 2)}

\* Three prices, so that a level can be added behind the best one.
LadderFlow == {Order("SELL", "LIMIT", p, 1) : p \in 1 .. 3} \cup {Order("BUY", "MARKET", 0, 1)}
=============================================================================
