--------------------------- MODULE MCWaiterQueue ---------------------------
(* Instances of WaiterQueue for TLC: the order of the ticket names, and    *)
(* how many waiters are in trouble at once.                                *)
EXTENDS WaiterQueue, FiniteSets, TLC

CONSTANTS w1, w2, w3

Names == w1 :> 1 @@ w2 :> 2 @@ w3 :> 3

OneInTrouble ==
  Cardinality(suspended \cup (Waiters \ alive) \cup {w \in Waiters : reg[w] = "failed"}) <= 1
=============================================================================
