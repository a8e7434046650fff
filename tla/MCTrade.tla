------------------------------- MODULE MCTrade -------------------------------
(* Two players; two items of one of them, of different inventories, and    *)
(* mesos of the other.                                                     *)
EXTENDS Trade

CONSTANTS left, right, sword, potion, coins

MCOwner == [g \in Goods |-> IF g = coins THEN right ELSE left]
MCKind == [g \in Items |-> IF g = potion THEN "use" ELSE "equip"]
=============================================================================
