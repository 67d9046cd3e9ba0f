-------------------------- MODULE MCBlockDelivery --------------------------
(* BlockDelivery on instances small enough for TLC: one strategy's limit is *)
(* below the shared total, the other's is at it, and together they exceed   *)
(* it, so that each of the two counters can be the one that refuses.        *)
EXTENDS BlockDelivery

MCLimit == [r \in Reasons |-> IF r = "network" THEN 1 ELSE MaxTotal]
============================================================================
