----------------------------- MODULE MCTxGroups -----------------------------
(* TLC instances of the packet buffer groups: the limits are scaled down so *)
(* that, as in the source, one buffer is left when both groups are full.   *)
EXTENDS TxGroups
=============================================================================
