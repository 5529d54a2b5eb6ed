-------------------------- MODULE MCTxPktBufReboot --------------------------
(* TLC instances of the hand-over with reboots.  The numbers of buffers and *)
(* of reboots are bounded in the configurations.                           *)
EXTENDS TxPktBufReboot
=============================================================================
