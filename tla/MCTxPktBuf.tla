----------------------------- MODULE MCTxPktBuf -----------------------------
(* TLC instance of the transmit packet buffer hand-over.                   *)
EXTENDS TxPktBufProps
=============================================================================
