----------------------------- MODULE MCRxPktBuf -----------------------------
EXTENDS RxPktBuf
=============================================================================
