------------------------------ MODULE MCDcfTx ------------------------------
EXTENDS DcfTx
MCLimits == {1, 3}
=============================================================================
