---------------------------- MODULE MCCmsisDapTx ----------------------------
EXTENDS CmsisDapTx
=============================================================================
