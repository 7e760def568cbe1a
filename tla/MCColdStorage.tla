---------------------------- MODULE MCColdStorage ----------------------------
EXTENDS ColdStorage
BothOps == {"move", "copy"}
=============================================================================
