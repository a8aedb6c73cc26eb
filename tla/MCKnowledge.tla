---------------------------- MODULE MCKnowledge ----------------------------
EXTENDS Knowledge, TLC
CONSTANTS d1, d2, x, y
=============================================================================
