--------------------------- MODULE MCCompaction ---------------------------
EXTENDS CompactionTransaction
=============================================================================
