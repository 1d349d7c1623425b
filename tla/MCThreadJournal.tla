---------------------------- MODULE MCThreadJournal ----------------------------
EXTENDS ThreadJournal, TLC

Symmetry == Permutations(Processes)
=============================================================================
