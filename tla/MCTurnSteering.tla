--------------------------- MODULE MCTurnSteering ---------------------------
EXTENDS TurnSteering, TLC
=============================================================================
