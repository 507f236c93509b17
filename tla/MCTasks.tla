------------------------------ MODULE MCTasks ------------------------------
EXTENDS Tasks, TLC
=============================================================================
