------------------------------ MODULE MCRuntime ------------------------------
EXTENDS Runtime, TLC

CONSTANTS l1, l2

\* The launchers are alike.
Alike == Permutations(Launcher)
=============================================================================
