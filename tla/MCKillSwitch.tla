---------------------------- MODULE MCKillSwitch -----------------------------
EXTENDS KillSwitch, TLC

CallerSymmetry == Permutations(Callers)
=============================================================================
