----------------------------- MODULE MCSchedule ------------------------------
EXTENDS Schedule, TLC

\* One cycle that counts, and one with a blemish.
Cycles == {[approved |-> TRUE, duplicate |-> FALSE, resolved |-> TRUE, recovered |-> TRUE],
           [approved |-> TRUE, duplicate |-> FALSE, resolved |-> TRUE, recovered |-> FALSE]}

Symmetry == Permutations(Procs) \cup Permutations(Operators)
=============================================================================
