--------------------------- MODULE MCLockFreePool ---------------------------
\* Small pools for TLC: the tasks are interchangeable, so the runs that check
\* safety identify the states that differ by a permutation of them.
EXTENDS LockFreePool, TLC

Symmetry == Permutations(Tasks)
=============================================================================
