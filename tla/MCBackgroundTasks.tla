------------------------- MODULE MCBackgroundTasks -------------------------
\* Three requests: two that share a list and a third that meets their entry.
EXTENDS BackgroundTasks, TLC
CONSTANTS r1, r2, r3

ThreeRequests == {r1, r2, r3}
TwoRequests == {r1, r2}
RequestSymmetry == Permutations(ThreeRequests)
=============================================================================
