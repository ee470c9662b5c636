---------------------------- MODULE MCCeleryWork ----------------------------
\* Two requests and two workers, one name for schedules.
EXTENDS CeleryWork, TLC
CONSTANTS r1, r2, w1, w2, n1

TwoRequests == {r1, r2}
OneRequest == {r1}
TwoWorkers == {w1, w2}
OneName == {n1}
Symmetry == Permutations(TwoRequests) \cup Permutations(TwoWorkers)
=============================================================================
