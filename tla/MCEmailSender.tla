---------------------------- MODULE MCEmailSender ----------------------------
\* Three messages whose threads interleave.
EXTENDS EmailSender, TLC
CONSTANTS m1, m2, m3

ThreeMessages == {m1, m2, m3}
TwoMessages == {m1, m2}
MessageSymmetry == Permutations(ThreeMessages)
=============================================================================
