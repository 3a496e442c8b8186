---------------------------- MODULE MCChallenges ----------------------------
EXTENDS Challenges

CONSTANTS u1, u2, u3, c1, c2, s1, s2

TwoUsers == {u1, u2}
ThreeUsers == {u1, u2, u3}
TwoSubmits == {c1, c2}
TwoSweeps == {s1, s2}
=============================================================================
