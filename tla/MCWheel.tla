------------------------------ MODULE MCWheel ------------------------------
EXTENDS Wheel
CONSTANTS c1, c2, boost, credits
=============================================================================
