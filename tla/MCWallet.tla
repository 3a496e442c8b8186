------------------------------ MODULE MCWallet ------------------------------
EXTENDS Wallet

CONSTANTS u1, r1, r2, r3

OneUser == {u1}
ThreeRequests == {r1, r2, r3}
AnyAmount == {0, 2, 3}
=============================================================================
