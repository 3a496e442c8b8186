------------------------- MODULE MCProviderDeposits -------------------------
EXTENDS ProviderDeposits

CONSTANTS c1, c2, k1, k2, w1, w2, n1, r1

OneCreate == {c1}
TwoCreates == {c1, c2}
OneCapture == {k1}
TwoCaptures == {k1, k2}
OneHook == {w1}
TwoHooks == {w1, w2}
OneCancel == {n1}
OneReview == {r1}
=============================================================================
