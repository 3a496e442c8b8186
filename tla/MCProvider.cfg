SPECIFICATION FairSpec
CONSTANTS
  c1 = c1  c2 = c2  k1 = k1  k2 = k2  w1 = w1  w2 = w2  n1 = n1  r1 = r1
  None = None
  Creates <- TwoCreates
  Captures <- TwoCaptures
  Hooks <- TwoHooks
  Cancels <- OneCancel
  Reviews <- OneReview
CHECK_DEADLOCK FALSE
INVARIANTS
  CompletedMeansCredited
  CreditMeansPaid
  PayableIsStored
PROPERTIES
  PaidSettles
