SPECIFICATION FairSpec
CONSTANTS
  u1 = u1  u2 = u2  u3 = u3  c1 = c1  c2 = c2  s1 = s1  s2 = s2
  Nobody = Nobody
  Users <- ThreeUsers
  Submits <- TwoSubmits
  Sweeps <- TwoSweeps
  Reward = 5
  Fee = 1
CHECK_DEADLOCK FALSE
INVARIANTS
  StatusesAgree
  SettledOnce
PROPERTIES
  DeadlineFreesReserve
