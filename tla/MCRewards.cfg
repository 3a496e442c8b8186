SPECIFICATION MCRewardsSpec
CONSTANTS
  Users = {u1, u2}
  Claims = {k1, k2, k3}
  Checks = {h1, h2}
  Bumps = {b1, b2, b3}
  Networks = {n1}
  NoNetwork = NoNetwork
  Cooldown = 2
  Grace = 3
  MaxCalls = 4
  StreakGoal = 2
  Goals = {1}
  Requirement = 2
  MaxTime = 5
  None = None
SYMMETRY MCRewardsSymmetry
INVARIANTS
  StreakIsRun
  PaidOnce

CHECK_DEADLOCK FALSE
