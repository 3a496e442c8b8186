SPECIFICATION MCFairSpec
CONSTANTS
  u1 = u1  u2 = u2  d1 = d1  d2 = d2  h1 = h1  h2 = h2  v1 = v1  c1 = c1
  None = None
  b1 = b1  b2 = b2  q1 = q1  q2 = q2  q3 = q3  r1 = r1  r2 = r2
  Users <- TwoUsers
  Deposits <- TwoDeposits
  Hashes <- OneHash
  Owner <- OneOwner
  Checks = {}
  Crons <- OneCron
  Reviewed = {}
  Transfers <- PaidByEither
  Beacons = {}
  Sender <- OneVisitor
  Deliveries = {}
  Runs = {}
  Window = 2
  DayLength = 2
  Rebuild = 2
  RawDays = 2
  FigureDays = 3
  LastTime = 5
  Scenes = {"deposit"}
CHECK_DEADLOCK FALSE
INVARIANTS
  OneCreditPerTransfer
PROPERTY
  ValidClaimSettles
