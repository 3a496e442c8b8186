SPECIFICATION FairSpec
CONSTANTS
  u1 = u1  r1 = r1  r2 = r2  r3 = r3
  Users <- OneUser
  Requests <- ThreeRequests
  Amounts <- AnyAmount
  WelcomeCredits = 3
  Welcome = Welcome
  MaxRetry = 2
  MaxInt = 7
INVARIANTS
  LedgerIsStatement
  ContentionMeansProgress
PROPERTIES
  MirrorNeverDiverges
  EveryRequestEnds
  ImplementsAccount
