SPECIFICATION FairSpec
CONSTANTS
  c1 = c1
  c2 = c2
  boost = boost
  credits = credits
  Clicks = {c1, c2}
  MaxRetries = 1
  Cost = 20
  MaxPaid = 1
  Prizes = {boost, credits}
  NoPrize = NoPrize
  LastDay = 2
INVARIANTS
  AnswersAreTrue
PROPERTIES
  ImplementsSpins
  SpinsEnd

CHECK_DEADLOCK FALSE
