SPECIFICATION MCSpec
CONSTANTS
  w1 = w1  w2 = w2  w3 = w3  p1 = p1  p2 = p2  e1 = e1
  Workers <- ThreeWorkers
  Proofs <- TwoProofs
  Edits <- OneEdit
  TotalSlots = 2
  CreditPerTask = 3
  c1 = c1  c2 = c2  u1 = u1  u2 = u2
  Takers <- TwoProofs
  Calls = {c1, c2}
  Updates = {u1, u2}
  Orders = {e1}
  MaxEdits = 2
  Slots = {1, 2}
  Prices = {2, 3}
  Kept = Kept
  Scenes = {"campaign", "platform"}
CHECK_DEADLOCK FALSE
SYMMETRY Interchangeable
INVARIANTS
  SlotsAreCompletions
  PaidOnceIfVerified
  PoolCovers
  TaskAddsUp
PROPERTIES
  ImplementsEscrow
