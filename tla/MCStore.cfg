SPECIFICATION MCStoreSpec
CONSTANTS
  Customers = {u1, u2}
  Consumables = {box}
  Cosmetics = {frame}
  Limits = {1, 3}
  MaxOwned = 3
  MaxQuantity = 2
  Buys = {b1, b2}
  Uses = {c1, c2}
  Gifts = {g1}
  NoOne = NoOne
  Deposits = {1, 2, 3, 4}
  Figures = {fee, net}
  PageSize = 2
  MaxScan = 3
  Quota = 2
SYMMETRY MCStoreSymmetry
INVARIANTS
  BackfillComplete
  KeptUntilApplied
PROPERTIES
  GuardsNotRaced

CHECK_DEADLOCK FALSE
