SPECIFICATION MCSpec
CONSTANTS
  q1 = q1
  q2 = q2
  q3 = q3
  t1 = t1
  t2 = t2
  t3 = t3
  Requests = {q1, q2, q3}
  Tokens = {t1, t2, t3}
  NoToken = NoToken
  main = main
  alt = alt
  s1 = s1
  Accounts = {main, alt}
  Secrets = {t1, t2, t3, s1}
  Connects = {main, alt}
  Checks = {q1, q2, q3}
  None = None
SYMMETRY MCSymmetry
INVARIANTS
  LinkIntact
  OneHeir
PROPERTIES
  KeptSignedIn

CHECK_DEADLOCK FALSE
