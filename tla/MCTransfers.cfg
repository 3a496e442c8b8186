SPECIFICATION MCSpec
CONSTANTS
  ann = ann
  bob = bob
  cat = cat
  g1 = g1
  g2 = g2
  a1 = a1
  a2 = a2
  r1 = r1
  firstTask = firstTask
  deposit = deposit
  Users = {ann, bob, cat}
  Opening = 16
  Totals = {3}
  Spenders = {ann}
  Circles <- MCCircles
  Vips = {ann, bob}
  Gives = {g1, g2}
  Awards = {a1, a2}
  Referrals = {r1}
  Referrer <- MCReferrer
  Referee <- MCReferee
  Milestones = {firstTask, deposit}
  FirstTask = firstTask
  ReferrerBonus <- MCReferrerBonus
  RefereeBonus <- MCRefereeBonus
  MaxAttempts = 2
  MaxCalls = 3
  None = None
  Topics = {g1, g2}
  Replies = {a1, a2}
  Deletes = {a1, a2}
  Edits = {g1, g2}
  Reports = {g1, g2}
  Severity <- MCSeverity
  Limit <- MCLimit
  Others = {r1}
  Resolutions = {r1}
  Orders = {r1}
  Verifies = {r1}
  Resends = {r1}
  Links = {a1, a2}
  Requests = {r1}
  task = task
  mission = mission
  daily = daily
  bought = bought
  XpAwards = {task, mission, daily, bought}
  Claims = {daily}
  VpOnly = {bought}
  Xp <- MCXp
  Vp <- MCVp
  Boosts = {2}
  PerLevel = 100
  LevelBonus = 20
  Requirement <- MCRequirement
SYMMETRY MCSymmetry
INVARIANTS
  PointsKept
  TopicsTrue
  ThresholdNotMissed
  RestrictionBites
  WholeOrNothing
  MilestonePaidOnce
  BudgetKept

CHECK_DEADLOCK FALSE
