SPECIFICATION Spec
CONSTANTS
  d1 = d1
  d2 = d2
  d3 = d3
  a = a
  b = b
  p = p
  q = q
  s = s
  Requests = {a}
  Contents = {p, q, s}
  Workers = {d1, d2, d3}
  Harvesters = {d2}
  Plan <- MixedPlan
  OrphanPolicy <- AnyRetry
  RecoverAtStartup = TRUE
  MaxGen = 3
  MaxCkpt = 1
  MaxCrashes = 2
  LeaseTicks = 1
SYMMETRY PumpSymmetry
CHECK_DEADLOCK FALSE
INVARIANTS LeaseFencing OutcomesAgree EffectsHappenOnce
PROPERTY ReceiptsFollowLifecycle
