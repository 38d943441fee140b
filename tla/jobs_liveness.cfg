SPECIFICATION FairSpec
CONSTANTS
  d1 = d1
  d2 = d2
  d3 = d3
  a = a
  b = b
  p = p
  q = q
  s = s
  Requests = {a, b}
  Contents = {q, s}
  Workers = {d1}
  Harvesters <- Nobody
  Plan <- ProductionPlan
  OrphanPolicy <- NoResolver
  RecoverAtStartup = FALSE
  MaxGen = 2
  MaxCkpt = 0
  MaxCrashes = 2
  LeaseTicks = 1
CHECK_DEADLOCK FALSE
PROPERTIES QueueDrains
