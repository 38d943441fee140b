SPECIFICATION MCFairSpec
CONSTANTS
  c1 = c1
  r1 = r1
  a1 = a1
  a2 = a2
  h1 = h1
  h2 = h2
  Claims = {c1}
  Roots = {c1}
  Routes = {r1}
  Attempts = {a1, a2}
  Hosts = {h1, h2}
  WriteSet <- SharedWrites
  Released = {"SUCCEEDED", "FAILED", "PAUSED"}
  AttemptLimit = 2
  LeaseTicks = 1
  RecoveryTicks = 1
  MaxVersion = 1
  MaxCrashes = 2
CHECK_DEADLOCK FALSE
INVARIANT AttemptsAreFenced
PROPERTY ClaimsSettleForGood
