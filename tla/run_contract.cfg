SPECIFICATION Spec
CONSTANTS
  c1 = c1
  c2 = c2
  c3 = c3
  r1 = r1
  r2 = r2
  a1 = a1
  a2 = a2
  h1 = h1
  h2 = h2
  Claims = {c1, c2, c3}
  Roots = {c1, c3}
  Routes = {r1}
  Attempts = {a1}
  Hosts = {h1}
  WriteSet <- SharedWrites
  Released = {"SUCCEEDED", "PAUSED"}
  AttemptLimit = 1
  LeaseTicks = 1
  RecoveryTicks = 1
  MaxVersion = 2
  MaxCrashes = 0
SYMMETRY RootSymmetry
CHECK_DEADLOCK FALSE
INVARIANT VerdictsAreEarned
PROPERTY ContractGovernsSteps
