SPECIFICATION Spec
CONSTANTS
  r = r
  l = l
  m = m
  e1 = e1
  e2 = e2
  e3 = e3
  o = o
  v1 = v1
  v2 = v2
  NoPlan = NoPlan
  None = None
  Claims = {r, l, m}
  Roots = {r}
  Atomic = {r, m}
  Edges = {e1, e2, e3}
  Ends <- CircleEnds
  Obligations = {o}
  Parent <- RootObligation
  Children <- LemmaChild
  Rule <- DirectRule
  Plans <- LemmaPlan
  Offers <- Receipts
  Reviewers = {v1}
  ReviewOffers <- PlanReview
  PeerThreshold = 1
  ClosureThreshold = 1
  Judged = {r}
  Defects <- SomeDefect
  Asked = {"PROVED"}
  MaxReviews = 1
  MaxVersion = 2
CHECK_DEADLOCK FALSE
INVARIANTS GraphIsWellFormed ClosuresStand ProvedStands
