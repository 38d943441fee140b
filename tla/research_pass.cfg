SPECIFICATION FairSpec
CONSTANTS
    Procs = {p1}
    r1 = r1
    r2 = r2
    Routes = {r1, r2}
    Plans <- MCPlans
    MaxMishaps = 1
    NoRoute = NoRoute
    NoFile = NoFile
INVARIANTS
    
    CandidateRestsOnReviewedWork
PROPERTY
    PassesReachAGate
CHECK_DEADLOCK FALSE
