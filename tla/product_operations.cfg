SPECIFICATION Spec
CONSTANTS
    w1 = w1
    w2 = w2
    w3 = w3
    t1 = t1
    t2 = t2
    p1 = p1
    s1 = s1
    s2 = s2
    m1 = m1
    m2 = m2
    m3 = m3
    h1 = h1
    h2 = h2
    r1 = r1
    c1 = c1
    c2 = c2
    q1 = q1
    q2 = q2
    d1 = d1
    d2 = d2
    Plans = {p1}
    GuidanceIds = {g1, g2}
    Authors = {a1}
    Derivers = {d1, d2}
    WorkKeys = {k1}
    MaxFence = 1
    MaxPlanCommands = 3
    NoSteering = NoSteering
    Workers = {w1, w2, w3}
    Attempts = {a1}
    Runs = {r1, r2}
    Watched = r1
    Subscribers = {u1, u2}
    MaxEvents = 4
    PageSize = 2
    MaxSubscriptions = 1
    LogBytes = {0, 1}
    MaxLog = 3
    Sealers = {z1, z2}
    NoTrail = NoTrail
    StoredArtifacts = {x1}
    BackupRequests = {b1, b2}
    CasRequests = {b1}
    BackupCallers = {c1, c2}
    RestoreRequests = {q1, q2}
    MigrationCount = 3
    Repeatable = {3}
    Migrators = {m1, m2}
    UpgradeRequests = {u1}
    Pids = {1, 2}
    Markers = {k1, k2, k3}
    NoDeployment = NoDeployment
    SchedulePlans = {p1}
    WorkOf <- ScheduledWork
    Acceptable <- Fitting
    Capability <- Needs
    CommandProbes = {"gpu"}
    Unconfigured = {}
    GroupOf <- Groups
    CapacityOf <- Capacities
    MaxBudget = 1
    NoProbe = NoProbe
    NoPlacement = NoPlacement
    SourceIds = {s1, s2}
    Manifests <- CaseManifests
    Lineages = {l1, l2}
    CaseCallers = {c1, c2}
    Stamps = {1, 2}
    NoCase = NoCase
    Deltas <- GraphDeltas
    MaxActivity = 3
    GraphReaders = {r1}
    Queries <- GraphQueries
    Matching = {1, 2}
    OtherEvent = OtherEvent
    NoSnapshot = NoSnapshot
    NoQuery = NoQuery
INVARIANTS
    SteeringHasOneEffect
    CompletedWorkStays
    ReadersMissNothing
    RestoredRootIsOneBackup
    LedgerFollowsSchema
    
    SchedulesKeepTheirOrder
    CasesRestOnTheirSources
    
CHECK_DEADLOCK FALSE
