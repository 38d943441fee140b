SPECIFICATION CommandSpec
CONSTANTS
    i1 = i1
    i2 = i2
    j1 = j1
    j2 = j2
    j3 = j3
    t1 = t1
    t2 = t2
    r1 = r1
    r2 = r2
    a1 = a1
    n1 = n1
    n2 = n2
    n3 = n3
    p1 = p1
    p2 = p2
    q1 = q1
    q2 = q2
    c1 = c1
    c2 = c2
    x1 = x1
    x2 = x2
    g1 = g1
    g2 = g2
    Identities = {i1, i2}
    RoleOf <- Roles
    SessionIds = {s1, s2}
    Requests = {k1, k2}
    Commands = {"START_RESEARCH", "SUBMIT_CLAIM"}
    NoSession = NoSession
    ToolJobs = {j1, j2}
    ToolPumps = {d1, d2}
    Requeued = {j1}
    MaxLeases <- Leases
    NoTool = NoTool
    Texts = {t1, t2}
    PaperReviewers = {r1, r2}
    SignedReviews <- Signed
    Hurried = {t1}
    AuthorLists = {{a1}, {r2}}
    RootEvidence <- Roots
    NoPaper = NoPaper
    Snapshots = {n1, n2, n3}
    EntriesOf <- Entries
    SnapshotLists <- Lists
    Statements = {q1, q2}
    Batches = {b1}
    PoolArtifacts = {x1, x2}
    NoPool = NoPool
    CommandIds = {c1, c2}
    CommandLoads <- Loads
    Standing = {s0}
    MaterialsOf <- NamedMaterials
    WrongDigest = {x2}
    RoutesOf <- NamedRoutes
    CallerRoles = {"MAIN", "WORKER"}
    CatalogReaders = {e1}
    PageLimit = 1
    MaxKernelRevision = 3
    NoCommand = NoCommand
    ExecJobs = {j1, j2, j3}
    Orders <- MCOrders
    PortSets <- MCPortSets
    Connectors = {"a", "b"}
    NoOutcome = NoOutcome
INVARIANT RejectionHasNoEffect
CHECK_DEADLOCK FALSE
