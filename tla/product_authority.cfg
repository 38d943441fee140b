SPECIFICATION Spec
CONSTANTS
    f1 = f1
    f2 = f2
    s1 = s1
    s2 = s2
    s3 = s3
    t1 = t1
    k1 = k1
    k2 = k2
    v1 = v1
    v2 = v2
    x1 = x1
    e1 = e1
    e2 = e2
    Objects = {o1, o2}
    Facts = {f1, f2}
    ReverseClosure <- FallsWith
    MaxRevision = 2
    NoPreview = NoPreview
    Fields = {fa, fb}
    RefIds = {x1}
    RevPreviews = {v1, v2}
    MaxVersions = 2
    UploadIds = {u1, u2}
    Committers = {m1, m2}
    Bytes = {0, 1}
    MediaTypes = {text, pdf}
    MaxBytes = 1
    NoUpload = NoUpload
    NoSpool = NoSpool
    Sources = {s1, s2, s3}
    MaterialTexts = {t1, t2}
    ReadAs <- Parsed
    Unavailable = {s3}
    ExtractionIds = {y1, y2}
    MaterialWorkers = {w1, w2}
    SnapshotIds = {n1, n2}
    MaxToolAttempt = 2
    NoMaterial = NoMaterial
    CallIds = {i1, i2, i3}
    Functions = {"f", "g"}
    Registered = {"f"}
    Malformed = {i3}
    Hosts = {h1, h2}
    MaxTurns = 2
    MaxCalls = 2
    NoRun = NoRun
    NoHost = NoHost
    Candidates = {k1, k2}
    PredecessorLabels <- Labels
    Undefined = {}
    Attempts = {a1, a2, a3}
    MaxClaims = 3
    Required = {"LEAN", "MANAGED_HUMAN"}
    Supplementary = {"SOFT_VERIFIER"}
    Recorders = {e1, e2}
    MaxContract = 2
    NoClaim = NoClaim
    AblationPlans = {p1}
    Configs = {d1, d2}
    Arms = {"direct", "far-random"}
    FarArms = {"far-random"}
    ArmProblems = {q1, q2}
    AblationCallers = {c1, c2}
    NoPlan = NoPlan
INVARIANTS
    WithdrawnIsNotConsumable
    
    
    AnchorsQuoteTheirText
    CallsRunAtMostOnce
    DraftsCloseOnVerifiedClaims
    
CHECK_DEADLOCK FALSE
