\* The parts that share nothing, one at a time.
SPECIFICATION ServicesSpec
CONSTANTS
    None = None
    Instances = {a, b}
    CallIds = {c1, c2}
    MaxActs = 4
    MaxCode = 1
    Requests = {r1, r2}
    Handlers = {h1, h2}
    Tolerance = 2
    Buffer = 1
    Lag = 1
    MaxTime = 7
    Ops <- BothOps
    IOErrors = TRUE
    CommitFails = TRUE
    Deletes = TRUE
    ManyFiles = TRUE
    MaxToggles = 2
    MaxRequests = 3
    MaxCrashes = 1
    FileIds = {1, 2, 3}
    Facts <- McFacts
    Shapes <- McShapes
    TagNames = {x, y}
    MaxTag = 2
    MaxRule = 2
    RuleJobs = {j1, j2}
    Batch = 2
    MaxEdits = 5
    UserNames = {u1, u2}
    Passwords = {p1}
    Sessions = {s1, s2}
    MaxChanges = 4
    Threads = {t1, t2}
    Limit = 2
    Window = 2
    MaxClock = 6
    CriteriaSets <- McCriteria
    Texts <- McTexts
    Size = 2048
    Locations = {first, other}
    First = first
    Room <- McRoom
    MaxNow = 3
    MaxUses = 2
SYMMETRY ServicesSymmetry
INVARIANTS
    ServicesTypeOK
    TrustFollowsUser
    ModesAgree
    AcceptedOnce
    ContentKept
    FlagTellsForm
    ThawIsReadable
    AppliedToAll
    AdminRemains
    WindowLimit
PROPERTIES
    StaysFrozen
    GoesWhereItFitsBest
\* Every part stops at its bounds.
CHECK_DEADLOCK FALSE
