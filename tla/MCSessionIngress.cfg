SPECIFICATION MCSpec
CONSTANTS
    alice = alice  stageb = stageb  t1 = t1  t2 = t2  r1 = r1  r2 = r2
    p1 = p1  p2 = p2  p3 = p3
    None = None
    Signers = {alice, stageb}
    StageBIssuer = stageb
    Tools = {t1, t2}
    Requests = {r1, r2}
    MaxTools = 1
    SeededAtStart = {stageb}
    Supervised = {alice, stageb}
    PostIds = {p1, p2, p3}
    Offering = tool
    tool = tool
    OfferedTerms <- OfferTerms
    SessionLength = 2
    IntentLifetime = 2
    ClockSkew = 1
    Drifts = {0, 1}
    MaxPending = 1
    MaxHourly = 1
    WindowLength = 2
    LastTime = 3
    Accounts = {a, b}
    Deployed = {d}
    Legacy = legacy
    MaxRequests = 2
    MaxEvents = 2
SYMMETRY Symmetry
CONSTRAINTS OneFamily SecondRequest
INVARIANTS OneToolPerRequest Quotas DraftSignedInOrder
PROPERTIES EnsureNeverRevives
CHECK_DEADLOCK FALSE
