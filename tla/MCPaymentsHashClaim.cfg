SPECIFICATION PaySpec
CONSTANTS
    k1 = k1  k2 = k2  k3 = k3
    b1 = b1  b2 = b2  treasury = treasury  issuer = issuer
    riskscan = riskscan  tool = tool  h1 = h1  h2 = h2  h3 = h3  v1 = v1  v2 = v2
    SeededBackers = {}  EnabledAtStart = TRUE
    None = None  NoHash = NoHash  Unscoped = Unscoped
    Keys = {k1, k2}
    Backers = {b1}
    Addresses = {b1, treasury, issuer}
    Offerings = {riskscan, tool}
    LegacyOffering = riskscan
    RecipientOf <- MCRecipientOf
    TermSheets <- MCTermSheets
    MaxPending = 2
    MaxHourly = 2
    MaxLifetime = 1
    WindowLength = 2
    MaxTime = 0
    MaxOperatorSteps = 0
    Hashes = {h1, h2}
    HistoricKeys = {}
    HistoricClaims <- NoClaims
    ForeignTransfers <- NoTransfers
    LegacyScanLimit = 1
    LegacyReadLimit = 2
    Verifiers = {v1}
SYMMETRY Symmetry
INVARIANTS HashClaimsOneAttempt
CHECK_DEADLOCK FALSE
