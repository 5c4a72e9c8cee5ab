SPECIFICATION AllSpec
CONSTANTS
    r = r  padded = padded  blank = blank  empty = empty
    plain = plain  accented = accented  other = other
    None = none
    Accounts = {a, b}
    Tabs = {t1, t2}
    MaxSessions = 2
    MaxClicks = 3
    Spellings <- MCSpellings
    Trimmed <- MCTrimmed
    Blank = empty
    Contents = {x}
    Keys = {k1, k2}
    Networks = {n}
    Refs = {f, g}
    MaxRows = 2
    MaxLedgerTime = 1
    Digests = {d}
    EventTimes = {1, 2}
    Rejected = rejected
    MaxIssued = 9
    MaxCalls = 2
    References = {x, y}
    SettlementRefs = {s, u}
    Receipts = {k}
    MaxObjects = 6
    Checks = {c1, c2}
    Records <- MCRecords
    Normal <- MCNormal
    Lists <- MCLists
    NoNumber = 0
    RegistryTimeout = 1
    SanctionsTimeout = 1
    Lifetime = 1
    MaxTime = 3
    Runs = {p, q}
    Paths = {file}
    Amounts = {1, 2, 3}
    Maximum = 2
    TermsInputs <- MCTerms
    Requests = {0, 1, 2, 3}
    Grosses = {0, 4, 10, 17}
    MaxGross = 60
    MaxDepth = 3
    MaxValues = 6
    MaxProperties = 2
    MaxItems = 2
    MaxBytes = 32
INVARIANTS UsedOnce CompletedIsProven
    EntityAnswered AgentAccounts WithinTerms DigestFaithful
PROPERTIES LogoutEndsOwn DashboardFollowsWallet SettledOnce
CHECK_DEADLOCK FALSE
