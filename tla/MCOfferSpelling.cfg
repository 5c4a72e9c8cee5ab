SPECIFICATION OfferSpec
CONSTANTS
    alice = alice  stageb = stageb  t1 = t1  t2 = t2  l1 = l1  l2 = l2
    riskscan = riskscan  p1 = p1  p2 = p2  k1 = k1  k2 = k2  x1 = x1
    x2 = x2  a1 = a1  a2 = a2  r1 = r1  r2 = r2  q1 = q1
    j1 = j1  j2 = j2  None = None
    Signers = {stageb}
    StageBIssuer = stageb
    Tools = {}
    Requests = {q1}
    MaxTools = 2
    SeededAtStart = {stageb}
    Supervised = {}
    LegacyOfferings = {l1, l2}
    RiskScan = riskscan
    Payloads = {p1}
    Keys = {k1, k2}
    Txns = {x1, x2}
    ShortSpellings <- FiveNanoseconds
    Assets = {a1, a2}
    DirectoryVersions = {1, 2}
    Records = {r1}
    Jobs = {j1}
    MaxRepeats = 0
    HistoricPending = {}
SYMMETRY Symmetry
INVARIANTS OneSpelling
CHECK_DEADLOCK FALSE
