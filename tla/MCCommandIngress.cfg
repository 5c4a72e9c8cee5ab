SPECIFICATION IngressSpec
CONSTANTS
    alice = alice  t1 = t1  legacy = legacy  f1 = f1  f2 = f2  a1 = a1  c1 = c1
    kf = kf  ka = ka  kc = kc  r1 = r1  h1 = h1  h2 = h2  None = None
    Signers = {alice}
    StageBIssuer = None
    Tools = {t1}
    Requests = {r1}
    MaxTools = 1
    SeededAtStart = {alice}
    Supervised = {alice}
    Operations = {f1, f2, a1, c1}
    KindOf <- MCKindOf
    SignerOf <- MCSignerOf
    SubjectOf <- MCSubjectOf
    KeyOf <- MCKeyOf
    ParentOf <- MCParentOf
    Keys = {kf, ka, kc}
    RowRole <- MCRowRole
    LegacySubject = legacy
    ToolsAtStart <- MCToolsAtStart
    Lifetime = 1
    MaxSkew = 0
    MaxTime = 2
    MaxNonces = 2
    MaxEnvelopes = 2
    Handlers = {h1, h2}
CONSTRAINT OnePage
SYMMETRY Symmetry
INVARIANTS ClaimsMatchRecords HandledOnce
PROPERTIES KeepsCommandPromise
CHECK_DEADLOCK FALSE
