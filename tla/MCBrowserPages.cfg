SPECIFICATION MCPagesSpec
CONSTANTS
    t1 = t1  t2 = t2  h1 = h1  h2 = h2  k1 = k1  k2 = k2
    earlier = earlier  foreign = foreign  old = old
    None = None
    Tabs = {t1, t2}
    Fresh = {h1, h2}
    Earlier = {earlier}
    Foreign = {foreign}
    Keys = {k1, k2}
    Legacy = old
    Outcomes = {"CONFIRMED"}
    MaxEvents = 2
SYMMETRY Symmetry
INVARIANTS OneCreate OneTransfer ShownIsRetained
PROPERTY EvidenceKept
CHECK_DEADLOCK FALSE
