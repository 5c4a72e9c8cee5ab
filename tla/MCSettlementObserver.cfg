SPECIFICATION ObserverSpec
CONSTANTS
    h1 = h1  h2 = h2  i1 = i1  i2 = i2
    None = None
    MaxRequests = 3
    Headers = {h1, h2}
    Inputs = {i1, i2}
    MaxSettlements = 1
    MaxHandlers = 2
    MaxRestarts = 1
CONSTRAINT FirstCall
INVARIANTS EvidenceFaithful OneIssuePerRegistration ObserverConsistent UndisturbedRecorded
PROPERTIES OneEntryPerHeader EntryLifecycle KeepsSettlement
CHECK_DEADLOCK FALSE
