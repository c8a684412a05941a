CONSTANTS
    i1 = i1
    m1 = m1
    m2 = m2
    p1 = p1
    p2 = p2
    r1 = r1
    None = None
    Indexes = {i1}
    Members = {m1, m2}
    Provenances = {p1, p2}
    Retentions = {r1}
    Configs <- MCConfigs
    Contents <- MCContents
    Keys = {"a", "b", "c", "d", "r", "x", "y"}
    MaxVersion = 5
    MaxSequence = 1
    Writers = {w1}
    Readers = {}
    Recoverers = {}
    Bypass = {}
    Operations <- HistoryOperations
SPECIFICATION Spec
INVARIANTS
    AuditChainComplete
    ProvenanceHolds
PROPERTIES
    ImplementsHistory
