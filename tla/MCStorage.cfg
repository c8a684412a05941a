\* Texts and saves are bounded: where a bound is reached no step may follow.
SPECIFICATION StorageSpec
CHECK_DEADLOCK FALSE
CONSTANTS
    Radix = 2
    DECIMAL_WIDTH = 2
    MaxNumber = 2
    NAMESPACE_MAX_LEN = 2
    NAME_MAX_LEN = 2
    KEY_MAX_LEN = 2
    Corrupt = Corrupt
    Indexes <- PunctuatedName
    Keys <- VersionLikeKeys
    MaxVersion = 2
    MaxSequence = 2
    Heads = {h1}
    Payloads = {p1}
    Markers = {k1}
    Records = {r1}
    Savers = {s1, s2}
    Names = {n1, n2}
    Unencodable = Unencodable
    MaxSaves = 3
    MaxSegments = 5
    None = None
INVARIANTS
    MapsAnswerAsPromised
    AcknowledgedSavesServed
    SnapshotsAreSound
    KeysSpellOneThing
PROPERTIES
    MapsImplementContract
