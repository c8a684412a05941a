\* Values and texts are bounded: where a bound is reached no step follows.
SPECIFICATION RequestsSpec
CHECK_DEADLOCK FALSE
CONSTANTS
    Ids = {1, 2, 3, 4, 5}
    NotAKey = {3}
    KeyMisread = {4}
    ValueMisread = {5}
    Items <- MCItems
    Values <- MCValues
    Configs <- MCConfigs
    Indexes = {"notes", "drafts"}
    MaxBatch = 2
    MaxDepth = 64
    MaxWrapping = 2
    MaxText = 7
    MaxString = 2
INVARIANTS
    HitsHaveProvenance
    RefusalsIgnoreOrder
    ValidatedIsApplied
    PublishedReadsBack
    EncodingIsFaithful
    DigestIdentifiesOperation
    DepthIsNesting
