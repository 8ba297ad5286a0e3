SPECIFICATION FairSpec
CONSTANTS
    None = None
    Threads = {t1}
    Kinds = {"logs"}
    Chunks <- OneRow
    MaxRows = 1
    MaxBatch = 2
    MaxBatchBytes = 3
    MaxRetries = 1
    Headers <- NoHeaders
    Connections = {c1, c2}
    TruthfulErrors = FALSE
INVARIANT
    NeverDoubleIndexed
