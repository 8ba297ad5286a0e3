SPECIFICATION FairSpec
CONSTANTS
    None = None
    Threads = {t1}
    Kinds = {"logs", "metrics", "traces"}
    Chunks <- EndingChunks
    MaxRows = 3
    MaxBatch = 2
    MaxBatchBytes = 3
    MaxRetries = 1
    Headers <- AllHeaders
    Connections = {c1, c2}
    TruthfulErrors = FALSE
INVARIANTS
    WaitIsClamped
PROPERTY
    CallsEnd
