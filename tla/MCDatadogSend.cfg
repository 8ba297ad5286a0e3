SPECIFICATION Spec
CONSTANTS
    None = None
    Threads = {t1, t2}
    Kinds = {"logs"}
    Chunks <- SmallChunks
    MaxRows = 2
    MaxBatch = 2
    MaxBatchBytes = 3
    MaxRetries = 1
    Headers <- NoHeaders
    Connections = {c1, c2, c3}
    TruthfulErrors = TRUE
SYMMETRY Symmetry
INVARIANTS
    OkIsStored
    NeverDoubleIndexed
    BatchesInOrder
    PoolIsHealthy
    PoolIsBounded
