SPECIFICATION WriteSpec
CONSTANTS
    Null = Null
    Malformed = Malformed
    NotFinite = NotFinite
    NanosPerMilli = 10
    Dates <- MCDates
    Rows <- MCRows
    Events <- MCEvents
    LogSecrets <- MCLogSecrets
    Clock = 900
    MaxHops = 2
    Readings <- MCReadings
    ForeignEntries <- RealEntries
    NanosPerSecond = 10
    MillisPerSecond = 2
    Now = 100
    MaxBatch = 2
    MaxBatchBytes = 5
    Envelope = 1
    Word = 8
    Chunks <- MCChunks
    SpanEvents <- MCSpanEvents
    Secrets <- MCSecrets
INVARIANTS
    ColumnsArrive
    AttributesArrive
    CopiesAreFaithful
    OkRowsAreStored
    BadRowsFailTheirChunk
    TracesKeepIdentity
    EncodingsAgree
    TagsAreKept
    ForwardedSpansKeep
    ResultsAreTrue
CHECK_DEADLOCK FALSE
