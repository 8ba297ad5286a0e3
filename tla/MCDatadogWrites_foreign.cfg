SPECIFICATION WriteSpec
CONSTANTS
    Null = Null
    Malformed = Malformed
    NotFinite = NotFinite
    NanosPerMilli = 10
    Dates <- MCDates
    Rows <- MCRows
    Events <- MCEvents
    LogSecrets <- MCLogSecrets
    Clock = 900
    MaxHops = 2
    Readings <- MCReadings
    ForeignEntries <- AnyEntries
    NanosPerSecond = 10
    MillisPerSecond = 2
    Now = 100
    MaxBatch = 2
    MaxBatchBytes = 5
    Envelope = 1
    Word = 8
    Chunks <- MCChunks
    SpanEvents <- MCSpanEvents
    Secrets <- MCSecrets
INVARIANT PointsAreStoredAsPosted
CHECK_DEADLOCK FALSE
