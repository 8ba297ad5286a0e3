------------------------------ MODULE MetricSend ------------------------------
(***************************************************************************)
(* One chunk of rows goes through send_datadog_metrics to the series route *)
(* of a datadog_serve listener, which other clients use too: each row      *)
(* becomes a point or is skipped, the points are cut into batches, and the *)
(* result of a point is written back to the row it came from.              *)
(*                                                                         *)
(* Names, units and tags are texts that nothing here looks into, except    *)
(* that a tag is a pair of what is before and after its colon. Each row    *)
(* also says how long its texts are.                                       *)
(***************************************************************************)
EXTENDS Integers, Sequences, SequencesExt, Selection

CONSTANTS
    Null,                \* a SQL NULL, a missing column, an absent JSON key
    Malformed,           \* not JSON, not a time, not a number
    NotFinite,           \* a DOUBLE that JSON cannot write: NaN, an infinity
    Chunks,              \* chunks of rows the user may send
    ForeignEntries,      \* series entries of other clients
    NanosPerSecond, MillisPerSecond,
    Now,                 \* the sender's clock, in seconds
    MaxBatch,            \* DATADOG_SERIES_MAX_BATCH
    MaxBatchBytes,       \* DATADOG_SERIES_MAX_BATCH_BYTES
    Envelope             \* the part of the estimate that is the same for all

\* A time is an int64_t, and the tags and the attributes are lists.
RowIsTyped(row) ==
    ~row.null =>
        /\ row.time \notin {Null, Malformed} => row.time.epoch \in Int
        /\ row.ddtags \in Seq(Range(row.ddtags))
        /\ row.attributes \notin {Null, Malformed} => row.attributes \in Seq(Range(row.attributes))

BoundsAssumption ==
    /\ NanosPerSecond \in Nat \ {0} /\ MillisPerSecond \in Nat \ {0}
    /\ MaxBatch \in Nat \ {0} /\ MaxBatchBytes \in Nat /\ Envelope \in Nat
    /\ Null # "ok" /\ Null \notin Int /\ NotFinite \notin {Null, Malformed}
    /\ \A c \in Chunks : /\ DOMAIN c = 1..Len(c) /\ Len(c) \in Nat
                        /\ \A r \in DOMAIN c : RowIsTyped(c[r])

VARIABLES
    isNanos,             \* the struct has a column time_unix_nano
    chunk,               \* the rows of the chunk
    next,                \* the row that is read next
    points,              \* the points read so far, with their rows
    results,             \* results[r]: "ok", Null, or Unset
    offset,              \* how many points are acknowledged
    body,                \* the entries of the request under way, or <<>>
    phase,               \* reading, sending, done, failed
    table,               \* the listener's rows for this sender, in order
    foreign              \* the other clients' points and what became of them

vars == <<isNanos, chunk, next, points, results, offset, body, phase, table, foreign>>

Unset == "unset"
Gauge == 3

-----------------------------------------------------------------------------
TruncatedDiv(n, d) == IF n >= 0 THEN n \div d ELSE -((-n) \div d)

\* Null when the column is missing, NULL or not a time.
ReadTimestampSeconds(time) ==
    IF time \in {Null, Malformed} THEN Null
    ELSE IF time.integral /\ ~isNanos THEN TruncatedDiv(time.epoch, MillisPerSecond)
    ELSE TruncatedDiv(time.epoch, NanosPerSecond)

\* The string attributes, each as a tag; any other value is left out.
AttributeTags(attributes) ==
    IF attributes = Null THEN <<>>
    ELSE Selected(attributes, {tag \in Range(attributes) : tag[2] # Null})

CollectTags(row) ==
    (IF row.service = Null THEN <<>> ELSE << <<"service", row.service>> >>)
        \o row.ddtags \o AttributeTags(row.attributes)

PointOf(r) ==
    LET row     == chunk[r]
        seconds == ReadTimestampSeconds(row.time)
    IN  [source_row        |-> r,
         name              |-> row.name,
         value             |-> row.value,
         timestamp_seconds |-> IF seconds = Null THEN Now ELSE seconds,
         unit              |-> row.unit,
         tags              |-> CollectTags(row),
         raw               |-> row.raw]

\* What BuildSeriesRequest writes for a point: one gauge with one sample, its
\* value always written as a JSON real.
Entry(point) ==
    [metric |-> point.name, type |-> Gauge, unit |-> point.unit,
     points |-> << [timestamp |-> point.timestamp_seconds,
                    value |-> [real |-> TRUE, number |-> point.value]] >>,
     tags   |-> point.tags]

EstimatePointBytes(point) == Envelope + point.raw

Estimate(batch) ==
    FoldLeft(LAMBDA bytes, point : bytes + EstimatePointBytes(point), 0, batch)

\* That many points after the first ones are within the limits of a batch,
\* which always takes one.
Fits(first, count) ==
    /\ first + count <= Len(points)
    /\ count <= MaxBatch
    /\ \A n \in 2..count : Estimate(SubSeq(points, first + 1, first + n)) <= MaxBatchBytes

\* The points of the next batch: as many as fit.
NextBatch ==
    LET count == CHOOSE n \in 1..Len(points) : Fits(offset, n) /\ ~Fits(offset, n + 1)
    IN  SubSeq(points, offset + 1, offset + count)

-----------------------------------------------------------------------------
\* The listener reads the value with yyjson_get_real, which is 0.0 for a JSON
\* number that is not written as a real.
GetReal(value) == IF value.real THEN value.number ELSE 0

\* The rows of one series: one for each point.
ParseSeriesEntry(entry) ==
    [i \in DOMAIN entry.points |->
        [metric            |-> entry.metric,
         timestamp_seconds |-> entry.points[i].timestamp,
         value             |-> GetReal(entry.points[i].value),
         type              |-> entry.type,
         unit              |-> entry.unit,
         tags              |-> entry.tags]]

ParseSeriesBody(entries) == FlattenSeq([i \in DOMAIN entries |-> ParseSeriesEntry(entries[i])])

-----------------------------------------------------------------------------
Init ==
    /\ isNanos \in BOOLEAN
    /\ chunk \in Chunks
    /\ next = 1
    /\ points = <<>>
    /\ results = [r \in DOMAIN chunk |-> Unset]
    /\ offset = 0
    /\ body = <<>>
    /\ phase = "reading"
    /\ table = <<>>
    /\ foreign = <<>>

InChunk == phase = "reading" /\ next \in DOMAIN chunk

\* A NULL struct, or a row without a reading, is a NULL result and no point.
SkipRow ==
    /\ InChunk
    /\ \/ chunk[next].null
       \/ chunk[next].name # Null /\ chunk[next].value \in {Null, Malformed}
    /\ results' = [results EXCEPT ![next] = Null]
    /\ next' = next + 1
    /\ UNCHANGED <<isNanos, chunk, points, offset, body, phase, table, foreign>>

\* Mutant: a skipped row does not move the index of the points' rows.
AddPointCompacted ==
    /\ InChunk
    /\ ~chunk[next].null
    /\ chunk[next].name # Null
    /\ chunk[next].value \notin {Null, Malformed}
    /\ chunk[next].attributes # Malformed
    /\ points' = Append(points, [PointOf(next) EXCEPT !.source_row = Len(points) + 1])
    /\ next' = next + 1
    /\ UNCHANGED <<isNanos, chunk, results, offset, body, phase, table, foreign>>

AddPoint ==
    /\ InChunk
    /\ ~chunk[next].null
    /\ chunk[next].name # Null
    /\ chunk[next].value \notin {Null, Malformed}
    /\ chunk[next].attributes # Malformed
    /\ points' = Append(points, PointOf(next))
    /\ next' = next + 1
    /\ UNCHANGED <<isNanos, chunk, results, offset, body, phase, table, foreign>>

\* An empty name, or attributes that are not JSON, fail the statement. A value
\* that is not finite is read like any other.
RefuseRow ==
    /\ InChunk
    /\ ~chunk[next].null
    /\ \/ chunk[next].name = Null
       \/ chunk[next].value \notin {Null, Malformed} /\ chunk[next].attributes = Malformed
    /\ phase' = "failed"
    /\ UNCHANGED <<isNanos, chunk, next, points, results, offset, body, table, foreign>>

AllRowsRead == phase = "reading" /\ next \notin DOMAIN chunk

StartSending ==
    /\ AllRowsRead
    /\ phase' = "sending"
    /\ UNCHANGED <<isNanos, chunk, next, points, results, offset, body, table, foreign>>

BatchIsDue == phase = "sending" /\ body = <<>> /\ offset < Len(points)

\* JSON has no text for a value of the batch that is not finite.
IsWritable(batch) == \A i \in DOMAIN batch : batch[i].value # NotFinite

\* Mutant: the writer is told to allow NaN and the infinities.
BuildAnyBatch ==
    /\ BatchIsDue
    /\ body' = [i \in DOMAIN NextBatch |-> Entry(NextBatch[i])]
    /\ UNCHANGED <<isNanos, chunk, next, points, results, offset, phase, table, foreign>>

BuildBatch ==
    /\ BatchIsDue
    /\ IsWritable(NextBatch)
    /\ body' = [i \in DOMAIN NextBatch |-> Entry(NextBatch[i])]
    /\ UNCHANGED <<isNanos, chunk, next, points, results, offset, phase, table, foreign>>

\* The request cannot be serialized, which fails the statement; the batches
\* before it are stored.
RefuseBatch ==
    /\ BatchIsDue
    /\ ~IsWritable(NextBatch)
    /\ phase' = "failed"
    /\ UNCHANGED <<isNanos, chunk, next, points, results, offset, body, table, foreign>>

\* SendMetrics returned: the listener stored the batch and answered 202.
BatchSent ==
    /\ body # <<>>
    /\ phase = "sending"
    /\ table' = table \o ParseSeriesBody(body)
    /\ results' = [r \in DOMAIN chunk |->
                      IF \E i \in offset + 1..offset + Len(body) : points[i].source_row = r
                      THEN "ok" ELSE results[r]]
    /\ offset' = offset + Len(body)
    /\ body' = <<>>
    /\ UNCHANGED <<isNanos, chunk, next, points, phase, foreign>>

\* SendMetrics threw, before or after the listener stored the batch, or the
\* query was interrupted between two batches.
SendFails ==
    /\ phase = "sending"
    /\ phase' = "failed"
    /\ \/ body = <<>> /\ offset < Len(points) /\ UNCHANGED table
       \/ body # <<>> /\ table' \in {table, table \o ParseSeriesBody(body)}
    /\ UNCHANGED <<isNanos, chunk, next, points, results, offset, body, foreign>>

Finish ==
    /\ phase = "sending"
    /\ body = <<>>
    /\ offset = Len(points)
    /\ phase' = "done"
    /\ UNCHANGED <<isNanos, chunk, next, points, results, offset, body, table, foreign>>

\* Another client posts one series to the same listener.
ForeignPost(entry) ==
    /\ foreign = <<>>
    /\ foreign' = <<entry, ParseSeriesEntry(entry)>>
    /\ UNCHANGED <<isNanos, chunk, next, points, results, offset, body, phase, table>>

Next ==
    \/ SkipRow \/ AddPoint \/ RefuseRow
    \/ StartSending \/ BuildBatch \/ RefuseBatch \/ BatchSent \/ SendFails \/ Finish
    \/ \E entry \in ForeignEntries : ForeignPost(entry)

-----------------------------------------------------------------------------
\* What the README's table of columns says of one row, except that it
\* promises a tag for every entry of the attributes, of which the code leaves
\* out those that are no strings.
IsReadingOf(stored, row) ==
    LET unit == IF isNanos \/ (row.time # Null /\ row.time # Malformed /\ ~row.time.integral)
                THEN NanosPerSecond ELSE MillisPerSecond
        service    == IF row.service = Null THEN {} ELSE {<<"service", row.service>>}
        attributes == IF row.attributes = Null THEN {} ELSE Range(row.attributes)
    IN  /\ stored.metric = row.name
        /\ stored.value = row.value
        /\ stored.unit = row.unit
        /\ stored.type = Gauge
        /\ IF row.time \in {Null, Malformed} THEN stored.timestamp_seconds = Now
           ELSE LET off == row.time.epoch - stored.timestamp_seconds * unit
                IN  -unit < off /\ off < unit
        /\ Range(stored.tags) =
               service \cup Range(row.ddtags) \cup {tag \in attributes : tag[2] # Null}

HasReading(row) == ~row.null /\ row.value \notin {Null, Malformed}

\* Each accepted row returns 'ok': the rows with that result are the ones the
\* listener stored, in the order of the chunk, each with its own name, value,
\* time and unit and the tags that CollectTags gives it, however many rows
\* before it were skipped. When the call returns, every row with a reading is
\* one of them, and every other row is NULL.
OkRowsAreStored ==
    LET ok       == {r \in DOMAIN chunk : results[r] = "ok"}
        place(r) == Cardinality({q \in ok : q <= r})
    IN  /\ Cardinality(ok) <= Len(table)
        /\ phase # "failed" => Cardinality(ok) = Len(table)
        /\ \A r \in ok : IsReadingOf(table[place(r)], chunk[r])
        /\ phase = "done" =>
               \A r \in DOMAIN chunk :
                   results[r] = IF HasReading(chunk[r]) THEN "ok" ELSE Null

\* A row fails its statement either where it is read, with an empty name or
\* attributes of a reading that are not JSON, or where its batch is written.
Unreadable(row) ==
    ~row.null /\ (row.name = Null \/ (HasReading(row) /\ row.attributes = Malformed))
Unwritable(row) == HasReading(row) /\ row.value = NotFinite
BadRow(row) == Unreadable(row) \/ Unwritable(row)

NothingSent == table = <<>> /\ body = <<>> /\ \A r \in DOMAIN chunk : results[r] # "ok"

UnreadableSendsNothing == (\E r \in DOMAIN chunk : Unreadable(chunk[r])) => NothingSent

\* How many rows up to r have a reading.
Place(r) == Cardinality({q \in 1..r : HasReading(chunk[q])})

\* A call with a bad row never succeeds. A row that cannot be read fails it
\* before the first request, so that no point of the chunk is stored, not even of the
\* rows before it. A value that cannot be written fails it before the
\* request that holds it: only points before it are stored, and none at all
\* unless the points up to it exceed the limits of one batch. ("Earlier batches
\* may already be stored if a later one fails.")
BadRowsFailTheirChunk ==
    /\ (\E r \in DOMAIN chunk : BadRow(chunk[r])) => phase # "done"
    /\ UnreadableSendsNothing
    /\ \A r \in DOMAIN chunk : Unwritable(chunk[r]) =>
           /\ Len(table) < Place(r)
           /\ Fits(0, Place(r)) => table = <<>>

\* No row is unreadable that was read, so none is once requests go out, and
\* none goes out while rows are read.
RowsFirst ==
    /\ DOMAIN chunk = 1..Len(chunk) /\ Len(chunk) \in Nat
    /\ DOMAIN results = DOMAIN chunk
    /\ next \in Nat \ {0}
    /\ phase \in {"reading", "sending", "done", "failed"}
    /\ phase = "reading" =>
           NothingSent /\ \A r \in DOMAIN chunk : r < next => ~Unreadable(chunk[r])
    /\ phase \in {"sending", "done"} => \A r \in DOMAIN chunk : ~Unreadable(chunk[r])
    /\ UnreadableSendsNothing

IsPoint(row) == HasReading(row) /\ ~Unreadable(row)
PointRows == {r \in DOMAIN chunk : IsPoint(chunk[r])}
RowOf(i) == points[i].source_row
Stored(point) == ParseSeriesEntry(Entry(point))[1]

\* Every row that was read is a point, in its place, or has the result NULL.
RowsAreRead ==
    /\ \A r \in DOMAIN chunk : RowIsTyped(chunk[r])
    /\ points \in Seq({PointOf(r) : r \in PointRows})
    /\ \A i \in DOMAIN points : RowOf(i) < next
    /\ \A i, j \in DOMAIN points : i < j => RowOf(i) < RowOf(j)
    /\ \A r \in DOMAIN chunk : r < next =>
           IF IsPoint(chunk[r]) THEN \E i \in DOMAIN points : RowOf(i) = r
           ELSE results[r] = Null

\* The points are acknowledged in order: a batch begins where the last one
\* that was acknowledged ended, and nothing goes out before all rows are read.
PointsAreAcknowledged ==
    /\ offset \in 0..Len(points)
    /\ \A r \in DOMAIN chunk : results[r] = "ok" <=> \E i \in 1..offset : RowOf(i) = r
    /\ body # <<>> =>
           /\ Len(body) \in Nat /\ offset + Len(body) <= Len(points)
           /\ body = [i \in 1..Len(body) |-> Entry(points[offset + i])]
    /\ phase = "reading" => offset = 0 /\ body = <<>>
    /\ phase \in {"sending", "done"} => next \notin DOMAIN chunk
    /\ phase = "done" => offset = Len(points) /\ body = <<>>

\* The table begins with the points that are acknowledged, and holds more only
\* when an answer was lost.
TableIsTheirs ==
    /\ table \in Seq({Stored(PointOf(r)) : r \in PointRows})
    /\ offset <= Len(table)
    /\ phase # "failed" => Len(table) = offset
    /\ \A i \in 1..offset : table[i] = Stored(points[i])

\* The points that were sent are all writable, which those of the first batch
\* are not if one of the points that fit in it is not.
Sent == offset + Len(body)
SentAreWritable ==
    /\ Len(table) <= Sent
    /\ \A i \in 1..Sent : points[i].value # NotFinite
    /\ Sent > 0 =>
           /\ next \notin DOMAIN chunk
           /\ \A i \in DOMAIN points : points[i].value = NotFinite => ~Fits(0, i)

\* The inductive invariants: of what is stored, and of what is not.
SendInv == RowsFirst /\ RowsAreRead /\ PointsAreAcknowledged /\ TableIsTheirs
RefuseInv == SendInv /\ SentAreWritable

\* "Received points land in datadog_metric_series as (metric,
\* timestamp_seconds, value, type, unit, tags), one row per point": with the
\* value that was posted.
PointsAreStoredAsPosted ==
    foreign # <<>> =>
        \A i \in DOMAIN foreign[1].points :
            foreign[2][i].value = foreign[1].points[i].value.number
================================================================================
