----------------------------- MODULE DatadogWrites -----------------------------
(***************************************************************************)
(* A query that writes to Datadog: one chunk of rows for                   *)
(* write_datadog_traces (TraceWrite), whose row may be one that            *)
(* read_datadog_traces read (SpanMapping), or for send_datadog_metrics     *)
(* (MetricSend), or one row of send_datadog_logs (LogRoundTrip), with what *)
(* the receiver makes of it.  They have bindings, mappings and results of  *)
(* their own; the state of the other two stays empty.                      *)
(***************************************************************************)
EXTENDS TraceWrite

CONSTANTS
    SpanEvents,                                                       \* of traces
    NanosPerMilli, Dates, Rows, Events, LogSecrets, Clock, MaxHops,   \* of logs
    Readings, ForeignEntries, NotFinite, NanosPerSecond, MillisPerSecond,   \* of metrics
    Now, MaxBatch, MaxBatchBytes, Envelope

VARIABLES
    writes,       \* "traces", "logs" or "metrics"
    span_event,   \* the span of read_datadog_traces that is written, or Null
    \* LogRoundTrip
    origin, source, call, object, stored, hops,
    \* MetricSend
    isNanos, readings, next_reading, points, metric_results, offset, body,
    metric_phase, table, foreign

logVars == <<origin, source, call, object, stored, hops>>
metricVars == <<isNanos, readings, next_reading, points, metric_results, offset, body,
                metric_phase, table, foreign>>
writeVars == <<vars, writes, span_event, logVars, metricVars>>

Spans == INSTANCE SpanMapping

Logs == INSTANCE LogRoundTrip WITH Secrets <- LogSecrets

Metrics == INSTANCE MetricSend WITH
    Chunks <- Readings, chunk <- readings, next <- next_reading,
    results <- metric_results, phase <- metric_phase

ASSUME LogsAssumption ==
    /\ Logs!NanosPerMilliAssumption /\ Logs!MaxHopsAssumption
    /\ Logs!NullsAssumption /\ Logs!RowsAssumption

\* An id is a number of two words and a time a number; of the attributes, none
\* is a NULL, and nor are those of the row.
EventIsTyped(event) ==
    LET custom == Spans!GetFields(event, "custom")
    IN  /\ \A key \in {"trace_id", "span_id", "parent_id"} :
               Spans!GetStr(event, key) \in {Null, Malformed} \cup 0..(Word * Word - 1)
        /\ \A key \in {"start_timestamp", "end_timestamp"} :
               Spans!GetStr(event, key) \in {Null, Malformed} \cup Int
        /\ \A key \in DOMAIN event : event[key] # Null
        /\ \A key \in DOMAIN custom : custom[key] # Null
        /\ Spans!CustomFields(event, custom) \notin {Null, Malformed}
        /\ Spans!ResourceFields(event) \notin {Null, Malformed}

ASSUME SpansAssumption ==
    /\ \A event \in SpanEvents : IdsAreTyped(<<Spans!MapSpanEvent(event)>>) /\ EventIsTyped(event)
    /\ \A value \in {Null, Malformed} :
           value \notin Int \cup BOOLEAN \cup [integral : BOOLEAN, value : Int]

ASSUME MetricsAssumption == Metrics!BoundsAssumption

\* Nothing is bound, read or received.
NoTraces == chunk = <<>> /\ Unread

NoLogs ==
    /\ origin = "table" /\ source = <<>> /\ call = "none" /\ object = Null
    /\ stored = Null /\ hops = 0

NoMetrics ==
    /\ isNanos = FALSE /\ readings = <<>> /\ next_reading = 1 /\ points = <<>>
    /\ metric_results = <<>> /\ offset = 0 /\ body = <<>> /\ metric_phase = "reading"
    /\ table = <<>> /\ foreign = <<>>

WriteInit ==
    \/ writes = "traces" /\ Init /\ span_event = Null /\ NoLogs /\ NoMetrics
    \/ /\ writes = "traces" /\ span_event \in SpanEvents
       /\ chunk = <<Spans!MapSpanEvent(span_event)>> /\ Unread
       /\ NoLogs /\ NoMetrics
    \/ writes = "logs" /\ Logs!Init /\ span_event = Null /\ NoTraces /\ NoMetrics
    \/ writes = "metrics" /\ Metrics!Init /\ span_event = Null /\ NoTraces /\ NoLogs

TraceStep == writes = "traces" /\ Next /\ UNCHANGED <<writes, span_event, logVars, metricVars>>

LogStep == writes = "logs" /\ Logs!Next /\ UNCHANGED <<writes, span_event, vars, metricVars>>

MetricStep == writes = "metrics" /\ Metrics!Next /\ UNCHANGED <<writes, span_event, vars, logVars>>

WriteNext == TraceStep \/ LogStep \/ MetricStep

WriteSpec == WriteInit /\ [][WriteNext]_writeVars

--------------------------------------------------------------------------------
(* Properties, beside those of TraceWrite.                                 *)

\* The tag of a span that was received, and what an attribute of an event says.
TagOf(span, key) == IF key \in DOMAIN span.tags THEN span.tags[key].of ELSE Null
Said(key) == Spans!GetStr(span_event, key)
Readable == {Said("trace_id"), Said("span_id"), Said("start_timestamp")} \cap {Null, Malformed} = {}

Custom == Spans!GetFields(span_event, "custom")
CustomKind == Spans!GetStr(Spans!GetFields(Custom, "span"), "kind")
CustomTag(key) == IF key \in DOMAIN Custom /\ Custom[key].kind # "null" THEN Custom[key].of ELSE Null

\* It is an error if and only if its status says so or, without a status, if it
\* has an error message and no error flag denies it.
ErrorIsKept(span) ==
    LET message == Spans!ExtractErrorMessage(span_event, Custom)
    IN  /\ Said("status") # Null => (span.error = 1 <=> Said("status") \in {"error", "ERROR"})
        /\ (Said("status") = Null /\ message # Null /\ span.error = 0) =>
               Spans!Get(span_event, "error").kind \in {"number", "boolean"}
        /\ TagOf(span, "error.message") =
               IF message \notin {Null, Empty} THEN message ELSE CustomTag("error.message")

\* What has no column arrives as a tag, a custom attribute before a reserved one
\* of the same name, and only a column before a custom attribute; the custom
\* kind wins over a tag.
TagsAreForwarded(span) ==
    LET high == Said("trace_id") \div Word
        kind == Spans!SpanKindToInteger(CustomKind)
    IN  /\ TagOf(span, "_dd.p.tid") = IF high = 0 THEN CustomTag("_dd.p.tid") ELSE ToString(high)
        /\ CustomKind # Null =>
               TagOf(span, "span.kind") =
                   IF kind = 0 THEN CustomTag("span.kind") ELSE SpanKindToString(kind)
        /\ \A key \in DOMAIN Custom \ {"_dd.p.tid", "span.kind", "error.message"} :
               Custom[key].kind # "null" => TagOf(span, key) = Custom[key].of
        /\ \A key \in {"resource_name", "type", "host", "env"} \ DOMAIN Custom :
               Said(key) # Null => TagOf(span, key) = Said(key)

\* "Round-trip spans from one account/window into another": a span that has its
\* ids and its start is written, with the same ids, times, service and name,
\* the same verdict on it and the same tags.
ForwardedSpansKeep ==
    /\ span_event # Null /\ phase = "done" /\ Readable => results[1] = "ok"
    /\ span_event # Null /\ received # <<>> =>
        LET span  == ReadSpan(received[1][1].wire)
            start == Said("start_timestamp")
            end   == Said("end_timestamp")
        IN  /\ span.trace_id = Said("trace_id") % Word
            /\ span.span_id = Said("span_id") % Word
            /\ Said("parent_id") \notin {Null, Malformed} => span.parent_id = Said("parent_id") % Word
            /\ span.start = start
            /\ end \notin {Null, Malformed} /\ end >= start => span.start + span.duration = end
            /\ Said("service") \notin {Null, Empty} => span.service = Said("service")
            /\ ("operation_name" \notin DOMAIN Custom /\ Said("operation_name") \notin {Null, Empty}) =>
                   span.name = Said("operation_name")
            /\ ErrorIsKept(span)
            /\ TagsAreForwarded(span)

\* Of logs: a column that is set reaches its column at the listener, ...
ColumnsArrive == Logs!ColumnsArrive

\* ... an attribute is not lost, ...
AttributesArrive == Logs!AttributesArrive

\* ... and a log that came from Datadog or a listener can be passed on.
CopiesAreFaithful == Logs!CopiesAreFaithful

\* Of metrics: the rows with the result "ok" are the points that were stored, ...
OkRowsAreStored == Metrics!OkRowsAreStored

\* ... a row that cannot be read or written fails its chunk, at most the
\* batches before it being stored, ...
BadRowsFailTheirChunk == Metrics!BadRowsFailTheirChunk

\* ... and the listener stores the value that any client posts.
PointsAreStoredAsPosted == Metrics!PointsAreStoredAsPosted
================================================================================
