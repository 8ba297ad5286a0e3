------------------------------ MODULE TraceWrite ------------------------------
(***************************************************************************)
(* One chunk of rows goes through write_datadog_traces: each row becomes a *)
(* span or is skipped, the spans are grouped into traces, and one request  *)
(* carries them, as JSON to a Datadog Agent or as protobuf to the backend. *)
(*                                                                         *)
(* An identifier is the number its hex text denotes. A 64-bit word holds   *)
(* Word values, so that a 128-bit id is cut into a low and a high word; a  *)
(* high word of 0 is the empty text in the code. Texts are opaque, and     *)
(* Empty is "".                                                            *)
(***************************************************************************)
EXTENDS Integers, Sequences, Functions, TLC, Merging

CONSTANTS
    Null,               \* a SQL NULL, or a missing column
    Malformed,          \* a value that cannot be cast or parsed
    Word,               \* 2^64
    Chunks,             \* chunks of rows the user may send
    Secrets             \* what a datadog secret may hold

ASSUME WordAssumption == Word \in Nat \ {0}
ASSUME NullAssumption == Null \notin {"ok", "unset"}

Empty == ""

\* An identifier that is there is a number, of a text or of an integer column.
IdsAreTyped(c) ==
    /\ c \in Seq(Range(c))
    /\ \A r \in DOMAIN c : c[r].trace_id \notin {Null, Malformed} => c[r].trace_id.value \in Int

ASSUME IdsAssumption == \A c \in Chunks : IdsAreTyped(c)

VARIABLES
    mode,               \* agent, direct or refused, once bound; else none
    chunk,              \* the rows of the chunk
    next,               \* the row that is read next
    source_rows,        \* the rows that are spans, as far as they are read
    results,            \* results[r]: "ok", "skipped", Null or Unset
    placed,             \* how many of them are in a trace
    traces,             \* the traces: each a key and the rows of its spans
    phase,              \* reading, building, done, failed
    received            \* the request the agent or the backend accepted

vars == <<mode, chunk, next, source_rows, results, placed, traces, phase, received>>

Unset == "unset"

-----------------------------------------------------------------------------
(* A row becomes a span. *)

\* An integer column must fit a word; a text holds at most two of them.
ReadsId(id) ==
    /\ id \notin {Null, Malformed}
    /\ id.value >= 0
    /\ IF id.integral THEN id.value < Word ELSE id.value < Word * Word

Low(id) == id.value % Word
High(id) == id.value \div Word

ReadsNumber(column) == column \notin {Null, Malformed}

SpanKindToString(kind) ==
    CASE kind = 1 -> "internal" [] kind = 2 -> "server" [] kind = 3 -> "client"
      [] kind = 4 -> "producer" [] kind = 5 -> "consumer" [] OTHER -> Empty

KindOf(row) == IF ReadsNumber(row.kind) THEN SpanKindToString(row.kind) ELSE Empty

\* Why a row cannot form a span; Empty when it can.
SkipReason(row) ==
    CASE ~ReadsId(row.trace_id) -> "missing or invalid trace_id"
      [] ~ReadsId(row.span_id) -> "missing or invalid span_id"
      [] ~ReadsNumber(row.start) -> "missing or invalid start_time_unix_nano"
      [] OTHER -> Empty

TagColumns == {"span.kind", "error.message", "w3c.tracestate", "events", "_dd.span_links"}

\* The tags that columns set. An empty text sets none.
ColumnTags(row) ==
    LET text(k) == CASE k = "span.kind" -> KindOf(row)
                     [] k = "error.message" -> row.status_message
                     [] k = "w3c.tracestate" -> row.trace_state
                     [] k = "events" -> row.events
                     [] k = "_dd.span_links" -> row.links
    IN  [k \in {t \in TagColumns : text(t) # Empty} |-> [in |-> "meta", of |-> text(k)]]

HighTag(high) ==
    IF high = 0 THEN <<>> ELSE Only("_dd.p.tid", [in |-> "meta", of |-> ToString(high)])

\* The attributes as tags: numbers are metrics, everything else is text in
\* meta. JSON nulls are dropped, and so is a column that is not an object.
Usable(attributes) ==
    IF attributes \in {Null, Malformed} THEN <<>>
    ELSE [k \in {a \in DOMAIN attributes : attributes[a].kind # "null"} |->
             [in |-> IF attributes[k].kind = "number" THEN "metrics" ELSE "meta",
              of |-> attributes[k].of]]

\* Mutant: the attributes of the span come before its columns.
TagsOfAttributesFirst(high, row) ==
    Merge(HighTag(high),
          Merge(Usable(row.span_attributes),
                Merge(ColumnTags(row), Usable(row.resource_attributes))))

\* ResolveDatadogAgentSpanAttributes: a key that is set is never overwritten,
\* the id first, then the columns, the span's and the resource's attributes.
Tags(high, row) ==
    Merge(HighTag(high),
          Merge(ColumnTags(row),
                Merge(Usable(row.span_attributes), Usable(row.resource_attributes))))

Default(text, otherwise) == IF text = Empty THEN otherwise ELSE text

SpanType(row) ==
    IF row.type = Empty /\ KindOf(row) = "server" THEN "web" ELSE row.type

\* The parent is 0 when there is none, and a negative duration is none.
BuildAgentSpanFromRow(row) ==
    LET name == Default(row.name, "unnamed_operation")
    IN  [trace_id  |-> Low(row.trace_id),
         span_id   |-> Low(row.span_id),
         parent_id |-> IF ReadsId(row.parent_span_id) THEN Low(row.parent_span_id) ELSE 0,
         start     |-> row.start,
         duration  |-> IF ReadsNumber(row.duration) /\ row.duration >= 0
                       THEN row.duration ELSE 0,
         service   |-> Default(row.service, "unknown-service"),
         name      |-> name,
         resource  |-> Default(row.resource, name),
         type      |-> SpanType(row),
         error     |-> IF ReadsNumber(row.status_code) /\ row.status_code = 2 THEN 1 ELSE 0,
         tags      |-> Tags(High(row.trace_id), row)]

-----------------------------------------------------------------------------
(* A span becomes a JSON object or a protobuf message. *)

SpanFields == {"trace_id", "span_id", "parent_id", "start", "duration", "service",
               "name", "resource", "type", "error", "tags"}

Zero(field) ==
    CASE field \in {"service", "name", "resource", "type"} -> Empty
      [] field = "tags" -> <<>>
      [] OTHER -> 0

\* The agent's JSON always carries these; the rest only when it is not zero,
\* and protobuf leaves out every zero.
AlwaysInJson == {"trace_id", "span_id", "start", "duration"}

WireFields(span, destination) ==
    {f \in SpanFields : span[f] # Zero(f)}
        \cup IF destination = "agent" THEN AlwaysInJson ELSE {}

\* Mutant: the agent's JSON leaves out the type as well.
WireSpanUntyped(span, destination) ==
    [f \in WireFields(span, destination) \ {"type"} |-> span[f]]

WireSpan(span, destination) == [f \in WireFields(span, destination) |-> span[f]]

\* How the receiver reads a span: a field that is absent is zero.
ReadSpan(wire) == [f \in SpanFields |-> IF f \in DOMAIN wire THEN wire[f] ELSE Zero(f)]

\* Mutant: the key of a trace is the id on the wire.
TraceKeyLow(row) == <<0, Low(row.trace_id)>>

\* The key of a trace holds the whole 128-bit id.
TraceKey(row) == <<High(row.trace_id), Low(row.trace_id)>>

-----------------------------------------------------------------------------
Unread ==
    /\ mode = "none"
    /\ next = 1
    /\ source_rows = <<>>
    /\ results = [r \in DOMAIN chunk |-> Unset]
    /\ placed = 0
    /\ traces = <<>>
    /\ phase = "reading"
    /\ received = <<>>

Init == chunk \in Chunks /\ Unread

\* DatadogWriteTracesBind: without a secret, or with one that does not say
\* "direct", the spans go to an agent, which needs no credentials.
Bind(secret) ==
    /\ mode = "none"
    /\ mode' = CASE secret = Null -> "agent"
                 [] secret # Null /\ secret.trace_intake = "direct" ->
                      IF secret.api_key /\ ~secret.trace_agent_url THEN "direct" ELSE "refused"
                 [] OTHER ->
                      IF secret.trace_intake \in {Empty, "agent"} THEN "agent" ELSE "refused"
    /\ UNCHANGED <<chunk, next, source_rows, results, placed, traces, phase, received>>

InChunk == mode \in {"agent", "direct"} /\ phase = "reading" /\ next \in DOMAIN chunk

\* Mutant: every row that is not sent is NULL.
SkipRowSilently ==
    /\ InChunk
    /\ chunk[next].null \/ SkipReason(chunk[next]) # Empty
    /\ results' = [results EXCEPT ![next] = Null]
    /\ next' = next + 1
    /\ UNCHANGED <<mode, chunk, source_rows, placed, traces, phase, received>>

SkipRow ==
    /\ InChunk
    /\ \/ chunk[next].null
       \/ ~chunk[next].null /\ SkipReason(chunk[next]) # Empty
    /\ results' = [results EXCEPT ![next] = IF chunk[next].null THEN Null
                                           ELSE SkipReason(chunk[next])]
    /\ next' = next + 1
    /\ UNCHANGED <<mode, chunk, source_rows, placed, traces, phase, received>>

AddSpan ==
    /\ InChunk
    /\ ~chunk[next].null
    /\ SkipReason(chunk[next]) = Empty
    /\ source_rows' = Append(source_rows, next)
    /\ next' = next + 1
    /\ UNCHANGED <<mode, chunk, results, placed, traces, phase, received>>

\* All rows are read. Without a span there is no request.
ReadAll ==
    /\ mode \in {"agent", "direct"}
    /\ phase = "reading"
    /\ next \notin DOMAIN chunk
    /\ phase' = IF source_rows = <<>> THEN "done" ELSE "building"
    /\ UNCHANGED <<mode, chunk, next, source_rows, results, placed, traces, received>>

Placing == phase = "building" /\ placed < Len(source_rows)
NextRow == source_rows[placed + 1]
NextKey == TraceKey(chunk[NextRow])

\* The first span of a trace starts its array.
StartTrace ==
    /\ Placing
    /\ \A t \in DOMAIN traces : traces[t].key # NextKey
    /\ traces' = Append(traces, [key |-> NextKey, spans |-> <<NextRow>>])
    /\ placed' = placed + 1
    /\ UNCHANGED <<mode, chunk, next, source_rows, results, phase, received>>

ExtendTrace ==
    /\ Placing
    /\ \E t \in DOMAIN traces :
           /\ traces[t].key = NextKey
           /\ traces' = [traces EXCEPT ![t].spans = Append(@, NextRow)]
    /\ placed' = placed + 1
    /\ UNCHANGED <<mode, chunk, next, source_rows, results, phase, received>>

\* SendTraces or SendTracesDirect returned, or threw: the agent's answer may
\* be lost after it took the spans.
Request ==
    [t \in DOMAIN traces |->
        [i \in DOMAIN traces[t].spans |->
            [row  |-> traces[t].spans[i],
             wire |-> WireSpan(BuildAgentSpanFromRow(chunk[traces[t].spans[i]]), mode)]]]

Post ==
    /\ phase = "building"
    /\ placed = Len(source_rows)
    /\ \/ /\ phase' = "done"
          /\ received' = Request
          /\ results' = [r \in DOMAIN chunk |->
                            IF \E i \in DOMAIN source_rows : source_rows[i] = r THEN "ok" ELSE results[r]]
       \/ /\ phase' = "failed"
          /\ received' \in {<<>>, Request}
          /\ UNCHANGED results
    /\ UNCHANGED <<mode, chunk, next, source_rows, placed, traces>>

Next ==
    \/ \E secret \in Secrets : Bind(secret)
    \/ SkipRow \/ AddSpan \/ ReadAll
    \/ StartTrace \/ ExtendTrace \/ Post

Spec == Init /\ [][Next]_vars

-----------------------------------------------------------------------------
TypeOK ==
    /\ mode \in {"none", "agent", "direct", "refused"}
    /\ phase \in {"reading", "building", "done", "failed"}
    /\ next \in 1..Len(chunk) + 1
    /\ source_rows \in Seq(1..next - 1)
    /\ placed \in 0..Len(source_rows)
    /\ traces \in Seq([key : Int \X Int, spans : Seq(Nat)])
    /\ DOMAIN results = DOMAIN chunk
    /\ phase = "reading" => traces = <<>> /\ placed = 0
    /\ phase # "reading" => next = Len(chunk) + 1
    /\ source_rows # <<>> => mode \in {"agent", "direct"}

RowOf(t, i) == traces[t].spans[i]
TraceIdOf(r) == chunk[r].trace_id.value

\* "So two 128-bit traces sharing lower bits can never be merged", and no trace
\* is split within a chunk: two spans are in the same array of the request if
\* and only if their whole trace ids are equal, and no row is in it twice.
TracesKeepIdentity ==
    \A s, t \in DOMAIN traces :
        \A i \in DOMAIN traces[s].spans, j \in DOMAIN traces[t].spans :
            /\ TraceIdOf(RowOf(s, i)) = TraceIdOf(RowOf(t, j)) <=> s = t
            /\ RowOf(s, i) = RowOf(t, j) => s = t /\ i = j

\* "Agent and direct mode send identical data": whatever a span is, the JSON
\* object and the protobuf message, which leave out different fields, are read
\* as the same span, the one that the row describes.
EncodingsAgree ==
    \A k \in DOMAIN source_rows :
        LET span == BuildAgentSpanFromRow(chunk[source_rows[k]])
        IN  /\ ReadSpan(WireSpan(span, "agent")) = span
            /\ ReadSpan(WireSpan(span, "direct")) = span

\* The texts of a row that are tags, and their names.
ColumnTexts(row) ==
    {<<"span.kind", KindOf(row)>>, <<"error.message", row.status_message>>,
     <<"w3c.tracestate", row.trace_state>>, <<"events", row.events>>,
     <<"_dd.span_links", row.links>>}

SetByColumn(row, key) ==
    \/ key = "_dd.p.tid" /\ High(row.trace_id) # 0
    \/ \E column \in ColumnTexts(row) : column[1] = key /\ column[2] # Empty

AttributeNames(attributes) ==
    IF attributes \in {Null, Malformed} THEN {}
    ELSE {key \in DOMAIN attributes : attributes[key].kind # "null"}

\* "128-bit OTLP traces keep their identity": the upper bits of the id and the
\* tags of the columns reach the wire whatever the attributes hold; an
\* attribute of any name is lost only to a tag that came before it, never to a
\* bad column; and there is no other tag.
TagsAreKept ==
    \A t \in DOMAIN received : \A i \in DOMAIN received[t] :
        LET row      == chunk[received[t][i].row]
            tags     == ReadSpan(received[t][i].wire).tags
            ofSpan   == AttributeNames(row.span_attributes)
            ofSource == AttributeNames(row.resource_attributes)
            says(key, text) == key \in DOMAIN tags /\ tags[key].of = text
        IN  /\ High(row.trace_id) # 0 => says("_dd.p.tid", ToString(High(row.trace_id)))
            /\ \A column \in ColumnTexts(row) :
                   column[2] # Empty => says(column[1], column[2])
            /\ \A key \in DOMAIN tags \cup ofSpan \cup ofSource : ~SetByColumn(row, key) =>
                   IF key \in ofSpan THEN says(key, row.span_attributes[key].of)
                   ELSE key \in ofSource /\ says(key, row.resource_attributes[key].of)

\* The rows are read in order, and all their ids are readable.
RowsInOrder ==
    /\ \A j, k \in DOMAIN source_rows : j < k => source_rows[j] < source_rows[k]
    /\ \A k \in DOMAIN source_rows : ReadsId(chunk[source_rows[k]].trace_id)

\* Every trace holds placed rows, each of them with the key of the trace.
PlacedUnderTheirKey ==
    \A t \in DOMAIN traces : \A i \in DOMAIN traces[t].spans :
        /\ \E k \in 1..placed : RowOf(t, i) = source_rows[k]
        /\ traces[t].key = TraceKey(chunk[RowOf(t, i)])

KeysAreDistinct == \A s, t \in DOMAIN traces : traces[s].key = traces[t].key => s = t

PlacedOnce ==
    \A s, t \in DOMAIN traces :
        \A i \in DOMAIN traces[s].spans, j \in DOMAIN traces[t].spans :
            RowOf(s, i) = RowOf(t, j) => s = t /\ i = j

\* The inductive invariant: a new row is larger than all that are placed, and
\* the array it is put in, or the new one, is the only one with its key.
IInv ==
    /\ IdsAreTyped(chunk)
    /\ TypeOK
    /\ RowsInOrder
    /\ PlacedUnderTheirKey
    /\ KeysAreDistinct
    /\ PlacedOnce

\* A row that cannot form a span is reported, not silently dropped: when the
\* call returns, "ok" marks exactly the rows in the accepted request, and every
\* other row has its reason, or NULL.
ResultsAreTrue ==
    phase = "done" =>
        \A r \in DOMAIN chunk :
            LET sent == \E t \in DOMAIN received : \E i \in DOMAIN received[t] :
                            received[t][i].row = r
            IN  /\ results[r] = "ok" <=> sent
                /\ ~sent => results[r] = IF chunk[r].null THEN Null ELSE SkipReason(chunk[r])
                /\ results[r] # Unset

IsSpan(row) == ~row.null /\ SkipReason(row) = Empty

\* Every row that was read is accounted for: a span is among the source rows
\* and, once placed, in a trace; any other row has its result. An accepted
\* request holds the traces as they are.
RowsAreAccountedFor ==
    /\ \A r \in DOMAIN chunk : r < next =>
           IF IsSpan(chunk[r]) THEN \E k \in DOMAIN source_rows : source_rows[k] = r
           ELSE results[r] = IF chunk[r].null THEN Null ELSE SkipReason(chunk[r])
    /\ \A k \in DOMAIN source_rows : IsSpan(chunk[source_rows[k]])
    /\ \A k \in 1..placed :
           \E t \in DOMAIN traces : \E i \in DOMAIN traces[t].spans : RowOf(t, i) = source_rows[k]
    /\ phase \in {"reading", "building"} => received = <<>>
    /\ phase = "done" =>
           /\ placed = Len(source_rows)
           /\ DOMAIN received = DOMAIN traces
           /\ \A t \in DOMAIN traces :
                  /\ DOMAIN received[t] = DOMAIN traces[t].spans
                  /\ \A i \in DOMAIN traces[t].spans : received[t][i].row = RowOf(t, i)
           /\ \A r \in DOMAIN chunk : IsSpan(chunk[r]) => results[r] = "ok"
================================================================================
