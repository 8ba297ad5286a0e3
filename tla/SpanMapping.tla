------------------------------ MODULE SpanMapping ------------------------------
(***************************************************************************)
(* A span event of the Datadog search becomes a row (read_datadog_traces), *)
(* in the form in which write_datadog_traces reads a row (TraceWrite).     *)
(*                                                                         *)
(* A JSON object is a function from names to values, and a value a record: *)
(* its kind ("string", "number", "boolean", "null", "object", "array"), of *)
(* what it is, and the fields of an object or the items of an array. A     *)
(* string that stands for a time or an id is of its number, or Malformed.  *)
(***************************************************************************)
EXTENDS Integers, Sequences, Merging

CONSTANTS
    Null,        \* a SQL NULL, or a JSON key that is absent
    Malformed    \* a text that is not a time or an id

Empty == ""
NoFields == <<>>

Get(object, key) == IF key \in DOMAIN object THEN object[key] ELSE Null

GetStr(object, key) ==
    IF key \in DOMAIN object /\ object[key].kind = "string" THEN object[key].of ELSE Null

\* The fields of an object under a key; none if it is absent or not an object.
GetFields(object, key) ==
    IF key \in DOMAIN object /\ object[key].kind = "object" THEN object[key].fields
    ELSE NoFields

Tagged(attributes) ==
    IF "tags" \in DOMAIN attributes /\ attributes["tags"].kind = "array"
    THEN attributes["tags"].items ELSE <<>>

First(a, b) == IF a # Null THEN a ELSE b

-----------------------------------------------------------------------------
\* Case does not matter, nor does the prefix of OTLP.
Spellings ==
    <<{"internal", "SPAN_KIND_INTERNAL"}, {"server", "SPAN_KIND_SERVER"},
      {"client", "SPAN_KIND_CLIENT"}, {"producer", "SPAN_KIND_PRODUCER"},
      {"consumer", "SPAN_KIND_CONSUMER"}>>

SpanKindToInteger(kind) ==
    IF \E n \in DOMAIN Spellings : kind \in Spellings[n]
    THEN CHOOSE n \in DOMAIN Spellings : kind \in Spellings[n]
    ELSE 0

\* The nested attribute, whatever it says, or else the first tag of that name.
ExtractSpanKind(custom, tags) ==
    LET kind  == GetStr(GetFields(custom, "span"), "kind")
        named == SelectSeq(tags, LAMBDA tag : tag.key = "span.kind")
    IN  IF kind # Null THEN SpanKindToInteger(kind)
        ELSE IF named # <<>> THEN SpanKindToInteger(named[1].value)
        ELSE 0

\* What an error attribute says, if it says anything.
ErrorVerdict(parent) ==
    LET error == Get(parent, "error")
    IN  CASE error = Null -> Null
          [] error # Null /\ error.kind = "number" -> error.of # 0
          [] error # Null /\ error.kind = "boolean" -> error.of
          [] error # Null /\ error.kind = "object" /\ error.fields # NoFields -> TRUE
          [] OTHER -> Null

ErrorOfObjects(attributes, custom) ==
    First(ErrorVerdict(attributes), ErrorVerdict(custom)) = TRUE

\* Mutant: an error object makes an error of a span whose status is "ok".
SpanHasErrorByObjects(attributes, custom) ==
    GetStr(attributes, "status") \in {"error", "ERROR"} \/ ErrorOfObjects(attributes, custom)

SpanHasError(attributes, custom) ==
    LET status == GetStr(attributes, "status")
    IN  IF status # Null THEN status \in {"error", "ERROR"}
        ELSE ErrorOfObjects(attributes, custom)

ExtractErrorMessage(attributes, custom) ==
    First(GetStr(GetFields(attributes, "error"), "message"),
          GetStr(GetFields(custom, "error"), "message"))

-----------------------------------------------------------------------------
(* The attributes of a row are JSON texts: Null when nothing is in them.   *)

Column(fields) == IF fields = NoFields THEN Null ELSE fields

\* The host, the environment and the tags.
ResourceFields(attributes) ==
    LET named == {k \in {"host", "env"} : GetStr(attributes, k) # Null}
    IN  Merge([k \in named |-> attributes[k]],
              IF Tagged(attributes) = <<>> THEN NoFields
              ELSE Only("ddtags", attributes["tags"]))

BuildResourceAttributes(attributes) == Column(ResourceFields(attributes))

\* Reserved fields without a column; a custom attribute of the same name wins.
CustomFields(attributes, custom) ==
    LET reserved == {k \in {"resource_name", "type", "single_span", "ingestion_reason",
                            "retained_by"} \cap DOMAIN attributes : attributes[k].kind # "null"}
    IN  Merge(custom, [k \in reserved |-> attributes[k]])

BuildSpanAttributes(attributes, custom) == Column(CustomFields(attributes, custom))

-----------------------------------------------------------------------------
(* The columns. The writer reads a NULL text as "" and an id as OTLP hex.  *)

Text(value) == IF value = Null THEN Empty ELSE value

Id(value) == IF value \in {Null, Malformed} THEN value ELSE [integral |-> FALSE, value |-> value]

\* The reserved timestamps, or else the measure that Datadog records.
Duration(attributes, custom) ==
    LET start == GetStr(attributes, "start_timestamp")
        end   == GetStr(attributes, "end_timestamp")
    IN  IF {start, end} \cap {Null, Malformed} = {} THEN end - start
        ELSE IF "duration" \in DOMAIN custom /\ custom["duration"].kind = "number"
             THEN custom["duration"].of
        ELSE Null

Name(attributes, custom) ==
    First(GetStr(custom, "operation_name"),
          First(GetStr(attributes, "operation_name"), GetStr(attributes, "resource_name")))

\* The row of an event, which is the fields of its attributes. A time or a kind
\* that cannot be read is NULL; Datadog has no data for the other columns.
MapSpanEvent(attributes) ==
    LET custom == GetFields(attributes, "custom")
        start  == GetStr(attributes, "start_timestamp")
        kind   == ExtractSpanKind(custom, Tagged(attributes))
    IN  [null           |-> FALSE,
         trace_id       |-> Id(GetStr(attributes, "trace_id")),
         span_id        |-> Id(GetStr(attributes, "span_id")),
         parent_span_id |-> Id(GetStr(attributes, "parent_id")),
         start          |-> IF start = Malformed THEN Null ELSE start,
         duration       |-> Duration(attributes, custom),
         service        |-> Text(GetStr(attributes, "service")),
         name           |-> Text(Name(attributes, custom)),
         resource       |-> Empty,
         type           |-> Empty,
         kind           |-> IF kind = 0 THEN Null ELSE kind,
         status_code    |-> IF SpanHasError(attributes, custom) THEN 2 ELSE 0,
         status_message |-> Text(ExtractErrorMessage(attributes, custom)),
         trace_state    |-> Empty,
         events         |-> Empty,
         links          |-> Empty,
         span_attributes     |-> BuildSpanAttributes(attributes, custom),
         resource_attributes |-> BuildResourceAttributes(attributes)]
================================================================================
