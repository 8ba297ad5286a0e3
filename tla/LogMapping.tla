------------------------------ MODULE LogMapping ------------------------------
(***************************************************************************)
(* What happens to one log on its way: a Datadog search event becomes a    *)
(* row (read_datadog_logs), a row becomes a JSON object of the intake      *)
(* (send_datadog_logs), and the object becomes a row of the listener's     *)
(* table (datadog_serve).                                                  *)
(*                                                                         *)
(* A text is the sequence of its comma-separated words, so "" is <<>>.     *)
(* A JSON object is a record: its fields, a function from names to JSON    *)
(* values, and the object nested in it under "resource_attributes", or     *)
(* Null. A row is a record of the columns the struct has.                  *)
(***************************************************************************)
EXTENDS Integers, Sequences, SequencesExt, FiniteSetsExt, TLC, Merging

CONSTANTS
    Null,            \* a SQL NULL, or a JSON key that is absent
    Malformed,       \* a column whose text is not JSON, or not a time
    NanosPerMilli,   \* how many nanoseconds are a millisecond
    Dates            \* Dates[t]: the nanoseconds that the text t denotes

NanosPerMilliAssumption == NanosPerMilli \in Nat \ {0}

Empty == <<>>

\* JSON values. "other" is an object, an array or a boolean, whose text is its
\* serialization.
Text(t)   == [kind |-> "string", text |-> t, number |-> 0]
Number(n) == [kind |-> "number", text |-> <<ToString(n)>>, number |-> n]
Other(t)  == [kind |-> "other", text |-> t, number |-> 0]

NoFields == <<>>
Without(f, names) == [k \in DOMAIN f \ names |-> f[k]]

\* The string under a name; Null for an absent key and for any other kind.
GetString(f, name) ==
    IF name \in DOMAIN f /\ f[name].kind = "string" THEN f[name].text ELSE Null

First(a, b) == IF a # Null THEN a ELSE b

\* C++ integer division rounds toward zero.
Milliseconds(nanos) ==
    IF nanos >= 0 THEN nanos \div NanosPerMilli ELSE -((-nanos) \div NanosPerMilli)

-----------------------------------------------------------------------------
(* The sender. *)

\* The column that stands for a field is chosen by the names of the struct,
\* once for all rows: a NULL in it does not make the next name count.
PickField(row, names) ==
    LET found == {i \in DOMAIN names : names[i] \in DOMAIN row}
    IN  IF found = {} THEN Null ELSE row[names[Min(found)]]

ReadStringField(row, names) ==
    LET value == PickField(row, names) IN IF value = Null THEN Empty ELSE value

Severities == <<"trace", "debug", "info", "warn", "error", "critical">>

SeverityNumberToStatus(n) ==
    IF n \in 1..24 THEN <<Severities[(n + 3) \div 4]>> ELSE Empty

\* An integer column carries an epoch in the column's own unit; anything else
\* is cast to a TIMESTAMP_NS, or is no time at all.
ReadTimestampMs(row, names, isNanos) ==
    LET value == PickField(row, names)
    IN  IF value \in {Null, Malformed} THEN Null
        ELSE IF value.integral /\ ~isNanos THEN value.epoch
        ELSE Milliseconds(value.epoch)

Status(row) ==
    LET text   == ReadStringField(row, <<"severity_text", "severity", "status">>)
        number == PickField(row, <<"severity_number">>)
    IN  IF text = Empty /\ number # Null THEN SeverityNumberToStatus(number) ELSE text

DdSource(row) ==
    LET source == ReadStringField(row, <<"ddsource">>)
    IN  IF source = Empty THEN <<"duckdb">> ELSE source

BuildIntakeLogFromRow(row) ==
    [message   |-> ReadStringField(row, <<"body", "message">>),
     service   |-> ReadStringField(row, <<"service_name", "service">>),
     status    |-> Status(row),
     hostname  |-> ReadStringField(row, <<"hostname", "host">>),
     ddsource  |-> DdSource(row),
     ddtags    |-> ReadStringField(row, <<"ddtags">>),
     trace_id  |-> ReadStringField(row, <<"trace_id">>),
     span_id   |-> ReadStringField(row, <<"span_id">>),
     timestamp |->
        First(ReadTimestampMs(row, <<"time_unix_nano", "timestamp">>,
                              "time_unix_nano" \in DOMAIN row),
              ReadTimestampMs(row, <<"observed_time_unix_nano">>, TRUE)),
     resource_attributes |-> PickField(row, <<"resource_attributes">>),
     log_attributes      |-> PickField(row, <<"log_attributes">>)]

\* A NULL is no number, text or time; the words that the code writes are texts.
NullsAssumption ==
    /\ Null \notin Int \cup Seq(STRING)
    /\ \A value \in {Null, Malformed} : value \notin [integral : BOOLEAN, epoch : Int]
    /\ {"duckdb"} \cup Range(Severities) \subseteq STRING

\* Tags are lists of texts, times are int64_t, and so is an attribute that can
\* stand for one of them.
RowIsTyped(row) ==
    LET block      == PickField(row, <<"resource_attributes">>)
        attributes == PickField(row, <<"log_attributes">>)
        times      == {"time_unix_nano", "timestamp", "observed_time_unix_nano"}
    IN  /\ ReadStringField(row, <<"ddtags">>) \in Seq(STRING)
        /\ block \notin {Null, Malformed} => block.ddtags \in Seq(Seq(STRING))
        /\ attributes \notin {Null, Malformed} =>
               LET f == attributes.fields
               IN  /\ GetString(f, "ddtags") \in {Null} \cup Seq(STRING)
                   /\ "timestamp" \in DOMAIN f /\ f["timestamp"].kind = "number" =>
                          f["timestamp"].number \in Int
        /\ \A name \in times \cap DOMAIN row :
               row[name] \notin {Null, Malformed} => row[name].epoch \in Int

TextAttributes == {"message", "service", "status", "ddsource", "hostname",
                   "ddtags", "trace_id", "span_id"}

ReservedFields(log) ==
    Merge([name \in {a \in TextAttributes : log[a] # Empty} |-> Text(log[name])],
          IF log.timestamp = Null THEN NoFields
          ELSE Only("timestamp", Number(log.timestamp)))

\* What the resource block adds to the object when the columns did not.
MinedFields(log, block) ==
    LET host  == GetString(block.fields, "host")
        tags  == FlattenSeq(block.ddtags)
    IN  Merge(IF log.hostname # Empty \/ host = Null THEN NoFields
              ELSE Only("hostname", Text(host)),
              IF log.ddtags # Empty \/ tags = Empty THEN NoFields
              ELSE Only("ddtags", Text(tags)))

\* Mutant: the block is kept only when it had to be mined.
ApplyResourceWhenMining(log, object) ==
    IF \/ log.resource_attributes \in {Null, Malformed}
       \/ log.hostname # Empty /\ log.ddtags # Empty
    THEN object
    ELSE [fields   |-> Merge(object.fields, MinedFields(log, log.resource_attributes)),
          resource |-> log.resource_attributes]

ApplyResourceAttributes(log, object) ==
    IF log.resource_attributes \in {Null, Malformed} THEN object
    ELSE [fields   |-> Merge(object.fields, MinedFields(log, log.resource_attributes)),
          resource |-> log.resource_attributes]

\* Mutant: the attributes overwrite what the columns set.
MergeOverwriting(object, attributes) ==
    IF attributes \in {Null, Malformed} THEN object
    ELSE [fields   |-> Merge(attributes.fields, object.fields),
          resource |-> First(object.resource, attributes.resource)]

\* The attributes of the log fill the names that are still free.
MergeJsonObjectAttributes(object, attributes) ==
    IF attributes \in {Null, Malformed} THEN object
    ELSE [fields   |-> Merge(object.fields, attributes.fields),
          resource |-> First(object.resource, attributes.resource)]

BuildDatadogIntakeObject(log) ==
    MergeJsonObjectAttributes(
        ApplyResourceAttributes(log, [fields |-> ReservedFields(log), resource |-> Null]),
        log.log_attributes)

-----------------------------------------------------------------------------
(* The listener. *)

StatusToSeverityNumber(status) ==
    CASE status = <<"trace">> -> 1
      [] status = <<"debug">> -> 5
      [] status \in {<<"info">>, <<"notice">>, <<"ok">>} -> 9
      [] status \in {<<"warn">>, <<"warning">>} -> 13
      [] status \in {<<"error">>, <<"err">>} -> 17
      [] status \in {<<"critical">>, <<"crit">>, <<"alert">>, <<"emergency">>, <<"fatal">>} -> 21
      [] OTHER -> 0

\* Numbers are milliseconds; a text is a number of milliseconds or a date.
ParseDatadogTimestamp(f, otherwise) ==
    IF "timestamp" \notin DOMAIN f THEN otherwise
    ELSE CASE f["timestamp"].kind = "number" -> f["timestamp"].number * NanosPerMilli
           [] f["timestamp"].kind = "string" /\ f["timestamp"].text \in DOMAIN Dates ->
                Dates[f["timestamp"].text]
           [] OTHER -> otherwise

MessageValue(f) ==
    IF "message" \notin DOMAIN f \/ f["message"].text = Empty THEN Null
    ELSE f["message"].text

Present(name, text) == IF text = Null THEN NoFields ELSE Only(name, Text(text))

\* Mutant: only "host" is read, not "hostname".
BuildResourceAttributesNoFallback(f) ==
    LET host   == GetString(f, "host")
        source == GetString(f, "ddsource")
        tags   == GetString(f, "ddtags")
    IN  IF host = Null /\ source = Null /\ tags = Null THEN Null
        ELSE [fields |-> Merge(Present("host", host), Present("ddsource", source)),
              ddtags |-> IF tags = Null THEN <<>> ELSE [i \in DOMAIN tags |-> <<tags[i]>>]]

\* Each comma-separated word of "ddtags" becomes a tag.
BuildResourceAttributes(f) ==
    LET host   == First(GetString(f, "hostname"), GetString(f, "host"))
        source == GetString(f, "ddsource")
        tags   == GetString(f, "ddtags")
    IN  IF host = Null /\ source = Null /\ tags = Null THEN Null
        ELSE [fields |-> Merge(Present("host", host), Present("ddsource", source)),
              ddtags |-> IF tags = Null THEN <<>> ELSE [i \in DOMAIN tags |-> <<tags[i]>>]]

ListenerReserved == {"message", "service", "status", "timestamp",
                     "hostname", "host", "ddtags", "ddsource"}

BuildLogAttributes(object) ==
    LET rest == Without(object.fields, ListenerReserved)
    IN  IF rest = NoFields /\ object.resource = Null THEN Null
        ELSE [fields |-> rest, resource |-> object.resource]

LogRow(time, observed, traceId, spanId, service, status, body, resource, attributes) ==
    [time_unix_nano          |-> time,
     observed_time_unix_nano |-> observed,
     trace_id                |-> traceId,
     span_id                 |-> spanId,
     service_name            |-> service,
     severity_number         |-> IF status = Null THEN Null ELSE StatusToSeverityNumber(status),
     severity_text           |-> status,
     body                    |-> body,
     resource_attributes     |-> resource,
     log_attributes          |-> attributes]

Timestamp(nanos) == [integral |-> FALSE, epoch |-> nanos]

MapIntakeLog(object, now) ==
    LET f == object.fields
    IN  LogRow(Timestamp(ParseDatadogTimestamp(f, now)), Timestamp(now),
               First(GetString(f, "dd.trace_id"), GetString(f, "trace_id")),
               First(GetString(f, "dd.span_id"), GetString(f, "span_id")),
               GetString(f, "service"), GetString(f, "status"), MessageValue(f),
               BuildResourceAttributes(f), BuildLogAttributes(object))

-----------------------------------------------------------------------------
(* The reader: the "attributes" of a search event, with its tags and the    *)
(* custom attributes nested in it.                                          *)

ReadResourceAttributes(event) ==
    LET host == GetString(event.fields, "host")
    IN  IF host = Null /\ event.tags = <<>> THEN Null
        ELSE [fields |-> Present("host", host), ddtags |-> event.tags]

CustomString(event, name) ==
    IF event.custom = Null THEN Null ELSE GetString(event.custom.fields, name)

MapEvent(event) ==
    LET f     == event.fields
        stamp == GetString(f, "timestamp")
        time  == IF stamp \in DOMAIN Dates THEN Timestamp(Dates[stamp]) ELSE Null
    IN  LogRow(time, time, CustomString(event, "trace_id"), CustomString(event, "span_id"),
               GetString(f, "service"), GetString(f, "status"), GetString(f, "message"),
               ReadResourceAttributes(event), event.custom)
================================================================================
