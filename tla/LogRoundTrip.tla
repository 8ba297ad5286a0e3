----------------------------- MODULE LogRoundTrip -----------------------------
(***************************************************************************)
(* A log is sent with send_datadog_logs to a datadog_serve listener, and   *)
(* the stored row may be sent on to the next one ("copy logs straight from *)
(* one Datadog window to another"). The first row comes from any table, or *)
(* from read_datadog_logs.                                                 *)
(***************************************************************************)
EXTENDS LogMapping

CONSTANTS
    Rows,            \* rows of tables the user may send
    Events,          \* logs the Datadog search may return
    Secrets,         \* the credentials a datadog secret may hold
    Clock,           \* the listener's clock when the first log arrives
    MaxHops          \* how often a log is sent on

MaxHopsAssumption == MaxHops \in Nat

RowsAssumption ==
    /\ \A row \in Rows \cup {MapEvent(e) : e \in Events} : RowIsTyped(row)
    /\ \A text \in DOMAIN Dates : Dates[text] \in Int
    /\ Clock \in Int

VARIABLES
    origin,          \* where the row that is sent comes from
    source,          \* that row
    call,            \* the call of send_datadog_logs: none, bound, refused
    object,          \* the JSON object in the request, Null before it is made
    stored,          \* the row of the listener's table, Null before
    hops             \* how many listeners the log has passed

vars == <<origin, source, call, object, stored, hops>>

Init ==
    /\ \/ origin = "table" /\ source \in Rows
       \/ origin = "event" /\ source \in {MapEvent(e) : e \in Events}
    /\ call = "none"
    /\ object = Null
    /\ stored = Null
    /\ hops = 0

\* DatadogSendLogsBind: the credentials of the secret must be complete.
Bind(secret) ==
    /\ call = "none"
    /\ call' = IF secret.api_key /\ secret.app_key THEN "bound" ELSE "refused"
    /\ UNCHANGED <<origin, source, object, stored, hops>>

Send ==
    /\ call = "bound"
    /\ object = Null
    /\ object' = BuildDatadogIntakeObject(BuildIntakeLogFromRow(source))
    /\ UNCHANGED <<origin, source, call, stored, hops>>

Receive ==
    /\ object # Null
    /\ stored = Null
    /\ stored' = MapIntakeLog(object, Clock + hops)
    /\ UNCHANGED <<origin, source, call, object, hops>>

\* SELECT send_datadog_logs(l) FROM <the listener's table> l
Forward ==
    /\ stored # Null
    /\ hops < MaxHops
    /\ origin' = "listener"
    /\ source' = stored
    /\ call' = "none"
    /\ object' = Null
    /\ stored' = Null
    /\ hops' = hops + 1

Next ==
    \/ \E secret \in Secrets : Bind(secret)
    \/ Send
    \/ Receive
    \/ Forward

-----------------------------------------------------------------------------
Arrived == stored # Null

Column(row, names) == ReadStringField(row, names)
Block(row)      == PickField(row, <<"resource_attributes">>)
Attributes(row) == PickField(row, <<"log_attributes">>)
IsObject(json)  == json \notin {Null, Malformed}

HostOf(row) == IF IsObject(Block(row)) THEN GetString(Block(row).fields, "host") ELSE Null
TagsOf(row) == IF IsObject(Block(row)) THEN FlattenSeq(Block(row).ddtags) ELSE Empty
FieldsOf(row) == IF IsObject(Attributes(row)) THEN Attributes(row).fields ELSE NoFields

\* The severity and the time survive two changes of unit: a severity number
\* that stands in for a missing text comes back as the first number of its
\* OTLP range, and a time comes back less than a millisecond away.
SeverityAndTimeArrive ==
    LET number == PickField(source, <<"severity_number">>)
        time   == PickField(source, <<"time_unix_nano">>)
    IN  /\ (/\ Column(source, <<"severity_text", "severity", "status">>) = Empty
            /\ number \in 1..24) =>
               stored.severity_number <= number /\ number < stored.severity_number + 4
        /\ time \notin {Null, Malformed} =>
               /\ stored.time_unix_nano.epoch - time.epoch < NanosPerMilli
               /\ time.epoch - stored.time_unix_nano.epoch < NanosPerMilli

\* "log_attributes keys never overwrite a reserved attribute already set from
\* another column": whatever the attributes and the resource block hold, a
\* text column that is set reaches its column in the listener's table, and so
\* do the severity and the time. The trace and span ids give way to the
\* attributes dd.trace_id and dd.span_id.
ColumnsArrive ==
    LET Arrives(names, column) ==
            Column(source, names) # Empty => column = Column(source, names)
        IdArrives(name, override, column) ==
            Column(source, <<name>>) # Empty =>
                column = First(GetString(FieldsOf(source), override), Column(source, <<name>>))
    IN  Arrived =>
            /\ Arrives(<<"body", "message">>, stored.body)
            /\ Arrives(<<"service_name", "service">>, stored.service_name)
            /\ Arrives(<<"severity_text", "severity", "status">>, stored.severity_text)
            /\ Arrives(<<"hostname", "host">>, HostOf(stored))
            /\ Arrives(<<"ddtags">>, TagsOf(stored))
            /\ IdArrives("trace_id", "dd.trace_id", stored.trace_id)
            /\ IdArrives("span_id", "dd.span_id", stored.span_id)
            /\ GetString(stored.resource_attributes.fields, "ddsource") = DdSource(source)
            /\ SeverityAndTimeArrive

\* "Preserve the full resource block so nothing is lost even when host/ddtags
\* were already set": the block is stored whole, its host and tags stand in
\* for columns that are missing, and every attribute that is not one of the
\* listener's own names, nor set by a column, is stored with its value.
AttributesArrive ==
    Arrived =>
        /\ IsObject(Block(source)) =>
               /\ stored.log_attributes # Null
               /\ stored.log_attributes.resource = Block(source)
               /\ (Column(source, <<"hostname", "host">>) = Empty /\ HostOf(source) # Null) =>
                      HostOf(stored) = HostOf(source)
               /\ (Column(source, <<"ddtags">>) = Empty /\ TagsOf(source) # Empty) =>
                      TagsOf(stored) = TagsOf(source)
        /\ \A name \in DOMAIN FieldsOf(source) \ ListenerReserved :
               /\ name \in DOMAIN FieldsOf(stored)
               /\ \/ FieldsOf(stored)[name] = FieldsOf(source)[name]
                  \/ name \in {"trace_id", "span_id"} /\ Column(source, <<name>>) # Empty

\* A copy is faithful: a log that is read with read_datadog_logs or from a
\* listener's table is stored by the next listener with the same body,
\* service, severity, host and tags, and its time to the millisecond, so that
\* it can be passed on any number of times. (Its source becomes "duckdb".)
CopiesAreFaithful ==
    (Arrived /\ origin # "table") =>
        /\ \A name \in {"body", "service_name", "severity_text"} :
               source[name] \notin {Null, Empty} => stored[name] = source[name]
        /\ source.severity_text \notin {Null, Empty} =>
               stored.severity_number = source.severity_number
        /\ HostOf(source) # Null => HostOf(stored) = HostOf(source)
        /\ TagsOf(source) # Empty => TagsOf(stored) = TagsOf(source)
        /\ origin = "listener" =>
               /\ stored.time_unix_nano =
                      Timestamp(Milliseconds(source.time_unix_nano.epoch) * NanosPerMilli)
               /\ source.trace_id \notin {Null, Empty} => stored.trace_id = source.trace_id
               /\ source.span_id \notin {Null, Empty} => stored.span_id = source.span_id
================================================================================
