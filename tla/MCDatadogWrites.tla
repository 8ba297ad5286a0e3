---------------------------- MODULE MCDatadogWrites ----------------------------
(* Small instances of DatadogWrites. *)
EXTENDS DatadogWrites

--------------------------------------------------------------------------------
(* Logs.                                                                   *)

A == <<"a">>
AB == <<"a", "b">>
NoText == <<>>
MCDates == (<<"noon">> :> 123) @@ (<<"dawn">> :> -57)

\* The JSON values of LogMapping.
Text(t) == [kind |-> "string", text |-> t, number |-> 0]
Other(t) == [kind |-> "other", text |-> t, number |-> 0]
Number(n) == [kind |-> "number", text |-> <<ToString(n)>>, number |-> n]

Sub(f) == {[k \in s |-> f[k]] : s \in SUBSET DOMAIN f}
Objects(fields, blocks) == {[fields |-> f, resource |-> b] : f \in fields, b \in blocks}

ResourceBlock == [fields |-> ("host" :> Text(<<"h">>)) @@ ("region" :> Text(<<"r">>)),
                  ddtags |-> <<<<"x", "y">>, <<"z">>>>]
OddBlock == [fields |-> ("host" :> Other(<<"{}">>)), ddtags |-> <<>>]
Blocks == {Null, Malformed, ResourceBlock, OddBlock}

\* Attributes that carry the names of columns, and the ids of a tracer.
NameAttributes ==
    {Null, Malformed} \cup
    Objects(Sub(("service" :> Text(<<"s2">>)) @@ ("dd.trace_id" :> Text(<<"t2">>))
                @@ ("trace_id" :> Text(<<"t3">>)) @@ ("host" :> Text(<<"h2">>))
                @@ ("user" :> Number(7))), {Null, ResourceBlock})

MessageAttributes ==
    Objects(Sub(("message" :> Other(<<"{}">>)) @@ ("status" :> Text(<<"warning">>))
                @@ ("ddtags" :> Text(AB)) @@ ("hostname" :> Other(<<"[]">>))
                @@ ("timestamp" :> Text(<<"noon">>))), {Null})

\* Names against names: which column, block or attribute wins.
NameRows ==
    [service : {Null, A}, trace_id : {NoText, A}, host : {Null, <<"h3">>},
     resource_attributes : Blocks, log_attributes : NameAttributes]

MessageRows ==
    [body : {Null, A}, message : {AB}, ddtags : {Null, AB}, hostname : {NoText, <<"h3">>},
     resource_attributes : {Null, ResourceBlock}, severity : {Null, <<"err">>},
     ddsource : {Null, <<"nginx">>}, log_attributes : MessageAttributes]

Times == {Null, Malformed}
    \cup {[integral |-> i, epoch |-> n] : i \in BOOLEAN, n \in {-25, -20, -1, 0, 9, 10, 123}}

TimeRows ==
    [time_unix_nano : Times, observed_time_unix_nano : {Null, [integral |-> FALSE, epoch |-> 45]},
     severity_number : {Null}]
    \cup [timestamp : Times, severity_number : {Null, -1} \cup 0..25,
          severity_text : {Null, <<"Odd">>}]

MCRows == NameRows \cup MessageRows \cup TimeRows

MCEvents ==
    [fields : Sub(("timestamp" :> Text(<<"dawn">>)) @@ ("service" :> Text(A))
                  @@ ("status" :> Text(<<"notice">>)) @@ ("message" :> Text(AB))
                  @@ ("host" :> Text(<<"h">>))),
     tags : {<<>>, <<<<"x">>, <<"y", "z">>>>},
     custom : {Null} \cup
         Objects(Sub(("trace_id" :> Text(<<"t">>)) @@ ("span_id" :> Number(5))
                     @@ ("service" :> Text(<<"s2">>))), {Null})]

MCLogSecrets == [api_key : BOOLEAN, app_key : BOOLEAN]

--------------------------------------------------------------------------------
(* Metrics.                                                                *)

\* The longest text makes a batch of its own, and the next one fills a batch.
Reading(null, name, value, time, attributes) ==
    [null |-> null, name |-> name, value |-> value, time |-> time, unit |-> "u",
     service |-> IF value = 5 THEN "web" ELSE Null,
     ddtags |-> IF value = 7 THEN <<>> ELSE << <<"env", "prod">> >>,
     attributes |-> attributes,
     raw |-> CASE value = 7 -> 3 [] time = Malformed -> 5 [] OTHER -> 1]

MCReadings ==
    LET rows ==
        {Reading(TRUE, Null, Null, Null, Null),
         Reading(FALSE, Null, 5, Null, Null),
         Reading(FALSE, "m", Null, Null, Malformed),
         Reading(FALSE, "m", 6, Null, Malformed),
         Reading(FALSE, "m", NotFinite, Null, Null),
         Reading(FALSE, "m", 5, [integral |-> TRUE, epoch |-> 25],
                 << <<"k", "v">>, <<"n", Null>> >>),
         Reading(FALSE, "n", 7, [integral |-> FALSE, epoch |-> -15], << <<"k", "v">> >>),
         Reading(FALSE, "n", 6, Malformed, Null)}
    IN  UNION {[1..n -> rows] : n \in 0..4}

Sample(real) == [timestamp |-> 3, value |-> [real |-> real, number |-> 9]]
Series(samples) ==
    [metric |-> "f", type |-> 1, unit |-> Null, points |-> samples, tags |-> <<>>]
RealEntries == {Series(<<>>), Series(<<Sample(TRUE), Sample(TRUE)>>)}
AnyEntries == RealEntries \cup {Series(<<Sample(TRUE), Sample(FALSE)>>)}

--------------------------------------------------------------------------------
(* Traces.                                                                 *)

Hex(n) == [integral |-> FALSE, value |-> n]
Num(n) == [integral |-> TRUE, value |-> n]
Attribute(kind, of) == [kind |-> kind, of |-> of]

Plain ==
    [null |-> FALSE, trace_id |-> Hex(5), span_id |-> Hex(1), parent_span_id |-> Null,
     start |-> 0, duration |-> Null, service |-> Empty, name |-> "n", resource |-> Empty,
     type |-> Empty, kind |-> Null, status_code |-> Null, status_message |-> Empty,
     trace_state |-> Empty, events |-> Empty, links |-> Empty,
     span_attributes |-> Null, resource_attributes |-> Null]

\* Ids at the edges of a word: 5 and 13 share their low words, 64 is too long.
IdRows ==
    {[Plain EXCEPT !.trace_id = id] :
        id \in {Hex(5), Hex(13), Hex(8), Hex(63), Hex(64), Num(5), Num(8), Num(-1), Null, Malformed}}
    \cup {[Plain EXCEPT !.null = TRUE], [Plain EXCEPT !.start = Malformed],
          [Plain EXCEPT !.span_id = Hex(9), !.parent_span_id = Hex(8)]}

Attributes(of) ==
    {Null, Malformed} \cup
    {[k \in s |-> IF k = "user" THEN Attribute("number", of) ELSE Attribute("string", of)] :
        s \in SUBSET {"user", "span.kind", "_dd.p.tid", "error.message"}}
    \cup {("user" :> Attribute("null", of)) @@ ("span.kind" :> Attribute("null", of))}

TagRows ==
    {[Plain EXCEPT !.trace_id = id, !.kind = kind, !.status_message = message, !.status_code = 2,
                   !.parent_span_id = Num(3), !.duration = -1,
                   !.span_attributes = a, !.resource_attributes = b] :
        id \in {Hex(0), Hex(13)}, kind \in {Null, 2, 9}, message \in {Empty, "boom"},
        a \in Attributes("a"), b \in Attributes("b")}

\* Span events: names and times, errors, and kinds.
Is(kind, of) == [kind |-> kind, of |-> of]
Object(text, fields) == [kind |-> "object", of |-> text, fields |-> fields]
Tag(key, value) == [key |-> key, value |-> value]
TagList(items) == [kind |-> "array", of |-> "tags", items |-> items]

Essential == ("trace_id" :> Is("string", 13)) @@ ("span_id" :> Is("string", 1))
             @@ ("start_timestamp" :> Is("string", 7))

With(event, custom) ==
    IF custom = <<>> THEN event ELSE ("custom" :> Object("custom", custom)) @@ event

Overridden(f) == {f @@ Essential} \cup {(k :> v) @@ f @@ Essential : k \in DOMAIN Essential,
                                     v \in {Is("string", Malformed), Is("null", 0)}}

NameEvents ==
    {With(f @@ Essential, c) :
        f \in Sub(("operation_name" :> Is("string", "op")) @@ ("resource_name" :> Is("string", "GET /"))
                  @@ ("type" :> Is("string", "web")) @@ ("host" :> Is("string", "h"))
                  @@ ("service" :> Is("string", "s"))),
        c \in Sub(("operation_name" :> Is("string", "custom op")) @@ ("type" :> Is("string", "db"))
                  @@ ("user" :> Is("number", 4)))}

TimeEvents ==
    UNION {{With(e, c) : c \in Sub("duration" :> Is("number", 2))} :
        e \in UNION {Overridden(f) :
            f \in Sub(("end_timestamp" :> Is("string", 9)) @@ ("parent_id" :> Is("string", 3)))
                 \cup {"end_timestamp" :> Is("string", 6), "end_timestamp" :> Is("string", Malformed)}}}

Errors ==
    {Is("number", 0), Is("number", 1), Is("boolean", FALSE), Is("string", "boom"),
     Object("{}", <<>>), Object("{..}", "message" :> Is("string", "boom"))}

ErrorEvents ==
    {With(f @@ g @@ Essential, c) :
        f \in {<<>>} \cup {"status" :> Is("string", s) : s \in {"ok", "error", "ERROR"}},
        g \in {<<>>} \cup {"error" :> error : error \in Errors},
        c \in {<<>>} \cup {"error" :> error : error \in Errors}}

KindEvents ==
    {With(f @@ Essential, c) :
        f \in {<<>>} \cup {"tags" :> TagList(s) :
                 s \in {<<>>, <<Tag("env", "x"), Tag("span.kind", "client"), Tag("span.kind", "odd")>>}},
        c \in {<<>>} \cup {"span" :> Object("{kind}", "kind" :> kind) :
                 kind \in {Is("string", "server"), Is("string", "SPAN_KIND_CONSUMER"),
                           Is("string", "odd"), Is("number", 2)}}}

\* Custom attributes with the names of columns' tags, and empty texts.
ClashEvents ==
    {With(f @@ g @@ Essential, c @@ d) :
        f \in {<<>>, "trace_id" :> Is("string", 5),
               ("service" :> Is("string", "")) @@ ("operation_name" :> Is("string", ""))},
        g \in {<<>>} \cup {"error" :> Object("{..}", "message" :> Is("string", m)) : m \in {"", "boom"}},
        c \in Sub(("_dd.p.tid" :> Is("string", "a")) @@ ("error.message" :> Is("string", "b"))
                  @@ ("span.kind" :> Is("string", "c")) @@ ("events" :> Is("number", 3))),
        d \in {<<>>} \cup {"span" :> Object("{kind}", "kind" :> Is("string", k)) : k \in {"odd", "server"}}}

MCSpanEvents == NameEvents \cup TimeEvents \cup ErrorEvents \cup KindEvents \cup ClashEvents

MCChunks == UNION {[1..n -> IdRows] : n \in 0..3} \cup [1..1 -> TagRows]

MCSecrets ==
    {Null} \cup
    [api_key : BOOLEAN, trace_agent_url : BOOLEAN, trace_intake : {Empty, "agent", "direct", "odd"}]
================================================================================
