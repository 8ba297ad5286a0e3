----------------------------- MODULE MCDatadogReads -----------------------------
(* Small instances of DatadogReads. *)
EXTENDS DatadogReads

OneHeader == {[parsed |-> FALSE, seconds |-> 0]}

\* Units of 1, 2, ... seconds, with 8-bit integers.
SmallUnits == [s |-> 1, m |-> 2, h |-> 3, d |-> 4, w |-> 5]

AllScans ==
    {"read_datadog_metrics", "metrics.series", "read_datadog_service_dependencies",
     "service_map.dependencies", "read_datadog_log_stats"}

Now == [form |-> "now"]
Epoch(digits, negative) == [form |-> "epoch", digits |-> digits, negative |-> negative]
Relative(digits, unit) == [form |-> "relative", digits |-> digits, unit |-> unit,
                           upper |-> FALSE]

\* Around zero, the range of TIMESTAMP_NS (12 seconds), the largest number and
\* its part of a unit: 51 and 52 weeks wrap around to -1 and 4 seconds.
Digits == {<<>>, <<0>>, <<3>>, <<1, 2>>, <<1, 3>>, <<2, 5>>, <<5, 1>>, <<5, 2>>,
           <<1, 2, 7>>, <<1, 2, 8>>}

ManyValues ==
    {Now, [form |-> "empty"], [form |-> "other"], Epoch(<<3>>, TRUE), Relative(<<1>>, "y"),
     [Relative(<<1>>, "m") EXCEPT !.upper = TRUE]}
    \cup {Epoch(digits, FALSE) : digits \in Digits \ {<<>>}}
    \cup {Relative(digits, unit) : digits \in Digits, unit \in {"m", "w"}}

Answers(n) == [1..n -> {"a", "b", "no value", "malformed"}]

FewValues == {Now, Epoch(<<3>>, FALSE), Epoch(<<1, 2>>, FALSE), Relative(<<3>>, "m")}

Settings(from, to, caps, flags) ==
    [from : from, to : to, max_rows : caps, configured : flags, valid : flags]

\* Every answer to a plain window, and every endpoint of a window.
SomeInputs ==
    [answer : UNION {Answers(n) : n \in 0..3}, settings : Settings({Now}, {Now}, {0, 1, 2}, {TRUE})]
    \cup [answer : Answers(1), settings : Settings({Now}, {Now}, {0}, BOOLEAN)]
    \cup [answer : Answers(0), settings : Settings(FewValues, ManyValues, {0}, {TRUE})
                                        \cup Settings(ManyValues, FewValues, {0}, {TRUE})]
================================================================================
