------------------------------ MODULE TimeWindow ------------------------------
(***************************************************************************)
(* The time windows that are resolved on the client: those of metrics and  *)
(* of the service map, each with a parser of its own.  A value is "now", a *)
(* past relative time ("-15m", "now-1h") or epoch seconds, of which the    *)
(* digits are kept; anything else is of form "other".  An int64 is a       *)
(* number from -IntMax - 1 to IntMax.                                      *)
(***************************************************************************)
EXTENDS Integers, Sequences

CONSTANTS
    IntMax,           \* the largest int64
    Multiplier,       \* seconds of a unit: s, m, h, d, w
    NanosPerSecond,   \* NANOS_PER_SECOND
    Rejected          \* the parser throws

WindowAssumption ==
    /\ IntMax \in Nat \ {0} /\ NanosPerSecond \in Nat \ {0}
    /\ DOMAIN Multiplier = {"s", "m", "h", "d", "w"}
    /\ \A unit \in DOMAIN Multiplier : Multiplier[unit] \in 1..IntMax
    /\ Rejected \notin Int

IntMin == -IntMax - 1

IsValue(v) ==
    /\ v.form \in {"now", "relative", "epoch", "empty", "other"}
    /\ v.form \in {"relative", "epoch"} => v.digits \in Seq(0..9)

Number(digits) ==
    LET n[i \in 0..Len(digits)] == IF i = 0 THEN 0 ELSE n[i - 1] * 10 + digits[i]
    IN n[Len(digits)]

\* What a value stands for, whatever the width of an integer.
Meaning(v, now) ==
    CASE v.form = "now" -> now
      [] v.form = "relative" -> now - Number(v.digits) * Multiplier[v.unit]
      [] v.form = "epoch" -> IF v.negative THEN -Number(v.digits) ELSE Number(v.digits)

Window(from, to) ==
    IF Rejected \in {from, to} THEN Rejected
    ELSE IF from > to THEN Rejected ELSE [from |-> from, to |-> to]

--------------------------------------------------------------------------------
(* The service map.                                                        *)

\* The digits are accumulated under a check that the next step fits.
Magnitude(digits) ==
    LET m[i \in 0..Len(digits)] ==
            IF i = 0 THEN 0
            ELSE IF m[i - 1] = Rejected THEN Rejected
            ELSE IF m[i - 1] > (IntMax - digits[i]) \div 10 THEN Rejected
            ELSE m[i - 1] * 10 + digits[i]
    IN m[Len(digits)]

Wrapped(n) == ((n + IntMax + 1) % (2 * IntMax + 2)) - IntMax - 1

ParseRelativeDurationSeconds(v) ==
    LET magnitude == Magnitude(v.digits) IN
    IF v.digits = <<>> \/ v.unit \notin DOMAIN Multiplier \/ magnitude \in {Rejected, 0}
    THEN Rejected
    ELSE IF magnitude > IntMax \div Multiplier[v.unit] THEN Rejected
    ELSE magnitude * Multiplier[v.unit]

RelativeEndpoint(v, now) ==
    LET offset == ParseRelativeDurationSeconds(v) IN
    IF offset = Rejected THEN Rejected
    ELSE IF now < IntMin + offset THEN Rejected ELSE now - offset

\* stoll throws if the number is out of range.  A sign makes it a relative time
\* without a unit.
EpochEndpoint(v) ==
    IF v.negative \/ v.digits = <<>> \/ Number(v.digits) > IntMax
    THEN Rejected ELSE Number(v.digits)

ResolveDatadogServiceMapEndpoint(v, now) ==
    CASE v.form = "now" -> now
      [] v.form = "relative" -> RelativeEndpoint(v, now)
      [] v.form = "epoch" -> EpochEndpoint(v)
      [] v.form \in {"empty", "other"} -> Rejected

\* The seconds that a TIMESTAMP_NS can hold; C++ division truncates.
TimestampSeconds == -((IntMax + 1) \div NanosPerSecond)..(IntMax \div NanosPerSecond)

ResolveDatadogServiceMapWindow(from, to, now) ==
    LET window == Window(ResolveDatadogServiceMapEndpoint(from, now),
                         ResolveDatadogServiceMapEndpoint(to, now))
    IN IF window = Rejected \/ {window.from, window.to} \subseteq TimestampSeconds
       THEN window ELSE Rejected

--------------------------------------------------------------------------------
(* Metrics.                                                                *)

\* strtoll stops at the largest number; the overflow is not asked for.
Clamped(digits) == IF Number(digits) > IntMax THEN IntMax ELSE Number(digits)

\* There are no weeks here, "now-" is told apart by its case, and an empty
\* text is the number zero.  k * m may overflow, which wraps in practice.
ResolveMetricsEndpoint(v, now) ==
    CASE v.form = "now" -> now
      [] v.form = "relative" ->
            IF v.digits = <<>> \/ v.unit \notin {"s", "m", "h", "d"} \/ v.upper THEN Rejected
            ELSE Wrapped(now - Wrapped(Clamped(v.digits) * Multiplier[v.unit]))
      [] v.form = "epoch" -> IF v.negative THEN Rejected ELSE Clamped(v.digits)
      [] v.form = "empty" -> 0
      [] v.form = "other" -> Rejected

ResolveMetricsWindow(from, to, now) ==
    Window(ResolveMetricsEndpoint(from, now), ResolveMetricsEndpoint(to, now))

\* Values that mean to the metrics parser what they say.
FitsMetrics(v) ==
    /\ v.form # "empty"
    /\ v.form = "relative" => Number(v.digits) * Multiplier[v.unit] <= IntMax
    /\ v.form = "epoch" => Number(v.digits) <= IntMax
================================================================================
