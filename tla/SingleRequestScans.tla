-------------------------- MODULE SingleRequestScans --------------------------
(***************************************************************************)
(* The scans that ask Datadog once and emit the answer from a buffer: the  *)
(* functions read_datadog_metrics, read_datadog_service_dependencies and   *)
(* read_datadog_log_stats, and the catalog tables metrics.series and       *)
(* service_map.dependencies.  A plan is bound once and may be executed     *)
(* later; what the account holds does not change meanwhile.                *)
(*                                                                         *)
(* An answer is a sequence of points, edges or buckets: the name of one    *)
(* that has a value, "no value" or "malformed".                            *)
(***************************************************************************)
EXTENDS AuthenticatedRequest, TimeWindow, Selection, FiniteSets

CONSTANTS
    Scans,        \* scans of the model
    Inputs,       \* what the account may answer, with the settings of a scan
    VectorSize,   \* STANDARD_VECTOR_SIZE, rows per call
    MaxClock      \* seconds (a bound of the model)

MetricsScans == {"read_datadog_metrics", "metrics.series"}
ServiceScans == {"read_datadog_service_dependencies", "service_map.dependencies"}
CatalogTables == {"metrics.series", "service_map.dependencies"}

ScansAssumption ==
    /\ Scans \subseteq MetricsScans \cup ServiceScans \cup {"read_datadog_log_stats"}
    /\ \A input \in Inputs :
        /\ input.answer \in Seq(STRING) /\ input.settings.max_rows \in Nat
        /\ IsValue(input.settings.from) /\ IsValue(input.settings.to)
    /\ VectorSize \in Nat \ {0} /\ MaxClock \in 0..IntMax

VARIABLES
    scan,
    settings,      \* [configured, valid, from, to, max_rows], 0 for no cap
    answer,
    clock,
    pc,            \* "unbound", "bound", "idle", "scanning", "ended", "rejected"
    bind_window,   \* what binding put into from and to
    window,        \* what the scan asks for: times, or what the server resolves
    started,       \* the clock when the scan started
    loaded,        \* loaded; fetched
    buffer,        \* points; buckets; buffer: positions in the answer
    output         \* rows emitted so far

given == <<scan, settings, answer>>
execution == <<window, started, loaded, buffer, output>>
vars == <<requestVars, given, clock, pc, bind_window, execution>>

Verbatim == [from |-> settings.from, to |-> settings.to]

Init ==
    /\ RequestInit
    /\ scan \in Scans /\ clock = 0
    /\ \E input \in Inputs : answer = input.answer /\ settings = input.settings
    \* ATTACH has checked the settings of a table.
    /\ scan \in CatalogTables => settings.valid
    /\ pc = "unbound" /\ bind_window = Verbatim /\ window = Verbatim /\ started = 0
    /\ loaded = FALSE /\ buffer = <<>> /\ output = <<>>

Tick ==
    /\ clock < MaxClock /\ clock' = clock + 1
    /\ UNCHANGED <<requestVars, given, pc, bind_window, execution>>

--------------------------------------------------------------------------------
(* Binding and starting.                                                   *)

\* Mutant: the window of metrics is always resolved by binding.
LazyMapOnly == scan \notin MetricsScans

\* read_datadog_metrics resolves its window now, the others keep it verbatim.
LazyWindow == scan # "read_datadog_metrics"

BindWindow ==
    IF LazyWindow THEN Verbatim
    ELSE ResolveMetricsWindow(settings.from, settings.to, clock)

\* A function needs its query or environment now, a table only when scanned.
\* Only the settings of the service map may not be empty.
BindAccepts ==
    /\ settings.valid
    /\ settings.configured \/ scan \in CatalogTables
    /\ scan \in ServiceScans => {settings.from.form, settings.to.form} \cap {"empty"} = {}
    /\ BindWindow # Rejected

Bind ==
    /\ pc = "unbound"
    /\ pc' = IF BindAccepts THEN "bound" ELSE "rejected"
    /\ bind_window' = IF BindAccepts THEN BindWindow ELSE bind_window
    /\ UNCHANGED <<requestVars, given, clock, execution>>

\* A window that was resolved by binding is taken as it is.
StartWindow ==
    CASE scan \in MetricsScans /\ LazyWindow ->
            ResolveMetricsWindow(bind_window.from, bind_window.to, clock)
      [] scan \in ServiceScans ->
            ResolveDatadogServiceMapWindow(bind_window.from, bind_window.to, clock)
      [] OTHER -> bind_window

InitGlobal ==
    /\ pc = "bound"
    /\ LET accepted == settings.configured /\ StartWindow # Rejected IN
        /\ pc' = IF accepted THEN "idle" ELSE "rejected"
        /\ window' = IF accepted THEN StartWindow ELSE window
    /\ started' = clock
    /\ UNCHANGED <<requestVars, given, clock, bind_window, loaded, buffer, output>>

--------------------------------------------------------------------------------
(* Scanning.                                                               *)

ScanCall ==
    /\ pc = "idle" /\ pc' = "scanning"
    /\ UNCHANGED <<requestVars, given, clock, bind_window, execution>>

\* log stats counts as fetched from here on, the others when all is loaded.
Load ==
    /\ pc = "scanning" /\ ~loaded /\ BeginRequest
    /\ loaded' = (scan = "read_datadog_log_stats")
    /\ UNCHANGED <<given, clock, pc, bind_window, window, started, buffer, output>>

IsMalformed(item) ==
    item = "malformed" \/ (item = "no value" /\ scan \in ServiceScans)

\* A point without a value is skipped, and an edge that was seen; a bucket
\* without a value is a row.
Keeps(i) ==
    /\ scan \in MetricsScans => answer[i] # "no value"
    /\ scan \in ServiceScans => \A j \in 1..i - 1 : answer[j] # answer[i]

KeptUpTo(n) == Selected([i \in 1..n |-> i], {i \in 1..n : Keeps(i)})

WellFormed == \A i \in DOMAIN answer : ~IsMalformed(answer[i])

FirstMalformed ==
    CHOOSE i \in DOMAIN answer :
        IsMalformed(answer[i]) /\ \A j \in 1..i - 1 : ~IsMalformed(answer[j])

\* Mutant: a malformed item ends the answer instead of the query.
ReceiveTruncated ==
    /\ FinishRequest(TRUE)
    /\ loaded' = TRUE
    /\ buffer' = KeptUpTo(IF WellFormed THEN Len(answer) ELSE FirstMalformed - 1)
    /\ UNCHANGED <<given, clock, pc, bind_window, window, started, output>>

\* Metrics have kept the points before a malformed one when they throw.
Receive ==
    /\ FinishRequest(WellFormed)
    /\ IF WellFormed
       THEN loaded' = TRUE /\ buffer' = KeptUpTo(Len(answer))
       ELSE /\ loaded' = loaded
            /\ buffer' = IF scan \in MetricsScans THEN KeptUpTo(FirstMalformed - 1)
                                                  ELSE buffer
    /\ UNCHANGED <<given, clock, pc, bind_window, window, started, output>>

Smaller(m, n) == IF m <= n THEN m ELSE n

\* Only metrics have a cap.
Emit ==
    /\ pc = "scanning" /\ request = "idle" /\ loaded
    /\ LET room == IF scan \in MetricsScans /\ settings.max_rows > 0
                   THEN settings.max_rows - Len(output) ELSE Len(buffer)
           count == Smaller(VectorSize, Smaller(room, Len(buffer)))
       IN  /\ output' = output \o SubSeq(buffer, 1, count)
           /\ buffer' = SubSeq(buffer, count + 1, Len(buffer))
           /\ pc' = IF count = 0 THEN "ended" ELSE "idle"
    /\ UNCHANGED <<requestVars, given, clock, bind_window, window, started, loaded>>

--------------------------------------------------------------------------------
ScanRequestStep == RequestStep /\ UNCHANGED <<given, clock, pc, bind_window, execution>>

InterruptQuery == Interrupt /\ UNCHANGED <<given, clock, pc, bind_window, execution>>

Terminated == (pc \in {"ended", "rejected"} \/ request \in Threw) /\ UNCHANGED vars

\* The scan thread inside a call.
Scan == Load \/ Receive \/ Emit \/ ScanRequestStep

Next ==
    \/ Tick \/ Bind \/ InitGlobal \/ ScanCall \/ Scan
    \/ InterruptQuery \/ Terminated

--------------------------------------------------------------------------------
(* Properties.                                                             *)

Started == pc \in {"idle", "scanning", "ended"}

\* "Relative windows are evaluated when each scan starts": a service map or
\* the table metrics.series that was planned long ago asks for the latest
\* window, of exactly the times its values stand for: no sum or product of
\* them overflows.  (The service map rejects those that would; metrics are
\* exact only for the values they can compute.)  No scan asks for a window that
\* ends before it begins, and the times of the service map, which are columns,
\* fit a TIMESTAMP_NS.
WindowIsCurrent ==
    Started /\ scan \in MetricsScans \cup ServiceScans =>
        /\ scan # "read_datadog_metrics" =>
            \A v \in {<<settings.from, window.from>>, <<settings.to, window.to>>} :
                scan \in ServiceScans \/ FitsMetrics(v[1]) => v[2] = Meaning(v[1], started)
        /\ window.from <= window.to
        /\ scan \in ServiceScans =>
            {window.from * NanosPerSecond, window.to * NanosPerSecond} \subseteq IntMin..IntMax

\* The number, among the rows the query should get, of an item of the answer.
Row(i) ==
    CASE scan \in MetricsScans -> Cardinality({j \in 1..i : answer[j] # "no value"})
      [] scan \in ServiceScans -> Cardinality({answer[j] : j \in 1..i})
      [] OTHER -> i

StreamStatus ==
    CASE pc = "rejected" \/ request \in Threw -> "failed"
      [] pc = "ended" -> "ended"
      [] OTHER -> "open"

Stream == INSTANCE RowStream WITH
    may_end_early <- FALSE, status <- StreamStatus,
    wanted <- IF scan \in MetricsScans /\ settings.max_rows > 0
              THEN Smaller(settings.max_rows, Row(Len(answer))) ELSE Row(Len(answer)),
    delivered <- [n \in DOMAIN output |-> Row(output[n])]

\* Each of these scans delivers every point that has a value, edge or bucket
\* once and in order, up to its cap; an answer with a malformed item fails the
\* query before any of its rows is delivered.
AnswersAreStreamed == Stream!Spec

--------------------------------------------------------------------------------
(* The inductive invariants behind them.                                   *)

\* What was given, and what binding left of the window.
BoundInv ==
    /\ scan \in Scans /\ answer \in Seq(STRING) /\ settings.max_rows \in Nat
    /\ IsValue(settings.from) /\ IsValue(settings.to)
    /\ clock \in 0..MaxClock
    /\ pc = "bound" =>
        IF LazyWindow THEN bind_window = Verbatim ELSE bind_window.from <= bind_window.to

WindowInv == BoundInv /\ WindowIsCurrent

\* A scan that is asking Datadog has emitted nothing; one that has its answer
\* has emitted, or holds, what it keeps of it.
RowsInv ==
    /\ request # "idle" => pc = "scanning" /\ output = <<>>
    /\ request = "idle" =>
        IF loaded THEN output \o buffer = KeptUpTo(Len(answer)) /\ WellFormed
                  ELSE output = <<>> /\ buffer = <<>>
    /\ output \in Seq(Nat) /\ buffer \in Seq(Nat)

\* No metrics beyond the cap; an ended scan has emitted all, or reached it.
Capped == scan \in MetricsScans /\ settings.max_rows > 0

EndInv ==
    /\ Capped => Len(output) <= settings.max_rows
    /\ pc = "ended" =>
        /\ request = "idle" /\ loaded
        /\ buffer = <<>> \/ (Capped /\ Len(output) = settings.max_rows)
    /\ pc \notin {"scanning", "ended", "idle"} => request = "idle" /\ ~loaded

StreamInv == BoundInv /\ RowsInv /\ EndInv
================================================================================
