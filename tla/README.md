# TLA+ verification of duckdb-datadog

`duckdb-datadog` is a DuckDB extension with two halves. One half talks to the
Datadog API: table functions and an attached catalog that read logs, spans,
metrics, monitors and services, and scalar functions that send logs, metrics and
spans. The other half is a listener, `datadog_serve`, that speaks the Datadog
intake protocol and stores what it receives in DuckDB tables. This directory
models both: the threads, failures and retries that decide whether telemetry is
lost, duplicated or half stored; the paging that decides whether a query sees
every row once; and the mappings that decide what a row is when it arrives.

Paths below are relative to the repository; `datadog_server.cpp` and the like
are in `src/`.

## 1. Inventory

### Listener: `DatadogServer` (`datadog_server.cpp` 545-777)

- State: the HTTP library's accept thread and worker pool (`http_threads`), one
  `Connection writer` with `writer_mutex`, the target tables, three counters.
- Operations: `HandleLogs` and `HandleSeries` (size limit, API key, decode and
  parse, then `Append` or `AppendSeries`: BEGIN, appender, COMMIT, or Rollback),
  `/healthz`, and `Close()` (stop the server, join the listen thread, destroy
  server and writer).
- Hard: many workers share one writer and its one transaction; an append fails
  midway; COMMIT fails; the answer is lost after the commit; `Close()` races
  with queued and running requests.
- Correct when: a 202 means stored, an error means not stored, a request is
  stored wholly or not at all, a good request is not refused because of another
  worker, `Close()` returns and frees nothing that is in use.

### Registry: `DatadogServerExtensionInfo` (`datadog_server.cpp` 781-850)

- State: the map from listen URI to server, and its mutex; the servers; the
  reference counts that keep the `DatabaseInstance` alive.
- Operations: `Start` (find, construct, create tables, bind, register, all
  under the mutex), `Stop` (look up and erase under the mutex, close outside
  it), `StopAll` from the destructor of the database.
- Hard: sessions that serve and stop the same URI at once, a constructor that
  throws at any step, a server that is still closing while its URI is served
  again, a database that closes under live listeners.
- Correct when: what is registered listens, what listens is registered or has
  one owner, no two live listeners share a URI, the URL that is returned belongs
  to a server with the requested options, no call blocks the others for ever.

### Senders: `send_datadog_logs`, `send_datadog_metrics`, `write_datadog_traces` (`send_logs.cpp`, `send_metrics.cpp`, `write_traces.cpp`) and `DatadogClient` (`datadog_client.cpp`)

- State: per call the rows, the offset, the batch, the attempt; in the client
  the pool of idle intake connections and its mutex.
- Operations: collect rows, cut a batch by number and by estimated bytes, take a
  connection from the pool or make one, post, classify the outcome, sleep and
  retry or throw, mark the rows `'ok'`, release the connection.
- Hard: an intake that is not idempotent, with answers that are lost, late, or
  come from a gateway; several batches per chunk of which one fails; several
  threads on one pool; broken sockets; Ctrl+C anywhere; limits at their edges.
- Correct when: `'ok'` means stored, nothing is stored twice, batches are sent
  in order, a connection is never shared or reused after an error, every call
  ends.

### Cursor scans: `read_datadog_logs`, `read_datadog_traces` (`logs_table.cpp`, `traces_table.cpp`) and read requests (`datadog_client.cpp` 255-362)

- State: the cursor, the row budget, the rows emitted, the buffer, `finished`; in
  the request the attempt. `MaxThreads` is 1, so a scan has one thread.
- Operations: one call of the table function refills the buffer page by page
  until it has a row or the scan is finished, then emits at most a vector. A
  page is one `AuthenticatedRequest` with its retries.
- Hard: vector size, page size and cap cut the rows at different places; the
  budget is reserved by request and the cap counts rows; retries in the middle
  of a scan; pages that are empty, short or too long, cursors that do not advance.
- Correct when: every wanted row is returned once and in order, at most
  `max_rows` of them and never more requested, every call returns, and a scan
  that failed does not look like one that ended.

### What becomes of a row: `BuildIntakeLogFromRow`, `CollectTags`, `BuildAgentSpanFromRow`, `MapIntakeLog`, `ParseSeriesBody`, `MapEvent`, `MapSpanEvent`

- State: none beyond one chunk: the rows that were read, the points or spans
  they became, the row that each came from, the result of each row.
- Operations: a search event becomes a row (`logs_table.cpp`,
  `traces_table.cpp`); a row becomes a JSON object, a series entry or a span
  (`send_logs.cpp`, `send_metrics.cpp`, `write_traces.cpp`); the listener makes
  a row of an object or an entry (`datadog_server.cpp`). Spans are grouped into
  traces and encoded as JSON or protobuf (`datadog_trace_proto.cpp`).
- Hard: many columns, attributes and defaults compete for one field; skipped
  rows shift points against rows; 128-bit ids are cut into two words; units of
  time change twice on the way; one encoding leaves out what the other writes.
- Correct when: what was set arrives and an attribute is lost only to what
  takes precedence, `'ok'` marks exactly the rows that were sent, no two traces
  are merged or split, a log or span that was read can be sent on.

### Pushdown: `PushdownComplexFilter`, `ResolveSearch` (`logs_table.cpp`, `traces_table.cpp`)

- State: the pushed terms and the two bounds in the bind data, rebuilt in every
  optimizer pass.
- Hard: nanoseconds are rounded to milliseconds, also before 1970; the window is
  absolute or is resolved by the server; the cap keeps the first rows *found*;
  a term means more to the query language than its letters, and ignores case.
- Correct when: the query returns what it would return without pushdown.

### Open alerts: `alerts_table.cpp`

- State: page number, groups received, buffer, `finished`.
- Hard: pages are numbered over a set that changes between the requests, and the
  end is a total count, which is optional, or a short page.
- Correct when: only groups that were open are shown, and what did not change
  is shown once.

### Single-request scans: `metrics_table.cpp`, `log_stats_table.cpp`, `service_dependencies_table.cpp`

- State: the window from bind to scan, a `fetched` flag, a buffer.
- Hard: a plan is executed long after it was bound; relative windows of any
  number of digits; an answer with a malformed item in the middle.
- Correct when: the window is the one the settings mean when the scan starts,
  and the answer is delivered whole or the query fails before its first row.

### Attached catalog and secrets: `datadog_catalog.cpp`, `datadog_secret.cpp`

- State: of an attachment the secret's name and its indexes; the transaction
  manager's map and its mutex; the secrets, which are the database's.
- Operations: ATTACH with and without INDEXES, discovery, look-up, binding of a
  scan, DETACH, start and end of a transaction, CREATE and DROP SECRET.
- Hard: secrets are created, replaced and dropped while an ATTACH waits for its
  discovery and afterwards; index names that differ by case; transactions of
  several connections.
- Correct when: scans use the secret that ATTACH selected, every index is
  reachable by its name, every running transaction is in the map.

### Entry point: `datadog_extension.cpp`

Registers the functions once and keeps nothing.

### How they interact

The senders and the listener meet over HTTP: a sender may well post to a
`datadog_serve` listener (`intake_url`). Both sides are stated against the same
abstract module, `LogIntake`: `DatadogServer` implements it, and `DatadogSend`
uses it as its environment; what the rows *are* on both sides is in
`LogRoundTrip` and `MetricSend`. The registry owns the servers and sees only
whether each is being built, listens or closes; `DatadogServer` begins where the
constructor returns. Sender threads of one query share one `DatadogClient`; a
scan has one of its own. All scans make their requests through
`AuthenticatedRequest`; searches and single requests promise the query a
`RowStream`, the alerts what a changing set allows. A scan of an attached table is bound by the catalog with the credentials it looks up then.

## 2. Modules

| Module | What it is |
|---|---|
| `LogIntake` | what an intake promises a sender: rows appear in one step, at most once, before the answer; the answer tells the truth |
| `DatadogServer` | one listener: pool, handlers, writer, `Close()` |
| `DatadogServerProofs` | its theorems, and that it implements `LogIntake` |
| `DatadogServerRegistry`, `DatadogServerRegistryProofs` | `Start`, `Stop`, `StopAll`, the constructor's steps, the life of the database; its theorems |
| `RetryPolicy` | which outcomes are retried and how long the wait is: pure operators |
| `Selection` | the loops that keep some items of a list in their order: pure operators |
| `Merging` | JSON objects and tag maps filled from several sources, the first of which keeps a name: pure operators |
| `OperatorProofs` | what several proofs use: the range of the waits, facts about selected and about concatenated lists, induction |
| `DatadogSend`, `DatadogSendProofs` | batching, the retry loop, the connection pool; EXTENDS `RetryPolicy`, INSTANCEs `LogIntake`; its theorems |
| `LogMapping` | event to row, row to intake object, object to row: pure operators |
| `LogRoundTrip` | a log on its way from a table or from Datadog through one listener after another; EXTENDS `LogMapping` |
| `MetricSend` | one chunk through `send_datadog_metrics` to the listener's series route |
| `SpanMapping` | a search event to a row of `read_datadog_traces`: pure operators |
| `TraceWrite` | one chunk through `write_datadog_traces`: rows, spans, traces, request |
| `DatadogWrites`, `DatadogWritesProofs` | `LogRoundTrip`, `MetricSend` and `TraceWrite` as one specification, with spans of `SpanMapping` as rows of `TraceWrite`; theorems about logs, metrics, traces and forwarded spans |
| `AuthenticatedRequest` | one read request with its retries, as actions that a scan conjoins |
| `RowStream` | what a scan promises a query: the wanted rows, once and in order, then an end or an error |
| `DatadogSearchScan` | the cursor scan; EXTENDS `AuthenticatedRequest` |
| `OpenAlertsScan` | the scan of `alerts.open`, and the search it pages through |
| `TimeWindow` | the two parsers of client-side windows, in integers of bounded width |
| `SingleRequestScans` | the scans with one request, from bind to the last row; EXTENDS `TimeWindow` |
| `DatadogReads`, `DatadogReadsProofs` | the three kinds of scans as one specification; the theorems of each, and that searches and single requests implement `RowStream` |
| `SearchPushdown`, `SearchPushdownProofs` | what a WHERE clause does to a search; that it never changes the answer |
| `DatadogCatalog`, `DatadogCatalogProofs` | attachments, secrets, transactions; its theorems |
| `MC...` | instances for TLC: small sets, symmetry |

`DatadogReads` and `DatadogWrites` choose in `Init` which of their parts runs;
the variables of the others keep a fixed value, and each part keeps its own
actions and properties. They share what the parts share: the request and the
call loop (`request`, `attempt`, `pc`) in one, the Null and the malformed
values in the other.

Operators whose comment begins with "Mutant:" are plausible mistakes in the
code. No specification uses them; each shows that some property can fail.

### `DatadogServer` and the code

A worker's `pc` is the line it is at:

| Action | Code |
|---|---|
| `Accept`, `TakeConnection`, `ReadRequest`, `EndConnection`, `Respond` | external: the HTTP library's accept loop, job queue, keep-alive loop. A response may be lost. |
| `Handle` | the checks of `HandleLogs` / `HandleSeries`, in their order (413, 403, 400); a body without rows answers 202 at once |
| `LockWriter`, `BeginTransaction` / `BeginFails` | `lock_guard` and BEGIN, which is outside the `try` |
| `AppendRow`, `CloseAppender`, `AppendFails` | the appender inside the `try`; `AppendFails` covers a missing table and any fault |
| `Commit` / `CommitFails` | COMMIT; a failed COMMIT has ended the transaction, so the `Rollback()` of the catch block throws as well and the answer is 500 |
| `Rollback`, `UnlockWriter` | the catch block, the end of the guard's scope |
| `StopServer`, `JoinListenThread`, `ResetServer`, `ResetWriter` | `Close()`, statement by statement |
| `ShutdownPool`, `ExitWorker`, `ExitAcceptor` | external: how the pool drains |

Rows are counted, not represented: what the properties distinguish is how many
rows of which request are in the transaction (`txnRows`) and committed
(`stored`). `faulted` is a history variable, the requests which the database
itself failed; it makes "refused without a cause" expressible.

### `DatadogServerRegistry` and the code

A session's `pc` follows `Start` (`find`, `tables`, `bind`, `register`, all
inside the mutex) or `Stop` (`stop`, then `closing` and `joining` outside it).
`bound` is the set of servers with a listening socket. The sockets allow two
servers on one port (the library sets `SO_REUSEPORT`), so nothing but the
registry keeps two listeners off one URI. The options that `Start` compares are one
abstract value; `metrics_table_name`, which it does not compare, is a field of
its own. `DestroyDatabase` needs the last reference gone: the user's handle or
the `writer` of any server that is not free.

### `DatadogSend` and the code

One thread is one call of the scalar function on one chunk. `NextBatch` is the
whole inner loop of the batching (the batch is determined by the chunk, the
offset and the limits); the connection, the post, the answer, the retry and the
acknowledgement are actions of their own, because other threads, the user's
Ctrl+C and the intake act between them. `kind` selects what differs: log senders
use the pool, metric senders look at the interrupt flag before each batch and
reject malformed rows before they send, trace senders send the chunk as one batch.
A request is identified by thread, batch and attempt, so the intake can store an
early attempt long after its sender gave up on it. `TransportFails` may strike before the
post, after it, or after it was stored; only in the first case may the error be
one of those that `IsPreSendTransportError` lists. `TruthfulErrors = FALSE` adds
the gateway that answers 5xx for a batch the intake behind it stored.

`Backoff` models `uint64_t(1) << attempt` with its width: a shift by 64 or more
is undefined in C++, and the shift instructions of the supported processors use
the count modulo 64, which is what the operator does.

### `DatadogSearchScan` and the code

`read_datadog_logs` and `read_datadog_traces` have a copy each of the same code, and the
module stands for both. `Call` is the entry of the table function, `FetchNextPage` the refill
loop up to the request, `ReceivePage` and `MalformedPage` the rest of the C++ function of that name,
`Emit` the emit loop and the return; in between the request goes through
`AuthenticatedRequest`, attempt by attempt, and the user may press Ctrl+C. A row
is its position in the result; a cursor is the position it continues from and a
mark, so that two different cursors may lead to the same place. `ReliablePages`
is the assumption about the API: a page is full unless it is the last, and a
cursor is missing only on the last. Without it any page may be short, empty or longer than
requested, and a cursor may be stuck or missing; a 2xx without rows, such as a
JSON value that is not an object, is such a page. What a page still does then is
to start where its cursor says.

### `OpenAlertsScan` and the code

`FetchNextPage`, `ReceivePage` and `MalformedPage` are the C++ function of that name
(`alerts_table.cpp`) around its request, `Emit` the emit loop. The other side is
Datadog's: `Trigger`, `Resolve` and `Unlist` change the set of open groups and
the listing of the search, which follows the groups with a delay. `ReceivePage`
reads the listing of that moment, with or without `metadata.total_count`.
`undisturbed` is a history variable: how long a stretch at the front of the
listing has not changed since the scan began.

### `SingleRequestScans`, `TimeWindow` and the code

`Bind`, `InitGlobal`, `ScanCall`, `Load`, `Receive` and `Emit` stand for the
bind, init and scan functions of three table functions and two catalog
tables; the differences between them (who resolves the window when, who skips
and who rejects an item, when the scan counts as fetched, who has a cap) are in
the guards. `TimeWindow` has the two parsers side by side. An int64 is a number
up to `IntMax`: the parser of the service map checks every step against it,
that of metrics clamps in `strtoll` and wraps in the product. (The wrap is
undefined in C++; what is modelled is the multiplication of the supported
processors.) Nothing is claimed of the metrics values that overflow.

### `SearchPushdown` and the code

`DatadogPushdownComplexFilter` is the start of an optimizer pass, which resets
the bind data, `TryPushDatadogExpression` one condition of the walk, and
`DatadogInitGlobal` the resolution of the window. The external half is SQL's
comparison and Datadog's search: a term matches without regard to case, a value
with a wildcard or a leading minus means something else, and a window compares
whole milliseconds or nanoseconds (`truncates`, either).

### `DatadogCatalog` and the code

`AttachExplicit` and `AttachDiscovering` are ATTACH up to its end or up to the
discovery request; the answer is `ListLogIndexes` or `DiscoveryFails`, and
secrets may change in between. `GetScanFunction` looks the name up
(`LookupEntry`: exact, then by case) and reads the secret. A transaction is
allocated before the lock is taken (`StartTransaction`) and entered under it
(`Emplace`). Which secret "the first" is depends on DuckDB, so any may be.

### `LogMapping`, `LogRoundTrip` and the code

Operators have the names of the C++ functions. A text is its sequence of
comma-separated words, because `ddtags` is joined and split on the way; a JSON
object is its fields and the object nested in it. `Send` is `BuildIntakeLogFromRow`
and `BuildDatadogIntakeObject`, `Receive` is `MapIntakeLog`, `Forward` makes the
stored row the next row to send.

### `MetricSend` and the code

`SkipRow`, `AddPoint` and `RefuseRow` are the loop over the rows, `BuildBatch`,
`RefuseBatch` and `BatchSent` the loop over the batches, `ParseSeriesBody` the
listener. `RefuseBatch` is `BuildSeriesRequest` throwing for a value that is
`NotFinite`, a NaN or an infinity, which is read like any DOUBLE.
Retries are `DatadogSend`'s: here a request succeeds, or fails with the batch
stored or not. `ForeignPost` is another client of the same listener, whose
numbers may be written as JSON integers.

### `SpanMapping`, `TraceWrite` and the code

An id is the number its hexadecimal text denotes, and `Word` is 2^64. `Bind`
picks agent or direct mode from the secret; `SkipRow`, `AddSpan` and `ReadAll`
are the loop over the rows, `StartTrace` and `ExtendTrace` the grouping,
`Post` the request. `WireSpan` is a span in either encoding, by the fields it
carries, and `ReadSpan` what a receiver makes of it. `SpanMapping` takes the
ids of the API as hexadecimal text, which is how `write_datadog_traces` reads
them again.

## 3. Runs

| Run | Question | Instance |
|---|---|---|
| `server` | do answers tell the truth, with the writer shared and every failure possible? does `Close()` return? | 2 workers, 2 requests, 6 bodies (one for each exit of the handlers), both tables, 2 rows, 2 queued connections, 2 requests per connection |
| `registry` | can a listener be orphaned, shared, or found half built? does every call return? | 3 sessions, 1 URI, 3 servers, 3 options of which 2 are valid, 1 metrics table |
| `registry_options` (violation) | does `Start` compare every option? | 1 session, 2 metrics tables |
| `registry_close` (violation) | does closing the database stop the listeners? | 1 session |
| `send` | can a row be lost, or stored twice, or a connection misused? | 2 threads of `send_datadog_logs`, 2 rows each in one or two batches, 1 retry, 3 connections |
| `send_ends` | do calls end and are the waits clamped, whatever the headers? | 1 thread, all three functions, 4 chunks, 7 header values, a gateway |
| `send_gateway` (violation) | are sends retried only when nothing can have been stored? | 1 thread, 1 row |
| `reads` | does every scan return what it promises, and return at all? | searches: pages of 1-3 rows, caps 0-5, 0, 2 or 5 events, vectors of 2, pages as they should be or any; alerts: 3 groups, pages of 2, 2 changes; answers: up to 3 items, caps 0-2, 8-bit integers, units of 1-5 s, 2 clock values; 1 retry |
| `pushdown` | does pushdown change an answer? | 2 ns to a millisecond, times -4 to 4, clauses of up to 2 conditions, windows between -2 and 1 ms, caps 0 and 2 |
| `catalog` | can a scan use another account or another index, can a transaction be lost? | 2 attachments, 2 names of secrets with 4 contents, 3 listings of names that differ by case, 2 connections, 2 addresses |
| `writes` | what becomes of a row? | logs: tables, search events, 2 hops; metrics: chunks of up to 4 rows, skipped and bad ones among them, batches of 2; traces: chunks of up to 3 rows, words of 8 values, agent and direct; spans of `read_datadog_traces` |
| `metric_foreign` (violation) | is the value stored that was posted? | `writes`, and points with JSON integers |

Deadlock is checked in every run but `writes` and `metric_foreign`, where a query that is
through with its chunk has nothing left to do; in the others `Terminated` says
where the system may stop. A violation run exists only for a disagreement with
the documentation, the tests or a comment (section 4).

### Properties

Listener (`server`):

- `AckedIsStored`, `RefusedLeavesNothing`, `AllOrNothing`: the three things a
  sender relies on when it decides to keep, drop or resend its payload.
- `RefusalHasCause`: a well-formed request is refused only for a fault of its
  own. A rollback that is forgotten does not corrupt data; it makes the *next*
  request of another worker fail, and this property sees it.
- `JoinedMeansQuiet`: `Close()` destroys server and writer after the last worker left.
- `ImplementsIntake`: refinement of `LogIntake`. `received` is the set of
  requests read, `rows` their sizes, `stored` and `answer` are themselves; the
  one step that changes `stored` is `Commit`.
- `CloseCompletes`: `Close()` returns.

Registry: `RegisteredIsListening`, `NoOrphanListener`, `OneListenerPerUri`,
`ServeReturnsConfigured` (an action property: when the URL is returned, that server is
registered), `CallsReturn`.

Senders (`send`, `send_ends`): `OkIsStored`, `NeverDoubleIndexed`,
`BatchesInOrder`, `PoolIsHealthy`, `PoolIsBounded`, `WaitIsClamped`, `CallsEnd`.

Scans (`reads`): `BudgetRespected` (the `D_ASSERT` of `FetchNextPage`, and the
README's claim that the cap limits what is requested), `ImplementsRowStream`
(`wanted` is the number of events up to the cap, `delivered` what was emitted),
`OnlyOpenShown` and `UndisturbedShown` for the alerts, `AnswersAreStreamed`
(also a refinement of `RowStream`) and `WindowIsCurrent` for the single
requests, `CallReturns` for all.

Pushdown: `PushdownIsExact` compares the query's rows with those of the request
that is not narrowed. Catalog: `ScansUseSelectedSecret`, `ScansReadTheirIndex`,
`TransactionsAreLive`.

Rows (`writes`): `ColumnsArrive`, `AttributesArrive`, `CopiesAreFaithful` for
logs; `OkRowsAreStored`, `BadRowsFailTheirChunk` for metrics; `TracesKeepIdentity`,
`EncodingsAgree`, `TagsAreKept`, `ResultsAreTrue` for spans, and
`ForwardedSpansKeep` for spans that were read from Datadog. `OkRowsAreStored`
gives a point exactly the tags of `CollectTags`, which are fewer than the
README promises, and `BadRowsFailTheirChunk` says how much of a chunk that fails
may be stored (both under "Other things" in section 4).

### Bounds, and why they are enough

- Listener: two workers are enough for every conflict over the mutex and the
  transaction, and either may find what the other left behind. A body
  of two rows has a state in which half of it is appended. `KeepAliveMax` is 2
  (128 in the code): one connection serves a second request and reaches its limit.
- Registry: one session inside `Start`, one closing, one that serves or stops
  meanwhile, all on one URI, where they conflict. Each may own a server.
- Sending: batches of two rows and three bytes; the chunks give one batch
  (`<<1, 1>>`), a split by bytes (`<<2, 2>>`), a split by rows (`<<1, 1, 1>>`), a
  row above the byte limit (`<<4, 1>>`), no rows, and a malformed one. One retry
  gives two attempts, so an attempt that is superseded exists. Connections outnumber
  threads by one, as many as can be alive at once while one is replaced.
  Headers cover absence, a negative value, 0, both sides of the clamp and a huge value.
- Scans: with vectors of 2 and pages of 1 to 3 rows a page is smaller, equal and
  larger than a vector, caps fall inside, at and beyond a page and the result, and
  five events need several pages and several calls. Three alerts on pages of two
  leave one for the second page, and two changes can take one group away and
  bring another in front. The windows have every form of endpoint and numbers at both
  sides of each limit: a product that overflows once and one that wraps back
  into range, the clamp, zero, the limit of TIMESTAMP_NS.
- Pushdown: with two nanoseconds to a millisecond, times on both sides of 1970 and
  on and off a millisecond make every case of rounding; two conditions are
  enough to combine bounds from both sides and terms with each other.
- Catalog: two names of secrets, so that the first of them can change, two accounts
  to switch between, and as many connections as addresses, so that an address
  that is freed is used again.
- Rows: words of 8 values make ids with equal low, equal high and no high words;
  two hops show what only the second one loses; two points to a batch and
  skipped rows before, between and after them shift indexes against rows. A value
  that is not finite stands in the first batch, after it, and beside rows of
  every other kind.
- Where a bound matters for truth, the theorems do not have it: they hold for any
  sets, limits and numbers of retries.

Symmetry is used in `send` only, which has no liveness property.

### Fairness

- Listener: weak fairness of each worker, of the accept thread's exit, and of
  `Close()` from the join on: the operating system schedules threads that can
  run. The mutex needs no strong fairness, because only finitely many requests
  can compete for it once the socket is closed. Nothing obliges a
  sender to send, a database to fail or anyone to call `Close()`.
- Registry: weak fairness of the steps inside `Start` and inside `Close()`, per
  session, and of the destruction of the database when nobody holds it. Nobody
  is obliged to call, and acquiring the mutex is not assumed fair.
- Senders: weak fairness of each thread inside a call. It is the connection and
  read timeouts (`set_connection_timeout`, `set_read_timeout`) that justify it:
  a thread that waits for an answer can always take `TransportFails`. The intake
  is not assumed to store or to answer anything.
- Scans: weak fairness of the scan thread inside a call, whichever scan it is, for the
  same reason. Nobody is obliged to call again, as a query with a LIMIT does
  not, and Datadog's changes, the clock and Ctrl+C are not obliged to happen.
- `pushdown`, `catalog` and `writes` have safety properties only.

## 4. Findings

1. `registry_options`: `Start` compares the options of a second `datadog_serve`
   with those of the existing server, except `metrics_table_name`
   (`datadog_server.cpp:803`). The second call succeeds with the URL of a server
   that writes metrics to the first table.
2. `registry_close`: each server's `writer` is a `Connection`, which keeps the
   `DatabaseInstance` alive. The destructor that should stop the listeners
   (`StopAll`) runs only when that instance is destroyed, which the listeners
   prevent. README.md:409 says that closing the database ends them. The
   reference count is DuckDB's and outside the repository, so this rests on
   how `Connection` is declared there.
3. `send_gateway`: every 5xx is retried (`datadog_client.cpp:496`), but README.md:472
   says that sends are retried only on failures before any data reached
   Datadog, and on 429. A 502 or 504 of a gateway may hide a batch that was stored,
   which is then stored twice.
4. `metric_foreign`: the listener asks for a number (`yyjson_is_num`,
   `datadog_server.cpp:489`) and reads it with `yyjson_get_real`, which is 0.0
   for a number that is not written as a real. `{"value": 9}` is answered 202 and
   stored as 0.0, although README.md:554 says that received points land in the
   table. The extension's own sender always writes reals, so its round trip is
   exact.

Other things met while modelling, which have no run of their own; the models
do what the code does:

- An open group is shown twice when another triggers in front of it between two
  pages ("one row per currently triggered monitor group", README.md:67). What
  holds is `UndisturbedShown`.
- `MAX_ROWS` bounds searches and metrics; `service_map.dependencies` and `alerts.open`
  have no cap (README.md:225).
- A secret without the application key cannot send logs or metrics: binding calls
  `GetDatadogCredentials`, which wants both keys (`datadog_secret.cpp:120`,
  `send_logs.cpp:156`), although README.md:437 says that only the API key is
  required. `LogRoundTrip!Bind` refuses such a secret.
- The byte estimate of a batch (`datadog_json.cpp:842`) counts raw bytes. Texts
  that escape to more than the reserve of 1 MB exceed the limit of the intake,
  which then answers 413.
- A forwarded log loses the custom attributes of its resource block on the second
  hop, and its `ddsource` becomes `duckdb`.
- `MapEvent` uses `trace_id` alone where the listener prefers `dd.trace_id`; the
  tag `_dd.p.tid` of a span with a 64-bit id takes no part in grouping.
- A forwarded span's `resource_name` and `type` arrive as tags only, and its
  resource is its name. Ids of the API are taken as hexadecimal text.
- `send_datadog_metrics` makes a tag only of string attributes and drops numbers
  and booleans (`send_metrics.cpp:216`) while the row returns `'ok'`. README.md:536
  promises "one `key:value` tag per entry", README.md:539 that "every attribute"
  collapses into tags, and so does the comment at `send_metrics.cpp:186`; only
  the comment at line 217 says what is done. `OkRowsAreStored` states the tags
  that are stored, not the ones that are promised.
- A value that is NaN or infinite is read like any other and fails the statement
  when its batch is serialized (`send_metrics.cpp:255`), after the batches before it
  were stored; to repeat the statement would store those again. README.md:552
  warns that "earlier batches may already be stored if a later one fails", but
  all other faults of a row are found before the first request.
- README.md:588 derives the error status of a span from its `error.*` tags. The
  reserved `status` of the span comes first (`traces_table.cpp:195`), and
  the tags count only where it is absent; `ForwardedSpansKeep` follows the code.
- A metrics window of more digits than an int64 holds wraps around or is clamped
  instead of being refused, as the service map does.

## 5. Proofs

TLAPS checks the theorems for every value of the constants that meets the named
assumptions of their modules, which TLC evaluates on every run:

| Module | Assumptions | What they say |
|---|---|---|
| `DatadogServer` | `BoundsAssumption`, `NullAssumption` | bounds are numbers, `None` is nothing else |
| `DatadogServerRegistry` | `OptionsAssumption`, `NullAssumption` | valid options are options |
| `DatadogSend` | `KindsAssumption`, `LimitsAssumption`, `NullAssumption`, `ThreadsAssumption` | limits are numbers, threads are finitely many |
| `AuthenticatedRequest`, `DatadogSearchScan` | `RetriesAssumption`, `ScanAssumption`, `NoneAssumption` | sizes are positive, caps are numbers |
| `DatadogReads` | `AlertsAssumption`, `SingleAssumption` | page and vector sizes are positive, the endpoints of a window are values a query can write, units and the clock fit an int64 |
| `SearchPushdown` | `PushdownAssumption` | times are integers, strings sequences of four kinds of characters |
| `DatadogCatalog` | `CatalogAssumption` | what a secret is; listings are sequences of names |
| `TraceWrite` | `WordAssumption`, `NullAssumption`, `IdsAssumption` | an id that is there is a number of two words, a chunk is a sequence, NULL is no result |
| `DatadogWrites` | `LogsAssumption`, `SpansAssumption`, `MetricsAssumption` | rows and events have the types of their columns: texts are lists of words, times numbers, ids numbers of two words; NULL is none of these |

These are what the C++ types and DuckDB's binder guarantee: a column has one
type, a value of it or NULL. They leave out no row, event, chunk or setting
that the program accepts. One statement cannot be an ASSUME, because TLC would
have to enumerate all values: `ObjectsAreJson`, that a JSON object is neither
NULL nor malformed. It is the hypothesis of the theorems about logs, and TLC's
instance, where NULL and Malformed are model values, satisfies it.

Every module has an inductive invariant and the same layout: `Init` implies it,
each conjunct has a lemma that a step keeps it with one case per action,
`Invariance` combines them, and the properties follow from it. `IInv`, `TypeOK`
and `WriterExclusive` (transaction and mutex go together) are proved, so no run
lists them.

**Listener.** `AckedIsStored` is not inductive: it must know that the worker
that is about to answer 202 has stored its rows. `ProgressInv` says how much a
worker has stored by the point it has reached, which at COMMIT depends on the
transaction holding exactly its rows: `WriterInv` (the mutex is held exactly
inside the critical section, the transaction is open exactly between BEGIN and
its end). That a commit of one worker leaves the others' rows alone needs
`RequestsInv`: a request has one worker. `ShutdownInv` is the chain from
`Close()` to the listen thread to the workers. From the same invariant
`ServerImplementsIntake` maps `Commit` to `LogIntake!Store`, `ReadRequest` to
`Receive`, `Respond` to `Answer`, and every other step to a stutter.

**Registry.** `CallsInv` says what a session holds at each point of its call
(in particular that being inside `Start` is having the mutex, and that no two
sessions own one server), `MineInv` that a server being built has an
unregistered URI, `BoundInv` that every socket has an owner.
`OneListenerPerUri` follows: of two live listeners of one URI both would have
to be registered, or one is still inside `Start`, where its URI has no entry.
`UrlsAreConfigured` is the action property, from the same invariant.

**Senders.** `NoRowIsDoubleIndexed` is the result that matters: if the intake
stores nothing that it answers an error for (`TruthfulErrors`), no row is
stored by two attempts, however attempts fail, time out or are answered late.
Two attempts that hold one row belong to one batch, because batches of a
thread do not overlap (`RequestsInv`, `BatchesInOrder`); the earlier of two
attempts of a batch was *refused* (`SupersededInv`: the loop goes on only
after an error that precedes the request, or after a status); and a truthful
refusal stored nothing and never will (`AnswersInv`). `AttemptsInv` is what
carries the argument through the loop: while a thread is between attempts,
every earlier attempt that reached the intake has been refused. `OkIsStored`
needs the last clause of it, that a 2xx means stored. `CallInv` and
`SocketsInv` hold the control state and the connections; `PoolIsHealthy` is
inductive with them. The invariant does not assume `TruthfulErrors`:
`OkRowsAreStored` holds behind a gateway too, and only the last theorem needs
the assumption. `WaitsAreClamped` uses `BackoffRange` and `RateLimitRange`,
which hold for every attempt and every header.

**Scans.** `ReadSpec` runs one of three kinds of scan. `ParkedInv` says that
the others keep their empty state, so that each has an invariant of its own.

- Searches. `RowsInv` says that what was emitted, what is buffered and where
  the next page starts are three consecutive stretches of the result, which is
  why nothing is repeated or skipped. `CapInv` relates the two counts, rows
  emitted and rows requested, to the cap; `CompleteInv` is where
  `ReliablePages` enters: while the scan goes on, the next page starts at the
  budget used so far or at the end of the result, so that the scan can finish
  only when every wanted row is there. `ScanImplementsRowStream` maps `Emit`
  to `Deliver` or `End`, a request that throws to `Fail`, and every other step
  to a stutter.
- Alerts. `UndisturbedShown` is not inductive: after the first change the scan
  cannot say which groups it has shown. `ShownInv` distinguishes whether the
  scan has asked beyond the undisturbed front of the listing. Before, what is
  shown are exactly the open groups of what was asked for; from then on they
  are what is shown first, whatever follows. `OnlyOpenShown` rests on the same
  invariant, for any number of groups and of changes.
- Single requests. `RowsInv` (of `SingleRequestScans`) says that a scan that
  waits for its answer has emitted nothing, and that afterwards what it
  emitted and what it holds are together what it keeps of the answer: the
  skipped items are skipped by the loop of `Selection`, and `SelectedConcat`
  says that it may be cut anywhere. `AnswersStreamed` maps this to
  `RowStream`. `WindowStaysCurrent` follows the window from binding to the
  request through each form of an endpoint, for texts of any number of digits
  (`MagnitudeIs`: the checked accumulation is the number or is refused).

**Pool.** `PoolIsBounded` is about threads and connections at once: the pool holds
no more than there are threads that send logs. Its invariant `PoolInv` counts
the idle connections and the log senders that hold a connection or are about to
create one: together they never outnumber the log senders, so that whoever
puts a connection back has left room for it. The
proof is the arithmetic of finite sets, with one case for each action that
moves a connection.

**Pushdown.** `PushdownChangesNothing` holds for every set of times, integers of
any size and every scale. The invariant says what a bound or a term that was
pushed follows from: every event that satisfies the conditions of this pass lies
between the bounds, in nanoseconds (`LowerFollows`, `UpperFollows`, which need
the floor and the ceiling of a C++ division), and matches the terms
(`TermsFollow`). With a cap nothing is pushed, so the capped set is the same.

**Catalog.** Secrets may change at any step; what does not is the pair of the
secret that ATTACH selected and the name its tables keep (`SelectionIsPinned`,
also while the discovery is under way). `ScansReadTheirIndex` rests on the
look-up: an exact match wins over one by case, and the first of equal names is
the one that is kept.

**Traces.** `TracesAreKept` holds for every word size and every chunk, of a table
or read by `read_datadog_traces`. The keys of traces are distinct, every placed
row is under its own key, and none is placed twice, because rows are placed in
the order of the chunk; a number is determined by its two words
(`WordsDetermine`). `ResultsStayTrue` needs `RowsAreAccountedFor`: a row that was
read is among the source rows or has its reason, a source row that was placed is
in a trace, and an accepted request holds the traces as they are.
`EncodingsStayEqual` rests on `WireIsExact` (what an encoding leaves out is what
its reader takes for absent) and `TagsStayKept` on `TagsOfRow`, which says of
the chain of merges which source a name comes from, and `DeliveredInv`, that
what was received is the request that was built.

**Forwarded spans.** `SpansStayForwarded` composes two mappings: of an event
to a row, whose columns `SpanColumns` lists, and of that row to a span. Each
place of the event that competes for a column has a lemma
(`MessageWithoutStatus`, `KindIsWritten`, `IdIsRead`), and `TagOfAttribute`
and `TagOfColumn` say which of column, custom attribute and reserved attribute
becomes the tag. `SpanInv` adds that the chunk of a forwarded span is its one
row and that no trace is empty. Stated for all events, the property must say
what a custom attribute with the name of a column's tag (`_dd.p.tid`,
`span.kind`, `error.message`) does: the column wins where it is set, the
attribute is kept where it is not. `ClashEvents` of the instance has such
events.

**Metrics.** `OkRowsStayStored` is about three sequences that are kept apart in the code:
the rows, the points (each with the number of its row) and the listener's
table. `RowsAreRead` says that the points are the rows that have a reading, in
order; `PointsAreAcknowledged` that the results `'ok'` are those of the points
before `offset`, and that the body in flight is the stretch that begins there;
`TableIsTheirs` that the table begins with the acknowledged points, and is
longer only when an answer was lost. `RowsFirst` says that nothing is sent
while rows are read, and that all rows could be read once something is.
Together they are `SendInv`, for every chunk, batch size and byte limit.
`BadChunksFail` adds `SentAreWritable`: the points up to the end of the body in
flight are finite, and once there are any, no point that is not finite fits in the
first batch. The step that needs care is the first `BuildBatch`
(`BuiltBatch`): a batch takes as many points as fit, so one that is writable
leaves every point that is not beyond its limits. `PlaceOfRow` then turns the number
of a point into a count of rows.

**Logs.** `LogInv` says that the object is the one the code builds of the
current row and the stored row is what the listener makes of it, and, of a row
that was read or stored before, how it differs from an arbitrary one
(`IsCopy`, `FromListener`). `ColumnsAlwaysArrive` and `AttributesAlwaysArrive`
then say what survives one hop, for every row: the order in which resource
block, attributes and columns claim a name is worked out name by name.
`CopiesStayFaithful` is the one that needs the invariant: what is stored is
again a copy, so that it holds on every hop and for any number of them.

**Induction.** The library's induction theorems take an operator as a
parameter and cannot be used. `OperatorProofs` derives what is needed from the
least element of a set of numbers (`LeastElement`, `NumberInduction`), which
is stated of sets: a fact about a list is proved of the set of the lengths for
which it holds.

**Only model-checked.** `CloseCompletes`, `CallsReturn`, `CallsEnd` and
`CallReturns` are liveness under fairness, which the prover does not treat.
Every other property of a passing run is a theorem.

## 6. Not modelled, and why

- `total_requests`, `total_rows` and `listening`: written and shown, never
  read by a decision.
- `/healthz`: changes nothing.
- The Emscripten branches of the client: another transport, without retries or
  threads.
- Parsing of URIs, options, bodies and URLs: abstracted to "malformed", a
  number of rows, a size, a canonical URI.
- The bytes of encodings: varints, percent-encoding, escaping, gzip. What they
  carry is modelled; how it is written needs strings character by character.
- The bodies of search requests beyond query, window and page; the columns of
  metrics points, service edges, log buckets and alerts: one to one.
- The read-only refusals of the catalog, which change nothing.
- A thread that is given further chunks: each call begins afresh, and only the
  pool, which the second thread shares too, survives it.
- The entry point: no state of its own.

## 7. Plan

Done: every component but the entry point, and every safety property, action
property and refinement of a passing run as a theorem. What would add most next:

1. An abstract registry that `DatadogServerRegistry` implements: a map from URIs
   to servers in which serving and stopping are single steps.
2. That `DatadogCatalog` implements a catalog in which ATTACH is one step.
3. A composition of `DatadogSend` with `DatadogServer` instead of their common
   `LogIntake`, with the listener closing while a sender retries.
4. The byte estimate of `datadog_json.cpp:842` against the size of escaped texts.
