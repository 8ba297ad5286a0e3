------------------------------ MODULE DatadogSend ------------------------------
(***************************************************************************)
(* send_datadog_logs, send_datadog_metrics and write_datadog_traces: the   *)
(* projection threads of a query each send one chunk of rows, batch by     *)
(* batch, through the retry loop of DatadogClient; the log senders share   *)
(* its pool of intake connections.                                         *)
(*                                                                         *)
(* The other end is LogIntake, which datadog_serve implements.  An intake  *)
(* behind a gateway is less: it may also answer 5xx for a batch it stored. *)
(* Rows that are NULL or skipped are not sent and are left out.            *)
(***************************************************************************)
EXTENDS RetryPolicy, Sequences, FiniteSets

CONSTANTS
    Threads,         \* projection threads
    Kinds,           \* the functions they call, a subset of AllKinds
    Chunks,          \* the chunks they are given: [sizes, malformed]
    MaxRows,         \* bound on the rows of a chunk
    MaxBatch,        \* rows per request (1000)
    MaxBatchBytes,   \* estimated bytes per request (4 MiB)
    MaxRetries,      \* client.retries
    Headers,         \* values of a rate-limit header: [parsed, seconds]
    Connections,     \* identities for live HTTP connections
    TruthfulErrors,  \* whether the intake stores nothing it answers 5xx for
    None

AllKinds == {"logs", "metrics", "traces"}

ASSUME KindsAssumption == Kinds \subseteq AllKinds
ASSUME LimitsAssumption ==
    /\ MaxRows \in Nat /\ MaxBatch \in Nat \ {0} /\ MaxBatchBytes \in Nat
    /\ MaxRetries \in Nat
    /\ Chunks \subseteq [sizes : Seq(Nat), malformed : BOOLEAN]
    /\ \A c \in Chunks : Len(c.sizes) <= MaxRows
    /\ Headers \subseteq [parsed : BOOLEAN, seconds : Int]
    /\ TruthfulErrors \in BOOLEAN
ASSUME ThreadsAssumption == IsFiniteSet(Threads)
ASSUME NullAssumption == None \notin Connections /\ None \notin Outcomes

VARIABLES
    \* one call of the scalar function, per thread
    pc,        \* where the thread is
    kind,      \* the function it calls
    logs,      \* estimated sizes of the rows it collected
    offset,    \* rows already acknowledged; their result is 'ok'
    batchEnd,  \* last row of the batch being sent
    attempt,   \* attempts made for this batch so far
    outcome,   \* how the last attempt ended, or None
    wait,      \* seconds the thread sleeps before the next attempt
    conn,      \* the connection it uses, or None
    \* shared by the threads
    pool,      \* idle intake connections, a stack
    socket,    \* socket[c]: "unused", "open" or "broken"
    query,     \* "running", or "interrupted" by the user
    \* the intake
    received, rows, stored, answer

threadVars == <<pc, kind, logs, offset, batchEnd, attempt, outcome, wait, conn>>
intakeVars == <<received, rows, stored, answer>>
vars == <<threadVars, pool, socket, query, intakeVars>>

\* One request per attempt to send the batch that starts after row `first`.
Requests == [thread : Threads, first : 0..MaxRows, attempt : 0..MaxRetries]
\* "400" stands for every status the loop gives up on at once.
Refusals == {"400", "429", "500"}

Intake == INSTANCE LogIntake

Ended == {"done", "failed", "interrupted"}
Running == {"batching", "connecting", "creating", "posting", "waiting",
            "answered", "sleeping"}

Init ==
    /\ pc = [t \in Threads |-> "idle"]
    /\ kind \in [Threads -> Kinds]
    /\ logs = [t \in Threads |-> <<>>]
    /\ offset = [t \in Threads |-> 0]
    /\ batchEnd = [t \in Threads |-> 0]
    /\ attempt = [t \in Threads |-> 0]
    /\ outcome = [t \in Threads |-> None]
    /\ wait = [t \in Threads |-> 0]
    /\ conn = [t \in Threads |-> None]
    /\ pool = <<>>
    /\ socket = [c \in Connections |-> "unused"]
    /\ query = "running"
    /\ Intake!Init

Goto(t, label) == pc' = [pc EXCEPT ![t] = label]

\* An exception leaves the call: its connection is destroyed, not pooled.
Throw(t, label) ==
    /\ Goto(t, label)
    /\ conn' = [conn EXCEPT ![t] = None]
    /\ socket' = [c \in Connections |-> IF c = conn[t] THEN "unused" ELSE socket[c]]

--------------------------------------------------------------------------------
(* Batching.                                                               *)

\* The rows of the chunk are mapped; a malformed row of send_datadog_metrics
\* (no name, attributes that are not JSON) throws before anything is sent.
Collect(t, c) ==
    /\ pc[t] = "idle"
    /\ c.malformed => kind[t] = "metrics"
    /\ IF c.malformed THEN Goto(t, "failed") /\ UNCHANGED logs
       ELSE Goto(t, "batching") /\ logs' = [logs EXCEPT ![t] = c.sizes]
    /\ UNCHANGED <<kind, offset, batchEnd, attempt, outcome, wait, conn, pool,
                   socket, query, intakeVars>>

\* Estimated bytes of rows first + 1 .. last.
Bytes(sizes, first, last) ==
    LET sum[i \in first..last] == IF i = first THEN 0 ELSE sum[i - 1] + sizes[i]
    IN  sum[last]

\* Mutant: a row beyond the byte limit fits no batch.
FitsStrictly(t, last) ==
    \/ kind[t] = "traces"
    \/ /\ last - offset[t] <= MaxBatch
       /\ Bytes(logs[t], offset[t], last) <= MaxBatchBytes

\* A batch is within both limits, or one oversized row alone; a chunk of
\* spans is one batch.
Fits(t, last) ==
    \/ kind[t] = "traces"
    \/ last = offset[t] + 1
    \/ /\ last - offset[t] <= MaxBatch
       /\ Bytes(logs[t], offset[t], last) <= MaxBatchBytes

\* The batch takes every row up to the first that does not fit.
NextBatch(t) ==
    /\ pc[t] = "batching" /\ offset[t] < Len(logs[t])
    /\ ~(kind[t] = "metrics" /\ query = "interrupted")
    /\ \E last \in offset[t] + 1 .. Len(logs[t]) :
         /\ Fits(t, last)
         /\ last < Len(logs[t]) => ~Fits(t, last + 1)
         /\ batchEnd' = [batchEnd EXCEPT ![t] = last]
    /\ Goto(t, "connecting")
    /\ UNCHANGED <<kind, logs, offset, attempt, outcome, wait, conn, pool, socket, query,
                   intakeVars>>

\* send_datadog_metrics looks at the interrupt flag before each batch.
StopBatching(t) ==
    /\ pc[t] = "batching" /\ offset[t] < Len(logs[t])
    /\ kind[t] = "metrics" /\ query = "interrupted"
    /\ Goto(t, "interrupted")
    /\ UNCHANGED <<kind, logs, offset, batchEnd, attempt, outcome, wait, conn,
                   pool, socket, query, intakeVars>>

FinishCall(t) ==
    /\ pc[t] = "batching" /\ offset[t] = Len(logs[t])
    /\ Goto(t, "done")
    /\ UNCHANGED <<kind, logs, offset, batchEnd, attempt, outcome, wait, conn,
                   pool, socket, query, intakeVars>>

--------------------------------------------------------------------------------
(* Connections.                                                            *)

\* AcquireIntakeConnection pops an idle connection ...
AcquireIdle(t) ==
    /\ pc[t] = "connecting" /\ kind[t] = "logs" /\ pool # <<>>
    /\ conn' = [conn EXCEPT ![t] = pool[Len(pool)]]
    /\ pool' = SubSeq(pool, 1, Len(pool) - 1)
    /\ Goto(t, "posting")
    /\ UNCHANGED <<kind, logs, offset, batchEnd, attempt, outcome, wait, socket,
                   query, intakeVars>>

\* Mutant: idle connections are never reused.
AcquireFresh(t) ==
    /\ pc[t] = "connecting"
    /\ Goto(t, "creating")
    /\ UNCHANGED <<kind, logs, offset, batchEnd, attempt, outcome, wait, conn,
                   pool, socket, query, intakeVars>>

\* ... or finds none and leaves the mutex; the other senders never pool.
AcquireNone(t) ==
    /\ pc[t] = "connecting" /\ (kind[t] = "logs" => pool = <<>>)
    /\ Goto(t, "creating")
    /\ UNCHANGED <<kind, logs, offset, batchEnd, attempt, outcome, wait, conn,
                   pool, socket, query, intakeVars>>

NewConnection(t, c) ==
    /\ pc[t] = "creating" /\ socket[c] = "unused"
    /\ conn' = [conn EXCEPT ![t] = c]
    /\ socket' = [socket EXCEPT ![c] = "open"]
    /\ Goto(t, "posting")
    /\ UNCHANGED <<kind, logs, offset, batchEnd, attempt, outcome, wait, pool,
                   query, intakeVars>>

--------------------------------------------------------------------------------
(* One attempt.                                                            *)

Interrupted(t) ==
    /\ pc[t] \in {"posting", "sleeping"} /\ query = "interrupted"
    /\ Throw(t, "interrupted")
    /\ UNCHANGED <<kind, logs, offset, batchEnd, attempt, outcome, wait, pool,
                   query, intakeVars>>

Message(t) == [thread |-> t, first |-> offset[t], attempt |-> attempt[t]]

\* The request reaches the intake.
Post(t) ==
    /\ pc[t] = "posting" /\ query = "running"
    /\ Intake!Receive(Message(t))
    /\ rows'[Message(t)] = batchEnd[t] - offset[t]
    /\ Goto(t, "waiting")
    /\ UNCHANGED <<kind, logs, offset, batchEnd, attempt, outcome, wait, conn,
                   pool, socket, query>>

\* The connection fails before, or after, bytes were sent; or the answer does
\* not come in time.
TransportFails(t) ==
    /\ pc[t] \in {"posting", "waiting"}
    /\ pc[t] = "posting" => query = "running"
    /\ \E error \in TransportErrors :
         /\ pc[t] = "waiting" => error # "pre-send"
         /\ outcome' = [outcome EXCEPT ![t] = error]
    /\ socket' = [socket EXCEPT ![conn[t]] = "broken"]
    /\ Goto(t, "answered")
    /\ UNCHANGED <<kind, logs, offset, batchEnd, attempt, wait, conn, pool,
                   query, intakeVars>>

\* Mutant: any status below 500 counts as success.
ClassBelow500(status) == IF status = "500" THEN "5xx" ELSE "2xx"

Class(status) ==
    CASE status = Intake!Accepted -> "2xx"
      [] status = "429" -> "429"
      [] status = "500" -> "5xx"
      [] OTHER -> "4xx"

Answered(t) ==
    /\ pc[t] = "waiting"
    /\ answer[Message(t)] # Intake!Pending
    /\ outcome' = [outcome EXCEPT ![t] = Class(answer[Message(t)])]
    /\ Goto(t, "answered")
    /\ UNCHANGED <<kind, logs, offset, batchEnd, attempt, wait, conn, pool,
                   socket, query, intakeVars>>

--------------------------------------------------------------------------------
(* What the loop does with it.                                             *)

Sleep(t, seconds) ==
    /\ Retries(outcome[t], attempt[t], MaxRetries)
    /\ wait' = [wait EXCEPT ![t] = seconds]
    /\ outcome' = [outcome EXCEPT ![t] = None]
    /\ Goto(t, "sleeping")
    /\ UNCHANGED <<kind, logs, offset, batchEnd, attempt, pool, query,
                   intakeVars>>

\* Mutant: the request is sent again on the same connection.
RetrySameConnection(t, c) ==
    /\ pc[t] = "answered" /\ outcome[t] \in TransportErrors
    /\ socket[c] = "unused"
    /\ Sleep(t, Backoff(attempt[t]))
    /\ UNCHANGED <<conn, socket>>

\* The socket may be half-dead after a transport error: the connection is
\* replaced before the loop decides.
RetryReconnected(t, c) ==
    /\ pc[t] = "answered" /\ outcome[t] \in TransportErrors
    /\ socket[c] = "unused"
    /\ conn' = [conn EXCEPT ![t] = c]
    /\ socket' = [socket EXCEPT ![conn[t]] = "unused", ![c] = "open"]
    /\ Sleep(t, Backoff(attempt[t]))

RetryStatus(t) ==
    /\ pc[t] = "answered"
    /\ \/ outcome[t] = "5xx" /\ Sleep(t, Backoff(attempt[t]))
       \/ /\ outcome[t] = "429"
          /\ \E reset, retryAfter \in Headers :
               Sleep(t, RateLimitRetryDelaySeconds(reset, retryAfter, attempt[t]))
    /\ UNCHANGED <<conn, socket>>

Wake(t) ==
    /\ pc[t] = "sleeping" /\ query = "running"
    /\ attempt' = [attempt EXCEPT ![t] = @ + 1]
    /\ wait' = [wait EXCEPT ![t] = 0]
    /\ Goto(t, "posting")
    /\ UNCHANGED <<kind, logs, offset, batchEnd, outcome, conn, pool, socket,
                   query, intakeVars>>

GiveUp(t) ==
    /\ pc[t] = "answered"
    /\ outcome[t] # "2xx" /\ ~Retries(outcome[t], attempt[t], MaxRetries)
    /\ outcome' = [outcome EXCEPT ![t] = None]
    /\ Throw(t, "failed")
    /\ UNCHANGED <<kind, logs, offset, batchEnd, attempt, wait, pool, query,
                   intakeVars>>

\* Mutant: the last row of the batch is counted as not sent.
AcknowledgeOffByOne(t) ==
    /\ pc[t] = "answered" /\ outcome[t] = "2xx"
    /\ offset' = [offset EXCEPT ![t] = batchEnd[t] - 1]
    /\ IF kind[t] = "logs"
       THEN /\ pool' = Append(pool, conn[t])
            /\ conn' = [conn EXCEPT ![t] = None]
            /\ Goto(t, "batching")
            /\ UNCHANGED socket
       ELSE Throw(t, "batching") /\ UNCHANGED pool
    /\ attempt' = [attempt EXCEPT ![t] = 0]
    /\ outcome' = [outcome EXCEPT ![t] = None]
    /\ UNCHANGED <<kind, logs, batchEnd, wait, query, intakeVars>>

\* The rows of the batch become 'ok'; a log sender releases its connection to
\* the pool, the others destroy theirs.
Acknowledge(t) ==
    /\ pc[t] = "answered" /\ outcome[t] = "2xx"
    /\ offset' = [offset EXCEPT ![t] = batchEnd[t]]
    /\ IF kind[t] = "logs"
       THEN /\ pool' = Append(pool, conn[t])
            /\ conn' = [conn EXCEPT ![t] = None]
            /\ Goto(t, "batching")
            /\ UNCHANGED socket
       ELSE Throw(t, "batching") /\ UNCHANGED pool
    /\ attempt' = [attempt EXCEPT ![t] = 0]
    /\ outcome' = [outcome EXCEPT ![t] = None]
    /\ UNCHANGED <<kind, logs, batchEnd, wait, query, intakeVars>>

--------------------------------------------------------------------------------
(* The user and the intake.                                                *)

Interrupt ==
    /\ query = "running"
    /\ query' = "interrupted"
    /\ UNCHANGED <<threadVars, pool, socket, intakeVars>>

\* The intake may store a request long after its sender gave up on it.
IntakeStore(m) ==
    /\ Intake!Store(m)
    /\ UNCHANGED <<threadVars, pool, socket, query>>

\* A gateway answers 5xx for a request the intake stored.
AnswerFalsely(m) ==
    /\ ~TruthfulErrors
    /\ m \in received /\ answer[m] = Intake!Pending
    /\ stored[m] # 0
    /\ answer' = [answer EXCEPT ![m] = "500"]
    /\ UNCHANGED <<received, rows, stored>>

\* The answer to a sender that waits for it; any other is lost.
IntakeAnswer(m) ==
    /\ pc[m.thread] = "waiting" /\ m = Message(m.thread)
    /\ \/ \E status \in Refusals \cup {Intake!Accepted} : Intake!Answer(m, status)
       \/ AnswerFalsely(m)
    /\ UNCHANGED <<threadVars, pool, socket, query>>

Thread(t) ==
    \/ NextBatch(t) \/ StopBatching(t) \/ FinishCall(t)
    \/ AcquireIdle(t) \/ AcquireNone(t)
    \/ \E c \in Connections : NewConnection(t, c) \/ RetryReconnected(t, c)
    \/ Interrupted(t) \/ Post(t) \/ TransportFails(t) \/ Answered(t)
    \/ RetryStatus(t) \/ Wake(t) \/ GiveUp(t) \/ Acknowledge(t)

Terminated == (\A t \in Threads : pc[t] \in Ended) /\ UNCHANGED vars

Next ==
    \/ \E t \in Threads : Thread(t) \/ \E c \in Chunks : Collect(t, c)
    \/ Interrupt
    \/ \E m \in Requests : IntakeStore(m) \/ IntakeAnswer(m)
    \/ Terminated

Spec == Init /\ [][Next]_vars

\* A thread inside a call goes on: the connection and read timeouts end an
\* attempt that nobody answers.  Nothing is assumed of the intake.
Fairness == \A t \in Threads : WF_vars(Thread(t))

FairSpec == Spec /\ Fairness

--------------------------------------------------------------------------------
TypeOK ==
    /\ pc \in [Threads -> Running \cup Ended \cup {"idle"}]
    /\ kind \in [Threads -> Kinds]
    /\ logs \in [Threads -> Seq(Nat)]
    /\ offset \in [Threads -> 0..MaxRows]
    /\ batchEnd \in [Threads -> 0..MaxRows]
    /\ attempt \in [Threads -> 0..MaxRetries]
    /\ outcome \in [Threads -> Outcomes \cup {None}]
    /\ wait \in [Threads -> 0..60]
    /\ conn \in [Threads -> Connections \cup {None}]
    /\ pool \in Seq(Connections)
    /\ socket \in [Connections -> {"unused", "open", "broken"}]
    /\ query \in {"running", "interrupted"}
    /\ received \in SUBSET Requests
    /\ rows \in [Requests -> 0..MaxRows]
    /\ stored \in [Requests -> 0..MaxRows]
    /\ answer \in [Requests -> Refusals \cup {Intake!Accepted, Intake!Pending, Intake!Lost}]

(* Safety.                                                                 *)

\* Row i of thread t is in the table by way of request m.
Holds(m, t, i) ==
    /\ m.thread = t /\ m.first < i /\ i <= m.first + stored[m]

\* 'ok' is the truth: the row was stored by one of the attempts to send it.
OkIsStored ==
    \A t \in Threads : \A i \in 1..offset[t] : \E m \in received : Holds(m, t, i)

\* "... rather than silently re-sent and double-indexed": no row is stored by
\* two attempts, however attempts fail, time out, or are answered late.
NeverDoubleIndexed ==
    \A t \in Threads, i \in 1..MaxRows, m, n \in received :
        Holds(m, t, i) /\ Holds(n, t, i) => m = n

\* "... a failure partway through leaves earlier batches already delivered":
\* and nothing else, because a batch is sent only after the one before it was
\* acknowledged.
BatchesInOrder ==
    \A m \in received :
        /\ m.first <= offset[m.thread]
        /\ m.first = offset[m.thread] => m.first + rows[m] = batchEnd[m.thread]
        /\ m.first < offset[m.thread] => m.first + rows[m] <= offset[m.thread]

\* "... a broken or interrupted connection can never re-enter the pool", and a
\* connection is used by one thread at a time.
PoolIsHealthy ==
    /\ \A k \in 1..Len(pool) :
         /\ socket[pool[k]] = "open"
         /\ \A j \in 1..Len(pool) : pool[j] = pool[k] => j = k
         /\ \A t \in Threads : conn[t] # pool[k]
    /\ \A t, u \in Threads : conn[t] # None /\ conn[t] = conn[u] => t = u
    /\ \A t \in Threads : pc[t] \in {"posting", "waiting"} => socket[conn[t]] = "open"

\* The pool never holds more connections than there are threads, although a
\* thread that finds it empty creates one outside the mutex.
PoolIsBounded ==
    Len(pool) + Cardinality({t \in Threads : conn[t] # None \/ pc[t] = "creating"})
        <= Cardinality(Threads)

\* The delay before a retry neither spins nor stalls the query, whatever the
\* rate-limit headers say and however many attempts were made.
WaitIsClamped == \A t \in Threads : pc[t] = "sleeping" => wait[t] \in 1..60

--------------------------------------------------------------------------------
(* The inductive invariant behind them.                                    *)

Connected == {"posting", "waiting", "answered", "sleeping"}

\* What a thread knows at each point of its call.
CallInv ==
    \A t \in Threads :
        /\ offset[t] <= Len(logs[t]) /\ Len(logs[t]) <= MaxRows
        /\ pc[t] = "idle" => offset[t] = 0
        /\ pc[t] \in Connected \cup {"connecting", "creating"} =>
              offset[t] < batchEnd[t] /\ batchEnd[t] <= Len(logs[t])
        /\ (conn[t] # None) <=> (pc[t] \in Connected)
        /\ (outcome[t] # None) <=> (pc[t] = "answered")
        /\ pc[t] = "sleeping" => attempt[t] < MaxRetries /\ wait[t] \in 1..60

\* Where the requests of a thread come from: one for each attempt, in order.
RequestsInv ==
    /\ \A m \in Requests : IF m \in received
          THEN stored[m] \in {0, rows[m]}
          ELSE stored[m] = 0 /\ answer[m] = Intake!Pending
    /\ \A m \in received : m.first = offset[m.thread] =>
          /\ pc[m.thread] \in Connected \cup {"failed", "interrupted"}
          /\ m.attempt <= attempt[m.thread]
          /\ pc[m.thread] = "posting" => m.attempt < attempt[m.thread]
    /\ \A m, n \in received :
          m.thread = n.thread /\ m.first < n.first => m.first + rows[m] <= n.first

\* A request that reached the intake and was followed by another attempt was
\* refused: the loop never retries what may have been accepted.
SupersededInv ==
    \A m, n \in received :
        m.thread = n.thread /\ m.first = n.first /\ m.attempt < n.attempt =>
            answer[m] \in Refusals

\* What the state of the loop says about the attempts of the batch.
AttemptsOf(t) ==
    /\ pc[t] \in Connected => \A m \in received :
          m.thread = t /\ m.first = offset[t] /\ m.attempt < attempt[t] =>
              answer[m] \in Refusals
    /\ pc[t] = "waiting" => Message(t) \in received
    /\ outcome[t] = "pre-send" => Message(t) \notin received
    /\ outcome[t] \in {"429", "5xx"} \/ pc[t] = "sleeping" =>
          Message(t) \notin received \/ answer[Message(t)] \in Refusals
    /\ outcome[t] = "2xx" =>
          Message(t) \in received /\ stored[Message(t)] = rows[Message(t)]

AttemptsInv == \A t \in Threads : AttemptsOf(t)

\* What an answer says about the table.
AnswersInv ==
    \A m \in received :
        /\ answer[m] = Intake!Accepted => stored[m] = rows[m]
        /\ TruthfulErrors /\ answer[m] \in Refusals => stored[m] = 0

\* A connection in use or in the pool is not "unused".
SocketsInv ==
    /\ \A t \in Threads : conn[t] # None => socket[conn[t]] # "unused"
    /\ \A t \in Threads : pc[t] = "answered" /\ outcome[t] \in Statuses =>
          socket[conn[t]] = "open"
    /\ \A t \in Threads : pc[t] = "sleeping" => socket[conn[t]] = "open"

\* The log senders alone use the pool; one that uses or creates a connection has
\* left room for it there.
LogSenders == {t \in Threads : kind[t] = "logs"}
Holders == {t \in LogSenders : conn[t] # None \/ pc[t] = "creating"}
PoolInv == Len(pool) + Cardinality(Holders) <= Cardinality(LogSenders)

IInv ==
    /\ TypeOK /\ CallInv /\ RequestsInv /\ BatchesInOrder
    /\ SupersededInv /\ AttemptsInv /\ AnswersInv /\ OkIsStored
    /\ SocketsInv /\ PoolIsHealthy

--------------------------------------------------------------------------------
(* Liveness.                                                               *)

\* Every call returns or throws, even if no request is ever answered: batching
\* makes progress past any row and retries are bounded.
CallsEnd == \A t \in Threads : pc[t] = "batching" ~> pc[t] \in Ended
================================================================================
