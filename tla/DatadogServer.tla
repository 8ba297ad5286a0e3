----------------------------- MODULE DatadogServer -----------------------------
(***************************************************************************)
(* One DatadogServer: the HTTP worker pool, the handlers of /api/v2/logs   *)
(* (and its aliases) and /api/v2/series, the shared writer connection      *)
(* behind writer_mutex, and Close().  The state starts where the           *)
(* constructor returns: bound, listening, tables checked (that part is in  *)
(* DatadogServerRegistry).                                                 *)
(*                                                                         *)
(* The HTTP library and the DuckDB connection are external: their actions  *)
(* are what the code relies on (a bounded worker pool that drains when the *)
(* server stops; transactions that are atomic and do not nest).            *)
(***************************************************************************)
EXTENDS Integers

CONSTANTS
    Requests,          \* identities for the POSTs of a behaviour
    Workers,           \* the threads of the pool (http_threads)
    Bodies,            \* the kinds of request body senders use
    Tables,            \* the routes whose target table exists
    ApiKeyConfigured,  \* whether config.api_key is non-empty
    MaxRows,           \* bound on the rows of one body
    MaxBacklog,        \* bound on accepted connections waiting for a worker
    KeepAliveMax,      \* requests served per connection (128 in the code)
    None               \* no request, no worker, no body, no status

Routes == {"logs", "series"}
BodyType == [route : Routes, oversized : BOOLEAN, keyMatches : BOOLEAN,
             malformed : BOOLEAN, rows : 0..MaxRows]

Pending == "pending"
Lost == "lost"
Accepted == "202"
Refusals == {"400", "403", "413", "500"}

ASSUME BoundsAssumption ==
    /\ MaxRows \in Nat /\ MaxBacklog \in Nat /\ KeepAliveMax \in Nat
    /\ ApiKeyConfigured \in BOOLEAN
    /\ Tables \subseteq Routes
    /\ Bodies \subseteq BodyType
ASSUME NullAssumption ==
    /\ None \notin Requests
    /\ None \notin Workers
    /\ None \notin Bodies
    /\ None \notin Refusals \cup {Accepted}

VARIABLES
    \* the pool
    pc,          \* pc[w]: where worker w is
    req,         \* req[w]: the request w handles, or None
    code,        \* code[w]: the status w is about to answer with, or None
    served,      \* served[w]: requests w has read from its connection
    backlog,     \* connections accepted, not yet taken by a worker
    acceptor,    \* the listen thread
    closer,      \* how far Close() has got
    \* the writer connection
    writerMutex, \* the worker inside Append / AppendSeries, or None
    txn,         \* the writer's transaction: "none" or "active"
    txnRows,     \* txnRows[r]: rows of r appended in that transaction
    \* what senders and the database see
    body,        \* body[r]: the request's body once it was read, or None
    stored,      \* stored[r]: committed rows of r
    faulted,     \* requests the database itself failed (disk, conflict, ...)
    answer       \* answer[r]: the status the sender saw, or Pending, or Lost

poolVars == <<served, backlog, acceptor, closer>>
writerVars == <<writerMutex, txn, txnRows, stored, faulted>>
vars == <<pc, req, code, served, backlog, acceptor, closer, writerMutex,
          txn, txnRows, body, stored, faulted, answer>>

--------------------------------------------------------------------------------
PCs == {"idle", "reading", "handling", "locking", "begin", "appending",
        "commit", "rollback", "unlock", "respond", "exited"}

\* Holding writer_mutex.
Critical == {"begin", "appending", "commit", "rollback", "unlock"}
\* Between the read of a request and its answer.
Busy == Critical \cup {"handling", "locking", "respond"}

NoRows == [r \in Requests |-> 0]

Init ==
    /\ pc = [w \in Workers |-> "idle"]
    /\ req = [w \in Workers |-> None]
    /\ code = [w \in Workers |-> None]
    /\ served = [w \in Workers |-> 0]
    /\ backlog = 0
    /\ acceptor = "accepting"
    /\ closer = "open"
    /\ writerMutex = None
    /\ txn = "none"
    /\ txnRows = NoRows
    /\ body = [r \in Requests |-> None]
    /\ stored = NoRows
    /\ faulted = {}
    /\ answer = [r \in Requests |-> Pending]

Goto(w, label) == pc' = [pc EXCEPT ![w] = label]
SetCode(w, status) == code' = [code EXCEPT ![w] = status]

--------------------------------------------------------------------------------
(* The HTTP library: accept loop, pool and keep-alive connections.         *)

\* The listen thread accepts a connection and enqueues it for the pool.
Accept ==
    /\ acceptor = "accepting" /\ closer = "open"
    /\ backlog < MaxBacklog
    /\ backlog' = backlog + 1
    /\ UNCHANGED <<pc, req, code, served, acceptor, closer, writerVars, body,
                   answer>>

TakeConnection(w) ==
    /\ pc[w] = "idle" /\ backlog > 0
    /\ backlog' = backlog - 1
    /\ served' = [served EXCEPT ![w] = 0]
    /\ Goto(w, "reading")
    /\ UNCHANGED <<req, code, acceptor, closer, writerVars, body, answer>>

\* The keep-alive loop reads the next request of the connection, only while
\* the listening socket is open.
ReadRequest(w, r, b) ==
    /\ pc[w] = "reading" /\ closer = "open"
    /\ served[w] < KeepAliveMax
    /\ body[r] = None
    /\ body' = [body EXCEPT ![r] = b]
    /\ req' = [req EXCEPT ![w] = r]
    /\ served' = [served EXCEPT ![w] = @ + 1]
    /\ Goto(w, "handling")
    /\ UNCHANGED <<code, backlog, acceptor, closer, writerVars, answer>>

\* The peer hangs up, the keep-alive timeout or count is reached, or the
\* server was stopped.
EndConnection(w) ==
    /\ pc[w] = "reading"
    /\ served' = [served EXCEPT ![w] = 0]
    /\ Goto(w, "idle")
    /\ UNCHANGED <<req, code, backlog, acceptor, closer, writerVars, body,
                   answer>>

\* The response reaches the sender or is lost with the connection.
Respond(w) ==
    /\ pc[w] = "respond"
    /\ \E seen \in {code[w], Lost} : answer' = [answer EXCEPT ![req[w]] = seen]
    /\ req' = [req EXCEPT ![w] = None]
    /\ SetCode(w, None)
    /\ Goto(w, "reading")
    /\ UNCHANGED <<served, backlog, acceptor, closer, writerVars, body>>

--------------------------------------------------------------------------------
(* The handlers.                                                           *)

\* The checks before any row is written, in the order the handlers make them.
Verdict(b) ==
    IF b.oversized THEN "413"
    ELSE IF ApiKeyConfigured /\ ~b.keyMatches THEN "403"
    ELSE IF b.malformed THEN "400"
    ELSE Accepted

\* Check and parse the body.  A refusal answers at once; a body without rows
\* is accepted without touching the writer.
Handle(w) ==
    /\ pc[w] = "handling"
    /\ LET b == body[req[w]] IN
         IF Verdict(b) = Accepted /\ b.rows > 0
         THEN Goto(w, "locking") /\ UNCHANGED code
         ELSE Goto(w, "respond") /\ SetCode(w, Verdict(b))
    /\ UNCHANGED <<req, poolVars, writerVars, body, answer>>

LockWriter(w) ==
    /\ pc[w] = "locking"
    /\ writerMutex = None
    /\ writerMutex' = w
    /\ Goto(w, "begin")
    /\ UNCHANGED <<req, code, poolVars, txn, txnRows, stored, faulted, body,
                   answer>>

BeginTransaction(w) ==
    /\ pc[w] = "begin"
    /\ txn = "none"
    /\ txn' = "active"
    /\ Goto(w, "appending")
    /\ UNCHANGED <<req, code, poolVars, writerMutex, txnRows, stored, faulted,
                   body, answer>>

\* Mutant: the exception of BEGIN leaves Append without releasing the mutex.
BeginFailsLocked(w) ==
    /\ pc[w] = "begin"
    /\ faulted' = IF txn = "active" THEN faulted ELSE faulted \cup {req[w]}
    /\ SetCode(w, "500")
    /\ Goto(w, "respond")
    /\ UNCHANGED <<req, poolVars, writerMutex, txn, txnRows, stored, body,
                   answer>>

\* BEGIN throws, outside the try block: on a database fault, or because the
\* writer already has a transaction.
BeginFails(w) ==
    /\ pc[w] = "begin"
    /\ faulted' = IF txn = "active" THEN faulted ELSE faulted \cup {req[w]}
    /\ SetCode(w, "500")
    /\ Goto(w, "unlock")
    /\ UNCHANGED <<req, poolVars, writerMutex, txn, txnRows, stored, body,
                   answer>>

\* Mutant: the appender flushes outside a transaction, row by row.
AppendRowAutocommit(w) ==
    /\ pc[w] = "appending"
    /\ body[req[w]].route \in Tables
    /\ txnRows[req[w]] < body[req[w]].rows
    /\ txnRows' = [txnRows EXCEPT ![req[w]] = @ + 1]
    /\ stored' = [stored EXCEPT ![req[w]] = @ + 1]
    /\ UNCHANGED <<pc, req, code, poolVars, writerMutex, txn, faulted, body,
                   answer>>

AppendRow(w) ==
    /\ pc[w] = "appending"
    /\ body[req[w]].route \in Tables
    /\ txnRows[req[w]] < body[req[w]].rows
    /\ txnRows' = [txnRows EXCEPT ![req[w]] = @ + 1]
    /\ UNCHANGED <<pc, req, code, poolVars, writerMutex, txn, stored,
                   faulted, body, answer>>

CloseAppender(w) ==
    /\ pc[w] = "appending"
    /\ body[req[w]].route \in Tables
    /\ txnRows[req[w]] = body[req[w]].rows
    /\ Goto(w, "commit")
    /\ UNCHANGED <<req, code, poolVars, writerVars, body, answer>>

\* The appender throws: the target table is missing, or the database fails.
\* An InvalidInputException becomes 400, any other exception 500.
AppendFails(w) ==
    /\ pc[w] = "appending"
    /\ faulted' = IF body[req[w]].route \in Tables THEN faulted \cup {req[w]}
                  ELSE faulted
    /\ \E status \in {"400", "500"} : SetCode(w, status)
    /\ Goto(w, "rollback")
    /\ UNCHANGED <<req, poolVars, writerMutex, txn, txnRows, stored, body,
                   answer>>

Commit(w) ==
    /\ pc[w] = "commit"
    /\ stored' = [r \in Requests |-> stored[r] + txnRows[r]]
    /\ txnRows' = NoRows
    /\ txn' = "none"
    /\ SetCode(w, Accepted)
    /\ Goto(w, "unlock")
    /\ UNCHANGED <<req, poolVars, writerMutex, faulted, body, answer>>

\* Mutant: the exception of a failed COMMIT is swallowed.
CommitFailsSilently(w) ==
    /\ pc[w] = "commit"
    /\ faulted' = faulted \cup {req[w]}
    /\ txnRows' = NoRows
    /\ txn' = "none"
    /\ SetCode(w, Accepted)
    /\ Goto(w, "unlock")
    /\ UNCHANGED <<req, poolVars, writerMutex, stored, body, answer>>

\* A failed COMMIT ends the transaction; the Rollback() that follows finds
\* none and throws in its turn.
CommitFails(w) ==
    /\ pc[w] = "commit"
    /\ faulted' = faulted \cup {req[w]}
    /\ txnRows' = NoRows
    /\ txn' = "none"
    /\ SetCode(w, "500")
    /\ Goto(w, "unlock")
    /\ UNCHANGED <<req, poolVars, writerMutex, stored, body, answer>>

\* Mutant: the catch block does not roll back.
RollbackMissing(w) ==
    /\ pc[w] = "rollback"
    /\ Goto(w, "unlock")
    /\ UNCHANGED <<req, code, poolVars, writerVars, body, answer>>

\* Mutant: the catch block ends the transaction by committing it.
RollbackCommits(w) ==
    /\ pc[w] = "rollback"
    /\ stored' = [r \in Requests |-> stored[r] + txnRows[r]]
    /\ txnRows' = NoRows
    /\ txn' = "none"
    /\ Goto(w, "unlock")
    /\ UNCHANGED <<req, code, poolVars, writerMutex, faulted, body, answer>>

Rollback(w) ==
    /\ pc[w] = "rollback"
    /\ txnRows' = NoRows
    /\ txn' = "none"
    /\ Goto(w, "unlock")
    /\ UNCHANGED <<req, code, poolVars, writerMutex, stored, faulted, body,
                   answer>>

UnlockWriter(w) ==
    /\ pc[w] = "unlock"
    /\ writerMutex' = None
    /\ Goto(w, "respond")
    /\ UNCHANGED <<req, code, poolVars, txn, txnRows, stored, faulted, body,
                   answer>>

--------------------------------------------------------------------------------
(* Close().                                                                *)

CloserStep(from, to) ==
    /\ closer = from
    /\ closer' = to
    /\ UNCHANGED <<pc, req, code, served, backlog, acceptor, writerVars, body,
                   answer>>

\* server->stop() closes the listening socket.
StopServer == CloserStep("open", "stopped")

\* The accept loop ends and shuts the pool down.
ShutdownPool ==
    /\ acceptor = "accepting" /\ closer # "open"
    /\ acceptor' = "draining"
    /\ UNCHANGED <<pc, req, code, served, backlog, closer, writerVars, body,
                   answer>>

\* A pool thread leaves only when no accepted connection waits.
ExitWorker(w) ==
    /\ pc[w] = "idle" /\ acceptor = "draining" /\ backlog = 0
    /\ Goto(w, "exited")
    /\ UNCHANGED <<req, code, poolVars, writerVars, body, answer>>

\* The listen thread has joined every pool thread and returns.
ExitAcceptor ==
    /\ acceptor = "draining"
    /\ \A w \in Workers : pc[w] = "exited"
    /\ acceptor' = "exited"
    /\ UNCHANGED <<pc, req, code, served, backlog, closer, writerVars, body,
                   answer>>

\* Mutant: the listen thread is detached, not joined.
JoinListenThreadDetached == CloserStep("stopped", "joined")

JoinListenThread == acceptor = "exited" /\ CloserStep("stopped", "joined")
ResetServer == CloserStep("joined", "server reset")
ResetWriter == CloserStep("server reset", "closed")

Close == StopServer \/ JoinListenThread \/ ResetServer \/ ResetWriter

--------------------------------------------------------------------------------
Worker(w) ==
    \/ TakeConnection(w) \/ EndConnection(w) \/ Respond(w) \/ ExitWorker(w)
    \/ Handle(w) \/ LockWriter(w)
    \/ BeginTransaction(w) \/ BeginFails(w)
    \/ AppendRow(w) \/ CloseAppender(w) \/ AppendFails(w)
    \/ Commit(w) \/ CommitFails(w) \/ Rollback(w) \/ UnlockWriter(w)

Terminated == closer = "closed" /\ UNCHANGED vars

Next ==
    \/ Accept \/ ShutdownPool \/ ExitAcceptor \/ Close
    \/ \E w \in Workers :
         \/ Worker(w)
         \/ \E r \in Requests, b \in Bodies : ReadRequest(w, r, b)
    \/ Terminated

Spec == Init /\ [][Next]_vars

\* Threads that can run do run, and Close() once called is carried on with.
\* Nothing obliges senders to send or anyone to call Close().
Fairness ==
    /\ \A w \in Workers : WF_vars(Worker(w))
    /\ WF_vars(ShutdownPool \/ ExitAcceptor)
    /\ WF_vars(JoinListenThread \/ ResetServer \/ ResetWriter)

FairSpec == Spec /\ Fairness

--------------------------------------------------------------------------------
TypeOK ==
    /\ pc \in [Workers -> PCs]
    /\ req \in [Workers -> Requests \cup {None}]
    /\ code \in [Workers -> Refusals \cup {Accepted, None}]
    /\ served \in [Workers -> 0..KeepAliveMax]
    /\ backlog \in 0..MaxBacklog
    /\ acceptor \in {"accepting", "draining", "exited"}
    /\ closer \in {"open", "stopped", "joined", "server reset", "closed"}
    /\ writerMutex \in Workers \cup {None}
    /\ txn \in {"none", "active"}
    /\ txnRows \in [Requests -> Nat]
    /\ body \in [Requests -> Bodies \cup {None}]
    /\ stored \in [Requests -> Nat]
    /\ faulted \in SUBSET Requests
    /\ answer \in [Requests -> Refusals \cup {Accepted, Pending, Lost}]

--------------------------------------------------------------------------------
(* Safety.                                                                 *)

Size(r) == IF body[r] = None THEN 0 ELSE body[r].rows
Answered(r) == answer[r] # Pending
WellFormed(r) == body[r] # None /\ Verdict(body[r]) = Accepted

\* A sender that saw 202 can query its rows: they were committed before the
\* answer was written, whatever other workers did to the shared writer.
AckedIsStored == \A r \in Requests : answer[r] = Accepted => stored[r] = Size(r)

\* A sender that saw an error status may send the request again without
\* storing it twice: none of its rows is left, nor ever will be.
RefusedLeavesNothing ==
    \A r \in Requests : answer[r] \in Refusals => stored[r] = 0

\* The appender's row-by-row work is never visible in part, even when the
\* answer was lost and nobody knows how the request ended.
AllOrNothing == \A r \in Requests : stored[r] \in {0, Size(r)}

\* The writer connection and its transaction belong to the worker inside the
\* mutex: no transaction outlives its section (the next BEGIN would throw) or
\* holds the rows of another request (the next COMMIT would store them).
WriterExclusive ==
    /\ \A w \in Workers : pc[w] \in Critical => writerMutex = w
    /\ txn = "active" => writerMutex # None
    /\ \A r \in Requests : txnRows[r] # 0 =>
          writerMutex # None /\ req[writerMutex] = r

\* A request that passes the checks is refused only because the database
\* failed it or its table is missing, never because of what another worker
\* was doing to the writer.
RefusalHasCause ==
    \A r \in Requests :
        WellFormed(r) /\ answer[r] \in Refusals =>
            r \in faulted \/ body[r].route \notin Tables

\* Once Close() has joined the listen thread, and so before it destroys the
\* server and the writer, no worker can touch them and every request that was
\* read has been answered.
JoinedMeansQuiet ==
    closer \in {"joined", "server reset", "closed"} =>
        /\ \A w \in Workers : pc[w] = "exited"
        /\ \A r \in Requests : body[r] # None => Answered(r)

\* Seen through its requests, stored rows and answers, the server is the
\* atomic intake: each accepted body appears in one step, before its answer.
Intake == INSTANCE LogIntake WITH
              received <- {r \in Requests : body[r] # None},
              rows <- [r \in Requests |-> Size(r)]
ImplementsIntake == Intake!Spec

--------------------------------------------------------------------------------
(* The inductive invariant behind the safety properties.                   *)

\* Each request being handled has one worker, and a request that was read is
\* either answered or still with its worker.
RequestsInv ==
    /\ \A w \in Workers : (req[w] # None) <=> (pc[w] \in Busy)
    /\ \A w \in Workers : (code[w] # None) <=> (pc[w] \in {"rollback", "unlock", "respond"})
    /\ \A w \in Workers : req[w] # None =>
          /\ body[req[w]] # None
          /\ ~Answered(req[w])
          /\ \A v \in Workers : req[v] = req[w] => v = w
    /\ \A r \in Requests :
          IF body[r] = None THEN stored[r] = 0 /\ ~Answered(r)
          ELSE Answered(r) \/ \E w \in Workers : req[w] = r

\* The mutex is held exactly inside a critical section, and the transaction is
\* open exactly between BEGIN and its end.
WriterInv ==
    /\ \A w \in Workers : (pc[w] \in Critical) <=> (writerMutex = w)
    /\ txn = "active" <=> \E w \in Workers : pc[w] \in {"appending", "commit", "rollback"}
    /\ \A r \in Requests : txnRows[r] # 0 =>
          \E w \in Workers : pc[w] \in {"appending", "commit", "rollback"} /\ req[w] = r

\* How much of its request a worker has stored, by the point it has reached.
ProgressInv ==
    \A w \in Workers : req[w] # None =>
        /\ stored[req[w]] = IF code[w] = Accepted THEN Size(req[w]) ELSE 0
        /\ pc[w] = "commit" => txnRows[req[w]] = Size(req[w])
        /\ pc[w] = "rollback" => code[w] # Accepted
        /\ pc[w] \in Critical \cup {"locking"} => WellFormed(req[w])
        /\ code[w] \in Refusals /\ WellFormed(req[w]) =>
              req[w] \in faulted \/ body[req[w]].route \notin Tables

\* Close() waits for the listen thread, which waits for every worker.
ShutdownInv ==
    /\ acceptor # "accepting" => closer # "open"
    /\ closer \in {"joined", "server reset", "closed"} => acceptor = "exited"
    /\ acceptor = "exited" => \A w \in Workers : pc[w] = "exited"

IInv ==
    /\ TypeOK /\ RequestsInv /\ WriterInv /\ ProgressInv /\ ShutdownInv
    /\ AckedIsStored /\ RefusedLeavesNothing /\ AllOrNothing /\ RefusalHasCause

--------------------------------------------------------------------------------
(* Liveness.                                                               *)

\* Close() returns: the listen thread and the pool drain whatever was queued
\* or in flight, in any order, and nobody waits for the mutex for ever.
CloseCompletes == closer = "stopped" ~> closer = "closed"
================================================================================
