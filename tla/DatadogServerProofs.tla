-------------------------- MODULE DatadogServerProofs --------------------------
(***************************************************************************)
(* What DatadogServer guarantees for every set of requests and workers,    *)
(* every kind of body and every bound, proved with TLAPS.                  *)
(***************************************************************************)
EXTENDS DatadogServer, TLAPS

\* The initial state is well typed.
LEMMA TypeInit == Init => TypeOK
BY BoundsAssumption DEF BoundsAssumption, Init, TypeOK, PCs, NoRows, Refusals

\* Each variable that counts keeps its range.
LEMMA CountsStep ==
  ASSUME TypeOK, RequestsInv, NEW w \in Workers, Worker(w)
  PROVE  /\ backlog' \in 0..MaxBacklog
         /\ served' \in [Workers -> 0..KeepAliveMax]
         /\ txnRows' \in [Requests -> Nat]
         /\ stored' \in [Requests -> Nat]
<1>1. /\ backlog \in 0..MaxBacklog
      /\ served \in [Workers -> 0..KeepAliveMax]
      /\ txnRows \in [Requests -> Nat]
      /\ stored \in [Requests -> Nat]
      /\ MaxBacklog \in Nat /\ KeepAliveMax \in Nat
  BY BoundsAssumption DEF TypeOK, BoundsAssumption
<1>2. pc[w] = "appending" => req[w] \in Requests
  <2>1. req[w] \in Requests \cup {None}
    BY DEF TypeOK
  <2>2. pc[w] = "appending" => req[w] # None
    BY DEF RequestsInv, Busy, Critical
  <2>3. QED
    BY <2>1, <2>2
<1>3. CASE TakeConnection(w) \/ EndConnection(w)
  BY <1>1, <1>3 DEF TakeConnection, EndConnection, writerVars
<1>4. CASE AppendRow(w)
  BY <1>1, <1>2, <1>4 DEF AppendRow, poolVars
<1>5. CASE Commit(w) \/ CommitFails(w) \/ Rollback(w)
  BY <1>1, <1>5 DEF Commit, CommitFails, Rollback, NoRows, poolVars
<1>6. CASE UNCHANGED <<backlog, served, txnRows, stored>>
  BY <1>1, <1>6
<1>7. QED
  BY <1>3, <1>4, <1>5, <1>6
     DEF Worker, Respond, ExitWorker, Handle, LockWriter, BeginTransaction,
         BeginFails, CloseAppender, AppendFails, UnlockWriter, poolVars,
         writerVars

\* Each variable that does not count keeps its range.
LEMMA ControlStep ==
  ASSUME TypeOK, RequestsInv, NEW w \in Workers, Worker(w)
  PROVE  /\ pc' \in [Workers -> PCs]
         /\ req' \in [Workers -> Requests \cup {None}]
         /\ code' \in [Workers -> Refusals \cup {Accepted, None}]
         /\ acceptor' = acceptor /\ closer' = closer /\ body' = body
         /\ writerMutex' \in Workers \cup {None}
         /\ txn' \in {"none", "active"}
         /\ faulted' \in SUBSET Requests
         /\ answer' \in [Requests -> Refusals \cup {Accepted, Pending, Lost}]
<1>1. /\ pc \in [Workers -> PCs]
      /\ req \in [Workers -> Requests \cup {None}]
      /\ code \in [Workers -> Refusals \cup {Accepted, None}]
      /\ writerMutex \in Workers \cup {None}
      /\ txn \in {"none", "active"}
      /\ faulted \in SUBSET Requests
      /\ answer \in [Requests -> Refusals \cup {Accepted, Pending, Lost}]
  BY DEF TypeOK
<1>2. pc[w] \in Busy => req[w] \in Requests
  BY <1>1 DEF RequestsInv
<1>3. pc[w] = "respond" => code[w] \in Refusals \cup {Accepted}
  BY DEF TypeOK, RequestsInv
<1> USE <1>1 DEF PCs, Goto, SetCode, poolVars, writerVars
<1>4. CASE TakeConnection(w) \/ EndConnection(w) \/ ExitWorker(w)
  BY <1>4 DEF TakeConnection, EndConnection, ExitWorker
<1>5. CASE Respond(w)
  BY <1>2, <1>3, <1>5 DEF Respond, Busy
<1>6. CASE Handle(w)
  BY <1>6 DEF Handle, Verdict, Refusals
<1>7. CASE LockWriter(w) \/ UnlockWriter(w)
  BY <1>7 DEF LockWriter, UnlockWriter
<1>8. CASE BeginTransaction(w) \/ BeginFails(w)
  BY <1>2, <1>8 DEF BeginTransaction, BeginFails, Refusals, Busy, Critical
<1>9. CASE AppendRow(w) \/ CloseAppender(w)
  BY <1>9 DEF AppendRow, CloseAppender
<1>10. CASE AppendFails(w)
  BY <1>2, <1>10 DEF AppendFails, Refusals, Busy, Critical
<1>11. CASE Commit(w) \/ CommitFails(w) \/ Rollback(w)
  BY <1>2, <1>11 DEF Commit, CommitFails, Rollback, Refusals, Busy, Critical
<1>12. QED
  BY <1>4, <1>5, <1>6, <1>7, <1>8, <1>9, <1>10, <1>11 DEF Worker

\* Every step keeps the types.
LEMMA TypeStep == TypeOK /\ RequestsInv /\ [Next]_vars => TypeOK'
<1> SUFFICES ASSUME TypeOK, RequestsInv, [Next]_vars PROVE TypeOK'
  OBVIOUS
<1>1. CASE Accept
  BY <1>1, BoundsAssumption DEF BoundsAssumption, TypeOK, Accept, writerVars
<1>2. CASE ShutdownPool \/ ExitAcceptor
  BY <1>2 DEF TypeOK, ShutdownPool, ExitAcceptor, writerVars
<1>3. CASE Close
  BY <1>3 DEF TypeOK, Close, StopServer, JoinListenThread, ResetServer,
              ResetWriter, CloserStep, writerVars
<1>4. ASSUME NEW w \in Workers, NEW r \in Requests, NEW b \in Bodies,
             ReadRequest(w, r, b)
      PROVE  TypeOK'
  BY <1>4, BoundsAssumption
     DEF BoundsAssumption, TypeOK, ReadRequest, PCs, Goto, writerVars
<1>5. ASSUME NEW w \in Workers, Worker(w)
      PROVE  TypeOK'
  BY <1>5, CountsStep, ControlStep DEF TypeOK
<1>6. CASE UNCHANGED vars
  BY <1>6 DEF TypeOK, vars
<1>7. QED
  BY <1>1, <1>2, <1>3, <1>4, <1>5, <1>6 DEF Next, Terminated

--------------------------------------------------------------------------------
(* One worker per request.                                                 *)

\* Only a commit changes what is stored, and only for requests that were read.
LEMMA StoredStep ==
  ASSUME TypeOK, RequestsInv, WriterInv, NEW w \in Workers, Worker(w),
         NEW r \in Requests, body[r] = None
  PROVE  stored'[r] = stored[r]
<1>1. stored \in [Requests -> Nat] /\ txnRows \in [Requests -> Nat]
  BY DEF TypeOK
<1>2. txnRows[r] = 0
  BY <1>1, NullAssumption DEF NullAssumption, WriterInv, RequestsInv
<1>3. CASE Commit(w)
  BY <1>1, <1>2, <1>3 DEF Commit
<1>4. CASE UNCHANGED stored
  BY <1>4
<1>5. QED
  BY <1>3, <1>4
     DEF Worker, TakeConnection, EndConnection, Respond, ExitWorker, Handle,
         LockWriter, BeginTransaction, BeginFails, AppendRow, CloseAppender,
         AppendFails, CommitFails, Rollback, UnlockWriter, writerVars

\* Every step keeps one worker per request being handled, until its answer.
LEMMA RequestsStep == TypeOK /\ RequestsInv /\ WriterInv /\ [Next]_vars => RequestsInv'
<1> SUFFICES ASSUME TypeOK, RequestsInv, WriterInv, [Next]_vars PROVE RequestsInv'
  OBVIOUS
<1>0. /\ pc \in [Workers -> PCs]
      /\ req \in [Workers -> Requests \cup {None}]
      /\ code \in [Workers -> Refusals \cup {Accepted, None}]
      /\ body \in [Requests -> Bodies \cup {None}]
      /\ answer \in [Requests -> Refusals \cup {Accepted, Pending, Lost}]
      /\ None \notin Requests /\ None \notin Bodies
      /\ None \notin Refusals \cup {Accepted}
  BY NullAssumption DEF TypeOK, NullAssumption
<1> USE <1>0 DEF RequestsInv, Answered, Busy, Critical
<1>1. CASE Accept \/ ShutdownPool \/ ExitAcceptor \/ Close \/ UNCHANGED vars
  BY <1>1 DEF Accept, ShutdownPool, ExitAcceptor, Close, StopServer,
              JoinListenThread, ResetServer, ResetWriter, CloserStep,
              writerVars, vars
<1>2. ASSUME NEW w \in Workers, NEW r \in Requests, NEW b \in Bodies,
             ReadRequest(w, r, b)
      PROVE  RequestsInv'
  BY <1>2 DEF ReadRequest, Goto, writerVars
<1>3. ASSUME NEW w \in Workers, Worker(w)
      PROVE  RequestsInv'
  <2>0. \A r \in Requests : body[r] = None => stored'[r] = stored[r]
    BY <1>3, StoredStep
  <2> USE <2>0 DEF Goto, SetCode, poolVars, writerVars
  <2>1. CASE TakeConnection(w) \/ EndConnection(w) \/ ExitWorker(w)
    BY <2>1 DEF TakeConnection, EndConnection, ExitWorker
  <2>2. CASE Respond(w)
    BY <2>2 DEF Respond, Pending, Lost, Accepted, Refusals
  <2>3. CASE Handle(w)
    BY <2>3 DEF Handle, Verdict, Refusals
  <2>4. CASE LockWriter(w) \/ UnlockWriter(w)
    BY <2>4 DEF LockWriter, UnlockWriter
  <2>5. CASE BeginTransaction(w) \/ BeginFails(w)
    BY <2>5 DEF BeginTransaction, BeginFails, Refusals
  <2>6. CASE AppendRow(w) \/ CloseAppender(w)
    BY <2>6 DEF AppendRow, CloseAppender
  <2>7. CASE AppendFails(w)
    BY <2>7 DEF AppendFails, Refusals
  <2>8. CASE Commit(w) \/ CommitFails(w)
    BY <2>8 DEF Commit, CommitFails, Refusals
  <2>9. CASE Rollback(w)
    BY <2>9 DEF Rollback
  <2>10. QED
    BY <1>3, <2>1, <2>2, <2>3, <2>4, <2>5, <2>6, <2>7, <2>8, <2>9 DEF Worker
<1>4. QED
  BY <1>1, <1>2, <1>3 DEF Next, Terminated

--------------------------------------------------------------------------------
(* The writer: mutual exclusion and one request per transaction.           *)

\* Every step keeps the writer and its transaction inside the mutex.
LEMMA WriterStep == TypeOK /\ RequestsInv /\ WriterInv /\ [Next]_vars => WriterInv'
<1> SUFFICES ASSUME TypeOK, RequestsInv, WriterInv, [Next]_vars PROVE WriterInv'
  OBVIOUS
<1>0. /\ pc \in [Workers -> PCs]
      /\ req \in [Workers -> Requests \cup {None}]
      /\ writerMutex \in Workers \cup {None}
      /\ txn \in {"none", "active"}
      /\ None \notin Requests /\ None \notin Workers
  BY NullAssumption DEF TypeOK, NullAssumption
<1> USE <1>0 DEF WriterInv, Critical
<1>1. CASE Accept \/ ShutdownPool \/ ExitAcceptor \/ Close \/ UNCHANGED vars
  BY <1>1 DEF Accept, ShutdownPool, ExitAcceptor, Close, StopServer,
              JoinListenThread, ResetServer, ResetWriter, CloserStep,
              writerVars, vars
<1>2. ASSUME NEW w \in Workers, NEW r \in Requests, NEW b \in Bodies,
             ReadRequest(w, r, b)
      PROVE  WriterInv'
  BY <1>2 DEF ReadRequest, Goto, writerVars
<1>3. ASSUME NEW w \in Workers, Worker(w)
      PROVE  WriterInv'
  <2> USE DEF Goto, SetCode, poolVars, writerVars
  <2>1. CASE TakeConnection(w) \/ EndConnection(w) \/ ExitWorker(w)
    BY <2>1 DEF TakeConnection, EndConnection, ExitWorker
  <2>2. CASE Respond(w)
    BY <2>2 DEF Respond
  <2>3. CASE Handle(w)
    BY <2>3 DEF Handle
  <2>4. CASE LockWriter(w) \/ UnlockWriter(w)
    BY <2>4 DEF LockWriter, UnlockWriter
  <2>5. CASE BeginTransaction(w) \/ BeginFails(w)
    BY <2>5 DEF BeginTransaction, BeginFails
  <2>6. CASE AppendRow(w)
    <3>1. txnRows \in [Requests -> Nat]
      BY DEF TypeOK
    <3>2. req[w] \in Requests
      BY <2>6 DEF RequestsInv, AppendRow, Busy
    <3>3. QED
      BY <2>6, <3>1, <3>2 DEF AppendRow
  <2>7. CASE CloseAppender(w) \/ AppendFails(w)
    BY <2>7 DEF CloseAppender, AppendFails
  <2>8. CASE Commit(w) \/ CommitFails(w) \/ Rollback(w)
    BY <2>8 DEF Commit, CommitFails, Rollback, NoRows
  <2>9. QED
    BY <1>3, <2>1, <2>2, <2>3, <2>4, <2>5, <2>6, <2>7, <2>8 DEF Worker
<1>4. QED
  BY <1>1, <1>2, <1>3 DEF Next, Terminated

\* Every step keeps the order in which Close() waits.
LEMMA ShutdownStep == TypeOK /\ ShutdownInv /\ [Next]_vars => ShutdownInv'
<1> SUFFICES ASSUME TypeOK, ShutdownInv, [Next]_vars PROVE ShutdownInv'
  OBVIOUS
<1>0. pc \in [Workers -> PCs]
  BY DEF TypeOK
<1> USE <1>0 DEF ShutdownInv
<1>1. CASE Accept \/ ShutdownPool \/ ExitAcceptor \/ Close \/ UNCHANGED vars
  BY <1>1 DEF Accept, ShutdownPool, ExitAcceptor, Close, StopServer,
              JoinListenThread, ResetServer, ResetWriter, CloserStep, vars
<1>2. ASSUME NEW w \in Workers, NEW r \in Requests, NEW b \in Bodies,
             ReadRequest(w, r, b)
      PROVE  ShutdownInv'
  BY <1>2 DEF ReadRequest, Goto
<1>3. ASSUME NEW w \in Workers, Worker(w)
      PROVE  ShutdownInv'
  <2>1. acceptor' = acceptor /\ closer' = closer
    BY <1>3 DEF Worker, TakeConnection, EndConnection, Respond, ExitWorker,
                Handle, LockWriter, BeginTransaction, BeginFails, AppendRow,
                CloseAppender, AppendFails, Commit, CommitFails, Rollback,
                UnlockWriter, poolVars
  <2>2. pc[w] # "exited"
    BY <1>3 DEF Worker, TakeConnection, EndConnection, Respond, ExitWorker,
                Handle, LockWriter, BeginTransaction, BeginFails, AppendRow,
                CloseAppender, AppendFails, Commit, CommitFails, Rollback,
                UnlockWriter
  <2>3. QED
    BY <2>1, <2>2
<1>4. QED
  BY <1>1, <1>2, <1>3 DEF Next, Terminated

--------------------------------------------------------------------------------
(* What a worker has stored by the point it has reached.                   *)

\* A commit stores all rows of its own request and nothing else.
LEMMA CommitStores ==
  ASSUME TypeOK, RequestsInv, WriterInv, ProgressInv,
         NEW w \in Workers, Commit(w), NEW r \in Requests
  PROVE  stored'[r] = IF r = req[w] THEN Size(r) ELSE stored[r]
<1>1. stored \in [Requests -> Nat] /\ txnRows \in [Requests -> Nat]
  BY DEF TypeOK
<1>2. stored'[r] = stored[r] + txnRows[r]
  BY DEF Commit
<1>3. pc[w] = "commit"
  BY DEF Commit
<1>4. CASE r = req[w]
  <2>1. code[w] = None
    BY <1>3 DEF RequestsInv
  <2>2. stored[r] = 0 /\ txnRows[r] = Size(r)
    BY <1>3, <1>4, <2>1, NullAssumption DEF ProgressInv, NullAssumption
  <2>3. QED
    BY <1>1, <1>2, <1>4, <2>2
<1>5. CASE r # req[w]
  <2>1. txnRows[r] = 0
    BY <1>3, <1>5 DEF WriterInv, Critical
  <2>2. QED
    BY <1>1, <1>2, <1>5, <2>1
<1>6. QED
  BY <1>4, <1>5

\* Every step keeps what a worker has stored in line with where it is.
LEMMA ProgressStep ==
  TypeOK /\ RequestsInv /\ WriterInv /\ ProgressInv /\ [Next]_vars => ProgressInv'
<1> SUFFICES ASSUME TypeOK, RequestsInv, WriterInv, ProgressInv, [Next]_vars
             PROVE  ProgressInv'
  OBVIOUS
<1>0. /\ pc \in [Workers -> PCs]
      /\ req \in [Workers -> Requests \cup {None}]
      /\ code \in [Workers -> Refusals \cup {Accepted, None}]
      /\ body \in [Requests -> Bodies \cup {None}]
      /\ None \notin Requests /\ None \notin Bodies
      /\ None \notin Refusals \cup {Accepted}
  BY NullAssumption DEF TypeOK, NullAssumption
<1> USE <1>0 DEF ProgressInv, Size, WellFormed, Critical
<1>1. CASE Accept \/ ShutdownPool \/ ExitAcceptor \/ Close \/ UNCHANGED vars
  BY <1>1 DEF Accept, ShutdownPool, ExitAcceptor, Close, StopServer,
              JoinListenThread, ResetServer, ResetWriter, CloserStep,
              writerVars, vars
<1>2. ASSUME NEW w \in Workers, NEW r \in Requests, NEW b \in Bodies,
             ReadRequest(w, r, b)
      PROVE  ProgressInv'
  BY <1>2 DEF ReadRequest, Goto, writerVars, RequestsInv, Busy
<1>3. ASSUME NEW w \in Workers, Worker(w)
      PROVE  ProgressInv'
  <2>0. \A v \in Workers : req[v] = req[w] /\ req[w] # None => v = w
    BY DEF RequestsInv
  <2>1. req[w] # None <=> pc[w] \in Busy
    BY DEF RequestsInv
  <2>2. code[w] # None <=> pc[w] \in {"rollback", "unlock", "respond"}
    BY DEF RequestsInv
  <2> USE <2>0, <2>1, <2>2 DEF Goto, SetCode, poolVars, writerVars, Busy
  <2>3. CASE TakeConnection(w) \/ EndConnection(w) \/ ExitWorker(w)
    BY <2>3 DEF TakeConnection, EndConnection, ExitWorker
  <2>4. CASE Respond(w)
    BY <2>4 DEF Respond
  <2>5. CASE Handle(w)
    <3>1. body[req[w]] # None
      BY <2>5 DEF Handle, RequestsInv
    <3>2. body[req[w]].rows \in Nat
      BY <2>5, <3>1, BoundsAssumption DEF BoundsAssumption, BodyType, Handle
    <3>3. QED
      BY <2>5, <3>1, <3>2 DEF Handle, Verdict, Refusals, Accepted
  <2>6. CASE LockWriter(w) \/ UnlockWriter(w)
    BY <2>6 DEF LockWriter, UnlockWriter
  <2>7. CASE BeginTransaction(w) \/ BeginFails(w)
    <3>1. pc[w] = "begin" => txn # "active"
      BY DEF WriterInv
    <3>2. QED
      BY <2>7, <3>1 DEF BeginTransaction, BeginFails, Refusals, Accepted
  <2>8. CASE AppendRow(w)
    <3>1. \A v \in Workers : pc[v] # "commit"
      BY <2>8 DEF WriterInv, AppendRow
    <3>2. QED
      BY <2>8, <3>1 DEF AppendRow
  <2>9. CASE CloseAppender(w)
    BY <2>9 DEF CloseAppender
  <2>10. CASE AppendFails(w)
    BY <2>10 DEF AppendFails, Refusals, Accepted
  <2>11. CASE Commit(w)
    <3>1. \A v \in Workers \ {w} : pc[v] # "commit"
      BY <2>11 DEF WriterInv, Commit
    <3>2. \A r \in Requests :
            stored'[r] = IF r = req[w] THEN Size(r) ELSE stored[r]
      BY <2>11, CommitStores
    <3>3. QED
      BY <2>11, <3>1, <3>2 DEF Commit, Refusals, Accepted
  <2>12. CASE CommitFails(w)
    <3>1. \A v \in Workers \ {w} : pc[v] # "commit"
      BY <2>12 DEF WriterInv, CommitFails
    <3>2. QED
      BY <2>12, <3>1 DEF CommitFails, Refusals, Accepted
  <2>13. CASE Rollback(w)
    <3>1. \A v \in Workers : pc[v] # "commit"
      BY <2>13 DEF WriterInv, Rollback
    <3>2. QED
      BY <2>13, <3>1 DEF Rollback
  <2>14. QED
    BY <1>3, <2>3, <2>4, <2>5, <2>6, <2>7, <2>8, <2>9, <2>10, <2>11, <2>12,
       <2>13 DEF Worker
<1>4. QED
  BY <1>1, <1>2, <1>3 DEF Next, Terminated

--------------------------------------------------------------------------------
(* What an answer says about the tables.                                   *)

\* No step changes the stored rows of an answered request, and an answer is
\* given in the state ProgressInv describes.
LEMMA AnswersStep ==
  ASSUME IInv, [Next]_vars
  PROVE  AckedIsStored' /\ RefusedLeavesNothing' /\ AllOrNothing' /\ RefusalHasCause'
<1>0. /\ TypeOK /\ RequestsInv /\ WriterInv /\ ProgressInv
      /\ req \in [Workers -> Requests \cup {None}]
      /\ code \in [Workers -> Refusals \cup {Accepted, None}]
      /\ body \in [Requests -> Bodies \cup {None}]
      /\ answer \in [Requests -> Refusals \cup {Accepted, Pending, Lost}]
      /\ faulted \in SUBSET Requests
      /\ None \notin Requests /\ None \notin Bodies
      /\ None \notin Refusals \cup {Accepted}
  BY NullAssumption DEF IInv, TypeOK, NullAssumption
<1> USE <1>0
    DEF IInv, AckedIsStored, RefusedLeavesNothing, AllOrNothing,
        RefusalHasCause, Size, WellFormed
<1>1. CASE UNCHANGED <<body, stored, faulted, answer>>
  BY <1>1
<1>2. CASE Accept \/ ShutdownPool \/ ExitAcceptor \/ Close \/ UNCHANGED vars
  BY <1>1, <1>2 DEF Accept, ShutdownPool, ExitAcceptor, Close, StopServer,
              JoinListenThread, ResetServer, ResetWriter, CloserStep,
              writerVars, vars
<1>3. ASSUME NEW w \in Workers, NEW r \in Requests, NEW b \in Bodies,
             ReadRequest(w, r, b)
      PROVE  AckedIsStored' /\ RefusedLeavesNothing' /\ AllOrNothing' /\ RefusalHasCause'
  BY <1>3 DEF ReadRequest, writerVars, RequestsInv, Answered, Pending, Accepted,
              Refusals
<1>4. ASSUME NEW w \in Workers, Worker(w)
      PROVE  AckedIsStored' /\ RefusedLeavesNothing' /\ AllOrNothing' /\ RefusalHasCause'
  <2>1. CASE Respond(w)
    <3>0. /\ pc[w] = "respond"
          /\ \E seen \in {code[w], Lost} : answer' = [answer EXCEPT ![req[w]] = seen]
          /\ UNCHANGED <<body, stored, faulted>>
      BY <2>1 DEF Respond, writerVars
    <3>1. req[w] \in Requests /\ code[w] \in Refusals \cup {Accepted}
      BY <3>0 DEF RequestsInv, Busy
    <3>2. stored[req[w]] = IF code[w] = Accepted THEN Size(req[w]) ELSE 0
      BY <3>0, <3>1 DEF ProgressInv
    <3>3. code[w] \in Refusals /\ WellFormed(req[w]) =>
              req[w] \in faulted \/ body[req[w]].route \notin Tables
      BY <3>0, <3>1 DEF ProgressInv
    <3>4. QED
      BY <3>0, <3>1, <3>2, <3>3 DEF Lost, Refusals, Accepted
  <2>2. CASE Commit(w)
    <3>1. /\ pc[w] = "commit" /\ req[w] \in Requests
          /\ ~Answered(req[w])
          /\ UNCHANGED <<body, faulted, answer>>
      BY <2>2 DEF Commit, RequestsInv, Busy, Critical
    <3>2. \A r \in Requests : stored'[r] = IF r = req[w] THEN Size(r) ELSE stored[r]
      BY <2>2, CommitStores
    <3>3. QED
      BY <3>1, <3>2 DEF Answered, Pending, Accepted, Refusals
  <2>3. CASE BeginFails(w) \/ AppendFails(w) \/ CommitFails(w)
    <3>1. /\ UNCHANGED <<body, stored, answer>>
          /\ faulted \subseteq faulted'
      BY <2>3 DEF BeginFails, AppendFails, CommitFails
    <3>2. QED
      BY <3>1
  <2>4. QED
    BY <1>1, <1>4, <2>1, <2>2, <2>3
       DEF Worker, TakeConnection, EndConnection, ExitWorker, Handle,
           LockWriter, BeginTransaction, AppendRow, CloseAppender, Rollback,
           UnlockWriter, writerVars
<1>5. QED
  BY <1>2, <1>3, <1>4 DEF Next, Terminated

--------------------------------------------------------------------------------
\* The initial state satisfies the inductive invariant.
LEMMA InvInit == Init => IInv
<1> SUFFICES ASSUME Init PROVE IInv
  OBVIOUS
<1>1. TypeOK
  BY TypeInit
<1>2. RequestsInv
  BY NullAssumption DEF NullAssumption, Init, RequestsInv, Answered, Busy,
                        Critical, NoRows
<1>3. WriterInv
  BY NullAssumption DEF NullAssumption, Init, WriterInv, Critical, NoRows
<1>4. ProgressInv /\ ShutdownInv
  BY DEF Init, ProgressInv, ShutdownInv
<1>5. AckedIsStored /\ RefusedLeavesNothing /\ AllOrNothing /\ RefusalHasCause
  BY DEF Init, AckedIsStored, RefusedLeavesNothing, AllOrNothing,
         RefusalHasCause, NoRows, Pending, Accepted, Refusals
<1>6. QED
  BY <1>1, <1>2, <1>3, <1>4, <1>5 DEF IInv

\* Every step keeps the inductive invariant.
LEMMA InvStep == IInv /\ [Next]_vars => IInv'
BY TypeStep, RequestsStep, WriterStep, ProgressStep, ShutdownStep, AnswersStep
   DEF IInv

\* The inductive invariant holds in every reachable state: each request in
\* flight has one worker, the transaction belongs to the holder of
\* writer_mutex, and what is stored follows from the point reached.
THEOREM Invariance == Spec => []IInv
BY InvInit, InvStep, PTL DEF Spec

\* Every variable keeps its type.
THEOREM TypeCorrect == Spec => []TypeOK
<1>1. IInv => TypeOK
  BY DEF IInv
<1>2. QED
  BY <1>1, Invariance, PTL

\* 202 is answered only for rows that are committed: "Accepted rows are
\* committed synchronously".
THEOREM AckedRowsAreStored == Spec => []AckedIsStored
<1>1. IInv => AckedIsStored
  BY DEF IInv
<1>2. QED
  BY <1>1, Invariance, PTL

\* An error status is answered only when no row of the request was kept.
THEOREM RefusedRowsAreNot == Spec => []RefusedLeavesNothing
<1>1. IInv => RefusedLeavesNothing
  BY DEF IInv
<1>2. QED
  BY <1>1, Invariance, PTL

\* A request's rows are stored all together or not at all.
THEOREM RequestsAreAtomic == Spec => []AllOrNothing
<1>1. IInv => AllOrNothing
  BY DEF IInv
<1>2. QED
  BY <1>1, Invariance, PTL

\* writer_mutex makes the shared writer and its transaction private to one
\* worker at a time.
THEOREM WriterIsExclusive == Spec => []WriterExclusive
<1>1. IInv => WriterExclusive
  <2> SUFFICES ASSUME IInv PROVE WriterExclusive
    OBVIOUS
  <2>1. None \notin Workers /\ WriterInv
    BY NullAssumption DEF NullAssumption, IInv
  <2>2. \A w \in Workers : pc[w] \in Critical => writerMutex = w
    BY <2>1 DEF WriterInv
  <2>3. \A w \in Workers : pc[w] \in {"appending", "commit", "rollback"} =>
           writerMutex = w /\ writerMutex # None
    BY <2>1, <2>2 DEF Critical
  <2>4. QED
    BY <2>1, <2>2, <2>3 DEF WriterInv, WriterExclusive
<1>2. QED
  BY <1>1, Invariance, PTL

\* No well-formed request is refused without a database fault of its own.
THEOREM RefusalsHaveCauses == Spec => []RefusalHasCause
<1>1. IInv => RefusalHasCause
  BY DEF IInv
<1>2. QED
  BY <1>1, Invariance, PTL

\* Close() destroys the server and its writer only after the last answer.
THEOREM CloseWaitsForWorkers == Spec => []JoinedMeansQuiet
<1>1. IInv => JoinedMeansQuiet
  <2> SUFFICES ASSUME IInv, closer \in {"joined", "server reset", "closed"}
               PROVE  /\ \A w \in Workers : pc[w] = "exited"
                      /\ \A r \in Requests : body[r] # None => Answered(r)
    BY DEF JoinedMeansQuiet
  <2>1. \A w \in Workers : pc[w] = "exited"
    BY DEF IInv, ShutdownInv
  <2>2. \A w \in Workers : req[w] = None
    BY <2>1 DEF IInv, RequestsInv, Busy, Critical
  <2>3. \A r \in Requests : body[r] # None =>
            Answered(r) \/ \E w \in Workers : req[w] = r
    BY DEF IInv, RequestsInv
  <2>4. QED
    BY <2>1, <2>2, <2>3, NullAssumption DEF NullAssumption
<1>2. QED
  BY <1>1, Invariance, PTL

--------------------------------------------------------------------------------
(* The server implements the atomic intake.                                *)

\* The initial state is an initial state of the intake.
LEMMA RefineInit == Init => Intake!Init
BY DEF Init, Intake!Init, Size, NoRows, Pending, Intake!Pending

\* Reading a request is Receive, COMMIT is Store, the response is Answer; all
\* other steps are invisible.
LEMMA RefineStep == IInv /\ [Next]_vars => [Intake!Next]_(Intake!vars)
<1> SUFFICES ASSUME IInv, [Next]_vars PROVE [Intake!Next]_(Intake!vars)
  OBVIOUS
<1>0. /\ TypeOK /\ RequestsInv /\ WriterInv /\ ProgressInv
      /\ req \in [Workers -> Requests \cup {None}]
      /\ code \in [Workers -> Refusals \cup {Accepted, None}]
      /\ body \in [Requests -> Bodies \cup {None}]
      /\ stored \in [Requests -> Nat]
      /\ None \notin Requests /\ None \notin Bodies
      /\ None \notin Refusals \cup {Accepted}
  BY NullAssumption DEF IInv, TypeOK, NullAssumption
<1>1. CASE UNCHANGED <<body, stored, answer>>
  BY <1>1 DEF Intake!vars, Size
<1>2. CASE Accept \/ ShutdownPool \/ ExitAcceptor \/ Close \/ UNCHANGED vars
  BY <1>1, <1>2 DEF Accept, ShutdownPool, ExitAcceptor, Close, StopServer,
              JoinListenThread, ResetServer, ResetWriter, CloserStep,
              writerVars, vars
<1>3. ASSUME NEW w \in Workers, NEW r \in Requests, NEW b \in Bodies,
             ReadRequest(w, r, b)
      PROVE  [Intake!Next]_(Intake!vars)
  <2>1. /\ body[r] = None /\ body' = [body EXCEPT ![r] = b]
        /\ UNCHANGED <<stored, answer>>
    BY <1>3 DEF ReadRequest, writerVars
  <2>2. b.rows \in 0..MaxRows /\ b # None
    BY <1>0, BoundsAssumption DEF BoundsAssumption, BodyType
  <2>3. {q \in Requests : body'[q] # None} = {q \in Requests : body[q] # None} \cup {r}
    BY <1>0, <2>1, <2>2
  <2>4. [q \in Requests |-> Size(q)]' = [[q \in Requests |-> Size(q)] EXCEPT ![r] = b.rows]
    BY <1>0, <2>1, <2>2 DEF Size
  <2>5. Intake!Receive(r)
    BY <2>1, <2>2, <2>3, <2>4 DEF Intake!Receive
  <2>6. QED
    BY <2>5 DEF Intake!Next
<1>4. ASSUME NEW w \in Workers, Worker(w)
      PROVE  [Intake!Next]_(Intake!vars)
  <2>1. CASE Respond(w)
    <3>1. /\ pc[w] = "respond"
          /\ \E seen \in {code[w], Lost} : answer' = [answer EXCEPT ![req[w]] = seen]
          /\ UNCHANGED <<body, stored>>
      BY <2>1 DEF Respond, writerVars
    <3>2. req[w] \in Requests /\ code[w] \in Refusals \cup {Accepted}
      BY <1>0, <3>1 DEF RequestsInv, Busy
    <3>3. body[req[w]] # None /\ answer[req[w]] = Pending
      BY <1>0, <3>2 DEF RequestsInv, Answered
    <3>4. stored[req[w]] = IF code[w] = Accepted THEN Size(req[w]) ELSE 0
      BY <1>0, <3>1, <3>2 DEF ProgressInv
    <3>5. PICK seen \in {code[w], Lost} : answer' = [answer EXCEPT ![req[w]] = seen]
      BY <3>1
    <3>6. UNCHANGED <<{q \in Requests : body[q] # None}, [q \in Requests |-> Size(q)]>>
      BY <3>1 DEF Size
    <3>7. Intake!Answer(req[w], seen)
      BY <3>1, <3>2, <3>3, <3>4, <3>5, <3>6
         DEF Intake!Answer, Intake!Accepted, Intake!Pending,
             Accepted, Refusals, Pending, Lost
    <3>8. QED
      BY <3>2, <3>7 DEF Intake!Next, Intake!Accepted,
                        Intake!Lost, Refusals, Accepted, Lost
  <2>2. CASE Commit(w)
    <3>1. pc[w] = "commit" /\ UNCHANGED <<body, answer>>
      BY <2>2 DEF Commit
    <3>2. req[w] \in Requests /\ code[w] = None
      BY <1>0, <3>1 DEF RequestsInv, Busy, Critical
    <3>3. body[req[w]] # None /\ answer[req[w]] = Pending
      BY <1>0, <3>2 DEF RequestsInv, Answered
    <3>4. stored[req[w]] = 0
      BY <1>0, <3>2 DEF ProgressInv
    <3>5. \A r \in Requests : stored'[r] = IF r = req[w] THEN Size(r) ELSE stored[r]
      BY <1>0, <2>2, CommitStores
    <3>6. stored' = [stored EXCEPT ![req[w]] = Size(req[w])]
      <4>1. stored' = [r \in Requests |-> stored[r] + txnRows[r]]
        BY <2>2 DEF Commit
      <4>2. QED
        BY <1>0, <3>2, <3>5, <4>1
    <3>7. UNCHANGED <<{q \in Requests : body[q] # None}, [q \in Requests |-> Size(q)]>>
      BY <3>1 DEF Size
    <3>8. Intake!Store(req[w])
      BY <3>1, <3>2, <3>3, <3>4, <3>6, <3>7
         DEF Intake!Store, Intake!Pending, Pending
    <3>9. QED
      BY <3>2, <3>8 DEF Intake!Next
  <2>3. QED
    BY <1>1, <1>4, <2>1, <2>2
       DEF Worker, TakeConnection, EndConnection, ExitWorker, Handle,
           LockWriter, BeginTransaction, BeginFails, AppendRow, CloseAppender,
           AppendFails, CommitFails, Rollback, UnlockWriter, writerVars
<1>5. QED
  BY <1>2, <1>3, <1>4 DEF Next, Terminated

\* Whatever the workers, the mutex and the transactions do, a sender sees an
\* intake that stores each body in one step before answering it.
THEOREM ServerImplementsIntake == Spec => ImplementsIntake
<1>1. Spec => Intake!Init /\ [][Intake!Next]_(Intake!vars)
  BY RefineInit, RefineStep, Invariance, PTL DEF Spec
<1>2. QED
  BY <1>1 DEF ImplementsIntake, Intake!Spec
================================================================================
