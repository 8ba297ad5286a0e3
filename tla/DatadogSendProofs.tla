--------------------------- MODULE DatadogSendProofs ---------------------------
(***************************************************************************)
(* What the senders guarantee for every number of threads, rows, batches,  *)
(* retries and connections, proved with TLAPS.                             *)
(***************************************************************************)
EXTENDS DatadogSend, OperatorProofs, SequenceTheorems, FiniteSetTheorems, TLAPS

\* The delay after a 429, whatever the rate-limit headers say.
LEMMA HeadersRange ==
  ASSUME NEW a \in Nat, NEW reset \in Headers, NEW retryAfter \in Headers
  PROVE  RateLimitRetryDelaySeconds(reset, retryAfter, a) \in 1..60
BY RateLimitRange, LimitsAssumption DEF LimitsAssumption

\* The initial state satisfies the invariant.
LEMMA InvInit == Init => IInv
<1> SUFFICES ASSUME Init PROVE IInv
  OBVIOUS
<1> USE LimitsAssumption DEF LimitsAssumption, Init, Intake!Init, Intake!Pending
<1>1. TypeOK
  BY DEF TypeOK, Requests
<1>2. CallInv
  BY NullAssumption DEF NullAssumption, CallInv, Connected
<1>3. RequestsInv /\ BatchesInOrder /\ SupersededInv /\ AnswersInv
  BY DEF RequestsInv, BatchesInOrder, SupersededInv, AnswersInv
<1>4. AttemptsInv
  BY NullAssumption DEF NullAssumption, AttemptsInv, AttemptsOf, Connected, Outcomes,
     TransportErrors, Statuses
<1>5. OkIsStored
  BY DEF OkIsStored
<1>6. SocketsInv
  BY NullAssumption DEF NullAssumption, SocketsInv, Outcomes, Statuses
<1>7. PoolIsHealthy
  <2>1. Len(pool) = 0
    OBVIOUS
  <2>2. QED
    BY <2>1 DEF PoolIsHealthy
<1>8. QED
  BY <1>1, <1>2, <1>3, <1>4, <1>5, <1>6, <1>7 DEF IInv

--------------------------------------------------------------------------------
(* Types.                                                                  *)

\* The message of an attempt is a request.
LEMMA MessageIsRequest ==
  ASSUME TypeOK, NEW t \in Threads
  PROVE  Message(t) \in Requests
BY DEF TypeOK, Message, Requests

\* The variables of a thread keep their types.
LEMMA ThreadTypeStep ==
  ASSUME TypeOK, CallInv, NEW t \in Threads, Thread(t) \/ \E c \in Chunks : Collect(t, c)
  PROVE  /\ pc' \in [Threads -> Running \cup Ended \cup {"idle"}]
         /\ kind' = kind /\ query' = query
         /\ logs' \in [Threads -> Seq(Nat)]
         /\ offset' \in [Threads -> 0..MaxRows]
         /\ batchEnd' \in [Threads -> 0..MaxRows]
         /\ attempt' \in [Threads -> 0..MaxRetries]
         /\ outcome' \in [Threads -> Outcomes \cup {None}]
         /\ wait' \in [Threads -> 0..60]
<1>0. /\ pc \in [Threads -> Running \cup Ended \cup {"idle"}]
      /\ logs \in [Threads -> Seq(Nat)]
      /\ offset \in [Threads -> 0..MaxRows]
      /\ batchEnd \in [Threads -> 0..MaxRows]
      /\ attempt \in [Threads -> 0..MaxRetries]
      /\ outcome \in [Threads -> Outcomes \cup {None}]
      /\ wait \in [Threads -> 0..60]
      /\ MaxRows \in Nat /\ MaxRetries \in Nat
  BY LimitsAssumption DEF TypeOK, LimitsAssumption
<1> USE <1>0 DEF Goto, Throw, Running, Ended
<1>1. ASSUME NEW c \in Chunks, Collect(t, c)
      PROVE  logs' \in [Threads -> Seq(Nat)]
  BY <1>1, LimitsAssumption DEF LimitsAssumption, Collect
<1>2. CASE \E c \in Chunks : Collect(t, c)
  BY <1>1, <1>2 DEF Collect
<1>3. CASE NextBatch(t)
  <2>1. Len(logs[t]) \in 0..MaxRows
    BY DEF CallInv
  <2>2. batchEnd' \in [Threads -> 0..MaxRows]
    BY <1>3, <2>1 DEF NextBatch
  <2>3. QED
    BY <1>3, <2>2 DEF NextBatch
<1>4. CASE StopBatching(t) \/ FinishCall(t) \/ AcquireIdle(t) \/ AcquireNone(t)
           \/ Interrupted(t) \/ Post(t)
  BY <1>4 DEF StopBatching, FinishCall, AcquireIdle, AcquireNone, Interrupted, Post
<1>5. ASSUME NEW c \in Connections, NewConnection(t, c)
      PROVE  pc' \in [Threads -> Running \cup Ended \cup {"idle"}]
  BY <1>5 DEF NewConnection
<1>6. CASE \E c \in Connections : NewConnection(t, c)
  BY <1>5, <1>6 DEF NewConnection
<1>7. CASE TransportFails(t) \/ Answered(t)
  <2>1. \E o \in Outcomes : outcome' = [outcome EXCEPT ![t] = o]
    <3>1. CASE TransportFails(t)
      BY <3>1 DEF TransportFails, Outcomes
    <3>2. CASE Answered(t)
      BY <3>2 DEF Answered, Class, Outcomes, Statuses
    <3>3. QED
      BY <1>7, <3>1, <3>2
  <2>2. /\ pc' = [pc EXCEPT ![t] = "answered"]
        /\ UNCHANGED <<kind, logs, offset, batchEnd, attempt, wait, query>>
    BY <1>7 DEF TransportFails, Answered
  <2>3. QED
    BY <2>1, <2>2
<1>8. ASSUME NEW seconds \in 1..60, Sleep(t, seconds)
      PROVE  wait' \in [Threads -> 0..60]
  BY <1>8 DEF Sleep
<1>9. CASE RetryStatus(t)
  <2>1. attempt[t] \in Nat
    OBVIOUS
  <2>2. \E seconds \in 1..60 : Sleep(t, seconds)
    BY <1>9, <2>1, BackoffRange, HeadersRange DEF RetryStatus
  <2>3. QED
    BY <2>2, <1>8 DEF Sleep
<1>10. CASE \E c \in Connections : RetryReconnected(t, c)
  <2>1. attempt[t] \in Nat
    OBVIOUS
  <2>2. \E seconds \in 1..60 : Sleep(t, seconds)
    BY <1>10, <2>1, BackoffRange DEF RetryReconnected
  <2>3. QED
    BY <2>2, <1>8 DEF Sleep
<1>11. CASE Wake(t)
  <2>1. attempt[t] < MaxRetries
    BY <1>11 DEF CallInv, Wake
  <2>2. attempt' \in [Threads -> 0..MaxRetries]
    BY <1>11, <2>1 DEF Wake
  <2>3. QED
    BY <1>11, <2>2 DEF Wake
<1>12. CASE GiveUp(t)
  BY <1>12 DEF GiveUp
<1>13. CASE Acknowledge(t)
  <2>1. pc' = [pc EXCEPT ![t] = "batching"]
    BY <1>13 DEF Acknowledge
  <2>2. /\ offset' = [offset EXCEPT ![t] = batchEnd[t]]
        /\ attempt' = [attempt EXCEPT ![t] = 0]
        /\ outcome' = [outcome EXCEPT ![t] = None]
        /\ UNCHANGED <<kind, logs, batchEnd, wait, query>>
    BY <1>13 DEF Acknowledge
  <2>3. QED
    BY <2>1, <2>2
<1>14. QED
  BY <1>2, <1>3, <1>4, <1>6, <1>7, <1>9, <1>10, <1>11, <1>12, <1>13 DEF Thread

\* Post adds one request, which carries the rows of the batch.
LEMMA PostEffect ==
  ASSUME TypeOK, CallInv, NEW t \in Threads, Post(t)
  PROVE  /\ Message(t) \notin received
         /\ received' = received \cup {Message(t)}
         /\ batchEnd[t] - offset[t] \in 0..MaxRows
         /\ rows' = [rows EXCEPT ![Message(t)] = batchEnd[t] - offset[t]]
         /\ UNCHANGED <<stored, answer, query>>
<1>0. /\ rows \in [Requests -> 0..MaxRows] /\ Message(t) \in Requests
      /\ offset[t] \in 0..MaxRows /\ batchEnd[t] \in 0..MaxRows
      /\ offset[t] < batchEnd[t] /\ MaxRows \in Nat
  BY MessageIsRequest, LimitsAssumption
     DEF TypeOK, CallInv, Post, Connected, LimitsAssumption
<1>1. PICK n \in 0..MaxRows : rows' = [rows EXCEPT ![Message(t)] = n]
  BY DEF Post, Intake!Receive
<1>2. rows'[Message(t)] = n /\ rows'[Message(t)] = batchEnd[t] - offset[t]
  BY <1>0, <1>1 DEF Post
<1>3. QED
  BY <1>0, <1>1, <1>2 DEF Post, Intake!Receive

\* No other step of a thread touches the intake.
LEMMA ThreadLeavesIntake ==
  ASSUME NEW t \in Threads, Thread(t) \/ \E c \in Chunks : Collect(t, c)
  PROVE  Post(t) \/ UNCHANGED intakeVars
BY DEF Thread, Collect, NextBatch, StopBatching, FinishCall, AcquireIdle,
       AcquireNone, NewConnection, Interrupted, TransportFails, Answered,
       RetryReconnected, RetryStatus, Sleep, Wake, GiveUp, Acknowledge

\* The intake stores all rows of a request that nobody has answered yet.
LEMMA StoreEffect ==
  ASSUME NEW m \in Requests, IntakeStore(m)
  PROVE  /\ m \in received /\ stored[m] = 0 /\ answer[m] = Intake!Pending
         /\ stored' = [stored EXCEPT ![m] = rows[m]]
         /\ UNCHANGED <<received, rows, answer, threadVars, pool, socket, query>>
BY DEF IntakeStore, Intake!Store

\* An answer is given once, to a waiting thread; 202 tells the truth, and so
\* does an error if the intake is truthful.
LEMMA AnswerEffect ==
  ASSUME NEW m \in Requests, IntakeAnswer(m)
  PROVE  /\ m \in received /\ answer[m] = Intake!Pending
         /\ \E status \in Refusals \cup {Intake!Accepted} :
               /\ answer' = [answer EXCEPT ![m] = status]
               /\ status = Intake!Accepted => stored[m] = rows[m]
               /\ TruthfulErrors /\ status \in Refusals => stored[m] = 0
         /\ UNCHANGED <<received, rows, stored, threadVars, pool, socket, query>>
<1>1. CASE AnswerFalsely(m)
  BY <1>1 DEF IntakeAnswer, AnswerFalsely, Refusals, Intake!Accepted
<1>2. CASE \E status \in Refusals \cup {Intake!Accepted} : Intake!Answer(m, status)
  BY <1>2 DEF IntakeAnswer, Intake!Answer
<1>3. QED
  BY <1>1, <1>2 DEF IntakeAnswer

\* What is left of a stack without its top.
LEMMA FrontProperties ==
  ASSUME NEW S, NEW s \in Seq(S), s # <<>>
  PROVE  /\ SubSeq(s, 1, Len(s) - 1) \in Seq(S)
         /\ Len(SubSeq(s, 1, Len(s) - 1)) = Len(s) - 1
         /\ \A k \in 1 .. Len(s) - 1 : SubSeq(s, 1, Len(s) - 1)[k] = s[k]
<1> DEFINE n == Len(s) - 1
           front == SubSeq(s, 1, n)
<1>1. n \in Nat /\ n < Len(s) /\ Len(s) \in Nat
  OBVIOUS
<1>2. 1 \in Int /\ n \in Int /\ \A i \in 1..n : s[i] \in S
  BY <1>1
<1> HIDE DEF n
<1>3. /\ front \in Seq(S)
      /\ Len(front) = IF 1 <= n THEN n - 1 + 1 ELSE 0
      /\ \A i \in 1 .. n - 1 + 1 : front[i] = s[1 + i - 1]
  BY <1>2, SubSeqProperties
<1>4. front \in Seq(S) /\ Len(front) = n /\ \A i \in 1..n : front[i] = s[i]
  <2>1. n - 1 + 1 = n /\ \A i \in 1..n : 1 + i - 1 = i
    BY <1>1
  <2> HIDE DEF front
  <2>2. QED
    BY <1>1, <1>3, <2>1
<1>5. QED
  BY <1>4 DEF n

\* The last idle connection leaves the pool.
LEMMA PopEffect ==
  ASSUME TypeOK, NEW t \in Threads, AcquireIdle(t)
  PROVE  /\ Len(pool) \in Nat \ {0}
         /\ conn' = [conn EXCEPT ![t] = pool[Len(pool)]]
         /\ pool[Len(pool)] \in Connections
         /\ pool' \in Seq(Connections) /\ Len(pool') = Len(pool) - 1
         /\ \A k \in 1..Len(pool') : pool'[k] = pool[k]
         /\ UNCHANGED socket
<1>1. pool \in Seq(Connections) /\ pool # <<>>
  BY DEF TypeOK, AcquireIdle
<1>2. Len(pool) \in Nat \ {0}
  BY <1>1
<1>3. pool' = SubSeq(pool, 1, Len(pool) - 1)
  BY DEF AcquireIdle
<1>4. /\ pool' \in Seq(Connections) /\ Len(pool') = Len(pool) - 1
      /\ \A k \in 1..Len(pool') : pool'[k] = pool[k]
  BY <1>1, <1>3, FrontProperties
<1>5. QED
  BY <1>1, <1>2, <1>4 DEF AcquireIdle

\* A released connection enters the pool and leaves its thread.
LEMMA PushEffect ==
  ASSUME TypeOK, CallInv, NEW t \in Threads, Acknowledge(t), kind[t] = "logs"
  PROVE  /\ conn[t] \in Connections
         /\ conn' = [conn EXCEPT ![t] = None]
         /\ pool' \in Seq(Connections) /\ Len(pool') = Len(pool) + 1
         /\ \A k \in 1..Len(pool) : pool'[k] = pool[k]
         /\ pool'[Len(pool) + 1] = conn[t]
         /\ UNCHANGED socket
<1>1. pool \in Seq(Connections) /\ conn[t] \in Connections
  BY DEF TypeOK, CallInv, Acknowledge, Connected
<1>2. pool' = Append(pool, conn[t])
  BY DEF Acknowledge
<1>3. QED
  BY <1>1, <1>2 DEF Acknowledge

\* What a step of a thread does to the connections, one line per kind of step.
LEMMA ConnectionEffect ==
  ASSUME TypeOK, CallInv, NEW t \in Threads, Thread(t) \/ \E c \in Chunks : Collect(t, c)
  PROVE  \/ /\ UNCHANGED <<conn, pool, socket>>
            /\ pc'[t] \in Connected =>
                  \/ pc[t] \in {"posting", "waiting", "sleeping"}
                  \/ pc[t] = "answered" /\ outcome[t] \in Statuses
         \/ AcquireIdle(t)
         \/ \E c \in Connections : NewConnection(t, c)
         \/ (\E label \in Ended \cup {"batching"} : Throw(t, label)) /\ UNCHANGED pool
         \/ TransportFails(t)
         \/ \E c \in Connections : RetryReconnected(t, c)
         \/ Acknowledge(t) /\ kind[t] = "logs"
<1>0. pc \in [Threads -> Running \cup Ended \cup {"idle"}]
  BY DEF TypeOK
<1>1. CASE Interrupted(t) \/ GiveUp(t)
  BY <1>1 DEF Interrupted, GiveUp, Ended
<1>2. CASE Acknowledge(t)
  BY <1>2 DEF Acknowledge
<1>3. CASE (\E c \in Chunks : Collect(t, c)) \/ NextBatch(t) \/ StopBatching(t)
           \/ FinishCall(t) \/ AcquireNone(t)
  BY <1>0, <1>3 DEF Collect, NextBatch, StopBatching, FinishCall, AcquireNone, Goto,
                    Connected
<1>4. CASE Post(t) \/ Answered(t) \/ RetryStatus(t) \/ Wake(t)
  BY <1>0, <1>4 DEF Post, Answered, RetryStatus, Sleep, Wake, Goto, Statuses
<1>5. QED
  BY <1>1, <1>2, <1>3, <1>4 DEF Thread

\* Every step keeps the types.
LEMMA TypeStep == TypeOK /\ CallInv /\ [Next]_vars => TypeOK'
<1> SUFFICES ASSUME TypeOK, CallInv, [Next]_vars PROVE TypeOK'
  OBVIOUS
<1>0. /\ conn \in [Threads -> Connections \cup {None}]
      /\ pool \in Seq(Connections)
      /\ socket \in [Connections -> {"unused", "open", "broken"}]
      /\ received \in SUBSET Requests
      /\ rows \in [Requests -> 0..MaxRows]
      /\ stored \in [Requests -> 0..MaxRows]
      /\ answer \in [Requests -> Refusals \cup {Intake!Accepted, Intake!Pending, Intake!Lost}]
  BY DEF TypeOK
<1>1. ASSUME NEW t \in Threads, Thread(t) \/ \E c \in Chunks : Collect(t, c)
      PROVE  TypeOK'
  <2>1. /\ received' \in SUBSET Requests
        /\ rows' \in [Requests -> 0..MaxRows]
        /\ stored' = stored /\ answer' = answer
    <3>1. CASE Post(t)
      BY <1>0, <3>1, PostEffect, MessageIsRequest
    <3>2. CASE UNCHANGED intakeVars
      BY <1>0, <3>2 DEF intakeVars
    <3>3. QED
      BY <1>1, <3>1, <3>2, ThreadLeavesIntake
  <2>2. /\ conn' \in [Threads -> Connections \cup {None}]
        /\ pool' \in Seq(Connections)
        /\ socket' \in [Connections -> {"unused", "open", "broken"}]
    <3>1. CASE AcquireIdle(t)
      BY <1>0, <3>1, PopEffect
    <3>2. ASSUME NEW c \in Connections, NewConnection(t, c)
          PROVE  <2>2
      BY <1>0, <3>2 DEF NewConnection
    <3>3. ASSUME NEW label \in Ended \cup {"batching"}, Throw(t, label), UNCHANGED pool
          PROVE  <2>2
      BY <1>0, <3>3 DEF Throw
    <3>4. CASE TransportFails(t)
      BY <1>0, <3>4 DEF TransportFails
    <3>5. ASSUME NEW c \in Connections, RetryReconnected(t, c)
          PROVE  <2>2
      BY <1>0, <3>5 DEF RetryReconnected, Sleep
    <3>6. CASE Acknowledge(t) /\ kind[t] = "logs"
      BY <1>0, <3>6, PushEffect
    <3>7. QED
      BY <1>0, <1>1, <3>1, <3>2, <3>3, <3>4, <3>5, <3>6, ConnectionEffect
  <2>3. QED
    BY <1>0, <1>1, <2>1, <2>2, ThreadTypeStep DEF TypeOK
<1>2. CASE Interrupt
  BY <1>2 DEF TypeOK, Interrupt, threadVars, intakeVars
<1>3. ASSUME NEW m \in Requests, IntakeStore(m)
      PROVE  TypeOK'
  BY <1>3, StoreEffect DEF TypeOK, threadVars
<1>4. ASSUME NEW m \in Requests, IntakeAnswer(m)
      PROVE  TypeOK'
  <2>1. answer' \in [Requests -> Refusals \cup {Intake!Accepted, Intake!Pending, Intake!Lost}]
    BY <1>0, <1>4, AnswerEffect
  <2>2. QED
    BY <1>4, <2>1, AnswerEffect DEF TypeOK, threadVars
<1>5. CASE UNCHANGED vars
  BY <1>5 DEF TypeOK, vars, threadVars, intakeVars
<1>6. QED
  BY <1>1, <1>2, <1>3, <1>4, <1>5 DEF Next, Terminated

--------------------------------------------------------------------------------
(* The calls.                                                              *)

\* A step of a thread keeps what every thread knows.
LEMMA CallThreadStep ==
  ASSUME TypeOK, CallInv, NEW t \in Threads, Thread(t) \/ \E c \in Chunks : Collect(t, c)
  PROVE  CallInv'
<1>0. /\ pc \in [Threads -> Running \cup Ended \cup {"idle"}]
      /\ logs \in [Threads -> Seq(Nat)]
      /\ offset \in [Threads -> 0..MaxRows]
      /\ batchEnd \in [Threads -> 0..MaxRows]
      /\ attempt \in [Threads -> 0..MaxRetries]
      /\ outcome \in [Threads -> Outcomes \cup {None}]
      /\ wait \in [Threads -> 0..60]
      /\ conn \in [Threads -> Connections \cup {None}]
      /\ MaxRows \in Nat /\ MaxRetries \in Nat
      /\ None \notin Connections /\ None \notin Outcomes
  BY LimitsAssumption, NullAssumption DEF TypeOK, LimitsAssumption, NullAssumption
<1> USE <1>0 DEF CallInv, Goto, Connected
<1>1. ASSUME NEW c \in Chunks, Collect(t, c)
      PROVE  CallInv'
  <2>1. c.sizes \in Seq(Nat) /\ Len(c.sizes) \in 0..MaxRows
    BY LimitsAssumption DEF LimitsAssumption
  <2>2. QED
    BY <1>1, <2>1 DEF Collect
<1>2. CASE NextBatch(t)
  BY <1>2 DEF NextBatch
<1>3. CASE StopBatching(t) \/ FinishCall(t) \/ AcquireNone(t)
  <2>1. CASE StopBatching(t)
    BY <2>1 DEF StopBatching
  <2>2. CASE FinishCall(t)
    BY <2>2 DEF FinishCall
  <2>3. CASE AcquireNone(t)
    BY <2>3 DEF AcquireNone
  <2>4. QED
    BY <1>3, <2>1, <2>2, <2>3
<1>4. CASE AcquireIdle(t)
  <2>1. PICK c \in Connections : conn' = [conn EXCEPT ![t] = c]
    BY <1>4, PopEffect
  <2>2. QED
    BY <1>4, <2>1 DEF AcquireIdle
<1>5. ASSUME NEW c \in Connections, NewConnection(t, c)
      PROVE  CallInv'
  BY <1>5 DEF NewConnection
<1>6. CASE Interrupted(t)
  <2>1. pc' = [pc EXCEPT ![t] = "interrupted"] /\ conn' = [conn EXCEPT ![t] = None]
    BY <1>6 DEF Interrupted, Throw
  <2>2. QED
    BY <1>6, <2>1 DEF Interrupted
<1>6b. CASE GiveUp(t)
  <2>1. pc' = [pc EXCEPT ![t] = "failed"] /\ conn' = [conn EXCEPT ![t] = None]
    BY <1>6b DEF GiveUp, Throw
  <2>2. QED
    BY <1>6b, <2>1 DEF GiveUp
<1>7. CASE Post(t)
  BY <1>7 DEF Post
<1>8. CASE TransportFails(t) \/ Answered(t)
  <2>1. PICK o \in Outcomes : outcome' = [outcome EXCEPT ![t] = o]
    <3>1. CASE TransportFails(t)
      BY <3>1 DEF TransportFails, Outcomes
    <3>2. CASE Answered(t)
      BY <3>2 DEF Answered, Class, Outcomes, Statuses
    <3>3. QED
      BY <1>8, <3>1, <3>2
  <2>2. /\ pc[t] \in {"posting", "waiting"} /\ pc' = [pc EXCEPT ![t] = "answered"]
        /\ UNCHANGED <<logs, offset, batchEnd, attempt, wait, conn>>
    BY <1>8 DEF TransportFails, Answered
  <2>3. QED
    BY <2>1, <2>2
<1>9. CASE RetryStatus(t)
  <2>1. PICK seconds \in 1..60 : Sleep(t, seconds)
    <3>1. attempt[t] \in Nat
      OBVIOUS
    <3>2. QED
      BY <1>9, <3>1, BackoffRange, HeadersRange DEF RetryStatus
  <2>2. QED
    BY <1>9, <2>1 DEF RetryStatus, Sleep, Retries
<1>10. ASSUME NEW c \in Connections, RetryReconnected(t, c)
       PROVE  CallInv'
  <2>1. PICK seconds \in 1..60 : Sleep(t, seconds)
    <3>1. attempt[t] \in Nat
      OBVIOUS
    <3>2. QED
      BY <1>10, <3>1, BackoffRange DEF RetryReconnected
  <2>2. QED
    BY <1>10, <2>1 DEF RetryReconnected, Sleep, Retries
<1>11. CASE Wake(t)
  BY <1>11 DEF Wake
<1>12. CASE Acknowledge(t)
  <2>1. /\ pc' = [pc EXCEPT ![t] = "batching"]
        /\ conn' = [conn EXCEPT ![t] = None]
    BY <1>12 DEF Acknowledge, Throw
  <2>2. QED
    BY <1>12, <2>1 DEF Acknowledge
<1>13. QED
  BY <1>1, <1>2, <1>3, <1>4, <1>5, <1>6, <1>7, <1>8, <1>9, <1>10, <1>11, <1>12, <1>6b
     DEF Thread

\* Every step keeps what every thread knows.
LEMMA CallStep == TypeOK /\ CallInv /\ [Next]_vars => CallInv'
<1> SUFFICES ASSUME TypeOK, CallInv, [Next]_vars PROVE CallInv'
  OBVIOUS
<1>1. CASE UNCHANGED threadVars
  BY <1>1 DEF threadVars, CallInv
<1>2. QED
  BY <1>1, CallThreadStep, StoreEffect, AnswerEffect
     DEF Next, Terminated, Interrupt, vars

--------------------------------------------------------------------------------
(* The requests.                                                           *)

\* A request is known by its thread, its batch and its attempt.
LEMMA RequestIdentity ==
  ASSUME NEW m \in Requests
  PROVE  /\ m.thread \in Threads /\ m.first \in 0..MaxRows /\ m.attempt \in 0..MaxRetries
         /\ \A n \in Requests :
               m.thread = n.thread /\ m.first = n.first /\ m.attempt = n.attempt => m = n
         /\ \A t \in Threads :
               m.thread = t /\ m.first = offset[t] /\ m.attempt = attempt[t] =>
                   m = Message(t)
BY DEF Requests, Message

\* Where a batch begins, and what happened to it, changes with few steps.
LEMMA ProgressStep ==
  ASSUME TypeOK, CallInv, RequestsInv, BatchesInOrder, NEW t \in Threads,
         Thread(t) \/ \E c \in Chunks : Collect(t, c), UNCHANGED intakeVars
  PROVE  /\ RequestsInv' /\ BatchesInOrder'
<1>0. /\ pc \in [Threads -> Running \cup Ended \cup {"idle"}]
      /\ offset \in [Threads -> 0..MaxRows]
      /\ batchEnd \in [Threads -> 0..MaxRows]
      /\ attempt \in [Threads -> 0..MaxRetries]
      /\ rows \in [Requests -> 0..MaxRows]
      /\ received \subseteq Requests
      /\ MaxRows \in Nat /\ MaxRetries \in Nat
  BY LimitsAssumption DEF TypeOK, LimitsAssumption
<1>1. /\ received' = received /\ rows' = rows /\ stored' = stored /\ answer' = answer
  BY DEF intakeVars
<1>2. \A m \in received : /\ m.thread \in Threads
                          /\ m.first \in 0..MaxRows /\ m.attempt \in 0..MaxRetries
  BY <1>0, RequestIdentity
<1> USE <1>0, <1>1, <1>2 DEF RequestsInv, BatchesInOrder, Goto, Connected
<1>3. CASE \E c \in Chunks : Collect(t, c)
  BY <1>3 DEF Collect
<1>4. CASE NextBatch(t)
  BY <1>4 DEF NextBatch
<1>5. CASE StopBatching(t) \/ FinishCall(t) \/ AcquireNone(t) \/ AcquireIdle(t)
  BY <1>5 DEF StopBatching, FinishCall, AcquireNone, AcquireIdle
<1>6. CASE \E c \in Connections : NewConnection(t, c)
  BY <1>6 DEF NewConnection
<1>7. CASE Interrupted(t) \/ GiveUp(t)
  BY <1>7 DEF Interrupted, GiveUp, Throw
<1>8. CASE Post(t)
  BY <1>8, PostEffect
<1>9. CASE TransportFails(t) \/ Answered(t)
  BY <1>9 DEF TransportFails, Answered
<1>10. CASE RetryStatus(t) \/ \E c \in Connections : RetryReconnected(t, c)
  BY <1>10 DEF RetryStatus, RetryReconnected, Sleep
<1>11. CASE Wake(t)
  BY <1>11 DEF Wake
<1>12. CASE Acknowledge(t)
  <2>1. /\ pc' = [pc EXCEPT ![t] = "batching"]
        /\ offset' = [offset EXCEPT ![t] = batchEnd[t]]
        /\ attempt' = [attempt EXCEPT ![t] = 0] /\ batchEnd' = batchEnd
    BY <1>12 DEF Acknowledge, Throw
  <2>2. offset[t] < batchEnd[t]
    BY <1>12 DEF Acknowledge, CallInv
  <2>3. QED
    BY <2>1, <2>2
<1>13. QED
  BY <1>3, <1>4, <1>5, <1>6, <1>7, <1>8, <1>9, <1>10, <1>11, <1>12 DEF Thread

\* A new request continues where the acknowledged batches end, and follows
\* only attempts that were refused.
LEMMA PostStep ==
  ASSUME TypeOK, CallInv, RequestsInv, BatchesInOrder, SupersededInv, AttemptsInv,
         AnswersInv, NEW t \in Threads, Post(t)
  PROVE  RequestsInv' /\ BatchesInOrder' /\ SupersededInv' /\ AnswersInv'
<1> DEFINE p == Message(t)
<1>0. /\ pc \in [Threads -> Running \cup Ended \cup {"idle"}]
      /\ offset \in [Threads -> 0..MaxRows]
      /\ batchEnd \in [Threads -> 0..MaxRows]
      /\ attempt \in [Threads -> 0..MaxRetries]
      /\ rows \in [Requests -> 0..MaxRows]
      /\ stored \in [Requests -> 0..MaxRows]
      /\ received \subseteq Requests
      /\ MaxRows \in Nat /\ MaxRetries \in Nat
  BY LimitsAssumption DEF TypeOK, LimitsAssumption
<1>1. /\ p \notin received /\ received' = received \cup {p}
      /\ rows' = [rows EXCEPT ![p] = batchEnd[t] - offset[t]]
      /\ stored' = stored /\ answer' = answer
      /\ pc[t] = "posting" /\ pc' = [pc EXCEPT ![t] = "waiting"]
      /\ offset' = offset /\ batchEnd' = batchEnd /\ attempt' = attempt
      /\ offset[t] < batchEnd[t]
  BY PostEffect DEF Post, Goto, CallInv, Connected
<1>2. /\ p \in Requests /\ p.thread = t /\ p.first = offset[t] /\ p.attempt = attempt[t]
  BY MessageIsRequest DEF Message
<1>3. \A m \in received : /\ m.thread \in Threads
                          /\ m.first \in 0..MaxRows /\ m.attempt \in 0..MaxRetries
  BY <1>0, RequestIdentity
<1>4. stored[p] = 0 /\ answer[p] = Intake!Pending
  BY <1>1, <1>2 DEF RequestsInv
<1> HIDE DEF p
<1> USE <1>0, <1>1, <1>2, <1>3, <1>4
<1>5. BatchesInOrder'
  BY DEF BatchesInOrder
<1>6. RequestsInv'
  <2>1. \A m \in Requests : IF m \in received'
          THEN stored'[m] \in {0, rows'[m]}
          ELSE stored'[m] = 0 /\ answer'[m] = Intake!Pending
    BY DEF RequestsInv
  <2>2. \A m \in received' : m.first = offset'[m.thread] =>
          /\ pc'[m.thread] \in Connected \cup {"failed", "interrupted"}
          /\ m.attempt <= attempt'[m.thread]
          /\ pc'[m.thread] = "posting" => m.attempt < attempt'[m.thread]
    BY DEF RequestsInv, Connected
  <2>3. \A m, n \in received' :
          m.thread = n.thread /\ m.first < n.first => m.first + rows'[m] <= n.first
    BY DEF RequestsInv, BatchesInOrder
  <2>4. QED
    BY <2>1, <2>2, <2>3 DEF RequestsInv
<1>7. SupersededInv'
  <2> SUFFICES ASSUME NEW m \in received', NEW n \in received',
                      m.thread = n.thread, m.first = n.first, m.attempt < n.attempt
               PROVE  answer'[m] \in Refusals
    BY DEF SupersededInv
  <2>1. CASE m \in received /\ n \in received
    BY <2>1 DEF SupersededInv
  <2>2. CASE m \in received /\ n = p
    BY <2>2 DEF AttemptsInv, AttemptsOf, Connected
  <2>3. CASE m = p
    BY <2>3 DEF RequestsInv
  <2>4. QED
    BY <2>1, <2>2, <2>3
<1>8. AnswersInv'
  BY DEF AnswersInv, Intake!Accepted, Intake!Pending, Refusals
<1>9. QED
  BY <1>5, <1>6, <1>7, <1>8

\* A step of one thread is not a step of another.
LEMMA OthersKeep ==
  ASSUME TypeOK, NEW t \in Threads, Thread(t) \/ \E c \in Chunks : Collect(t, c),
         NEW u \in Threads, u # t
  PROVE  /\ pc'[u] = pc[u] /\ offset'[u] = offset[u] /\ batchEnd'[u] = batchEnd[u]
         /\ attempt'[u] = attempt[u] /\ outcome'[u] = outcome[u]
<1>0. /\ pc \in [Threads -> Running \cup Ended \cup {"idle"}]
      /\ offset \in [Threads -> 0..MaxRows]
      /\ batchEnd \in [Threads -> 0..MaxRows]
      /\ attempt \in [Threads -> 0..MaxRetries]
      /\ outcome \in [Threads -> Outcomes \cup {None}]
  BY DEF TypeOK
<1>1. CASE Acknowledge(t)
  BY <1>0, <1>1 DEF Acknowledge, Throw, Goto
<1>2. QED
  BY <1>0, <1>1
     DEF Thread, Collect, NextBatch, StopBatching, FinishCall, AcquireIdle,
         AcquireNone, NewConnection, Interrupted, Post, TransportFails, Answered,
         RetryReconnected, RetryStatus, Sleep, Wake, GiveUp, Throw, Goto

\* The loop of a thread knows that the earlier attempts were refused.
LEMMA AttemptsThreadStep ==
  ASSUME TypeOK, CallInv, RequestsInv, BatchesInOrder, AttemptsInv, AnswersInv,
         NEW t \in Threads, Thread(t) \/ \E c \in Chunks : Collect(t, c),
         UNCHANGED intakeVars
  PROVE  AttemptsOf(t)'
<1>0. /\ pc \in [Threads -> Running \cup Ended \cup {"idle"}]
      /\ offset \in [Threads -> 0..MaxRows]
      /\ attempt \in [Threads -> 0..MaxRetries]
      /\ outcome \in [Threads -> Outcomes \cup {None}]
      /\ received \subseteq Requests
      /\ MaxRows \in Nat /\ MaxRetries \in Nat
      /\ None \notin {"pre-send", "429", "5xx", "2xx"}
  BY LimitsAssumption, NullAssumption
     DEF TypeOK, LimitsAssumption, NullAssumption, Outcomes, TransportErrors, Statuses
<1>1. /\ received' = received /\ rows' = rows /\ stored' = stored /\ answer' = answer
  BY DEF intakeVars
<1>2. \A m \in received : /\ m.thread \in Threads
                          /\ m.first \in 0..MaxRows /\ m.attempt \in 0..MaxRetries
  BY <1>0, RequestIdentity
<1>3. /\ (outcome[t] # None) <=> (pc[t] = "answered")
      /\ AttemptsOf(t)
  BY DEF CallInv, AttemptsInv
<1>4. CASE (\E c \in Chunks : Collect(t, c)) \/ NextBatch(t) \/ StopBatching(t)
           \/ FinishCall(t) \/ AcquireNone(t) \/ Interrupted(t) \/ GiveUp(t)
           \/ Acknowledge(t)
  <2>1. pc'[t] \notin Connected /\ outcome'[t] = None
    BY <1>0, <1>3, <1>4
       DEF Collect, NextBatch, StopBatching, FinishCall, AcquireNone, Interrupted,
           GiveUp, Acknowledge, Throw, Goto, Connected
  <2>2. QED
    BY <1>0, <2>1 DEF AttemptsOf, Connected
<1>5. CASE AcquireIdle(t) \/ \E c \in Connections : NewConnection(t, c)
  <2>1. /\ pc'[t] = "posting" /\ outcome'[t] = None /\ offset' = offset
        /\ \A m \in received : m.thread = t => m.first # offset[t]
    BY <1>0, <1>3, <1>5 DEF RequestsInv, AcquireIdle, NewConnection, Goto, Connected
  <2>2. QED
    BY <1>0, <1>1, <2>1 DEF AttemptsOf
<1>6. CASE Post(t)
  BY <1>1, <1>6, PostEffect
<1>7. CASE TransportFails(t) \/ Answered(t) \/ RetryStatus(t)
           \/ \E c \in Connections : RetryReconnected(t, c)
  <2>1. /\ pc[t] \in Connected /\ pc'[t] \in {"answered", "sleeping"}
        /\ offset' = offset /\ attempt' = attempt /\ Message(t)' = Message(t)
    BY <1>0, <1>7 DEF TransportFails, Answered, RetryStatus, RetryReconnected, Sleep,
                      Goto, Connected, Message
  <2>2. /\ outcome'[t] = "pre-send" => Message(t) \notin received
        /\ outcome'[t] \in {"429", "5xx"} \/ pc'[t] = "sleeping" =>
              Message(t) \notin received \/ answer[Message(t)] \in Refusals
        /\ outcome'[t] = "2xx" =>
              Message(t) \in received /\ stored[Message(t)] = rows[Message(t)]
    <3>1. CASE TransportFails(t)
      <4>1. CASE pc[t] = "waiting"
        BY <1>0, <3>1, <4>1 DEF TransportFails, Goto, TransportErrors
      <4>2. CASE pc[t] = "posting"
        <5>1. Message(t) \notin received
          <6>1. Message(t).thread = t /\ Message(t).first = offset[t]
                /\ Message(t).attempt = attempt[t] /\ ~(attempt[t] < attempt[t])
            BY <1>0 DEF Message
          <6>2. QED
            BY <4>2, <6>1 DEF RequestsInv
        <5>2. QED
          BY <1>0, <3>1, <4>2, <5>1 DEF TransportFails, Goto, TransportErrors
      <4>3. QED
        BY <3>1, <4>1, <4>2 DEF TransportFails
    <3>2. CASE Answered(t)
      <4>1. Message(t) \in received
        BY <1>3, <3>2 DEF AttemptsOf, Answered
      <4>2. /\ outcome'[t] = Class(answer[Message(t)]) /\ pc'[t] = "answered"
        BY <1>0, <3>2 DEF Answered, Goto
      <4>3. QED
        BY <4>1, <4>2 DEF Class, AnswersInv, Refusals, Intake!Accepted
    <3>3. CASE RetryStatus(t)
      BY <1>0, <1>3, <3>3 DEF AttemptsOf, RetryStatus, Sleep, Goto
    <3>4. CASE \E c \in Connections : RetryReconnected(t, c)
      <4>1. outcome[t] = "pre-send" /\ outcome'[t] = None
        BY <1>0, <3>4 DEF RetryReconnected, Sleep, Retries, Retryable,
                          TransportErrors, IsPreSendTransportError
      <4>2. QED
        BY <1>0, <1>3, <4>1 DEF AttemptsOf
    <3>5. QED
      BY <1>7, <3>1, <3>2, <3>3, <3>4
  <2>3. QED
    BY <1>1, <1>3, <2>1, <2>2 DEF AttemptsOf
<1>8. CASE Wake(t)
  <2>1. /\ pc[t] = "sleeping" /\ pc'[t] = "posting" /\ offset' = offset
        /\ attempt'[t] = attempt[t] + 1 /\ outcome'[t] = None
    BY <1>0, <1>3, <1>8 DEF Wake, Goto
  <2>2. \A m \in received : m.thread = t /\ m.first = offset[t] /\ m.attempt < attempt[t] + 1 =>
            answer[m] \in Refusals
    <3>1. ASSUME NEW m \in received, m.thread = t, m.first = offset[t], m.attempt = attempt[t]
          PROVE  m = Message(t)
      BY <1>0, <3>1, RequestIdentity
    <3>2. QED
      BY <1>0, <1>2, <1>3, <2>1, <3>1 DEF AttemptsOf, Connected
  <2>3. QED
    BY <1>0, <1>1, <2>1, <2>2 DEF AttemptsOf
<1>9. QED
  BY <1>4, <1>5, <1>6, <1>7, <1>8 DEF Thread

\* A new request is the attempt its thread waits for.
LEMMA AttemptsPostStep ==
  ASSUME TypeOK, CallInv, RequestsInv, AttemptsInv, NEW t \in Threads, Post(t)
  PROVE  AttemptsInv'
<1> DEFINE p == Message(t)
<1>0. /\ pc \in [Threads -> Running \cup Ended \cup {"idle"}]
      /\ rows \in [Requests -> 0..MaxRows]
      /\ received \subseteq Requests
      /\ p \in Requests /\ p.thread = t /\ p.attempt = attempt[t]
      /\ attempt[t] \in Nat
      /\ None \notin {"pre-send", "429", "5xx", "2xx"}
  <2>1. attempt \in [Threads -> 0..MaxRetries] /\ MaxRetries \in Nat
    BY LimitsAssumption DEF TypeOK, LimitsAssumption
  <2>2. None \notin {"pre-send", "429", "5xx", "2xx"}
    BY NullAssumption DEF NullAssumption, Outcomes, TransportErrors, Statuses
  <2>3. p \in Requests /\ p.thread = t /\ p.attempt = attempt[t]
    BY MessageIsRequest DEF Message
  <2>4. QED
    BY <2>1, <2>2, <2>3 DEF TypeOK
<1>1. /\ p \notin received /\ received' = received \cup {p}
      /\ rows' = [rows EXCEPT ![p] = batchEnd[t] - offset[t]]
      /\ stored' = stored /\ answer' = answer
      /\ pc[t] = "posting" /\ pc' = [pc EXCEPT ![t] = "waiting"] /\ outcome[t] = None
      /\ offset' = offset /\ attempt' = attempt /\ outcome' = outcome
  BY PostEffect DEF Post, Goto, CallInv
<1>2. \A u \in Threads : Message(u)' = Message(u) /\ Message(u).thread = u
  BY <1>1 DEF Message
<1>3. ASSUME NEW u \in Threads, u # t
      PROVE  AttemptsOf(u)'
  <2>1. AttemptsOf(u) /\ Message(u) # p /\ Message(u)' = Message(u)
    BY <1>0, <1>2, <1>3 DEF AttemptsInv
  <2>2. pc'[u] = pc[u]
    BY <1>0, <1>1, <1>3
  <2>3. Message(u) \in received => rows'[Message(u)] = rows[Message(u)]
    BY <1>0, <1>1, <2>1
  <2> HIDE DEF p
  <2>4. QED
    BY <1>0, <1>1, <1>3, <2>1, <2>2, <2>3 DEF AttemptsOf
<1>4. AttemptsOf(t)'
  <2>1. AttemptsOf(t) /\ pc'[t] = "waiting" /\ Message(t)' = p
    BY <1>0, <1>1, <1>2 DEF AttemptsInv
  <2> HIDE DEF p
  <2>2. QED
    BY <1>0, <1>1, <2>1 DEF AttemptsOf, Connected
<1>5. QED
  BY <1>3, <1>4 DEF AttemptsInv

\* Storing a request contradicts nothing: nobody has heard of it yet.
LEMMA StoreStep ==
  ASSUME TypeOK, RequestsInv, BatchesInOrder, SupersededInv, AttemptsInv, AnswersInv,
         NEW m \in Requests, IntakeStore(m)
  PROVE  RequestsInv' /\ BatchesInOrder' /\ SupersededInv' /\ AttemptsInv' /\ AnswersInv'
<1>0. /\ stored \in [Requests -> 0..MaxRows] /\ received \subseteq Requests
  BY DEF TypeOK
<1>1. /\ m \in received /\ answer[m] = Intake!Pending
      /\ stored' = [stored EXCEPT ![m] = rows[m]]
      /\ UNCHANGED <<received, rows, answer, pc, offset, batchEnd, attempt, outcome>>
  BY StoreEffect DEF threadVars
<1>2. RequestsInv' /\ BatchesInOrder' /\ SupersededInv'
  BY <1>0, <1>1 DEF RequestsInv, BatchesInOrder, SupersededInv
<1>3. AttemptsInv'
  <2>1. \A t \in Threads : Message(t)' = Message(t)
    BY <1>1 DEF Message
  <2>2. \A n \in received : stored[n] = rows[n] => stored'[n] = rows'[n]
    BY <1>0, <1>1
  <2>3. QED
    BY <1>1, <2>1, <2>2 DEF AttemptsInv, AttemptsOf
<1>4. AnswersInv'
  BY <1>0, <1>1 DEF AnswersInv, Refusals, Intake!Accepted, Intake!Pending
<1>5. QED
  BY <1>2, <1>3, <1>4

\* Nor does an answer.
LEMMA AnswerStep ==
  ASSUME TypeOK, RequestsInv, BatchesInOrder, SupersededInv, AttemptsInv, AnswersInv,
         NEW m \in Requests, IntakeAnswer(m)
  PROVE  RequestsInv' /\ BatchesInOrder' /\ SupersededInv' /\ AttemptsInv' /\ AnswersInv'
<1>0. /\ received \subseteq Requests
      /\ answer \in [Requests -> Refusals \cup {Intake!Accepted, Intake!Pending, Intake!Lost}]
      /\ Intake!Pending \notin Refusals /\ Intake!Accepted \notin Refusals
  BY DEF TypeOK, Refusals, Intake!Pending, Intake!Accepted
<1>1. /\ m \in received /\ answer[m] = Intake!Pending
      /\ UNCHANGED <<received, rows, stored, pc, offset, batchEnd, attempt, outcome>>
  BY AnswerEffect DEF threadVars
<1>2. PICK status \in Refusals \cup {Intake!Accepted} :
        /\ answer' = [answer EXCEPT ![m] = status]
        /\ status = Intake!Accepted => stored[m] = rows[m]
        /\ TruthfulErrors /\ status \in Refusals => stored[m] = 0
  BY AnswerEffect
<1>3. \A n \in Requests : answer[n] \in Refusals => answer'[n] \in Refusals
  BY <1>0, <1>1, <1>2
<1>4. RequestsInv' /\ BatchesInOrder' /\ SupersededInv'
  BY <1>0, <1>1, <1>2, <1>3 DEF RequestsInv, BatchesInOrder, SupersededInv
<1>5. AttemptsInv'
  <2>1. \A t \in Threads : Message(t)' = Message(t)
    BY <1>1 DEF Message
  <2>2. \A n \in received : answer[n] \in Refusals => answer'[n] \in Refusals
    BY <1>0, <1>3
  <2>3. QED
    BY <1>1, <2>1, <2>2 DEF AttemptsInv, AttemptsOf
<1>6. AnswersInv'
  BY <1>0, <1>1, <1>2 DEF AnswersInv
<1>7. QED
  BY <1>4, <1>5, <1>6

\* Every step keeps the requests and their answers consistent with the loops.
LEMMA RequestsStep ==
  ASSUME TypeOK, CallInv, RequestsInv, BatchesInOrder, SupersededInv, AttemptsInv,
         AnswersInv, [Next]_vars
  PROVE  RequestsInv' /\ BatchesInOrder' /\ SupersededInv' /\ AttemptsInv' /\ AnswersInv'
<1>1. ASSUME NEW t \in Threads, Thread(t) \/ \E c \in Chunks : Collect(t, c),
             UNCHANGED intakeVars
      PROVE  RequestsInv' /\ BatchesInOrder' /\ SupersededInv' /\ AttemptsInv' /\ AnswersInv'
  <2>1. SupersededInv' /\ AnswersInv'
    BY <1>1 DEF intakeVars, SupersededInv, AnswersInv
  <2>2. ASSUME NEW u \in Threads, u # t
        PROVE  AttemptsOf(u)'
    <3>1. AttemptsOf(u) /\ Message(u)' = Message(u) /\ UNCHANGED intakeVars
          /\ pc'[u] = pc[u] /\ offset'[u] = offset[u] /\ attempt'[u] = attempt[u]
          /\ outcome'[u] = outcome[u]
      BY <1>1, <2>2, OthersKeep DEF AttemptsInv, Message
    <3>2. QED
      BY <3>1 DEF AttemptsOf, intakeVars
  <2>3. AttemptsInv'
    BY <1>1, <2>2, AttemptsThreadStep DEF AttemptsInv
  <2>4. QED
    BY <1>1, <2>1, <2>3, ProgressStep
<1>2. ASSUME NEW t \in Threads, Post(t)
      PROVE  RequestsInv' /\ BatchesInOrder' /\ SupersededInv' /\ AttemptsInv' /\ AnswersInv'
  BY <1>2, PostStep, AttemptsPostStep
<1>3. CASE UNCHANGED <<threadVars, intakeVars>>
  <2>1. \A t \in Threads : Message(t)' = Message(t)
    BY <1>3 DEF Message, threadVars
  <2>2. AttemptsInv'
    BY <1>3, <2>1 DEF AttemptsInv, AttemptsOf, threadVars, intakeVars
  <2>3. QED
    BY <1>3, <2>2 DEF threadVars, intakeVars, RequestsInv, BatchesInOrder, SupersededInv,
                      AnswersInv
<1>4. QED
  BY <1>1, <1>2, <1>3, StoreStep, AnswerStep, ThreadLeavesIntake
     DEF Next, Terminated, Interrupt, vars

\* Every row whose result is 'ok' stays stored, and Acknowledge adds only rows
\* of a batch that was accepted.
LEMMA OkStep ==
  ASSUME TypeOK, CallInv, RequestsInv, BatchesInOrder, AttemptsInv, OkIsStored,
         [Next]_vars
  PROVE  OkIsStored'
<1>0. /\ offset \in [Threads -> 0..MaxRows]
      /\ batchEnd \in [Threads -> 0..MaxRows]
      /\ rows \in [Requests -> 0..MaxRows]
      /\ stored \in [Requests -> 0..MaxRows]
      /\ received \subseteq Requests
      /\ MaxRows \in Nat
  BY LimitsAssumption DEF TypeOK, LimitsAssumption
<1>1. received \subseteq received' /\ \A m \in received : stored'[m] >= stored[m]
  <2>1. CASE \E t \in Threads : Post(t)
    BY <1>0, <2>1, PostEffect
  <2>2. CASE \E m \in Requests : IntakeStore(m)
    BY <1>0, <2>2, StoreEffect
  <2>3. CASE \E m \in Requests : IntakeAnswer(m)
    BY <1>0, <2>3, AnswerEffect
  <2>4. CASE UNCHANGED intakeVars
    BY <1>0, <2>4 DEF intakeVars
  <2>5. QED
    BY <2>1, <2>2, <2>3, <2>4, ThreadLeavesIntake DEF Next, Terminated, Interrupt, vars
<1>2. ASSUME NEW m \in received, NEW t \in Threads, NEW i \in Nat, Holds(m, t, i)
      PROVE  m \in received' /\ Holds(m, t, i)'
  <2>1. m.first \in Nat /\ stored[m] \in Nat
    BY <1>0, RequestIdentity
  <2>2. stored'[m] \in Int /\ stored'[m] >= stored[m] /\ m \in received'
    <3>1. stored' \in [Requests -> 0..MaxRows]
      BY TypeStep DEF TypeOK
    <3>2. QED
      BY <1>0, <1>1, <3>1
  <2>3. QED
    BY <1>2, <2>1, <2>2 DEF Holds
<1>3. ASSUME NEW t \in Threads, offset'[t] # offset[t]
      PROVE  Acknowledge(t) /\ offset'[t] = batchEnd[t]
  <2>1. CASE UNCHANGED threadVars
    BY <1>3, <2>1 DEF threadVars
  <2>2. ASSUME NEW u \in Threads, Thread(u) \/ \E c \in Chunks : Collect(u, c)
        PROVE  Acknowledge(t) /\ offset'[t] = batchEnd[t]
    <3>1. u = t
      BY <1>3, <2>2, OthersKeep
    <3>2. QED
      BY <1>0, <1>3, <2>2, <3>1
         DEF Thread, Collect, NextBatch, StopBatching, FinishCall, AcquireIdle,
             AcquireNone, NewConnection, Interrupted, Post, TransportFails, Answered,
             RetryReconnected, RetryStatus, Sleep, Wake, GiveUp, Acknowledge
  <2>3. QED
    BY <2>1, <2>2, StoreEffect, AnswerEffect DEF Next, Terminated, Interrupt, vars
<1>4. SUFFICES ASSUME NEW t \in Threads, NEW i \in 1..offset'[t]
               PROVE  \E m \in received' : Holds(m, t, i)'
  BY DEF OkIsStored, Holds
<1>5. offset'[t] \in Nat /\ i \in Nat
  <2>1. offset' \in [Threads -> 0..MaxRows]
    BY TypeStep DEF TypeOK
  <2>2. QED
    BY <1>0, <2>1
<1>6. CASE i \in 1..offset[t]
  <2>1. PICK m \in received : Holds(m, t, i)
    BY <1>6 DEF OkIsStored
  <2>2. QED
    BY <1>2, <1>5, <2>1
<1>7. CASE i \notin 1..offset[t]
  <2>1. Acknowledge(t) /\ offset'[t] = batchEnd[t]
    BY <1>3, <1>7
  <2>2. /\ Message(t) \in received /\ stored[Message(t)] = rows[Message(t)]
        /\ Message(t).thread = t /\ Message(t).first = offset[t]
    BY <2>1 DEF Acknowledge, AttemptsInv, AttemptsOf, Message
  <2>3. offset[t] + rows[Message(t)] = batchEnd[t]
    BY <2>2 DEF BatchesInOrder
  <2>4. Holds(Message(t), t, i)
    <3>1. offset[t] \in Nat /\ offset[t] < i /\ i <= batchEnd[t]
      BY <1>0, <1>5, <1>7, <2>1
    <3>2. QED
      BY <2>2, <2>3, <3>1 DEF Holds
  <2>5. QED
    BY <1>2, <1>5, <2>2, <2>4
<1>8. QED
  BY <1>6, <1>7

--------------------------------------------------------------------------------
(* The connections.                                                        *)

\* Every step keeps the connections in use and the pool apart and alive.
LEMMA ConnectionThreadStep ==
  ASSUME TypeOK, CallInv, SocketsInv, PoolIsHealthy, NEW t \in Threads,
         Thread(t) \/ \E c \in Chunks : Collect(t, c)
  PROVE  SocketsInv' /\ PoolIsHealthy'
<1>0. /\ pc \in [Threads -> Running \cup Ended \cup {"idle"}]
      /\ outcome \in [Threads -> Outcomes \cup {None}]
      /\ conn \in [Threads -> Connections \cup {None}]
      /\ socket \in [Connections -> {"unused", "open", "broken"}]
      /\ Len(pool) \in Nat /\ \A k \in 1..Len(pool) : pool[k] \in Connections
      /\ None \notin Connections
  BY NullAssumption DEF TypeOK, NullAssumption
<1>1. \A u \in Threads : (conn[u] # None) <=> (pc[u] \in Connected)
  BY DEF CallInv
<1>2. \A u \in Threads : u # t => pc'[u] = pc[u] /\ outcome'[u] = outcome[u]
  BY OthersKeep
<1> USE <1>0, <1>1, <1>2
<1>3. ASSUME UNCHANGED <<conn, pool, socket>>,
             pc'[t] \in Connected =>
                \/ pc[t] \in {"posting", "waiting", "sleeping"}
                \/ pc[t] = "answered" /\ outcome[t] \in Statuses
      PROVE  SocketsInv' /\ PoolIsHealthy'
  <2>1. pc'[t] \in Connected => socket[conn[t]] = "open"
    BY <1>3 DEF SocketsInv, PoolIsHealthy
  <2>2. QED
    BY <1>3, <2>1 DEF SocketsInv, PoolIsHealthy, Connected
<1>4. CASE AcquireIdle(t)
  <2>1. /\ pc[t] = "connecting" /\ pc' = [pc EXCEPT ![t] = "posting"]
        /\ outcome' = outcome
    BY <1>4 DEF AcquireIdle, Goto
  <2>2. SocketsInv'
    BY <1>4, <2>1, PopEffect DEF SocketsInv, PoolIsHealthy
  <2>3. PoolIsHealthy'
    BY <1>4, <2>1, PopEffect DEF PoolIsHealthy, Connected
  <2>4. QED
    BY <2>2, <2>3
<1>5. ASSUME NEW c \in Connections, NewConnection(t, c)
      PROVE  SocketsInv' /\ PoolIsHealthy'
  BY <1>5 DEF NewConnection, Goto, SocketsInv, PoolIsHealthy, Connected
<1>6. ASSUME NEW label \in Ended \cup {"batching"}, Throw(t, label), UNCHANGED pool
      PROVE  SocketsInv' /\ PoolIsHealthy'
  <2>1. /\ pc'[t] \notin Connected /\ conn' = [conn EXCEPT ![t] = None]
        /\ \A c \in Connections : c # conn[t] => socket'[c] = socket[c]
        /\ pool' = pool
    BY <1>6 DEF Throw, Goto, Ended, Connected
  <2>2. \A u \in Threads : u # t /\ conn[u] # None => conn'[u] = conn[u] /\ conn[u] # conn[t]
    BY <2>1 DEF PoolIsHealthy
  <2>3. SocketsInv'
    BY <2>1, <2>2 DEF SocketsInv, Connected
  <2>4. PoolIsHealthy'
    <3>1. \A k \in 1..Len(pool) : pool[k] # conn[t] /\ socket'[pool[k]] = "open"
      BY <2>1 DEF PoolIsHealthy
    <3>2. \A k \in 1..Len(pool) : \A u \in Threads : conn'[u] # pool[k]
      BY <2>1 DEF PoolIsHealthy
    <3>3. \A u \in Threads : pc'[u] \in {"posting", "waiting"} => socket'[conn'[u]] = "open"
      BY <2>1, <2>2 DEF PoolIsHealthy, Connected
    <3>4. \A u, v \in Threads : conn'[u] # None /\ conn'[u] = conn'[v] => u = v
      BY <2>1, <2>2 DEF PoolIsHealthy
    <3>5. QED
      BY <2>1, <3>1, <3>2, <3>3, <3>4 DEF PoolIsHealthy
  <2>5. QED
    BY <2>3, <2>4
<1>7. CASE TransportFails(t)
  <2>1. outcome'[t] \notin Statuses
    BY <1>7 DEF TransportFails, TransportErrors, Statuses
  <2>2. QED
    BY <1>7, <2>1 DEF TransportFails, Goto, SocketsInv, PoolIsHealthy, Connected
<1>8. ASSUME NEW c \in Connections, RetryReconnected(t, c)
      PROVE  SocketsInv' /\ PoolIsHealthy'
  BY <1>8 DEF RetryReconnected, Sleep, Goto, SocketsInv, PoolIsHealthy, Connected
<1>9. CASE Acknowledge(t) /\ kind[t] = "logs"
  <2>1. /\ pc[t] = "answered" /\ pc'[t] = "batching" /\ socket[conn[t]] = "open"
    BY <1>9 DEF Acknowledge, Goto, SocketsInv, Statuses
  <2>2. SocketsInv'
    <3>1. socket' = socket /\ conn' = [conn EXCEPT ![t] = None]
      BY <1>9 DEF Acknowledge
    <3>2. QED
      BY <2>1, <3>1 DEF SocketsInv
  <2>3. PoolIsHealthy'
    <3>1. /\ conn' = [conn EXCEPT ![t] = None] /\ socket' = socket
          /\ Len(pool') = Len(pool) + 1
          /\ \A k \in 1..Len(pool) : pool'[k] = pool[k]
          /\ pool'[Len(pool) + 1] = conn[t]
      BY <1>9, PushEffect
    <3>2. \A k \in 1..Len(pool) : pool[k] # conn[t]
      BY DEF PoolIsHealthy
    <3>3. \A k \in 1..Len(pool') :
             /\ socket'[pool'[k]] = "open"
             /\ \A j \in 1..Len(pool') : pool'[j] = pool'[k] => j = k
      BY <2>1, <3>1, <3>2 DEF PoolIsHealthy
    <3>4. \A k \in 1..Len(pool'), u \in Threads : conn'[u] # pool'[k]
      BY <2>1, <3>1 DEF PoolIsHealthy, Connected
    <3>5. \A u \in Threads : pc'[u] \in {"posting", "waiting"} => socket'[conn'[u]] = "open"
      BY <2>1, <3>1 DEF PoolIsHealthy
    <3>6. \A u, v \in Threads : conn'[u] # None /\ conn'[u] = conn'[v] => u = v
      BY <3>1 DEF PoolIsHealthy
    <3>7. QED
      BY <3>3, <3>4, <3>5, <3>6 DEF PoolIsHealthy
  <2>4. QED
    BY <2>2, <2>3
<1>10. QED
  BY <1>3, <1>4, <1>5, <1>6, <1>7, <1>8, <1>9, ConnectionEffect

--------------------------------------------------------------------------------
(* The invariant.                                                          *)

\* Every step keeps the invariant.
LEMMA InvStep == IInv /\ [Next]_vars => IInv'
<1> SUFFICES ASSUME IInv, [Next]_vars PROVE IInv'
  OBVIOUS
<1>1. TypeOK' /\ CallInv'
  BY TypeStep, CallStep DEF IInv
<1>2. RequestsInv' /\ BatchesInOrder' /\ SupersededInv' /\ AttemptsInv' /\ AnswersInv'
  BY RequestsStep DEF IInv
<1>3. OkIsStored'
  BY OkStep DEF IInv
<1>4. SocketsInv' /\ PoolIsHealthy'
  <2>1. CASE UNCHANGED <<pc, outcome, conn, pool, socket>>
    BY <2>1 DEF IInv, SocketsInv, PoolIsHealthy
  <2>2. QED
    BY <2>1, ConnectionThreadStep, StoreEffect, AnswerEffect
       DEF IInv, Next, Terminated, Interrupt, vars, threadVars
<1>5. QED
  BY <1>1, <1>2, <1>3, <1>4 DEF IInv

\* The inductive invariant holds in every reachable state, with a truthful
\* intake or without.
THEOREM Invariance == Spec => []IInv
BY InvInit, InvStep, PTL DEF Spec

\* Every variable keeps its type: no count passes the rows of the chunk, no
\* attempt the number of retries.
THEOREM TypeCorrect == Spec => []TypeOK
<1>1. IInv => TypeOK
  BY DEF IInv
<1>2. QED
  BY <1>1, Invariance, PTL

\* A row is reported 'ok' only if the intake stored it.
THEOREM OkRowsAreStored == Spec => []OkIsStored
<1>1. IInv => OkIsStored
  BY DEF IInv
<1>2. QED
  BY <1>1, Invariance, PTL

\* A batch is sent only once all rows before it were acknowledged.
THEOREM BatchesAreOrdered == Spec => []BatchesInOrder
<1>1. IInv => BatchesInOrder
  BY DEF IInv
<1>2. QED
  BY <1>1, Invariance, PTL

\* A broken connection is never pooled, nor used for a request, and none is
\* used twice at a time.
THEOREM PooledConnectionsAreHealthy == Spec => []PoolIsHealthy
<1>1. IInv => PoolIsHealthy
  BY DEF IInv
<1>2. QED
  BY <1>1, Invariance, PTL

\* Every delay before a retry is between one second and a minute.
THEOREM WaitsAreClamped == Spec => []WaitIsClamped
<1>1. IInv => WaitIsClamped
  BY DEF IInv, CallInv, WaitIsClamped
<1>2. QED
  BY <1>1, Invariance, PTL

\* Two attempts that store the same row are the same attempt: if they belong
\* to one batch the earlier was refused, and batches do not overlap.
LEMMA StoredOnce ==
  ASSUME IInv, TruthfulErrors, NEW t \in Threads, NEW i \in 1..MaxRows,
         NEW m \in received, NEW n \in received, Holds(m, t, i), Holds(n, t, i)
  PROVE  m = n
<1>0. /\ m \in Requests /\ n \in Requests
      /\ m.first \in Nat /\ n.first \in Nat /\ m.attempt \in Nat /\ n.attempt \in Nat
      /\ rows[m] \in Nat /\ rows[n] \in Nat /\ i \in Nat
      /\ m.thread = t /\ n.thread = t
      /\ m.first < i /\ i <= m.first + stored[m]
      /\ n.first < i /\ i <= n.first + stored[n]
  <2>1. /\ received \subseteq Requests /\ rows \in [Requests -> 0..MaxRows]
        /\ MaxRows \in Nat /\ MaxRetries \in Nat
    BY LimitsAssumption DEF IInv, TypeOK, LimitsAssumption
  <2>2. QED
    BY <2>1, RequestIdentity DEF Holds
<1>1. stored[m] \in {0, rows[m]} /\ stored[n] \in {0, rows[n]}
  BY <1>0 DEF IInv, RequestsInv
<1>2. m.first = n.first
  <2>1. m.first < n.first => m.first + rows[m] <= n.first
    BY <1>0 DEF IInv, RequestsInv
  <2>2. n.first < m.first => n.first + rows[n] <= m.first
    BY <1>0 DEF IInv, RequestsInv
  <2>3. QED
    BY <1>0, <1>1, <2>1, <2>2
<1>3. stored[m] # 0 /\ stored[n] # 0
  BY <1>0, <1>1
<1>4. ~(m.attempt < n.attempt) /\ ~(n.attempt < m.attempt)
  BY <1>0, <1>2, <1>3 DEF IInv, SupersededInv, AnswersInv
<1>5. QED
  BY <1>0, <1>2, <1>4, RequestIdentity

\* If the intake stores nothing that it answers an error for, no row is ever
\* stored by two attempts, whatever fails, times out or arrives late.
THEOREM NoRowIsDoubleIndexed ==
  ASSUME TruthfulErrors
  PROVE  Spec => []NeverDoubleIndexed
<1>1. IInv => NeverDoubleIndexed
  BY StoredOnce DEF NeverDoubleIndexed
<1>2. QED
  BY <1>1, Invariance, PTL

--------------------------------------------------------------------------------
(* The size of the pool.                                                   *)

\* The sets that are counted are finite.
LEMMA HoldersFinite ==
  /\ IsFiniteSet(LogSenders) /\ Cardinality(LogSenders) \in Nat
  /\ IsFiniteSet(Holders) /\ Cardinality(Holders) \in Nat
  /\ Cardinality(Holders) <= Cardinality(LogSenders)
<1>1. IsFiniteSet(Threads) /\ LogSenders \in SUBSET Threads /\ Holders \in SUBSET LogSenders
  BY ThreadsAssumption DEF ThreadsAssumption, LogSenders, Holders
<1>2. IsFiniteSet(LogSenders)
  BY <1>1, FS_Subset
<1>3. IsFiniteSet(Holders) /\ Cardinality(Holders) <= Cardinality(LogSenders)
  BY <1>1, <1>2, FS_Subset
<1>4. QED
  BY <1>2, <1>3, FS_CardinalityType

\* What a step of a thread does to the pool and to those that hold a connection.
LEMMA HoldersEffect ==
  ASSUME TypeOK, CallInv, CallInv', NEW t \in Threads,
         Thread(t) \/ \E c \in Chunks : Collect(t, c)
  PROVE  /\ LogSenders' = LogSenders
         /\ \/ pool' = pool /\ Holders' \subseteq Holders
            \/ pool' = <<>>
            \/ Len(pool') = Len(pool) - 1 /\ Holders' \subseteq Holders \cup {t}
            \/ /\ Len(pool') = Len(pool) + 1
               /\ t \in Holders /\ Holders' \subseteq Holders \ {t}
<1> DEFINE Busy == Connected \cup {"creating"}
<1>0. /\ pc \in [Threads -> Running \cup Ended \cup {"idle"}]
      /\ kind' = kind /\ LogSenders' = LogSenders
      /\ \A u \in Threads : u # t => pc'[u] = pc[u]
  BY ThreadTypeStep, OthersKeep DEF TypeOK, LogSenders
\* Who holds a connection is told by where it is.
<1>1. /\ Holders = {u \in LogSenders : pc[u] \in Busy}
      /\ Holders' = {u \in LogSenders : pc'[u] \in Busy}
      /\ LogSenders = {u \in Threads : kind[u] = "logs"}
  BY <1>0 DEF LogSenders, Holders, CallInv, Connected
<1>2. /\ Holders' \subseteq Holders \cup {t}
      /\ pc'[t] \notin Busy => Holders' \subseteq Holders \ {t}
      /\ kind[t] # "logs" => Holders' \subseteq Holders
      /\ pc[t] \in Busy => Holders' \subseteq Holders
  BY <1>0, <1>1
<1>3. CASE AcquireIdle(t)
  BY <1>0, <1>2, <1>3, PopEffect
<1>4. CASE AcquireNone(t)
  BY <1>0, <1>2, <1>4 DEF AcquireNone
<1>5. CASE \E c \in Connections : NewConnection(t, c)
  BY <1>0, <1>2, <1>5 DEF NewConnection
<1>6. CASE Acknowledge(t)
  <2>1. CASE kind[t] = "logs"
    <3>1. pc[t] \in Busy /\ pc'[t] \notin Busy
      BY <1>0, <1>6, <2>1 DEF Acknowledge, Goto, Connected
    <3>2. t \in Holders /\ Len(pool') = Len(pool) + 1
      BY <1>1, <1>6, <2>1, <3>1, PushEffect
    <3>3. QED
      BY <1>0, <1>2, <3>1, <3>2
  <2>2. CASE kind[t] # "logs"
    BY <1>0, <1>2, <1>6, <2>2 DEF Acknowledge
  <2>3. QED
    BY <2>1, <2>2
<1>7. CASE Interrupted(t) \/ GiveUp(t)
  <2>1. pool' = pool /\ pc'[t] \notin Busy
    BY <1>0, <1>7 DEF Interrupted, GiveUp, Throw, Goto, Connected
  <2>2. QED
    BY <1>0, <1>2, <2>1
<1>8. CASE \/ \E c \in Chunks : Collect(t, c)
           \/ NextBatch(t) \/ StopBatching(t) \/ FinishCall(t)
  <2>1. pool' = pool /\ pc'[t] \notin Busy
    BY <1>0, <1>8 DEF Collect, NextBatch, StopBatching, FinishCall, Goto, Connected
  <2>2. QED
    BY <1>0, <1>2, <2>1
<1>9. CASE \/ Post(t) \/ TransportFails(t) \/ Answered(t) \/ RetryStatus(t) \/ Wake(t)
           \/ \E c \in Connections : RetryReconnected(t, c)
  <2>1. pool' = pool /\ pc[t] \in Busy
    BY <1>9 DEF Post, TransportFails, Answered, RetryStatus, RetryReconnected, Sleep, Wake,
                Connected
  <2>2. QED
    BY <1>0, <1>2, <2>1
<1>10. QED
  BY <1>3, <1>4, <1>5, <1>6, <1>7, <1>8, <1>9 DEF Thread

\* A connection enters the pool only from a log sender, which holds it until
\* then, and one is created by a log sender only when the pool is empty.
LEMMA PoolStep == IInv /\ IInv' /\ PoolInv /\ [Next]_vars => PoolInv'
<1> SUFFICES ASSUME IInv, IInv', PoolInv, [Next]_vars PROVE PoolInv'
  OBVIOUS
<1>0. /\ Len(pool) \in Nat /\ TypeOK /\ CallInv /\ CallInv'
      /\ Len(pool) + Cardinality(Holders) <= Cardinality(LogSenders)
  BY DEF IInv, TypeOK, PoolInv
<1>1. ASSUME NEW t \in Threads, Thread(t) \/ \E c \in Chunks : Collect(t, c)
      PROVE  PoolInv'
  <2>1. /\ IsFiniteSet(Holders) /\ Cardinality(Holders) \in Nat
        /\ Cardinality(LogSenders) \in Nat
    BY HoldersFinite
  <2>2. LogSenders' = LogSenders
    BY <1>0, <1>1, HoldersEffect
  <2>3. /\ IsFiniteSet(Holders') /\ Cardinality(Holders') \in Nat
        /\ Cardinality(Holders') <= Cardinality(LogSenders)
    <3>1. LogSenders' \in SUBSET Threads /\ Holders' \in SUBSET LogSenders'
      BY DEF LogSenders, Holders
    <3>2. IsFiniteSet(LogSenders)
      BY HoldersFinite
    <3>3. QED
      BY <2>2, <3>1, <3>2, FS_Subset, FS_CardinalityType
  <2>4. CASE pool' = pool /\ Holders' \subseteq Holders
    <3>1. Cardinality(Holders') <= Cardinality(Holders)
      BY <2>1, <2>4, FS_Subset
    <3>2. QED
      BY <1>0, <2>1, <2>2, <2>3, <2>4, <3>1 DEF PoolInv
  <2>5. CASE pool' = <<>>
    BY <2>2, <2>3, <2>5 DEF PoolInv
  <2>6. CASE Len(pool') = Len(pool) - 1 /\ Holders' \subseteq Holders \cup {t}
    <3>1. /\ IsFiniteSet(Holders \cup {t})
          /\ Cardinality(Holders \cup {t}) =
                IF t \in Holders THEN Cardinality(Holders) ELSE Cardinality(Holders) + 1
      BY <2>1, FS_AddElement
    <3>2. Cardinality(Holders') <= Cardinality(Holders \cup {t})
      BY <2>6, <3>1, FS_Subset
    <3>3. Cardinality(Holders') <= Cardinality(Holders) + 1
      BY <2>1, <2>3, <3>1, <3>2
    <3>4. Len(pool') + Cardinality(Holders') <= Cardinality(LogSenders')
      BY <1>0, <2>1, <2>2, <2>3, <2>6, <3>3
    <3>5. QED
      BY <3>4 DEF PoolInv
  <2>7. CASE /\ Len(pool') = Len(pool) + 1
             /\ t \in Holders /\ Holders' \subseteq Holders \ {t}
    <3>1. /\ IsFiniteSet(Holders \ {t})
          /\ Cardinality(Holders \ {t}) = Cardinality(Holders) - 1
      BY <2>1, <2>7, FS_RemoveElement
    <3>2. Cardinality(Holders') <= Cardinality(Holders) - 1
      BY <2>1, <2>3, <2>7, <3>1, FS_Subset
    <3>3. QED
      BY <1>0, <2>1, <2>2, <2>3, <2>7, <3>2 DEF PoolInv
  <2>8. QED
    BY <1>0, <1>1, <2>4, <2>5, <2>6, <2>7, HoldersEffect
<1>2. CASE UNCHANGED <<pc, conn, kind, pool>>
  BY <1>2 DEF PoolInv, Holders, LogSenders
<1>3. QED
  BY <1>1, <1>2, StoreEffect, AnswerEffect
     DEF Next, Terminated, Interrupt, vars, threadVars

\* The log senders' bound leaves room for the others, which never pool.
LEMMA BoundFromInv == IInv /\ PoolInv => PoolIsBounded
<1> SUFFICES ASSUME IInv, PoolInv PROVE PoolIsBounded
  OBVIOUS
<1> DEFINE Using == {t \in Threads : conn[t] # None \/ pc[t] = "creating"}
           Others == Threads \ LogSenders
<1>1. /\ IsFiniteSet(Threads) /\ LogSenders \in SUBSET Threads
      /\ Using \in SUBSET (Holders \cup Others)
      /\ Holders \cap Others = {} /\ LogSenders \cap Others = {}
      /\ LogSenders \cup Others = Threads
  BY ThreadsAssumption DEF ThreadsAssumption, LogSenders, Holders
<1>2. Others \in SUBSET Threads
  OBVIOUS
<1> HIDE DEF Using, Others
<1>3. IsFiniteSet(Others) /\ Cardinality(Others) \in Nat
  BY <1>1, <1>2, FS_Subset, FS_CardinalityType
<1>4. /\ IsFiniteSet(Holders \cup Others)
      /\ Cardinality(Holders \cup Others) = Cardinality(Holders) + Cardinality(Others)
      /\ Cardinality(Threads) = Cardinality(LogSenders) + Cardinality(Others)
  <2>1. Cardinality({}) = 0
    BY FS_EmptySet
  <2>2. /\ IsFiniteSet(Holders \cup Others)
        /\ Cardinality(Holders \cup Others) =
              Cardinality(Holders) + Cardinality(Others) - Cardinality(Holders \cap Others)
    BY <1>3, HoldersFinite, FS_Union
  <2>3. Cardinality(LogSenders \cup Others) =
           Cardinality(LogSenders) + Cardinality(Others) - Cardinality(LogSenders \cap Others)
    BY <1>3, HoldersFinite, FS_Union
  <2>4. /\ Cardinality(Holders \cap Others) = 0 /\ Cardinality(LogSenders \cap Others) = 0
        /\ Cardinality(LogSenders \cup Others) = Cardinality(Threads)
    BY <1>1, <2>1, Zenon
  <2>5. QED
    BY <1>3, <2>2, <2>3, <2>4, HoldersFinite
<1>5. /\ Cardinality(Using) <= Cardinality(Holders) + Cardinality(Others)
      /\ Cardinality(Using) \in Nat
  BY <1>1, <1>4, FS_Subset, FS_CardinalityType
<1>6. Len(pool) \in Nat
  BY DEF IInv, TypeOK
<1>7. Len(pool) + Cardinality(Using) <= Cardinality(Threads)
  BY <1>3, <1>4, <1>5, <1>6, HoldersFinite DEF PoolInv
<1>8. QED
  BY <1>7 DEF PoolIsBounded, Using

\* The pool and the connections in use are never more than the threads, of
\* whatever functions, although a connection is created outside the mutex.
THEOREM PoolStaysBounded == Spec => []PoolIsBounded
<1>1. Init => PoolInv
  <2> SUFFICES ASSUME Init PROVE PoolInv
    OBVIOUS
  <2>1. Len(pool) = 0
    BY DEF Init
  <2>2. QED
    BY <2>1, HoldersFinite DEF PoolInv
<1>2. QED
  BY <1>1, Invariance, PoolStep, BoundFromInv, PTL DEF Spec
================================================================================
