-------------------------- MODULE DatadogReadsProofs --------------------------
(***************************************************************************)
(* What each scan guarantees a query, proved with TLAPS: the cursor scans,  *)
(* for every page size, cap, chunk size, number of events and behaviour of *)
(* the API; the open alerts, for every listing, page size and change of it *)
(* while it is paged through; the scans that ask once, for every answer,   *)
(* window and clock.                                                       *)
(***************************************************************************)
EXTENDS DatadogReads, OperatorProofs, SequenceTheorems, FiniteSetTheorems, TLAPS

\* The rows of a page.
LEMMA RowsProperties ==
  ASSUME NEW first \in Nat, NEW last \in Nat, first <= last
  PROVE  /\ Rows(first, last) \in Seq(Nat)
         /\ Len(Rows(first, last)) = last - first
         /\ \A i \in 1..(last - first) : Rows(first, last)[i] = first + i
<1>1. Rows(first, last) \in [1..(last - first) -> Nat]
  BY DEF Rows
<1>2. QED
  BY <1>1 DEF Rows

\* The rows of the buffer that go into a chunk follow those emitted before.
LEMMA HeadProperties ==
  ASSUME NEW s \in Seq(Nat), NEW t \in Seq(Nat), NEW n \in 0..Len(t)
  PROVE  /\ s \o SubSeq(t, 1, n) \in Seq(Nat)
         /\ Len(s \o SubSeq(t, 1, n)) = Len(s) + n
         /\ \A i \in 1..Len(s) : (s \o SubSeq(t, 1, n))[i] = s[i]
         /\ \A i \in Len(s) + 1 .. Len(s) + n :
               (s \o SubSeq(t, 1, n))[i] = t[i - Len(s)]
<1> DEFINE head == SubSeq(t, 1, n)
<1>1. Len(t) \in Nat /\ n \in Nat /\ n <= Len(t) /\ Len(s) \in Nat
  OBVIOUS
<1>2. \A i \in 1..n : t[i] \in Nat
  BY <1>1, ElementOfSeq
<1>3. /\ head \in Seq(Nat)
      /\ Len(head) = IF 1 <= n THEN n - 1 + 1 ELSE 0
      /\ \A i \in 1..n - 1 + 1 : head[i] = t[1 + i - 1]
  BY <1>1, <1>2, SubSeqProperties
<1>4. n - 1 + 1 = n /\ \A i \in 1..n : 1 + i - 1 = i
  BY <1>1
<1>5. Len(head) = n
  BY <1>1, <1>3, <1>4
<1>6. \A i \in 1..n : head[i] = t[i]
  BY <1>3, <1>4
<1>7. /\ s \o head \in Seq(Nat)
      /\ Len(s \o head) = Len(s) + n
      /\ \A i \in 1..Len(s) + n : (s \o head)[i] = IF i <= Len(s) THEN s[i] ELSE head[i - Len(s)]
  BY <1>3, <1>5, ConcatProperties
<1>8. QED
  BY <1>1, <1>6, <1>7

\* The rows of the buffer that are left.
LEMMA RestProperties ==
  ASSUME NEW t \in Seq(Nat), NEW n \in 0..Len(t)
  PROVE  /\ SubSeq(t, n + 1, Len(t)) \in Seq(Nat)
         /\ Len(SubSeq(t, n + 1, Len(t))) = Len(t) - n
         /\ \A i \in 1..(Len(t) - n) : SubSeq(t, n + 1, Len(t))[i] = t[n + i]
<1> DEFINE rest == SubSeq(t, n + 1, Len(t))
<1>1. Len(t) \in Nat /\ n \in Nat /\ n <= Len(t)
  OBVIOUS
<1>2. \A i \in n + 1 .. Len(t) : t[i] \in Nat
  BY <1>1, ElementOfSeq
<1>3. /\ rest \in Seq(Nat)
      /\ Len(rest) = IF n + 1 <= Len(t) THEN Len(t) - (n + 1) + 1 ELSE 0
      /\ \A i \in 1..Len(t) - (n + 1) + 1 : rest[i] = t[n + 1 + i - 1]
  BY <1>1, <1>2, SubSeqProperties
<1>4. /\ Len(t) - (n + 1) + 1 = Len(t) - n
      /\ \A i \in 1..(Len(t) - n) : n + 1 + i - 1 = n + i
  BY <1>1
<1>5. Len(rest) = Len(t) - n
  <2>1. Len(rest) = IF n + 1 <= Len(t) THEN Len(t) - (n + 1) + 1 ELSE 0
    BY <1>3
  <2> HIDE DEF rest
  <2>2. QED
    BY <1>1, <2>1
<1>6. \A i \in 1..(Len(t) - n) : rest[i] = t[n + i]
  BY <1>3, <1>4
<1>7. QED
  BY <1>3, <1>5, <1>6

--------------------------------------------------------------------------------
\* The initial states satisfy the invariant.
LEMMA InvInit == Init => IInv
<1> SUFFICES ASSUME Init PROVE IInv
  OBVIOUS
<1> USE RetriesAssumption, ScanAssumption, NoneAssumption
    DEF RetriesAssumption, ScanAssumption, NoneAssumption, Init, RequestInit
<1>1. page_size \in Nat \ {0} /\ max_rows \in Nat /\ events \in Nat
  OBVIOUS
<1>2. TypeOK
  BY DEF TypeOK, RequestOK
<1>3. RowsInv
  BY <1>1 DEF RowsInv, Position
<1>4. CapInv
  BY <1>1 DEF CapInv, MaxRowsReached, PageLimit, Smaller
<1>5. CompleteInv
  BY <1>1 DEF CompleteInv, Position, Wanted, Smaller
<1>6. ControlInv
  BY DEF ControlInv
<1>7. QED
  BY <1>2, <1>3, <1>4, <1>5, <1>6 DEF IInv

\* A step of the request that leaves the scan alone, and begins no request,
\* preserves its invariant.
LEMMA RequestStepPreserves ==
  ASSUME IInv, UNCHANGED <<bindVars, scanVars>>, RequestStep \/ Interrupt
  PROVE  IInv'
<1> USE DEF IInv, bindVars, scanVars
<1>1. RequestOK' /\ (request' # "idle" \/ Interrupt)
  <2>1. CASE InterruptedRequest
    BY <2>1 DEF InterruptedRequest, TypeOK, RequestOK, Underway, Threw
  <2>2. CASE SendRequest
    BY <2>2 DEF SendRequest, TypeOK, RequestOK, Underway, Threw
  <2>3. CASE WakeRequest
    BY <2>3, RetriesAssumption
       DEF RetriesAssumption, WakeRequest, TypeOK, RequestOK, Underway, Threw
  <2>4. ASSUME NEW outcome \in ReadFailures, RetryRequest(outcome)
        PROVE  RequestOK' /\ request' # "idle"
    <3>1. attempt \in Nat /\ attempt < MaxRetries
      BY <2>4, RetriesAssumption
         DEF RetriesAssumption, RetryRequest, ReadRetries, TypeOK, RequestOK
    <3>2. PICK seconds \in 0..60 : Delay(outcome, seconds) /\ wait' = seconds
      BY <2>4 DEF RetryRequest
    <3>3. seconds \in 1..60
      BY <3>1, <3>2, BackoffRange, RateLimitRange, RetriesAssumption
         DEF RetriesAssumption, Delay
    <3>4. QED
      BY <2>4, <3>1, <3>2, <3>3 DEF RetryRequest, TypeOK, RequestOK, Underway, Threw
  <2>5. ASSUME NEW outcome \in ReadFailures, FailRequest(outcome)
        PROVE  RequestOK' /\ request' # "idle"
    BY <2>5 DEF FailRequest, TypeOK, RequestOK, Underway, Threw
  <2>6. CASE Interrupt
    BY <2>6 DEF Interrupt, TypeOK, RequestOK, Underway, Threw
  <2>7. QED
    BY <2>1, <2>2, <2>3, <2>4, <2>5, <2>6 DEF RequestStep
<1>2. request # "idle" \/ Interrupt
  BY DEF RequestStep, InterruptedRequest, SendRequest, WakeRequest, RetryRequest,
         FailRequest
<1>3. request' = request \/ request # "failed"
  BY DEF RequestStep, InterruptedRequest, SendRequest, WakeRequest, RetryRequest,
         FailRequest, Interrupt
<1>4. TypeOK'
  BY <1>1 DEF TypeOK
<1>5. RowsInv'
  BY DEF RowsInv, Position
<1>6. CapInv'
  BY <1>3 DEF CapInv, MaxRowsReached, PageLimit
<1>7. CompleteInv'
  BY <1>3 DEF CompleteInv, Position, Wanted
<1>8. ControlInv'
  BY <1>2 DEF ControlInv, Interrupt
<1>9. QED
  BY <1>4, <1>5, <1>6, <1>7, <1>8

\* The types of what the actions compute with.
LEMMA Types ==
  ASSUME TypeOK
  PROVE  /\ page_size \in Nat \ {0} /\ max_rows \in Nat /\ events \in Nat
         /\ row_budget_used \in Nat /\ total_emitted \in Nat
         /\ Position(cursor) \in Nat
         /\ PageLimit(row_budget_used) \in Nat
<1>1. page_size \in Nat \ {0} /\ max_rows \in Nat /\ events \in Nat
  BY ScanAssumption DEF ScanAssumption, TypeOK
<1>2. Position(cursor) \in Nat
  BY DEF TypeOK, Position, Cursors
<1>3. row_budget_used \in Nat /\ total_emitted \in Nat
  BY DEF TypeOK
<1>4. PageLimit(row_budget_used) \in Nat
  BY <1>1, <1>3 DEF PageLimit, Smaller
<1>5. QED
  BY <1>1, <1>2, <1>3, <1>4

\* A page preserves the invariant, whether the API fills it or not.
LEMMA ReceivePagePreserves ==
  ASSUME IInv, NEW last \in 0..events,
         NEW after \in {None, cursor} \cup [position : {last}, mark : 0..1],
         ReceivePage(last, after)
  PROVE  IInv'
<1> DEFINE first == Position(cursor)
<1> DEFINE limit == PageLimit(row_budget_used)
<1>1. /\ page_size \in Nat \ {0} /\ max_rows \in Nat /\ events \in Nat
      /\ row_budget_used \in Nat /\ total_emitted \in Nat
      /\ first \in Nat /\ limit \in Nat /\ last \in Nat
  BY Types DEF IInv
<1>2. /\ request = "waiting" /\ request' = "idle"
      /\ UNCHANGED <<attempt, wait, query, page_size, max_rows, events, reliable, pc,
                     total_emitted, output>>
      /\ row_budget_used' = row_budget_used + limit
      /\ finished' = IsLast(last - first, after, row_budget_used')
      /\ cursor' = IF finished' THEN cursor ELSE after
  BY DEF ReceivePage, FinishRequest, bindVars
<1>3. /\ pc = "scanning" /\ buffer = <<>> /\ ~finished
      /\ first = Len(output) /\ limit > 0
  BY <1>1, <1>2 DEF IInv, ControlInv, RowsInv, CapInv, TypeOK
<1>4. first <= last /\ last <= events
  BY <1>1 DEF ReceivePage, Page
<1>5. /\ buffer' \in Seq(Nat) /\ Len(buffer') = last - first
      /\ \A i \in 1..(last - first) : buffer'[i] = first + i
  <2>1. buffer' = <<>> \o Rows(first, last)
    BY <1>3 DEF ReceivePage
  <2>2. buffer' = Rows(first, last)
    BY <2>1, <1>1, <1>4, RowsProperties, ConcatEmptySeq
  <2>3. QED
    BY <2>2, <1>1, <1>4, RowsProperties
<1>6. finished' \in BOOLEAN
  BY <1>2 DEF IsLast
<1>7. ~finished' => /\ PageLimit(row_budget_used)' # 0
                    /\ after \in [position : {last}, mark : 0..1]
  <2>1. PageLimit(row_budget_used)' = PageLimit(row_budget_used')
    BY <1>2 DEF PageLimit
  <2>2. QED
    BY <1>2, <2>1 DEF IsLast
<1>8. ~finished' => Position(cursor)' = last
  <2> SUFFICES ASSUME ~finished' PROVE Position(cursor)' = last
    OBVIOUS
  <2>1. cursor' = after /\ after.position = last
    BY <1>2, <1>7
  <2>2. after \in Cursors
    BY <1>1, <1>7 DEF Cursors
  <2>3. QED
    BY <2>1, <2>2, NoneAssumption DEF NoneAssumption, Position
<1>9. TypeOK'
  <2>1. RequestOK'
    BY <1>2 DEF IInv, TypeOK, RequestOK
  <2>2. cursor' \in Cursors \cup {None}
    <3>1. CASE finished'
      BY <1>2, <3>1 DEF IInv, TypeOK
    <3>2. CASE ~finished'
      BY <1>1, <1>2, <1>7, <3>2 DEF Cursors
    <3>3. QED
      BY <3>1, <3>2
  <2>3. row_budget_used' \in Nat
    BY <1>1, <1>2
  <2>4. QED
    BY <1>2, <1>5, <1>6, <2>1, <2>2, <2>3 DEF IInv, TypeOK
<1>10. RowsInv'
  BY <1>1, <1>2, <1>3, <1>4, <1>5, <1>8 DEF IInv, RowsInv
<1>11. CapInv'
  <2>1. max_rows > 0 => row_budget_used + limit <= max_rows
    BY <1>1, <1>3 DEF PageLimit, Smaller, IInv, CapInv
  <2>2. ~MaxRowsReached(total_emitted)'
    BY <1>2, <1>3 DEF IInv, CapInv, MaxRowsReached
  <2>3. ~finished' => PageLimit(row_budget_used)' > 0
    <3>1. PageLimit(row_budget_used)' \in Nat
      BY <1>1, <1>2 DEF PageLimit, Smaller
    <3>2. QED
      BY <1>7, <3>1
  <2>4. QED
    BY <1>1, <1>2, <2>1, <2>2, <2>3 DEF IInv, CapInv
<1>12. CompleteInv'
  <2> SUFFICES ASSUME reliable
               PROVE  /\ ~finished' => Position(cursor)' \in {events, row_budget_used'}
                      /\ finished' => Len(output') + Len(buffer') >= Wanted'
    BY <1>2 DEF CompleteInv
  <2>1. /\ last = Smaller(events, first + limit)
        /\ after = cursor \/ after = None => last = events
    BY DEF ReceivePage, Page
  <2>2. first \in {events, row_budget_used}
    BY <1>2, <1>3 DEF IInv, CompleteInv
  <2>3. last \in {events, row_budget_used'}
    BY <1>1, <1>2, <1>4, <2>1, <2>2 DEF Smaller
  <2>4. ASSUME finished' PROVE last >= Wanted'
    <3>1. CASE last = events
      BY <1>1, <1>2, <3>1 DEF Wanted, Smaller
    <3>2. CASE last # events
      <4>1. last = first + limit /\ last > first /\ last = row_budget_used'
        BY <1>1, <1>3, <2>1, <2>3, <3>2 DEF Smaller
      <4>2. PageLimit(row_budget_used') = 0
        <5>1. IsLast(last - first, after, row_budget_used')
          BY <1>2, <2>4
        <5>2. last - first # 0 /\ after # cursor /\ after # None
          BY <1>1, <2>1, <3>2, <4>1
        <5>3. QED
          BY <5>1, <5>2 DEF IsLast
      <4>3. max_rows > 0 /\ row_budget_used' >= max_rows
        BY <1>1, <1>2, <4>2 DEF PageLimit, Smaller
      <4>4. QED
        BY <1>1, <1>2, <4>1, <4>3 DEF Wanted, Smaller
    <3>3. QED
      BY <3>1, <3>2
  <2>5. QED
    BY <1>1, <1>2, <1>3, <1>5, <1>8, <2>3, <2>4
<1>13. ControlInv'
  BY <1>2, <1>3 DEF ControlInv
<1>14. QED
  BY <1>9, <1>10, <1>11, <1>12, <1>13 DEF IInv

\* The chunk a call returns is within the buffer, and empty only if that is.
LEMMA ChunkSizeRange ==
  ASSUME IInv
  PROVE  /\ ChunkSize \in 0..Len(buffer)
         /\ max_rows > 0 => total_emitted + ChunkSize <= max_rows
         /\ ChunkSize = 0 => buffer = <<>>
<1>1. /\ max_rows \in Nat /\ total_emitted \in Nat /\ VectorSize \in Nat \ {0}
      /\ total_emitted = Len(output)
  BY Types, ScanAssumption DEF ScanAssumption, IInv, RowsInv
<1>2. buffer \in Seq(Nat) /\ Len(buffer) \in Nat /\ (Len(buffer) = 0 => buffer = <<>>)
  BY EmptySeq DEF IInv, TypeOK
<1>3. max_rows > 0 =>
        /\ total_emitted <= max_rows
        /\ total_emitted = max_rows => buffer = <<>>
  BY <1>1 DEF IInv, CapInv, MaxRowsReached
<1>4. CASE max_rows > 0
  BY <1>1, <1>2, <1>3, <1>4 DEF ChunkSize, Smaller
<1>5. CASE max_rows = 0
  BY <1>1, <1>2, <1>5 DEF ChunkSize, Smaller
<1>6. QED
  BY <1>1, <1>4, <1>5

\* What one call emits: the next ChunkSize rows.
LEMMA EmitRows ==
  ASSUME IInv, Emit
  PROVE  LET n == ChunkSize IN
         /\ output' \in Seq(Nat) /\ Len(output') = Len(output) + n
         /\ \A i \in 1..Len(output') : output'[i] = i
         /\ total_emitted' = Len(output')
         /\ buffer' \in Seq(Nat)
         /\ \A i \in 1..Len(buffer') : buffer'[i] = Len(output') + i
         /\ \/ MaxRowsReached(total_emitted') /\ finished' /\ buffer' = <<>>
            \/ /\ ~MaxRowsReached(total_emitted') /\ UNCHANGED finished
               /\ Len(buffer') = Len(buffer) - n
               /\ buffer' = SubSeq(buffer, n + 1, Len(buffer))
<1> DEFINE n == ChunkSize
<1> DEFINE rest == SubSeq(buffer, n + 1, Len(buffer))
<1>1. /\ buffer \in Seq(Nat) /\ output \in Seq(Nat)
      /\ Len(buffer) \in Nat /\ Len(output) \in Nat
      /\ n \in 0..Len(buffer) /\ n \in Nat
      /\ total_emitted = Len(output)
      /\ \A i \in 1..Len(output) : output[i] = i
      /\ \A i \in 1..Len(buffer) : buffer[i] = Len(output) + i
  BY ChunkSizeRange DEF IInv, TypeOK, RowsInv
<1>2. /\ output' = output \o SubSeq(buffer, 1, n)
      /\ total_emitted' = total_emitted + n
      /\ \/ MaxRowsReached(total_emitted') /\ finished' /\ buffer' = <<>>
         \/ ~MaxRowsReached(total_emitted') /\ UNCHANGED finished /\ buffer' = rest
  BY DEF Emit
<1>3. /\ output' \in Seq(Nat) /\ Len(output') = Len(output) + n
      /\ \A i \in 1..Len(output) : output'[i] = output[i]
      /\ \A i \in Len(output) + 1 .. Len(output) + n : output'[i] = buffer[i - Len(output)]
      /\ rest \in Seq(Nat) /\ Len(rest) = Len(buffer) - n
      /\ \A i \in 1..(Len(buffer) - n) : rest[i] = buffer[n + i]
  <2> HIDE DEF n
  <2>1. /\ output' = output \o SubSeq(buffer, 1, n)
        /\ buffer \in Seq(Nat) /\ output \in Seq(Nat) /\ n \in 0..Len(buffer)
    BY <1>1, <1>2
  <2> DEFINE out == output \o SubSeq(buffer, 1, n)
  <2>2. /\ out \in Seq(Nat) /\ Len(out) = Len(output) + n
        /\ \A i \in 1..Len(output) : out[i] = output[i]
        /\ \A i \in Len(output) + 1 .. Len(output) + n : out[i] = buffer[i - Len(output)]
    BY <2>1, HeadProperties
  <2>3. /\ rest \in Seq(Nat) /\ Len(rest) = Len(buffer) - n
        /\ \A i \in 1..(Len(buffer) - n) : rest[i] = buffer[n + i]
    BY <2>1, RestProperties
  <2> HIDE DEF out, rest
  <2>4. output' = out
    BY <2>1 DEF out
  <2>5. QED
    BY <2>2, <2>3, <2>4
<1>4. \A i \in 1..Len(output') : output'[i] = i
  <2> SUFFICES ASSUME NEW i \in 1..Len(output') PROVE output'[i] = i
    OBVIOUS
  <2> HIDE DEF n
  <2>1. CASE i <= Len(output)
    BY <1>1, <1>3, <2>1
  <2>2. CASE i > Len(output)
    <3>1. i - Len(output) \in 1..Len(buffer) /\ i \in Len(output) + 1 .. Len(output) + n
      BY <1>1, <1>3, <2>2
    <3>2. buffer[i - Len(output)] = Len(output) + (i - Len(output))
      BY <1>1, <3>1
    <3>3. QED
      BY <1>1, <1>3, <3>1, <3>2
  <2>3. QED
    BY <1>1, <1>3, <2>1, <2>2
<1>5. \A i \in 1..Len(rest) : rest[i] = Len(output') + i
  <2> SUFFICES ASSUME NEW i \in 1..Len(rest) PROVE rest[i] = Len(output') + i
    OBVIOUS
  <2> HIDE DEF n, rest
  <2>1. n + i \in 1..Len(buffer) /\ i \in 1..(Len(buffer) - n)
    BY <1>1, <1>3
  <2>2. rest[i] = Len(output) + (n + i)
    BY <1>1, <1>3, <2>1
  <2>3. QED
    BY <1>1, <1>3, <2>1, <2>2
<1>6. QED
  <2> HIDE DEF n, rest
  <2>1. CASE MaxRowsReached(total_emitted') /\ finished' /\ buffer' = <<>>
    <3>1. buffer' \in Seq(Nat) /\ Len(buffer') = 0
      BY <2>1, EmptySeq
    <3>2. \A i \in 1..Len(buffer') : buffer'[i] = Len(output') + i
      BY <3>1
    <3>3. total_emitted' = Len(output')
      BY <1>1, <1>2, <1>3
    <3>4. QED
      BY <1>3, <1>4, <2>1, <3>1, <3>2, <3>3 DEF n
  <2>2. CASE ~MaxRowsReached(total_emitted') /\ UNCHANGED finished /\ buffer' = rest
    BY <1>1, <1>2, <1>3, <1>4, <1>5, <2>2 DEF n, rest
  <2>3. QED
    BY <1>2, <2>1, <2>2

\* Returning a chunk preserves the invariant.
LEMMA EmitPreserves ==
  ASSUME IInv, Emit
  PROVE  IInv'
<1> DEFINE n == ChunkSize
<1> DEFINE full == MaxRowsReached(total_emitted')
<1>1. /\ max_rows \in Nat /\ events \in Nat /\ total_emitted \in Nat
      /\ n \in Nat /\ n <= Len(buffer) /\ Len(buffer) \in Nat /\ Len(output) \in Nat
      /\ max_rows > 0 => total_emitted + n <= max_rows
      /\ total_emitted = Len(output)
  BY Types, ChunkSizeRange DEF IInv, TypeOK, RowsInv
<1>2. n = 0 => buffer = <<>>
  BY ChunkSizeRange
<1>3. /\ output' \in Seq(Nat) /\ buffer' \in Seq(Nat)
      /\ \A i \in 1..Len(output') : output'[i] = i
      /\ \A i \in 1..Len(buffer') : buffer'[i] = Len(output') + i
  BY EmitRows
<1>4. Len(output') = Len(output) + n /\ total_emitted' = Len(output')
  BY EmitRows
<1>5. full => finished' /\ buffer' = <<>>
  BY EmitRows
<1>6. ~full => finished' = finished /\ Len(buffer') = Len(buffer) - n
  BY EmitRows
<1>7. /\ UNCHANGED <<request, attempt, wait, query, page_size, max_rows, events, reliable,
                     cursor, row_budget_used>>
      /\ pc = "scanning" /\ request = "idle"
      /\ buffer # <<>> \/ finished
      /\ pc' = IF n = 0 THEN "ended" ELSE "idle"
  BY DEF Emit, requestVars, bindVars
<1>8. /\ UNCHANGED <<PageLimit(row_budget_used), Position(cursor), Wanted>>
      /\ MaxRowsReached(total_emitted)' <=> full
      /\ full => max_rows > 0 /\ total_emitted' >= max_rows
  BY <1>7 DEF PageLimit, Position, Wanted, MaxRowsReached
<1> HIDE DEF n, full
<1>9. full => Len(buffer') = 0
  BY <1>5, EmptySeq
<1>10. TypeOK'
  <2>1. finished' \in BOOLEAN
    BY <1>5, <1>6 DEF IInv, TypeOK
  <2>2. total_emitted' \in Nat
    BY <1>1, <1>4
  <2>3. QED
    BY <1>3, <1>7, <2>1, <2>2 DEF IInv, TypeOK, RequestOK
<1>11. RowsInv'
  <2>1. /\ Len(output) + Len(buffer) <= events
        /\ ~finished => Position(cursor) = Len(output) + Len(buffer)
    BY DEF IInv, RowsInv
  <2>2. Len(output') + Len(buffer') <= events
    BY <1>1, <1>4, <1>6, <1>9, <2>1
  <2>3. ~finished' => Position(cursor) = Len(output') + Len(buffer')
    BY <1>1, <1>4, <1>5, <1>6, <2>1
  <2>4. QED
    BY <1>3, <1>4, <1>7, <1>8, <2>2, <2>3 DEF RowsInv
<1>12. CapInv'
  <2>1. max_rows > 0 => Len(output') <= max_rows /\ row_budget_used <= max_rows
    BY <1>1, <1>4 DEF IInv, CapInv
  <2>2. ~finished' => PageLimit(row_budget_used) > 0
    BY <1>5, <1>6, <1>7 DEF IInv, CapInv
  <2>3. QED
    BY <1>5, <1>7, <1>8, <2>1, <2>2 DEF CapInv
<1>13. CompleteInv'
  <2> SUFFICES ASSUME reliable
               PROVE  /\ ~finished' => Position(cursor) \in {events, row_budget_used}
                      /\ finished' => Len(output') + Len(buffer') >= Wanted
    BY <1>7, <1>8 DEF CompleteInv
  <2>1. ~finished' => Position(cursor) \in {events, row_budget_used}
    BY <1>5, <1>6, <1>7 DEF IInv, CompleteInv
  <2>2. CASE full
    BY <1>1, <1>4, <1>8, <1>9, <2>1, <2>2 DEF Wanted, Smaller
  <2>3. CASE ~full
    <3>1. finished => Len(output) + Len(buffer) >= Wanted
      BY DEF IInv, CompleteInv
    <3>2. Wanted \in Nat
      BY <1>1 DEF Wanted, Smaller
    <3>3. QED
      BY <1>1, <1>4, <1>6, <2>1, <2>3, <3>1, <3>2
  <2>4. QED
    BY <2>2, <2>3
<1>14. ControlInv'
  <2>1. ASSUME n = 0 PROVE finished' /\ buffer' = <<>>
    <3>1. CASE full
      BY <1>5, <3>1
    <3>2. CASE ~full
      <4>1. Len(buffer) = 0
        BY <1>2, <2>1, EmptySeq
      <4>2. finished' /\ Len(buffer') = 0
        BY <1>2, <1>6, <1>7, <2>1, <3>2, <4>1
      <4>3. QED
        BY <1>3, <4>2, EmptySeq
    <3>3. QED
      BY <3>1, <3>2
  <2>2. QED
    BY <1>7, <2>1 DEF ControlInv
<1>15. QED
  BY <1>10, <1>11, <1>12, <1>13, <1>14 DEF IInv

\* Every step preserves the invariant.
LEMMA InvNext == IInv /\ [Next]_vars => IInv'
<1> SUFFICES ASSUME IInv, [Next]_vars PROVE IInv'
  OBVIOUS
<1>1. CASE Call
  <2>1. /\ UNCHANGED <<request, attempt, wait, query, page_size, max_rows, events, reliable,
                       cursor, row_budget_used, total_emitted, output>>
        /\ pc = "idle" /\ pc' = "scanning"
    BY <1>1 DEF Call, requestVars, bindVars
  <2>2. UNCHANGED <<finished, buffer>>
    BY <1>1 DEF Call, IInv, CapInv, TypeOK
  <2>3. TypeOK'
    BY <2>1, <2>2 DEF IInv, TypeOK, RequestOK
  <2>4. RowsInv' /\ CapInv' /\ CompleteInv'
    BY <2>1, <2>2 DEF IInv, RowsInv, CapInv, CompleteInv, Position, PageLimit,
                      MaxRowsReached, Wanted
  <2>5. ControlInv'
    BY <2>1, <2>2 DEF IInv, ControlInv
  <2>6. QED
    BY <2>3, <2>4, <2>5 DEF IInv
<1>2. CASE FetchNextPage
  <2>1. /\ UNCHANGED <<wait, query, page_size, max_rows, events, reliable, pc, buffer, cursor,
                       row_budget_used, total_emitted, finished, output>>
        /\ request = "idle" /\ request' = "starting" /\ attempt' = 0
        /\ pc = "scanning" /\ buffer = <<>> /\ ~finished
    BY <1>2 DEF FetchNextPage, BeginRequest, bindVars, scanVars
  <2>2. TypeOK'
    BY <2>1, RetriesAssumption DEF RetriesAssumption, IInv, TypeOK, RequestOK, Underway
  <2>3. RowsInv' /\ CapInv' /\ CompleteInv'
    BY <2>1 DEF IInv, RowsInv, CapInv, CompleteInv, Position, PageLimit,
                MaxRowsReached, Wanted
  <2>4. ControlInv'
    BY <2>1 DEF ControlInv
  <2>5. QED
    BY <2>2, <2>3, <2>4 DEF IInv
<1>3. CASE MalformedPage
  <2>1. /\ UNCHANGED <<attempt, wait, query, page_size, max_rows, events, reliable, pc, buffer,
                       cursor, total_emitted, finished, output>>
        /\ request = "waiting" /\ request' = "failed"
        /\ row_budget_used' = row_budget_used + PageLimit(row_budget_used)
    BY <1>3 DEF MalformedPage, FinishRequest, bindVars
  <2>2. /\ row_budget_used' \in Nat
        /\ max_rows > 0 => row_budget_used' <= max_rows
    BY <2>1, Types DEF IInv, CapInv, PageLimit, Smaller
  <2>3. TypeOK'
    BY <2>1, <2>2 DEF IInv, TypeOK, RequestOK, Threw
  <2>4. RowsInv' /\ CapInv' /\ CompleteInv'
    BY <2>1, <2>2 DEF IInv, RowsInv, CapInv, CompleteInv, Position, MaxRowsReached,
                      Wanted
  <2>5. ControlInv'
    BY <2>1 DEF IInv, ControlInv
  <2>6. QED
    BY <2>3, <2>4, <2>5 DEF IInv
<1>4. CASE Emit
  BY <1>4, EmitPreserves
<1>5. CASE RequestAction \/ InterruptQuery
  BY <1>5, RequestStepPreserves DEF RequestAction, InterruptQuery
<1>6. ASSUME NEW last \in 0..events,
             NEW after \in {None, cursor} \cup [position : {last}, mark : 0..1],
             ReceivePage(last, after)
      PROVE  IInv'
  BY <1>6, ReceivePagePreserves
<1>7. CASE UNCHANGED vars
  BY <1>7 DEF vars, requestVars, bindVars, scanVars, IInv, TypeOK, RequestOK, RowsInv,
              CapInv, CompleteInv, ControlInv, Position, PageLimit, MaxRowsReached, Wanted
<1>8. QED
  BY <1>1, <1>2, <1>3, <1>4, <1>5, <1>6, <1>7 DEF Next, Scan, Terminated

--------------------------------------------------------------------------------
(* The scan implements the stream of rows.                                 *)

\* A cursor scan starts with an empty stream.
LEMMA RefineInit == Init => Stream!Init
<1> SUFFICES ASSUME Init PROVE Stream!Init
  OBVIOUS
<1>1. Wanted \in Nat
  BY ScanAssumption DEF ScanAssumption, Init, Wanted, Smaller
<1>2. QED
  BY <1>1 DEF Init, RequestInit, Stream!Init, StreamStatus, Threw

\* A call that returns a chunk delivers it, or ends the stream.
LEMMA RefineEmit ==
  ASSUME IInv, IInv', Emit
  PROVE  Stream!Next
<1> DEFINE n == ChunkSize
<1>1. /\ n \in 0..Len(buffer) /\ Len(buffer) \in Nat /\ Len(output) \in Nat
      /\ max_rows \in Nat /\ events \in Nat
      /\ n = 0 => buffer = <<>>
  BY Types, ChunkSizeRange DEF IInv, TypeOK
<1>2. Len(output') = Len(output) + n
  BY EmitRows
<1>3. /\ UNCHANGED <<request, max_rows, events, reliable>>
      /\ request = "idle" /\ pc = "scanning"
      /\ buffer # <<>> \/ finished
      /\ pc' = IF n = 0 THEN "ended" ELSE "idle"
  BY DEF Emit, requestVars, bindVars
<1>4. output' = output \o SubSeq(buffer, 1, n)
  BY DEF Emit
<1>5. Wanted \in Nat /\ Wanted' = Wanted /\ StreamStatus = "open"
  BY <1>1, <1>3 DEF Wanted, Smaller, StreamStatus, Threw
<1>6. Len(output) + n <= Wanted
  <2>1. Len(buffer') \in Nat
    BY DEF IInv, TypeOK
  <2>2. /\ Len(output') + Len(buffer') <= events
        /\ max_rows > 0 => Len(output') <= max_rows
    BY <1>3 DEF IInv, RowsInv, CapInv
  <2> HIDE DEF n
  <2>3. QED
    BY <1>1, <1>2, <2>1, <2>2 DEF Wanted, Smaller
<1>7. SubSeq(buffer, 1, n) = [i \in 1..n |-> Len(output) + i]
  <2> DEFINE first == Len(output)
  <2> HIDE DEF n
  <2>1. buffer \in Seq(Nat) /\ \A i \in 1..Len(buffer) : buffer[i] = first + i
    BY DEF IInv, TypeOK, RowsInv
  <2>2. \A i \in 1..n : buffer[i] = first + i /\ buffer[i] \in Nat
    BY <1>1, <2>1
  <2>3. /\ SubSeq(buffer, 1, n) \in Seq(Nat)
        /\ Len(SubSeq(buffer, 1, n)) = IF 1 <= n THEN n - 1 + 1 ELSE 0
        /\ \A i \in 1..n - 1 + 1 : SubSeq(buffer, 1, n)[i] = buffer[1 + i - 1]
    BY <1>1, <2>2, SubSeqProperties
  <2>4. n - 1 + 1 = n /\ \A i \in 1..n : 1 + i - 1 = i
    BY <1>1
  <2>5. Len(SubSeq(buffer, 1, n)) = n
    BY <1>1, <2>3, <2>4
  <2>6. \A i \in 1..n : SubSeq(buffer, 1, n)[i] = first + i
    BY <2>2, <2>3, <2>4
  <2>7. SubSeq(buffer, 1, n) \in [1..n -> Nat]
    BY <2>3, <2>5, LenProperties
  <2>8. QED
    BY <2>6, <2>7
<1>8. CASE n > 0
  <2>1. StreamStatus' = "open"
    BY <1>1, <1>3, <1>8 DEF StreamStatus, Threw
  <2>2. Stream!Deliver(n)
    BY <1>3, <1>4, <1>5, <1>6, <1>7, <2>1 DEF Stream!Deliver
  <2>3. n \in 1..Wanted
    BY <1>1, <1>5, <1>6, <1>8
  <2>4. QED
    BY <2>2, <2>3 DEF Stream!Next
<1>9. CASE n = 0
  <2>1. StreamStatus' = "ended"
    BY <1>3, <1>9 DEF StreamStatus, Threw
  <2>2. output' = output
    BY <1>4, <1>9, SubSeqEmpty, ConcatEmptySeq DEF IInv, TypeOK
  <2>3. Len(output) = Wanted \/ ~reliable
    <3>1. finished /\ Len(buffer) = 0
      BY <1>1, <1>3, <1>9, EmptySeq
    <3>2. reliable => Len(output) + Len(buffer) >= Wanted
      BY <3>1 DEF IInv, CompleteInv
    <3> HIDE DEF n
    <3>3. QED
      BY <1>1, <1>5, <1>6, <1>9, <3>1, <3>2
  <2>4. Stream!End
    BY <1>3, <1>5, <2>1, <2>2, <2>3 DEF Stream!End
  <2>5. QED
    BY <2>4 DEF Stream!Next
<1>10. QED
  BY <1>1, <1>8, <1>9

\* Every step of the scan is a step of the stream or leaves it alone.
LEMMA RefineStep ==
  ASSUME IInv, IInv', [Next]_vars
  PROVE  [Stream!Next]_(Stream!streamVars)
<1> DEFINE Same == UNCHANGED <<max_rows, events, reliable, output>>
<1>1. Same => UNCHANGED <<Wanted, reliable, output>>
  BY DEF Wanted
<1>2. ASSUME Same, UNCHANGED StreamStatus PROVE UNCHANGED Stream!streamVars
  BY <1>1, <1>2 DEF Stream!streamVars
<1>3. ASSUME Same, StreamStatus = "open", StreamStatus' = "failed" PROVE Stream!Next
  BY <1>1, <1>3 DEF Stream!Next, Stream!Fail
<1>4. ASSUME Call \/ FetchNextPage PROVE Same /\ UNCHANGED StreamStatus
  BY <1>4 DEF Call, FetchNextPage, BeginRequest, requestVars, bindVars, scanVars,
              StreamStatus, Threw
<1>5. ASSUME MalformedPage
      PROVE  Same /\ StreamStatus = "open" /\ StreamStatus' = "failed"
  BY <1>5 DEF MalformedPage, FinishRequest, bindVars, StreamStatus, Threw, IInv, ControlInv
<1>6. ASSUME NEW last \in 0..events,
             NEW after \in {None, cursor} \cup [position : {last}, mark : 0..1],
             ReceivePage(last, after)
      PROVE  Same /\ UNCHANGED StreamStatus
  BY <1>6 DEF ReceivePage, FinishRequest, bindVars, StreamStatus, Threw
<1>7. ASSUME RequestAction
      PROVE  /\ Same
             /\ \/ UNCHANGED StreamStatus
                \/ StreamStatus = "open" /\ StreamStatus' = "failed"
  <2>1. Same /\ UNCHANGED pc
    BY <1>7 DEF RequestAction, bindVars, scanVars
  <2>2. request # "idle" => pc = "scanning"
    BY DEF IInv, ControlInv
  <2>3. CASE request' \in Threw
    BY <1>7, <2>1, <2>2, <2>3
       DEF RequestAction, RequestStep, InterruptedRequest, SendRequest, WakeRequest,
           RetryRequest, FailRequest, StreamStatus, Threw
  <2>4. CASE request' \notin Threw
    BY <1>7, <2>1, <2>2, <2>4
       DEF RequestAction, RequestStep, InterruptedRequest, SendRequest, WakeRequest,
           RetryRequest, FailRequest, StreamStatus, Threw
  <2>5. QED
    BY <2>1, <2>3, <2>4
<1>8. ASSUME InterruptQuery \/ UNCHANGED vars PROVE Same /\ UNCHANGED StreamStatus
  BY <1>8 DEF InterruptQuery, Interrupt, vars, requestVars, bindVars, scanVars, StreamStatus
<1> HIDE DEF Same
<1>9. QED
  BY <1>2, <1>3, <1>4, <1>5, <1>6, <1>7, <1>8, RefineEmit DEF Next, Scan, Terminated

--------------------------------------------------------------------------------
(* The open alerts.                                                        *)

\* The instance's names for operators of no state: what is selected of a list, ...
LEMMA AlertsSelected == \A s, S : Alerts!Selected(s, S) = Selected(s, S)
  BY DEF Alerts!Selected, Selected

\* ... and whether a list starts another.
LEMMA AlertsPrefix == \A s, t : Alerts!IsPrefix(s, t) = Starts(s, t)
  BY DEF Alerts!IsPrefix, Starts

\* Before the first page nothing is shown, and nothing has changed.
LEMMA AlertsInvInit == ReadInit => AlertsInv
<1> SUFFICES ASSUME ReadInit, reads = "alerts" PROVE Alerts!IInv
  BY DEF AlertsInv
<1>1. Alerts!Init
  BY DEF ReadInit
<1> USE AlertsAssumption DEF Alerts!AlertsAssumption
<1>2. Alerts!ListingInv
  <2>1. listing \in Seq(Groups)
    BY <1>1 DEF Alerts!Init, Alerts!Listings
  <2>2. \A i, j \in DOMAIN listing : listing[i] = listing[j] => i = j
    BY <1>1 DEF Alerts!Init, Alerts!Listings, Alerts!IsInjective
  <2> QED
    BY <1>1, <2>1, <2>2, LenProperties DEF Alerts!Init, Alerts!ListingInv
<1>3. Alerts!ShownInv
  <2>1. Alerts!Asked = 0
    BY <1>1 DEF Alerts!Init, Alerts!Asked
  <2>2. Alerts!Shown = <<>>
    BY <1>1, EmptySeq, ConcatEmptySeq DEF Alerts!Init, Alerts!Shown
  <2>3. Alerts!OpenListing(0) = <<>>
    <3>1. SubSeq(listing, 1, 0) = <<>>
      BY SubSeqEmpty
    <3> QED
      BY <3>1, AlertsSelected, SelectedEmpty DEF Alerts!OpenListing, Alerts!OpenOf
  <2>4. undisturbed \in Nat
    BY <1>2, LenProperties DEF Alerts!ListingInv
  <2> QED
    BY <1>1, <2>1, <2>2, <2>3, <2>4, EmptySeq DEF Alerts!Init, Alerts!ShownInv
<1>4. Alerts!ControlInv
  BY <1>1 DEF Alerts!Init, Alerts!RequestInit, Alerts!ControlInv
<1> QED
  BY <1>2, <1>3, <1>4 DEF Alerts!IInv

\* The open groups among the first n of the listing.
LEMMA OpenListingIs ==
  \A n : Alerts!OpenListing(n) = Selected(SubSeq(listing, 1, n), open)
  BY AlertsSelected DEF Alerts!OpenListing, Alerts!OpenOf

\* The open groups of the listing are groups that were open.
LEMMA OpenListingType ==
  ASSUME Alerts!ListingInv, NEW n \in 0..Len(listing)
  PROVE  Alerts!OpenListing(n) \in Seq(Groups \cap ever_open)
<1>1. SubSeq(listing, 1, n) \in Seq(Groups)
  <2>1. listing \in Seq(Groups) /\ n \in n..Len(listing)
    BY DEF Alerts!ListingInv
  <2> QED
    BY <2>1, Halves
<1>2. Selected(SubSeq(listing, 1, n), open) \in Seq(Groups \cap open)
  BY <1>1, SelectedType
<1>3. Groups \cap open \subseteq Groups \cap ever_open
  BY DEF Alerts!ListingInv
<1> QED
  BY <1>2, <1>3, SeqMonotonic, OpenListingIs

\* The open groups of a shorter stretch come first among those of a longer one.
LEMMA OpenListingStarts ==
  ASSUME Alerts!ListingInv, NEW m \in 0..Len(listing), NEW n \in m..Len(listing)
  PROVE  Starts(Alerts!OpenListing(m), Alerts!OpenListing(n))
  BY SelectedStarts, OpenListingIs DEF Alerts!ListingInv

\* A change behind the n first groups leaves what is open among them.
LEMMA SameOpenListing ==
  ASSUME Alerts!ListingInv, listing' \in Seq(Groups),
         NEW n \in 0..Len(listing), n <= Len(listing'),
         \A i \in 1..n : listing'[i] = listing[i] /\ (listing[i] \in open' <=> listing[i] \in open)
  PROVE  Alerts!OpenListing(n)' = Alerts!OpenListing(n)
<1> DEFINE s == SubSeq(listing, 1, n)
<1>1. SubSeq(listing', 1, n) = s
  <2> DEFINE after == listing'
  <2>1. after \in Seq(Groups) /\ listing \in Seq(Groups) /\ n <= Len(after)
        /\ \A i \in 1..n : listing[i] = after[i]
    BY DEF Alerts!ListingInv
  <2> HIDE DEF after
  <2>2. SubSeq(listing, 1, n) = SubSeq(after, 1, n)
    BY <2>1, SameStart
  <2> QED
    BY <2>2 DEF after
<1>2. s \in Seq(Groups) /\ Len(s) = n /\ n \in Nat /\ \A i \in 1..n : s[i] = listing[i]
  <2>1. listing \in Seq(Groups) /\ n \in n..Len(listing)
    BY DEF Alerts!ListingInv
  <2> QED
    BY <2>1, Halves
<1> HIDE DEF s
<1>3. Selected(s, open') = Selected(s, open)
  BY <1>2, SelectedAgree
<1>4. Alerts!OpenListing(n)' = Selected(SubSeq(listing', 1, n), open')
  BY AlertsSelected DEF Alerts!OpenListing, Alerts!OpenOf
<1> QED
  BY <1>1, <1>3, <1>4, OpenListingIs DEF s

\* What was asked for is a number, and the next page asks for a page more.
LEMMA AskedType ==
  ASSUME page \in Nat
  PROVE  /\ Alerts!Asked \in Nat
         /\ (page + 1) * AlertsPageSize = Alerts!Asked + AlertsPageSize
         /\ AlertsPageSize \in Nat \ {0}
<1>1. AlertsPageSize \in Nat \ {0}
  BY AlertsAssumption DEF Alerts!AlertsAssumption
<1> QED
  BY <1>1 DEF Alerts!Asked

\* A group that triggers, resolves or leaves the listing disturbs what is
\* behind it only.
LEMMA ChangePreserves ==
  ASSUME Alerts!IInv, Alerts!ListingInv', changes' = changes + 1,
         undisturbed' <= undisturbed, ever_open \subseteq ever_open',
         \A n \in 0..undisturbed' : Alerts!OpenListing(n)' = Alerts!OpenListing(n),
         UNCHANGED <<Alerts!requestVars, Alerts!scanVars>>
  PROVE  Alerts!IInv'
<1> USE DEF Alerts!IInv
<1>1. Alerts!ControlInv'
  BY DEF Alerts!ControlInv, Alerts!requestVars, Alerts!scanVars
<1>2. /\ page' = page /\ api_rows_received' = api_rows_received /\ alerts' = alerts
      /\ alerts_finished' = alerts_finished /\ alerts_shown' = alerts_shown
      /\ Alerts!Asked' = Alerts!Asked /\ Alerts!Shown' = Alerts!Shown
  BY DEF Alerts!scanVars, Alerts!Asked, Alerts!Shown
<1>3. Groups \cap ever_open \subseteq Groups \cap ever_open'
  OBVIOUS
<1>4. alerts_shown' \in Seq(Groups \cap ever_open') /\ alerts' \in Seq(Groups \cap ever_open')
  BY <1>2, <1>3, SeqMonotonic DEF Alerts!ShownInv
<1>5. /\ changes' # 0 /\ undisturbed' \in 0..undisturbed /\ undisturbed \in 0..Len(listing)
      /\ Alerts!Asked \in Nat /\ Len(listing) \in Nat /\ undisturbed' \in Nat /\ undisturbed \in Nat
  BY AskedType, LenProperties DEF Alerts!ListingInv, Alerts!ShownInv
<1>6. Alerts!Asked <= undisturbed' => Alerts!Shown = Alerts!OpenListing(Alerts!Asked)'
  <2> SUFFICES ASSUME Alerts!Asked <= undisturbed'
               PROVE  Alerts!Shown = Alerts!OpenListing(Alerts!Asked)'
    OBVIOUS
  <2>1. Alerts!Asked <= undisturbed /\ Alerts!Asked \in 0..undisturbed'
    BY <1>5
  <2>2. Alerts!Shown = Alerts!OpenListing(Alerts!Asked)
    BY <2>1 DEF Alerts!ShownInv
  <2> DEFINE asked == Alerts!Asked
  <2>3. asked' = asked
    BY <1>2
  <2>4. \A n : n = asked => Alerts!OpenListing(Alerts!Asked)' = Alerts!OpenListing(n)'
    BY <2>3 DEF Alerts!OpenListing
  <2> QED
    BY <2>1, <2>2, <2>4
<1>7. Alerts!Asked > undisturbed' => Starts(Alerts!OpenListing(undisturbed'), Alerts!Shown)
  <2> SUFFICES ASSUME Alerts!Asked > undisturbed'
               PROVE  Starts(Alerts!OpenListing(undisturbed'), Alerts!Shown)
    OBVIOUS
  <2>1. CASE Alerts!Asked <= undisturbed
    <3>1. undisturbed' \in 0..Len(listing) /\ Alerts!Asked \in undisturbed'..Len(listing)
      BY <1>5, <2>1
    <3>2. Alerts!Shown = Alerts!OpenListing(Alerts!Asked)
      BY <2>1 DEF Alerts!ShownInv
    <3> QED
      BY <3>1, <3>2, OpenListingStarts
  <2>2. CASE Alerts!Asked > undisturbed
    <3>1. undisturbed' \in 0..Len(listing) /\ undisturbed \in undisturbed'..Len(listing)
          /\ undisturbed \in 0..Len(listing)
      BY <1>5
    <3> DEFINE T == Groups \cap ever_open
               a == Alerts!OpenListing(undisturbed')
               b == Alerts!OpenListing(undisturbed)
    <3>2. a \in Seq(T) /\ b \in Seq(T)
      BY <3>1, OpenListingType
    <3>3. Starts(a, b)
      BY <3>1, OpenListingStarts
    <3>4. Starts(b, Alerts!Shown)
      BY <2>2, AlertsPrefix DEF Alerts!ShownInv
    <3>5. Alerts!Shown \in Seq(T)
      BY ConcatProperties DEF Alerts!ShownInv, Alerts!Shown
    <3> HIDE DEF T, a, b
    <3>6. Starts(a, Alerts!Shown)
      BY <3>2, <3>3, <3>4, <3>5, StartsTransitive
    <3> QED
      BY <3>6 DEF a
  <2> QED
    BY <1>5, <2>1, <2>2
<1>8. Alerts!OpenListing(undisturbed)' = Alerts!OpenListing(undisturbed')
  <2>1. undisturbed' \in 0..undisturbed'
    BY <1>5
  <2>2. \A n : n = undisturbed' => Alerts!OpenListing(undisturbed)' = Alerts!OpenListing(n)'
    BY DEF Alerts!OpenListing
  <2> QED
    BY <2>1, <2>2
<1>9. alerts_finished => Alerts!Asked >= undisturbed'
  BY <1>5 DEF Alerts!ShownInv
<1>10. Alerts!ShownInv'
  <2>1. page' \in Nat /\ api_rows_received' \in 0..Alerts!Asked'
    BY <1>2 DEF Alerts!ShownInv
  <2>2. Alerts!Asked' <= undisturbed' => Alerts!Shown' = Alerts!OpenListing(Alerts!Asked)'
    BY <1>2, <1>6
  <2>3. Alerts!Asked' > undisturbed' => Alerts!IsPrefix(Alerts!OpenListing(undisturbed), Alerts!Shown)'
    <3>1. \A s, t : s = Alerts!OpenListing(undisturbed)' /\ t = Alerts!Shown' =>
            (Alerts!IsPrefix(Alerts!OpenListing(undisturbed), Alerts!Shown)' <=> Starts(s, t))
      BY DEF Alerts!IsPrefix, Starts
    <3> QED
      BY <1>2, <1>7, <1>8, <3>1
  <2>4. alerts_finished' => Alerts!Asked' >= undisturbed'
    BY <1>2, <1>9
  <2> QED
    BY <1>4, <1>5, <2>1, <2>2, <2>3, <2>4 DEF Alerts!ShownInv
<1> QED
  BY <1>1, <1>10

\* The groups of a page are the next ones of the listing.
LEMMA PageIs ==
  ASSUME Alerts!ListingInv, page \in Nat
  PROVE  /\ Alerts!PageGroups \in Seq(Groups)
         /\ Alerts!Asked >= Len(listing) => Alerts!PageGroups = <<>>
         /\ \A n : Alerts!Asked < Len(listing)
                   /\ n = (IF Alerts!Asked + AlertsPageSize <= Len(listing)
                           THEN Alerts!Asked + AlertsPageSize ELSE Len(listing)) =>
              /\ Alerts!PageGroups = SubSeq(listing, Alerts!Asked + 1, n)
              /\ Len(Alerts!PageGroups) = n - Alerts!Asked
<1> DEFINE n == IF Alerts!Asked + AlertsPageSize <= Len(listing)
                THEN Alerts!Asked + AlertsPageSize ELSE Len(listing)
           asked == Alerts!Asked
<1>1. /\ asked \in Nat /\ AlertsPageSize \in Nat \ {0}
      /\ (page + 1) * AlertsPageSize = asked + AlertsPageSize
  BY AskedType
<1>2. Len(listing) \in Nat /\ listing \in Seq(Groups)
  BY LenProperties DEF Alerts!ListingInv
<1>3. Alerts!PageGroups = SubSeq(listing, asked + 1, n)
  BY <1>1 DEF Alerts!PageGroups, Alerts!Smaller, Alerts!Asked
<1> HIDE DEF asked
<1>4. CASE asked < Len(listing)
  <2>1. asked \in 0..Len(listing) /\ n \in asked..Len(listing)
    BY <1>1, <1>2, <1>4 DEF asked
  <2> HIDE DEF n
  <2>2. /\ SubSeq(listing, asked + 1, n) \in Seq(Groups)
        /\ Len(SubSeq(listing, asked + 1, n)) = n - asked
    BY <1>2, <2>1, Halves
  <2>3. /\ Alerts!PageGroups \in Seq(Groups) /\ Alerts!PageGroups = SubSeq(listing, asked + 1, n)
        /\ Len(Alerts!PageGroups) = n - asked
    BY <1>3, <2>2
  <2>4. ~(asked >= Len(listing))
    BY <1>1, <1>2, <1>4 DEF asked
  <2> QED
    BY <2>3, <2>4 DEF asked, n
<1>5. CASE asked >= Len(listing)
  <2>1. n < asked + 1 /\ n \in Int /\ asked + 1 \in Int
    BY <1>1, <1>2, <1>5 DEF asked
  <2>2. SubSeq(listing, asked + 1, n) = <<>>
    <3> DEFINE first == asked + 1
    <3>1. n < first /\ first \in Int
      BY <2>1
    <3> HIDE DEF first, n
    <3>2. SubSeq(listing, first, n) = <<>>
      BY <2>1, <3>1, SubSeqEmpty
    <3> QED
      BY <3>2 DEF first
  <2> HIDE DEF n
  <2>3. Alerts!PageGroups = <<>>
    BY <1>3, <2>2
  <2> QED
    BY <1>1, <1>2, <1>5, <2>3, EmptySeq DEF asked
<1> QED
  BY <1>1, <1>2, <1>4, <1>5

\* A page of open groups that arrives, the last one or not.
LEMMA ReceiveAlertsPreserves ==
  ASSUME Alerts!IInv, NEW has_total \in BOOLEAN, Alerts!ReceivePage(has_total)
  PROVE  Alerts!IInv'
<1> USE DEF Alerts!IInv
<1>1. /\ alerts = <<>> /\ ~alerts_finished /\ pc = "scanning" /\ request' = "idle"
      /\ UNCHANGED <<open, listing, changes, undisturbed, ever_open, pc, alerts_shown>>
      /\ page' = page + 1 /\ api_rows_received' = api_rows_received + Len(Alerts!PageGroups)
      /\ alerts' = alerts \o Alerts!OpenOf(Alerts!PageGroups)
      /\ alerts_finished' = Alerts!IsLast(api_rows_received', has_total)
  BY DEF Alerts!ReceivePage, Alerts!FinishRequest, Alerts!ControlInv, Alerts!alertVars
<1> DEFINE asked == Alerts!Asked
           T == Groups \cap ever_open
           groups == Alerts!PageGroups
           kept == Selected(groups, open)
           n == IF asked + AlertsPageSize <= Len(listing)
                THEN asked + AlertsPageSize ELSE Len(listing)
<1>2. /\ asked \in Nat /\ AlertsPageSize \in Nat \ {0} /\ Len(listing) \in Nat
      /\ Alerts!Asked' = asked + AlertsPageSize
      /\ page \in Nat /\ listing \in Seq(Groups) /\ api_rows_received \in 0..asked
      /\ undisturbed \in 0..Len(listing) /\ (changes = 0 => undisturbed = Len(listing))
  <2>1. page \in Nat /\ listing \in Seq(Groups) /\ api_rows_received \in 0..asked
    BY DEF Alerts!ShownInv, Alerts!ListingInv
  <2>2. Alerts!Asked' = (page + 1) * AlertsPageSize
    BY <1>1 DEF Alerts!Asked
  <2>3. (page + 1) * AlertsPageSize = asked + AlertsPageSize /\ asked \in Nat
        /\ AlertsPageSize \in Nat \ {0}
    BY <2>1, AskedType
  <2> QED
    BY <2>1, <2>2, <2>3, LenProperties DEF Alerts!ListingInv
<1>3. /\ groups \in Seq(Groups)
      /\ asked >= Len(listing) => groups = <<>>
      /\ asked < Len(listing) =>
          /\ groups = SubSeq(listing, asked + 1, n)
          /\ Len(groups) = n - asked
  BY <1>2, PageIs
<1> HIDE DEF asked, groups, n
<1>4. Alerts!OpenOf(groups) = kept /\ kept \in Seq(T)
  <2>1. kept \in Seq(Groups \cap open)
    BY <1>3, SelectedType
  <2>2. Groups \cap open \subseteq T
    BY DEF Alerts!ListingInv
  <2> HIDE DEF T, kept
  <2>3. kept \in Seq(T)
    BY <2>1, <2>2, SeqMonotonic
  <2> QED
    BY <2>3, AlertsSelected DEF Alerts!OpenOf, kept
<1>5. alerts' = kept /\ Alerts!Shown = alerts_shown /\ Alerts!Shown' = alerts_shown \o kept
      /\ alerts_shown \in Seq(T)
  <2>1. alerts' = kept
    <3>1. alerts' = <<>> \o kept
      BY <1>1, <1>4 DEF groups
    <3> HIDE DEF kept, T
    <3> QED
      BY <3>1, <1>4, ConcatEmptySeq
  <2>2. alerts_shown \in Seq(T)
    BY DEF Alerts!ShownInv
  <2>3. Alerts!Shown = alerts_shown
    BY <1>1, <2>2, ConcatEmptySeq DEF Alerts!Shown
  <2> HIDE DEF kept
  <2> QED
    BY <1>1, <2>1, <2>2, <2>3 DEF Alerts!Shown
<1>6. \A k : Alerts!OpenListing(k)' = Alerts!OpenListing(k)
  BY <1>1 DEF Alerts!OpenListing, Alerts!OpenOf
<1> DEFINE shown == Alerts!Shown
           later == Alerts!Shown'
<1>7. later = shown \o kept /\ shown \in Seq(T) /\ kept \in Seq(T) /\ later \in Seq(T)
  <2> HIDE DEF kept, T
  <2> QED
    BY <1>4, <1>5, ConcatProperties
<1> HIDE DEF kept, T
<1>8. ASSUME asked < Len(listing), asked <= undisturbed
      PROVE  later = Alerts!OpenListing(n)
  <2>1. asked \in 0..Len(listing) /\ n \in asked..Len(listing)
    BY <1>2, <1>8 DEF n
  <2>2. Selected(SubSeq(listing, 1, n), open)
          = Selected(SubSeq(listing, 1, asked), open) \o Selected(SubSeq(listing, asked + 1, n), open)
    BY <1>2, <2>1, SelectedHalves
  <2>3. Selected(SubSeq(listing, asked + 1, n), open) = kept
    BY <1>3, <1>8 DEF kept
  <2>4. shown = Alerts!OpenListing(asked)
    BY <1>8 DEF Alerts!ShownInv, asked
  <2> QED
    BY <1>7, <2>2, <2>3, <2>4, OpenListingIs
<1>9. Alerts!Asked' <= undisturbed => later = Alerts!OpenListing(Alerts!Asked)'
  <2> SUFFICES ASSUME Alerts!Asked' <= undisturbed
               PROVE  later = Alerts!OpenListing(Alerts!Asked)'
    OBVIOUS
  <2>1. asked < Len(listing) /\ asked <= undisturbed /\ n = asked + AlertsPageSize
    BY <1>2 DEF n
  <2>2. later = Alerts!OpenListing(n)
    BY <1>8, <2>1
  <2>3. \A k : k = n => Alerts!OpenListing(Alerts!Asked)' = Alerts!OpenListing(k)'
    BY <1>2, <2>1 DEF Alerts!OpenListing
  <2> QED
    BY <1>6, <2>2, <2>3
<1>10. Alerts!Asked' > undisturbed => Starts(Alerts!OpenListing(undisturbed), later)
  <2> SUFFICES ASSUME Alerts!Asked' > undisturbed
               PROVE  Starts(Alerts!OpenListing(undisturbed), later)
    OBVIOUS
  <2>1. Alerts!OpenListing(undisturbed) \in Seq(T)
    BY <1>2, OpenListingType DEF T
  <2>2. CASE asked > undisturbed
    <3>1. Starts(Alerts!OpenListing(undisturbed), shown)
      BY <2>2, AlertsPrefix DEF Alerts!ShownInv, asked
    <3> DEFINE a == Alerts!OpenListing(undisturbed)
    <3> HIDE DEF a, shown
    <3>2. Starts(a, shown \o kept)
      BY <1>7, <2>1, <3>1, StartsLonger DEF a
    <3> QED
      BY <1>7, <3>2 DEF a
  <2>3. CASE asked <= undisturbed /\ asked < Len(listing)
    <3>1. undisturbed \in 0..Len(listing) /\ n \in undisturbed..Len(listing)
      BY <1>2, <2>3 DEF n
    <3>2. later = Alerts!OpenListing(n)
      BY <1>8, <2>3
    <3> QED
      BY <3>1, <3>2, OpenListingStarts
  <2>4. CASE asked <= undisturbed /\ asked >= Len(listing)
    <3>1. asked = undisturbed
      BY <1>2, <2>4
    <3>2. shown = Alerts!OpenListing(undisturbed)
      BY <3>1, <2>4 DEF Alerts!ShownInv, asked
    <3> HIDE DEF shown
    <3>3. Starts(shown, shown \o kept)
      BY <1>7, ConcatStarts
    <3> QED
      BY <1>7, <3>2, <3>3
  <2> QED
    BY <1>2, <2>2, <2>3, <2>4
<1>11. Alerts!Asked' > undisturbed /\ changes = 0 => later = Alerts!OpenListing(Len(listing))
  <2> SUFFICES ASSUME Alerts!Asked' > undisturbed, changes = 0
               PROVE  later = Alerts!OpenListing(Len(listing))
    OBVIOUS
  <2>1. undisturbed = Len(listing)
    BY <1>2
  <2>2. CASE asked < Len(listing)
    <3>1. n = Len(listing) /\ asked <= undisturbed
      BY <1>2, <2>1, <2>2 DEF n
    <3> QED
      BY <1>8, <2>2, <3>1
  <2>3. CASE asked >= Len(listing)
    <3>1. kept = <<>>
      BY <1>3, <2>3, SelectedEmpty DEF kept
    <3>2. later = shown
      <4> HIDE DEF shown
      <4> QED
        BY <1>7, <3>1, ConcatEmptySeq
    <3>3. asked > undisturbed => shown = Alerts!OpenListing(Len(listing))
      BY DEF Alerts!ShownInv, asked
    <3>4. asked <= undisturbed => shown = Alerts!OpenListing(asked)
      BY DEF Alerts!ShownInv, asked
    <3>5. asked <= undisturbed => asked = Len(listing)
      BY <1>2, <2>1, <2>3
    <3> QED
      BY <1>2, <3>2, <3>3, <3>4, <3>5
  <2> QED
    BY <1>2, <2>2, <2>3
<1>12. Len(groups) \in Nat /\ Len(groups) <= AlertsPageSize
       /\ (groups = <<>> => Len(groups) = 0)
  BY <1>2, <1>3, LenProperties, EmptySeq DEF n
<1>13. alerts_finished' => Alerts!Asked' >= Len(listing)
  <2> SUFFICES ASSUME alerts_finished' PROVE Alerts!Asked' >= Len(listing)
    OBVIOUS
  <2>1. \/ groups = <<>>
        \/ api_rows_received' >= Len(listing)
        \/ Len(groups) < AlertsPageSize
    BY <1>1 DEF Alerts!IsLast, groups
  <2>2. api_rows_received' = api_rows_received + Len(groups)
    BY <1>1 DEF groups
  <2> QED
    BY <1>2, <1>3, <1>12, <2>1, <2>2 DEF n
<1>14. Alerts!ListingInv'
  BY <1>1 DEF Alerts!ListingInv
<1>15. Alerts!ShownInv'
  <2>1. alerts_shown' \in Seq(Groups \cap ever_open') /\ alerts' \in Seq(Groups \cap ever_open')
    BY <1>1, <1>4, <1>5 DEF T
  <2>2. page' \in Nat /\ api_rows_received' \in 0..Alerts!Asked'
    BY <1>1, <1>2, <1>12 DEF groups
  <2>3. Alerts!Asked' > undisturbed' => Alerts!IsPrefix(Alerts!OpenListing(undisturbed), Alerts!Shown)'
    <3>1. Alerts!OpenListing(undisturbed)' = Alerts!OpenListing(undisturbed)
      BY <1>1 DEF Alerts!OpenListing, Alerts!OpenOf
    <3>2. \A s, t : s = Alerts!OpenListing(undisturbed)' /\ t = Alerts!Shown' =>
            (Alerts!IsPrefix(Alerts!OpenListing(undisturbed), Alerts!Shown)' <=> Starts(s, t))
      BY DEF Alerts!IsPrefix, Starts
    <3> QED
      BY <1>1, <1>10, <3>1, <3>2
  <2>4. Alerts!Asked' > undisturbed' /\ changes' = 0 =>
           Alerts!Shown' = Alerts!OpenListing(Len(listing))'
    <3>1. Alerts!OpenListing(Len(listing))' = Alerts!OpenListing(Len(listing))
      BY <1>1 DEF Alerts!OpenListing, Alerts!OpenOf
    <3> QED
      BY <1>1, <1>11, <3>1
  <2>5. alerts_finished' => Alerts!Asked' >= undisturbed'
    BY <1>1, <1>2, <1>13
  <2> QED
    BY <1>1, <1>9, <2>1, <2>2, <2>3, <2>4, <2>5 DEF Alerts!ShownInv
<1>16. Alerts!ControlInv'
  BY <1>1 DEF Alerts!ControlInv
<1> QED
  BY <1>14, <1>15, <1>16

\* A list with an item inserted: its length and items.
LEMMA InsertProperties ==
  ASSUME NEW s \in Seq(Groups), NEW i \in 1..Len(s) + 1, NEW e \in Groups
  PROVE  /\ Alerts!InsertAt(s, i, e) \in Seq(Groups)
         /\ Len(Alerts!InsertAt(s, i, e)) = Len(s) + 1
         /\ \A j \in 1..Len(s) + 1 : Alerts!InsertAt(s, i, e)[j] =
               IF j < i THEN s[j] ELSE IF j = i THEN e ELSE s[j - 1]
<1> DEFINE m == i - 1
           a == SubSeq(s, 1, m)
           b == SubSeq(s, m + 1, Len(s))
           c == <<e>>
<1>1. Len(s) \in Nat /\ m \in 0..Len(s) /\ Len(s) \in m..Len(s) /\ m \in Nat /\ i = m + 1
  BY LenProperties
<1>2. Alerts!InsertAt(s, i, e) = (a \o c) \o b
  BY <1>1 DEF Alerts!InsertAt
<1> HIDE DEF m
<1>3. /\ a \in Seq(Groups) /\ Len(a) = m /\ \A j \in 1..m : a[j] = s[j]
      /\ b \in Seq(Groups) /\ Len(b) = Len(s) - m /\ \A j \in 1..Len(s) - m : b[j] = s[m + j]
  BY <1>1, Halves
<1>4. c \in Seq(Groups) /\ Len(c) = 1 /\ c[1] = e
  OBVIOUS
<1> HIDE DEF a, b, c
<1>5. /\ a \o c \in Seq(Groups) /\ Len(a \o c) = m + 1
      /\ \A j \in 1..m + 1 : (a \o c)[j] = IF j <= m THEN a[j] ELSE c[j - m]
  <2>1. a \in Seq(Groups) /\ c \in Seq(Groups) /\ Len(a) = m /\ Len(c) = 1
    BY <1>3, <1>4
  <2>2. /\ a \o c \in Seq(Groups) /\ Len(a \o c) = Len(a) + Len(c)
        /\ \A j \in 1..Len(a) + Len(c) : (a \o c)[j] = IF j <= Len(a) THEN a[j] ELSE c[j - Len(a)]
    BY <2>1, ConcatProperties
  <2> QED
    BY <2>1, <2>2
<1> DEFINE d == a \o c
<1> HIDE DEF d
<1>6. /\ d \o b \in Seq(Groups) /\ Len(d \o b) = m + 1 + (Len(s) - m)
      /\ \A j \in 1..m + 1 + (Len(s) - m) : (d \o b)[j] = IF j <= m + 1 THEN d[j] ELSE b[j - (m + 1)]
  <2>1. d \in Seq(Groups) /\ Len(d) = m + 1
    BY <1>5 DEF d
  <2> QED
    BY <1>3, <2>1, ConcatLens
<1>7. ASSUME NEW j \in 1..Len(s) + 1
      PROVE  (d \o b)[j] = IF j < i THEN s[j] ELSE IF j = i THEN e ELSE s[j - 1]
  <2>1. (d \o b)[j] = IF j <= m + 1 THEN d[j] ELSE b[j - (m + 1)]
    BY <1>1, <1>6
  <2>2. CASE j <= m
    <3>1. j \in 1..m /\ j < i /\ j \in 1..m + 1
      BY <1>1, <2>2
    <3> QED
      BY <1>1, <1>3, <1>5, <2>1, <2>2, <3>1 DEF d
  <2>3. CASE j = m + 1
    <3>1. ~(j <= m) /\ j - m = 1 /\ j \in 1..m + 1 /\ ~(j < i) /\ j = i
      BY <1>1, <2>3
    <3> QED
      BY <1>1, <1>4, <1>5, <2>1, <2>3, <3>1 DEF d
  <2>4. CASE j > m + 1
    <3>1. ~(j <= m + 1) /\ j - (m + 1) \in 1..Len(s) - m /\ m + (j - (m + 1)) = j - 1
          /\ ~(j < i) /\ j # i
      BY <1>1, <2>4
    <3> QED
      BY <1>3, <2>1, <3>1
  <2>5. j <= m \/ j = m + 1 \/ j > m + 1
    BY <1>1
  <2> QED
    BY <2>2, <2>3, <2>4, <2>5
<1>8. m + 1 + (Len(s) - m) = Len(s) + 1
  BY <1>1
<1> QED
  BY <1>2, <1>6, <1>7, <1>8 DEF d

\* A list without one of its items: its length and items.
LEMMA RemoveProperties ==
  ASSUME NEW s \in Seq(Groups), NEW i \in 1..Len(s)
  PROVE  /\ Alerts!RemoveAt(s, i) \in Seq(Groups)
         /\ Len(Alerts!RemoveAt(s, i)) = Len(s) - 1
         /\ \A j \in 1..Len(s) - 1 : Alerts!RemoveAt(s, i)[j] = IF j < i THEN s[j] ELSE s[j + 1]
<1> DEFINE m == i - 1
           a == SubSeq(s, 1, m)
           b == SubSeq(s, i + 1, Len(s))
<1>1. Len(s) \in Nat /\ m \in 0..Len(s) /\ Len(s) \in m..Len(s) /\ m \in Nat /\ i = m + 1
      /\ i \in 0..Len(s) /\ Len(s) \in i..Len(s)
  BY LenProperties
<1>2. Alerts!RemoveAt(s, i) = a \o b
  BY <1>1 DEF Alerts!RemoveAt
<1> HIDE DEF m
<1>3. /\ a \in Seq(Groups) /\ Len(a) = m /\ \A j \in 1..m : a[j] = s[j]
  BY <1>1, Halves
<1>4. /\ b \in Seq(Groups) /\ Len(b) = Len(s) - i /\ \A j \in 1..Len(s) - i : b[j] = s[i + j]
  BY <1>1, Halves
<1> HIDE DEF a, b
<1>5. /\ a \o b \in Seq(Groups) /\ Len(a \o b) = m + (Len(s) - i)
      /\ \A j \in 1..m + (Len(s) - i) : (a \o b)[j] = IF j <= m THEN a[j] ELSE b[j - m]
  BY <1>3, <1>4, ConcatLens
<1>6. ASSUME NEW j \in 1..Len(s) - 1
      PROVE  (a \o b)[j] = IF j < i THEN s[j] ELSE s[j + 1]
  <2>1. j \in 1..m + (Len(s) - i) /\ (j <= m <=> j < i) /\ (j <= m => j \in 1..m)
        /\ (~(j <= m) => j - m \in 1..Len(s) - i /\ i + (j - m) = j + 1)
    BY <1>1
  <2> QED
    BY <1>3, <1>4, <1>5, <2>1
<1>7. m + (Len(s) - i) = Len(s) - 1
  BY <1>1
<1> QED
  BY <1>2, <1>5, <1>6, <1>7

\* What ListingInv says, with the numbers typed.
LEMMA ListingInvParts ==
  ASSUME Alerts!ListingInv
  PROVE  /\ listing \in Seq(Groups) /\ Len(listing) \in Nat /\ DOMAIN listing = 1..Len(listing)
         /\ \A i, j \in 1..Len(listing) : listing[i] = listing[j] => i = j
         /\ changes \in Nat /\ undisturbed \in 0..Len(listing) /\ undisturbed \in Nat
         /\ changes = 0 => undisturbed = Len(listing)
         /\ open \subseteq ever_open
<1>1. listing \in Seq(Groups)
  BY DEF Alerts!ListingInv
<1>2. Len(listing) \in Nat /\ DOMAIN listing = 1..Len(listing)
  BY <1>1, LenProperties
<1>3. \A i, j \in 1..Len(listing) : listing[i] = listing[j] => i = j
  BY <1>2, Zenon DEF Alerts!ListingInv
<1>4. /\ changes \in Nat /\ undisturbed \in 0..Len(listing)
      /\ changes = 0 => undisturbed = Len(listing)
      /\ open \subseteq ever_open
  BY DEF Alerts!ListingInv
<1>5. undisturbed \in Nat
  <2>1. \A i, n : n \in Nat /\ i \in 0..n => i \in Nat
    OBVIOUS
  <2> QED
    BY <1>2, <1>4, <2>1, Zenon
<1> QED
  BY <1>1, <1>2, <1>3, <1>4, <1>5, Zenon

\* A group that triggers is listed anywhere, and disturbs all behind it.
LEMMA TriggerPreserves ==
  ASSUME Alerts!IInv, NEW g \in Groups, Alerts!Trigger(g)
  PROVE  Alerts!IInv'
<1>0. Alerts!ListingInv
  BY DEF Alerts!IInv
<1>1. /\ listing \in Seq(Groups) /\ Len(listing) \in Nat /\ DOMAIN listing = 1..Len(listing)
      /\ \A i, j \in 1..Len(listing) : listing[i] = listing[j] => i = j
      /\ changes \in Nat /\ undisturbed \in 0..Len(listing) /\ undisturbed \in Nat
      /\ open \subseteq ever_open
  BY <1>0, ListingInvParts
<1>2. /\ g \notin open /\ \A j \in 1..Len(listing) : listing[j] # g
      /\ open' = open \cup {g} /\ ever_open' = ever_open \cup {g} /\ changes' = changes + 1
      /\ UNCHANGED <<Alerts!requestVars, Alerts!scanVars>>
  BY <1>1 DEF Alerts!Trigger, Alerts!Range
<1>3. PICK i \in 1..Len(listing) + 1 :
         listing' = Alerts!InsertAt(listing, i, g) /\ undisturbed' = Alerts!Smaller(undisturbed, i - 1)
  BY DEF Alerts!Trigger
<1>4. /\ listing' \in Seq(Groups) /\ Len(listing') = Len(listing) + 1
      /\ \A j \in 1..Len(listing) + 1 :
            listing'[j] = IF j < i THEN listing[j] ELSE IF j = i THEN g ELSE listing[j - 1]
  <2> DEFINE after == Alerts!InsertAt(listing, i, g)
  <2>1. /\ after \in Seq(Groups) /\ Len(after) = Len(listing) + 1
        /\ \A j \in 1..Len(listing) + 1 :
              after[j] = IF j < i THEN listing[j] ELSE IF j = i THEN g ELSE listing[j - 1]
    <3>1. listing \in Seq(Groups) /\ i \in 1..Len(listing) + 1 /\ g \in Groups
      BY <1>1
    <3> QED
      BY <3>1, InsertProperties
  <2>2. listing' = after
    BY <1>3
  <2> HIDE DEF after
  <2> QED
    BY <2>1, <2>2
<1>5. undisturbed' \in 0..i - 1 /\ undisturbed' \in 0..undisturbed
  BY <1>1, <1>3 DEF Alerts!Smaller
<1>6. Alerts!ListingInv'
  <2>1. ASSUME NEW j \in 1..Len(listing) + 1, NEW k \in 1..Len(listing) + 1,
               listing'[j] = listing'[k]
        PROVE  j = k
    <3>1. /\ j < i => j \in 1..Len(listing) /\ listing'[j] = listing[j]
          /\ j = i => listing'[j] = g
          /\ j > i => j - 1 \in 1..Len(listing) /\ listing'[j] = listing[j - 1]
      BY <1>1, <1>4
    <3>2. /\ k < i => k \in 1..Len(listing) /\ listing'[k] = listing[k]
          /\ k = i => listing'[k] = g
          /\ k > i => k - 1 \in 1..Len(listing) /\ listing'[k] = listing[k - 1]
      BY <1>1, <1>4
    <3> QED
      BY <1>1, <1>2, <2>1, <3>1, <3>2
  <2>2. DOMAIN listing' = 1..Len(listing) + 1
    BY <1>4, LenProperties
  <2>3. undisturbed' \in 0..Len(listing')
    BY <1>1, <1>4, <1>5
  <2>4. changes' # 0 /\ changes' \in Nat /\ open' \subseteq ever_open'
    BY <1>1, <1>2
  <2> QED
    BY <1>4, <2>1, <2>2, <2>3, <2>4 DEF Alerts!ListingInv
<1>7. ASSUME NEW n \in 0..undisturbed' PROVE Alerts!OpenListing(n)' = Alerts!OpenListing(n)
  <2>1. n \in 0..Len(listing) /\ n <= Len(listing') /\ n <= i - 1
    BY <1>1, <1>4, <1>5
  <2>2. ASSUME NEW j \in 1..n
        PROVE  listing'[j] = listing[j] /\ (listing[j] \in open' <=> listing[j] \in open)
    <3>1. j \in 1..Len(listing) /\ j \in 1..Len(listing) + 1 /\ j < i
      BY <1>1, <2>1
    <3> QED
      BY <1>2, <1>4, <3>1
  <2> QED
    BY <1>0, <1>4, <2>1, <2>2, SameOpenListing
<1>8. undisturbed' <= undisturbed /\ ever_open \subseteq ever_open'
  BY <1>1, <1>2, <1>5
<1> QED
  BY <1>2, <1>6, <1>7, <1>8, ChangePreserves

\* A group that resolves is listed still, but not open.
LEMMA ResolvePreserves ==
  ASSUME Alerts!IInv, NEW i \in DOMAIN listing, Alerts!Resolve(i)
  PROVE  Alerts!IInv'
<1>0. Alerts!ListingInv
  BY DEF Alerts!IInv
<1>1. /\ listing \in Seq(Groups) /\ Len(listing) \in Nat /\ DOMAIN listing = 1..Len(listing)
      /\ \A j, k \in 1..Len(listing) : listing[j] = listing[k] => j = k
      /\ changes \in Nat /\ undisturbed \in 0..Len(listing) /\ undisturbed \in Nat
      /\ open \subseteq ever_open
  BY <1>0, ListingInvParts
<1>2. /\ open' = open \ {listing[i]} /\ undisturbed' = Alerts!Smaller(undisturbed, i - 1)
      /\ changes' = changes + 1 /\ listing' = listing /\ ever_open' = ever_open
      /\ UNCHANGED <<Alerts!requestVars, Alerts!scanVars>>
  BY DEF Alerts!Resolve
<1>3. undisturbed' \in 0..i - 1 /\ undisturbed' \in 0..undisturbed /\ i \in 1..Len(listing)
  BY <1>1, <1>2 DEF Alerts!Smaller
<1>4. Alerts!ListingInv'
  <2>1. changes' # 0 /\ changes' \in Nat /\ open' \subseteq ever_open'
        /\ undisturbed' \in 0..Len(listing)
    BY <1>1, <1>2, <1>3
  <2> QED
    BY <1>1, <1>2, <2>1 DEF Alerts!ListingInv
<1>5. ASSUME NEW n \in 0..undisturbed' PROVE Alerts!OpenListing(n)' = Alerts!OpenListing(n)
  <2>1. n \in 0..Len(listing) /\ n <= Len(listing') /\ n <= i - 1 /\ listing' \in Seq(Groups)
    BY <1>1, <1>2, <1>3
  <2>2. ASSUME NEW j \in 1..n
        PROVE  listing'[j] = listing[j] /\ (listing[j] \in open' <=> listing[j] \in open)
    <3>1. j \in 1..Len(listing) /\ j # i
      BY <1>1, <1>3, <2>1
    <3> QED
      BY <1>1, <1>2, <1>3, <3>1
  <2> QED
    BY <1>0, <2>1, <2>2, SameOpenListing
<1>6. undisturbed' <= undisturbed /\ ever_open \subseteq ever_open'
  BY <1>1, <1>2, <1>3
<1> QED
  BY <1>2, <1>4, <1>5, <1>6, ChangePreserves

\* A resolved group leaves the listing, and all behind it moves up.
LEMMA UnlistPreserves ==
  ASSUME Alerts!IInv, NEW i \in DOMAIN listing, Alerts!Unlist(i)
  PROVE  Alerts!IInv'
<1>0. Alerts!ListingInv
  BY DEF Alerts!IInv
<1>1. /\ listing \in Seq(Groups) /\ Len(listing) \in Nat /\ DOMAIN listing = 1..Len(listing)
      /\ \A j, k \in 1..Len(listing) : listing[j] = listing[k] => j = k
      /\ changes \in Nat /\ undisturbed \in 0..Len(listing) /\ undisturbed \in Nat
      /\ open \subseteq ever_open
  BY <1>0, ListingInvParts
<1>2. /\ listing' = Alerts!RemoveAt(listing, i) /\ undisturbed' = Alerts!Smaller(undisturbed, i - 1)
      /\ changes' = changes + 1 /\ open' = open /\ ever_open' = ever_open
      /\ UNCHANGED <<Alerts!requestVars, Alerts!scanVars>>
  BY DEF Alerts!Unlist
<1>3. undisturbed' \in 0..i - 1 /\ undisturbed' \in 0..undisturbed /\ i \in 1..Len(listing)
  BY <1>1, <1>2 DEF Alerts!Smaller
<1>4. /\ listing' \in Seq(Groups) /\ Len(listing') = Len(listing) - 1
      /\ \A j \in 1..Len(listing) - 1 :
            listing'[j] = IF j < i THEN listing[j] ELSE listing[j + 1]
  <2> DEFINE after == Alerts!RemoveAt(listing, i)
  <2>1. /\ after \in Seq(Groups) /\ Len(after) = Len(listing) - 1
        /\ \A j \in 1..Len(listing) - 1 : after[j] = IF j < i THEN listing[j] ELSE listing[j + 1]
    <3>1. listing \in Seq(Groups) /\ i \in 1..Len(listing)
      BY <1>1, <1>3
    <3> QED
      BY <3>1, RemoveProperties, Zenon
  <2>2. listing' = after
    BY <1>2
  <2> HIDE DEF after
  <2> QED
    BY <2>1, <2>2
<1>5. Alerts!ListingInv'
  <2>1. ASSUME NEW j \in 1..Len(listing) - 1, NEW k \in 1..Len(listing) - 1,
               listing'[j] = listing'[k]
        PROVE  j = k
    <3>1. /\ j < i => j \in 1..Len(listing) /\ listing'[j] = listing[j]
          /\ ~(j < i) => j + 1 \in 1..Len(listing) /\ listing'[j] = listing[j + 1]
      BY <1>1, <1>4
    <3>2. /\ k < i => k \in 1..Len(listing) /\ listing'[k] = listing[k]
          /\ ~(k < i) => k + 1 \in 1..Len(listing) /\ listing'[k] = listing[k + 1]
      BY <1>1, <1>4
    <3> QED
      BY <1>1, <1>3, <2>1, <3>1, <3>2
  <2>2. DOMAIN listing' = 1..Len(listing) - 1
    BY <1>4, LenProperties
  <2>3. changes' # 0 /\ changes' \in Nat /\ open' \subseteq ever_open'
        /\ undisturbed' \in 0..Len(listing')
    BY <1>1, <1>2, <1>3, <1>4
  <2> QED
    BY <1>4, <2>1, <2>2, <2>3 DEF Alerts!ListingInv
<1>6. ASSUME NEW n \in 0..undisturbed' PROVE Alerts!OpenListing(n)' = Alerts!OpenListing(n)
  <2>1. n \in 0..Len(listing) /\ n <= Len(listing') /\ n <= i - 1
    BY <1>1, <1>3, <1>4
  <2>2. ASSUME NEW j \in 1..n
        PROVE  listing'[j] = listing[j] /\ (listing[j] \in open' <=> listing[j] \in open)
    <3>1. j \in 1..Len(listing) - 1 /\ j < i
      BY <1>1, <1>3, <2>1
    <3> QED
      BY <1>2, <1>4, <3>1
  <2> QED
    BY <1>0, <1>4, <2>1, <2>2, SameOpenListing
<1>7. undisturbed' <= undisturbed /\ ever_open \subseteq ever_open'
  BY <1>1, <1>2, <1>3
<1> QED
  BY <1>2, <1>5, <1>6, <1>7, ChangePreserves

\* A chunk moves groups from the buffer to what was emitted.
LEMMA EmitAlertsPreserves ==
  ASSUME Alerts!IInv, Alerts!Emit
  PROVE  Alerts!IInv'
<1> DEFINE T == Groups \cap ever_open
           count == Alerts!Smaller(VectorSize, Len(alerts))
           head == SubSeq(alerts, 1, count)
           rest == SubSeq(alerts, count + 1, Len(alerts))
<1>1. /\ pc = "scanning" /\ request = "idle" /\ (alerts # <<>> \/ alerts_finished)
      /\ alerts_shown' = alerts_shown \o head /\ alerts' = rest
      /\ pc' = IF count = 0 THEN "ended" ELSE "idle"
      /\ request' = request
      /\ UNCHANGED <<open, listing, changes, undisturbed, ever_open, page,
                     api_rows_received, alerts_finished>>
  BY DEF Alerts!Emit, Alerts!requestVars, Alerts!alertVars
<1>2. alerts \in Seq(T) /\ alerts_shown \in Seq(T) /\ Len(alerts) \in Nat
  BY LenProperties DEF Alerts!IInv, Alerts!ShownInv
<1>3. count \in 0..Len(alerts) /\ Len(alerts) \in count..Len(alerts) /\ count \in Nat
      /\ (count = 0 => Len(alerts) = 0)
  BY <1>2, AlertsAssumption DEF Alerts!Smaller, Alerts!AlertsAssumption
<1> HIDE DEF count, T
<1>4. head \in Seq(T) /\ rest \in Seq(T) /\ Len(rest) = Len(alerts) - count
  BY <1>2, <1>3, Halves
<1>5. head \o rest = alerts
  <2>1. 1 \in 1..Len(alerts) + 1 /\ count \in 1 - 1..Len(alerts) /\ Len(alerts) \in count..Len(alerts)
    BY <1>2, <1>3
  <2>2. SubSeq(alerts, 1, count) \o SubSeq(alerts, count + 1, Len(alerts))
          = SubSeq(alerts, 1, Len(alerts))
    BY <1>2, <2>1, ConcatAdjacentSubSeq
  <2>3. SubSeq(alerts, 1, Len(alerts)) = alerts
    BY <1>2, SubSeqFull
  <2> QED
    BY <2>2, <2>3
<1> HIDE DEF head, rest
<1>6. alerts_shown \o head \in Seq(T)
  BY <1>2, <1>4, ConcatProperties
<1>7. Alerts!Shown' = Alerts!Shown
  <2>1. (alerts_shown \o head) \o rest = alerts_shown \o (head \o rest)
    BY <1>2, <1>4, ConcatAssociative
  <2>2. Alerts!Shown' = (alerts_shown \o head) \o rest
    BY <1>1 DEF Alerts!Shown
  <2> QED
    BY <1>5, <2>1, <2>2 DEF Alerts!Shown
<1>8. /\ Alerts!Asked' = Alerts!Asked
      /\ \A n : Alerts!OpenListing(n)' = Alerts!OpenListing(n)
      /\ Alerts!OpenListing(Alerts!Asked)' = Alerts!OpenListing(Alerts!Asked)
      /\ Alerts!OpenListing(undisturbed)' = Alerts!OpenListing(undisturbed)
      /\ Alerts!OpenListing(Len(listing))' = Alerts!OpenListing(Len(listing))
  BY <1>1 DEF Alerts!Asked, Alerts!OpenListing, Alerts!OpenOf
<1>9. Alerts!ShownInv'
  <2>1. alerts_shown' \in Seq(Groups \cap ever_open') /\ alerts' \in Seq(Groups \cap ever_open')
    BY <1>1, <1>4, <1>6 DEF T
  <2>2. Alerts!IsPrefix(Alerts!OpenListing(undisturbed), Alerts!Shown)'
          <=> Alerts!IsPrefix(Alerts!OpenListing(undisturbed), Alerts!Shown)
    BY <1>7, <1>8 DEF Alerts!IsPrefix
  <2> QED
    BY <1>1, <1>7, <1>8, <2>1, <2>2 DEF Alerts!IInv, Alerts!ShownInv
<1>10. Alerts!ControlInv'
  <2>1. count = 0 => alerts_finished /\ rest = <<>>
    <3> SUFFICES ASSUME count = 0 PROVE alerts_finished /\ rest = <<>>
      OBVIOUS
    <3>1. Len(alerts) = 0 /\ Len(rest) = 0
      BY <1>2, <1>3, <1>4
    <3>2. alerts = <<>>
      BY <1>2, <3>1, EmptySeq
    <3>3. rest = <<>>
      BY <1>4, <3>1, EmptySeq
    <3> QED
      BY <1>1, <3>2, <3>3
  <2> QED
    BY <1>1, <2>1 DEF Alerts!ControlInv
<1>11. Alerts!ListingInv'
  BY <1>1 DEF Alerts!IInv, Alerts!ListingInv
<1> QED
  BY <1>9, <1>10, <1>11 DEF Alerts!IInv

\* What is shown depends on the listing and on what was received only.
LEMMA ControlPreserves ==
  ASSUME Alerts!IInv, Alerts!ControlInv',
         UNCHANGED <<Alerts!alertVars, page, api_rows_received, alerts, alerts_finished, alerts_shown>>
  PROVE  Alerts!IInv'
<1>1. Alerts!ListingInv'
  BY DEF Alerts!IInv, Alerts!ListingInv, Alerts!alertVars
<1>2. Alerts!ShownInv'
  BY DEF Alerts!IInv, Alerts!ShownInv, Alerts!alertVars, Alerts!Asked, Alerts!Shown,
         Alerts!OpenListing, Alerts!OpenOf, Alerts!IsPrefix
<1> QED
  BY <1>1, <1>2 DEF Alerts!IInv

\* Every step of a query that reads preserves the invariant of the open alerts.
LEMMA AlertsInvNext == AlertsInv /\ [ReadNext]_readVars => AlertsInv'
<1> SUFFICES ASSUME AlertsInv, [ReadNext]_readVars, reads' = "alerts"
             PROVE  Alerts!IInv'
  BY DEF AlertsInv
<1>1. reads = "alerts" /\ Alerts!IInv /\ (Alerts!Next \/ UNCHANGED Alerts!vars)
  BY DEF AlertsInv, ReadNext, SearchStep, AlertsStep, AnswerStep, readVars, alertsVars, vars,
         scanVars, requestVars, Alerts!vars, Alerts!requestVars, Alerts!alertVars, Alerts!scanVars
<1>2. CASE Alerts!Call
  <2>1. Alerts!ControlInv'
    BY <1>1, <1>2 DEF Alerts!Call, Alerts!IInv, Alerts!ControlInv, Alerts!requestVars
  <2> QED
    BY <1>1, <1>2, <2>1, ControlPreserves DEF Alerts!Call
<1>3. CASE Alerts!FetchNextPage
  <2>1. Alerts!ControlInv'
    BY <1>1, <1>3 DEF Alerts!FetchNextPage, Alerts!IInv, Alerts!ControlInv, Alerts!scanVars
  <2> QED
    BY <1>1, <1>3, <2>1, ControlPreserves DEF Alerts!FetchNextPage, Alerts!scanVars
<1>4. CASE Alerts!MalformedPage
  <2>1. Alerts!ControlInv'
    BY <1>1, <1>4 DEF Alerts!MalformedPage, Alerts!FinishRequest, Alerts!IInv, Alerts!ControlInv,
                      Alerts!scanVars
  <2> QED
    BY <1>1, <1>4, <2>1, ControlPreserves DEF Alerts!MalformedPage, Alerts!scanVars
<1>5. CASE Alerts!Emit
  BY <1>1, <1>5, EmitAlertsPreserves
<1>6. ASSUME NEW has_total \in BOOLEAN, Alerts!ReceivePage(has_total) PROVE Alerts!IInv'
  BY <1>1, <1>6, ReceiveAlertsPreserves
<1>7. CASE Alerts!RequestStep /\ UNCHANGED <<Alerts!alertVars, Alerts!scanVars>>
  <2>1. request # "idle"
    BY <1>7 DEF Alerts!RequestStep, Alerts!InterruptedRequest, Alerts!SendRequest,
                Alerts!WakeRequest, Alerts!RetryRequest, Alerts!FailRequest
  <2>2. Alerts!ControlInv'
    BY <1>1, <1>7, <2>1 DEF Alerts!IInv, Alerts!ControlInv, Alerts!scanVars
  <2> QED
    BY <1>1, <1>7, <2>2, ControlPreserves DEF Alerts!scanVars
<1>8. CASE Alerts!Datadog
  BY <1>1, <1>8, TriggerPreserves, ResolvePreserves, UnlistPreserves DEF Alerts!Datadog
<1>9. CASE Alerts!InterruptQuery
  <2>1. Alerts!ControlInv'
    BY <1>1, <1>9 DEF Alerts!InterruptQuery, Alerts!Interrupt, Alerts!IInv, Alerts!ControlInv,
                      Alerts!scanVars
  <2> QED
    BY <1>1, <1>9, <2>1, ControlPreserves DEF Alerts!InterruptQuery, Alerts!scanVars
<1>10. CASE UNCHANGED Alerts!vars
  <2>1. Alerts!ControlInv'
    BY <1>1, <1>10 DEF Alerts!vars, Alerts!requestVars, Alerts!IInv, Alerts!ControlInv, Alerts!scanVars
  <2> QED
    BY <1>1, <1>10, <2>1, ControlPreserves DEF Alerts!vars, Alerts!scanVars
<1>11. CASE Alerts!Terminated
  BY <1>10, <1>11 DEF Alerts!Terminated
<1>12. Alerts!Next => \/ Alerts!Call \/ Alerts!FetchNextPage \/ Alerts!MalformedPage \/ Alerts!Emit
                      \/ \E has_total \in BOOLEAN : Alerts!ReceivePage(has_total)
                      \/ Alerts!RequestStep /\ UNCHANGED <<Alerts!alertVars, Alerts!scanVars>>
                      \/ Alerts!Datadog \/ Alerts!InterruptQuery \/ Alerts!Terminated
  BY DEF Alerts!Next, Alerts!Scan
<1> QED
  BY <1>1, <1>2, <1>3, <1>4, <1>5, <1>6, <1>7, <1>8, <1>9, <1>10, <1>11, <1>12

\* The inductive invariant of a scan of the open alerts: the listing has every
\* group once, what was shown are the open groups among those that were asked
\* for and not disturbed, and no scan finishes before it has asked for them.
THEOREM AlertsInvariance == ReadSpec => []AlertsInv
<1> QED
  BY AlertsInvInit, AlertsInvNext, PTL DEF ReadSpec

\* The scans that do not run keep their empty state.
LEMMA Parked == ReadSpec => []ParkedInv
<1>1. ReadInit => ParkedInv
  BY DEF ReadInit, ParkedInv
<1>2. ParkedInv /\ [ReadNext]_readVars => ParkedInv'
  <2> SUFFICES ASSUME ParkedInv, [ReadNext]_readVars PROVE ParkedInv'
    OBVIOUS
  <2> USE DEF ParkedInv, NoSearch, NoAlerts, NoAnswer, searchVars, alertsVars, answerVars, bindVars
  <2>1. CASE SearchStep
    BY <2>1 DEF SearchStep
  <2>2. CASE AlertsStep
    BY <2>2 DEF AlertsStep
  <2>3. CASE AnswerStep
    BY <2>3 DEF AnswerStep
  <2>4. CASE UNCHANGED readVars
    BY <2>4 DEF readVars, vars, scanVars
  <2> QED
    BY <2>1, <2>2, <2>3, <2>4 DEF ReadNext
<1> QED
  BY <1>1, <1>2, PTL DEF ReadSpec

\* Every group shown was open at some time of the scan, for any groups, page
\* size, chunk size, and changes of the listing while it is paged through.
THEOREM OnlyOpenIsShown == ReadSpec => []OnlyOpenShown
<1>1. AlertsInv /\ ParkedInv => OnlyOpenShown
  <2> SUFFICES ASSUME AlertsInv, ParkedInv PROVE OnlyOpenShown
    OBVIOUS
  <2>1. ASSUME NEW T, NEW s \in Seq(T) PROVE Alerts!Range(s) \subseteq T
    BY ElementOfSeq, LenProperties DEF Alerts!Range
  <2>2. CASE reads = "alerts"
    <3>1. /\ alerts_shown \in Seq(Groups \cap ever_open) /\ alerts \in Seq(Groups \cap ever_open)
      BY <2>2 DEF AlertsInv, Alerts!IInv, Alerts!ShownInv
    <3>2. /\ Alerts!Range(alerts_shown) \subseteq Groups \cap ever_open
          /\ Alerts!Range(alerts) \subseteq Groups \cap ever_open
      BY <2>1, <3>1
    <3> QED
      BY <3>2 DEF OnlyOpenShown, Alerts!OnlyOpenShown
  <2>3. CASE reads # "alerts"
    <3>1. alerts_shown = <<>> /\ alerts = <<>>
      BY <2>3 DEF ParkedInv, NoAlerts
    <3> QED
      BY <3>1 DEF OnlyOpenShown, Alerts!OnlyOpenShown, Alerts!Range
  <2> QED
    BY <2>2, <2>3
<1> QED
  BY <1>1, AlertsInvariance, Parked, PTL

\* A scan that ends while nothing changes showed every open group once and in
\* order; whatever changes behind them, the open groups at the undisturbed
\* start of the listing are shown, first and in order.
THEOREM UndisturbedAreShown == ReadSpec => []UndisturbedShown
<1>1. AlertsInv /\ ParkedInv => UndisturbedShown
  <2> SUFFICES ASSUME AlertsInv, ParkedInv, pc = "ended"
               PROVE  /\ changes = 0 => alerts_shown = Alerts!OpenListing(Len(listing))
                      /\ Alerts!IsPrefix(Alerts!OpenListing(undisturbed), alerts_shown)
    BY DEF UndisturbedShown, Alerts!UndisturbedShown
  <2>1. CASE reads = "alerts"
    <3>1. Alerts!ListingInv /\ Alerts!ShownInv /\ alerts_finished /\ alerts = <<>>
      BY <2>1 DEF AlertsInv, Alerts!IInv, Alerts!ControlInv
    <3>2. Alerts!Shown = alerts_shown
      BY <3>1, ConcatEmptySeq DEF Alerts!ShownInv, Alerts!Shown
    <3>3. /\ Alerts!Asked \in Nat /\ undisturbed \in Nat /\ undisturbed \in 0..Len(listing)
          /\ changes = 0 => undisturbed = Len(listing)
      BY <3>1, AskedType, ListingInvParts DEF Alerts!ShownInv
    <3>4. CASE Alerts!Asked > undisturbed
      BY <3>1, <3>2, <3>4 DEF Alerts!ShownInv
    <3>5. CASE Alerts!Asked = undisturbed
      <4>1. alerts_shown = Alerts!OpenListing(undisturbed)
        BY <3>1, <3>2, <3>3, <3>5 DEF Alerts!ShownInv
      <4>2. Starts(Alerts!OpenListing(undisturbed), Alerts!OpenListing(undisturbed))
        <5>1. undisturbed \in undisturbed..Len(listing)
          BY <3>3
        <5> QED
          BY <3>1, <3>3, <5>1, OpenListingStarts
      <4> QED
        BY <3>3, <4>1, <4>2, AlertsPrefix
    <3>6. Alerts!Asked >= undisturbed
      BY <3>1 DEF Alerts!ShownInv
    <3> QED
      BY <3>3, <3>4, <3>5, <3>6
  <2>2. CASE reads # "alerts"
    <3>1. alerts_shown = <<>> /\ listing = <<>> /\ undisturbed = 0
      BY <2>2 DEF ParkedInv, NoAlerts
    <3>2. Alerts!OpenListing(0) = <<>>
      <4>1. SubSeq(listing, 1, 0) = <<>>
        BY SubSeqEmpty
      <4> QED
        BY <4>1, OpenListingIs, SelectedEmpty
    <3>3. Len(listing) = 0 /\ Alerts!IsPrefix(<<>>, <<>>)
      BY <3>1 DEF Alerts!IsPrefix
    <3> QED
      BY <3>1, <3>2, <3>3
  <2> QED
    BY <2>1, <2>2
<1> QED
  BY <1>1, AlertsInvariance, Parked, PTL

--------------------------------------------------------------------------------
(* The windows of the scans that ask once.                                 *)

\* The digits of a text are a natural number.
LEMMA NumberIs ==
  ASSUME NEW d \in Seq(0..9)
  PROVE  \E n \in [0..Len(d) -> Nat] :
            /\ n[0] = 0 /\ \A i \in 1..Len(d) : n[i] = n[i - 1] * 10 + d[i]
            /\ Single!Number(d) = n[Len(d)]
<1> DEFINE N == Len(d)
           step == [p \in Nat \X (1..N) |-> p[1] * 10 + d[p[2]]]
           IsRun(f) == f = [i \in 0..N |-> IF i = 0 THEN 0 ELSE f[i - 1] * 10 + d[i]]
           n == CHOOSE f : IsRun(f)
<1>1. N \in Nat /\ \A i \in 1..N : d[i] \in Nat
  BY LenProperties, ElementOfSeq
<1>2. Single!Number(d) = n[N]
  BY DEF Single!Number
<1> HIDE DEF N
<1>3. step \in [Nat \X (1..N) -> Nat]
  BY <1>1
<1>4. PICK f \in [0..N -> Nat] : f[0] = 0 /\ \A i \in 1..N : f[i] = step[<<f[i - 1], i>>]
  <2> HIDE DEF step
  <2>1. IsLoop(step, Nat, N)
    BY <1>1, <1>3 DEF IsLoop
  <2>2. \E f : LoopRuns(f, 0, step, Nat, N)
    BY <2>1, LoopExists
  <2> QED
    BY <2>2 DEF LoopRuns
<1>5. IsRun(f)
  <2>1. ASSUME NEW i \in 0..N
        PROVE  f[i] = IF i = 0 THEN 0 ELSE f[i - 1] * 10 + d[i]
    <3>1. f[i] = IF i = 0 THEN 0 ELSE step[<<f[i - 1], i>>]
      <4> HIDE DEF step
      <4> QED
        BY <1>4
    <3>2. i # 0 => <<f[i - 1], i>> \in Nat \X (1..N)
      BY <1>1
    <3> QED
      BY <3>1, <3>2
  <2>2. f = [i \in 0..N |-> f[i]]
    OBVIOUS
  <2> QED
    BY <2>1, <2>2
<1>6. IsRun(n)
  <2> HIDE DEF IsRun
  <2> QED
    BY <1>5
<1>7. n[0] = 0 /\ \A i \in 1..N : n[i] = n[i - 1] * 10 + d[i]
  <2> HIDE DEF n
  <2> QED
    BY <1>1, <1>6
<1>8. n = [i \in 0..N |-> n[i]]
  <2> HIDE DEF n
  <2>1. DOMAIN n = 0..N /\ n = [i \in DOMAIN n |-> n[i]]
    BY <1>6
  <2> QED
    BY <2>1
<1>9. \A k \in Nat : k <= N => n[k] \in Nat
  <2> HIDE DEF n
  <2> DEFINE A == {k \in Nat : k <= N => n[k] \in Nat}
  <2>1. 0 \in A
    BY <1>7
  <2>2. ASSUME NEW k \in Nat, k \in A PROVE k + 1 \in A
    <3> SUFFICES ASSUME k + 1 <= N PROVE n[k + 1] \in Nat
      OBVIOUS
    <3>1. k <= N /\ k + 1 \in 1..N /\ (k + 1) - 1 = k
      BY <1>1
    <3>2. n[k] \in Nat /\ n[k + 1] = n[k] * 10 + d[k + 1] /\ d[k + 1] \in Nat
      BY <1>1, <1>7, <2>2, <3>1
    <3> QED
      BY <3>2
  <2>3. Nat \subseteq A
    <3> HIDE DEF A
    <3> QED
      BY <2>1, <2>2, NumberInduction
  <2> QED
    BY <2>3
<1>10. n \in [0..N -> Nat]
  <2> HIDE DEF n
  <2>1. \A i \in 0..N : n[i] \in Nat
    BY <1>1, <1>9
  <2> QED
    BY <1>8, <2>1
<1> HIDE DEF n
<1> QED
  BY <1>2, <1>7, <1>10 DEF N

\* The service map accumulates the same number, or rejects it.
LEMMA MagnitudeIs ==
  ASSUME NEW d \in Seq(0..9)
  PROVE  Single!Magnitude(d) \in {Rejected, Single!Number(d)}
<1> USE SingleAssumption DEF Single!WindowAssumption
<1> DEFINE N == Len(d)
           Next10(m, i) == IF m = Rejected THEN Rejected
                           ELSE IF m > (IntMax - d[i]) \div 10 THEN Rejected ELSE m * 10 + d[i]
           D == Nat \cup {Rejected}
           step == [p \in D \X (1..N) |-> Next10(p[1], p[2])]
           IsRun(f) == f = [i \in 0..N |->
              IF i = 0 THEN 0
              ELSE IF f[i - 1] = Rejected THEN Rejected
              ELSE IF f[i - 1] > (IntMax - d[i]) \div 10 THEN Rejected
              ELSE f[i - 1] * 10 + d[i]]
           m == CHOOSE f : IsRun(f)
<1>1. N \in Nat /\ \A i \in 1..N : d[i] \in Nat
  BY LenProperties, ElementOfSeq
<1>2. Single!Magnitude(d) = m[N]
  BY DEF Single!Magnitude
<1>3. PICK n \in [0..N -> Nat] :
         /\ n[0] = 0 /\ \A i \in 1..N : n[i] = n[i - 1] * 10 + d[i]
         /\ Single!Number(d) = n[N]
  BY NumberIs
<1> HIDE DEF N
<1>4. step \in [D \X (1..N) -> D]
  <2>1. ASSUME NEW p \in D \X (1..N) PROVE Next10(p[1], p[2]) \in D
    <3>1. p[1] \in D /\ d[p[2]] \in Nat
      BY <1>1
    <3> QED
      BY <3>1
  <2> HIDE DEF Next10, D
  <2> QED
    BY <2>1
<1>5. PICK f \in [0..N -> D] : f[0] = 0 /\ \A i \in 1..N : f[i] = step[<<f[i - 1], i>>]
  <2>1. 0 \in D
    OBVIOUS
  <2> HIDE DEF step, D
  <2>2. IsLoop(step, D, N)
    BY <1>1, <1>4 DEF IsLoop
  <2>3. \E f : LoopRuns(f, 0, step, D, N)
    BY <2>1, <2>2, LoopExists
  <2> QED
    BY <2>3 DEF LoopRuns
<1>6. IsRun(f)
  <2>1. ASSUME NEW i \in 0..N
        PROVE  f[i] = IF i = 0 THEN 0 ELSE Next10(f[i - 1], i)
    <3>1. f[i] = IF i = 0 THEN 0 ELSE step[<<f[i - 1], i>>]
      <4>1. i = 0 \/ i \in 1..N
        BY <1>1
      <4> HIDE DEF step, D, Next10
      <4> QED
        BY <1>5, <4>1
    <3>2. i # 0 => f[i - 1] \in D /\ i \in 1..N
      <4>1. i # 0 => i - 1 \in 0..N /\ i \in 1..N
        BY <1>1
      <4> HIDE DEF D
      <4> QED
        BY <1>5, <4>1
    <3> HIDE DEF D, Next10
    <3> QED
      BY <3>1, <3>2
  <2>2. f = [i \in 0..N |-> f[i]]
    BY <1>5
  <2> QED
    BY <2>1, <2>2
<1>7. IsRun(m)
  <2> HIDE DEF IsRun
  <2> QED
    BY <1>6
<1>8. \A k \in Nat : k <= N => m[k] \in {Rejected, n[k]}
  <2> HIDE DEF m
  <2> DEFINE A == {k \in Nat : k <= N => m[k] \in {Rejected, n[k]}}
  <2>1. 0 \in A
    BY <1>1, <1>3, <1>7
  <2>2. ASSUME NEW k \in Nat, k \in A PROVE k + 1 \in A
    <3> SUFFICES ASSUME k + 1 <= N PROVE m[k + 1] \in {Rejected, n[k + 1]}
      OBVIOUS
    <3>1. k <= N /\ k + 1 \in 1..N /\ k + 1 \in 0..N /\ (k + 1) - 1 = k /\ k + 1 # 0
      BY <1>1
    <3>2. m[k] \in {Rejected, n[k]} /\ n[k + 1] = n[k] * 10 + d[k + 1]
      BY <1>3, <2>2, <3>1
    <3>3. m[k + 1] = Next10(m[k], k + 1)
      BY <1>7, <3>1
    <3> QED
      BY <3>2, <3>3
  <2>3. Nat \subseteq A
    <3> HIDE DEF A
    <3> QED
      BY <2>1, <2>2, NumberInduction
  <2> QED
    BY <2>3
<1> HIDE DEF m
<1> QED
  BY <1>1, <1>2, <1>3, <1>8

\* A number below the modulus is its own remainder.
LEMMA SmallRemainder ==
  ASSUME NEW n \in Nat, NEW m \in Nat, n < m
  PROVE  n % m = n
  OBVIOUS

\* A number that an int64 can hold is not changed by it.
LEMMA WrappedIs ==
  ASSUME NEW n \in Int
  PROVE  /\ Single!Wrapped(n) \in Int
         /\ n \in Single!IntMin..IntMax => Single!Wrapped(n) = n
<1>1. IntMax \in Nat \ {0}
  BY SingleAssumption DEF Single!WindowAssumption
<1> DEFINE k == n + IntMax + 1
           w == 2 * IntMax + 2
<1>2. k \in Int /\ w \in Nat \ {0} /\ Single!Wrapped(n) = (k % w) - IntMax - 1
  BY <1>1 DEF Single!Wrapped
<1>3. n \in Single!IntMin..IntMax => k \in Nat /\ k < w /\ k - IntMax - 1 = n
  BY <1>1 DEF Single!IntMin
<1>4. k % w \in Int
  <2> HIDE DEF k, w
  <2> QED
    BY <1>2
<1> HIDE DEF k, w
<1> QED
  BY <1>1, <1>2, <1>3, <1>4, SmallRemainder

\* A number of digits, times a unit.
LEMMA UnitsAre ==
  ASSUME NEW d \in Seq(0..9)
  PROVE  /\ Single!Number(d) \in Nat
         /\ \A unit \in DOMAIN Multiplier :
              /\ Multiplier[unit] \in Nat \ {0}
              /\ Single!Number(d) * Multiplier[unit] \in Nat
              /\ Single!Number(d) <= Single!Number(d) * Multiplier[unit]
<1>1. Single!Number(d) \in Nat
  <2>1. PICK n \in [0..Len(d) -> Nat] : Single!Number(d) = n[Len(d)]
    BY NumberIs
  <2>2. Len(d) \in Nat
    BY LenProperties
  <2> QED
    BY <2>1, <2>2
<1>2. ASSUME NEW unit \in DOMAIN Multiplier PROVE Multiplier[unit] \in Nat \ {0}
  BY SingleAssumption DEF Single!WindowAssumption
<1>3. \A a \in Nat : \A b \in Nat \ {0} : a * b \in Nat /\ a <= a * b
  OBVIOUS
<1> QED
  BY <1>1, <1>2, <1>3

\* What the metrics parser accepts is a number, and what it can compute is what
\* was meant.
LEMMA MetricsEndpointIs ==
  ASSUME NEW v, Single!IsValue(v), NEW now \in 0..IntMax,
         Single!ResolveMetricsEndpoint(v, now) # Rejected
  PROVE  /\ Single!ResolveMetricsEndpoint(v, now) \in Int
         /\ Single!FitsMetrics(v) => Single!ResolveMetricsEndpoint(v, now) = Single!Meaning(v, now)
<1> DEFINE result == Single!ResolveMetricsEndpoint(v, now)
<1>0. /\ IntMax \in Nat \ {0} /\ now \in Int
      /\ DOMAIN Multiplier = {"s", "m", "h", "d", "w"}
  BY SingleAssumption DEF Single!WindowAssumption
<1>1. CASE v.form = "now"
  <2>1. result = now /\ Single!Meaning(v, now) = now
    BY <1>1 DEF Single!ResolveMetricsEndpoint, Single!Meaning
  <2> QED
    BY <1>0, <2>1
<1>2. CASE v.form = "relative"
  <2> DEFINE number == Single!Number(v.digits)
             product == number * Multiplier[v.unit]
             clamped == Single!Clamped(v.digits)
             wrapped == Single!Wrapped(clamped * Multiplier[v.unit])
  <2>1. /\ v.unit \in {"s", "m", "h", "d"}
        /\ result = Single!Wrapped(now - wrapped)
        /\ Single!Meaning(v, now) = now - product
    BY <1>2 DEF Single!ResolveMetricsEndpoint, Single!Meaning
  <2>2. /\ number \in Nat /\ Multiplier[v.unit] \in Nat /\ product \in Nat /\ number <= product
    BY <1>0, <1>2, <2>1, UnitsAre DEF Single!IsValue
  <2>3. clamped \in Nat /\ (number <= IntMax => clamped = number)
    BY <1>0, <2>2 DEF Single!Clamped
  <2>4. clamped * Multiplier[v.unit] \in Int
    <3> HIDE DEF clamped
    <3> QED
      BY <2>2, <2>3
  <2>5. wrapped \in Int
    <3> DEFINE n == clamped * Multiplier[v.unit]
    <3> HIDE DEF n
    <3>1. Single!Wrapped(n) \in Int
      BY <2>4, WrappedIs DEF n
    <3> QED
      BY <3>1 DEF n
  <2>6. now - wrapped \in Int
    <3> HIDE DEF wrapped
    <3> QED
      BY <1>0, <2>5
  <2>7. result \in Int
    <3> DEFINE n == now - wrapped
    <3> HIDE DEF n
    <3>1. Single!Wrapped(n) \in Int
      BY <2>6, WrappedIs DEF n
    <3> QED
      BY <2>1, <3>1 DEF n
  <2>8. ASSUME Single!FitsMetrics(v) PROVE result = now - product
    <3>1. product <= IntMax
      BY <1>2, <2>8 DEF Single!FitsMetrics
    <3> HIDE DEF product
    <3>2. number <= IntMax /\ product \in Single!IntMin..IntMax
          /\ now - product \in Single!IntMin..IntMax
      BY <1>0, <2>2, <3>1 DEF Single!IntMin
    <3>3. clamped * Multiplier[v.unit] = product
      BY <2>3, <3>2 DEF product
    <3>4. wrapped = product
      BY <2>2, <3>2, <3>3, WrappedIs
    <3>5. now - product \in Int
      BY <1>0, <2>2
    <3> DEFINE n == now - product
    <3> HIDE DEF n, wrapped
    <3>6. n \in Single!IntMin..IntMax /\ n \in Int
      BY <3>2, <3>5 DEF n
    <3>7. Single!Wrapped(n) = n
      BY <3>6, WrappedIs
    <3> QED
      BY <2>1, <3>4, <3>7 DEF n
  <2> QED
    BY <2>1, <2>7, <2>8
<1>3. CASE v.form = "epoch"
  <2>1. result = Single!Clamped(v.digits) /\ ~v.negative
    BY <1>3 DEF Single!ResolveMetricsEndpoint
  <2>2. Single!Number(v.digits) \in Nat
    BY <1>3, UnitsAre DEF Single!IsValue
  <2>3. Single!Meaning(v, now) = Single!Number(v.digits)
    BY <1>3, <2>1 DEF Single!Meaning
  <2>4. Single!FitsMetrics(v) => Single!Number(v.digits) <= IntMax
    BY <1>3 DEF Single!FitsMetrics
  <2> QED
    BY <1>0, <2>1, <2>2, <2>3, <2>4 DEF Single!Clamped
<1>4. CASE v.form = "empty"
  BY <1>4 DEF Single!ResolveMetricsEndpoint, Single!FitsMetrics
<1>5. CASE v.form = "other"
  BY <1>5 DEF Single!ResolveMetricsEndpoint
<1> QED
  BY <1>1, <1>2, <1>3, <1>4, <1>5 DEF Single!IsValue

\* What the parser of the service map accepts is what was meant.
LEMMA ServiceEndpointIs ==
  ASSUME NEW v, Single!IsValue(v), NEW now \in 0..IntMax,
         Single!ResolveDatadogServiceMapEndpoint(v, now) # Rejected
  PROVE  /\ Single!ResolveDatadogServiceMapEndpoint(v, now) \in Int
         /\ Single!ResolveDatadogServiceMapEndpoint(v, now) = Single!Meaning(v, now)
<1> DEFINE result == Single!ResolveDatadogServiceMapEndpoint(v, now)
<1>0. IntMax \in Nat \ {0} /\ now \in Int
  BY SingleAssumption DEF Single!WindowAssumption
<1>1. CASE v.form = "now"
  BY <1>0, <1>1 DEF Single!ResolveDatadogServiceMapEndpoint, Single!Meaning
<1>2. CASE v.form = "relative"
  <2> DEFINE magnitude == Single!Magnitude(v.digits)
             number == Single!Number(v.digits)
             offset == Single!ParseRelativeDurationSeconds(v)
  <2>1. result = Single!RelativeEndpoint(v, now)
    BY <1>2 DEF Single!ResolveDatadogServiceMapEndpoint
  <2>2. offset # Rejected /\ result = now - offset
    BY <2>1 DEF Single!RelativeEndpoint
  <2>3. /\ v.unit \in DOMAIN Multiplier /\ magnitude # Rejected
        /\ offset = magnitude * Multiplier[v.unit]
    BY <2>2 DEF Single!ParseRelativeDurationSeconds
  <2>4. magnitude = number
    BY <1>2, <2>3, MagnitudeIs DEF Single!IsValue
  <2>5. number * Multiplier[v.unit] \in Nat
    BY <1>2, <2>3, UnitsAre DEF Single!IsValue
  <2>6. Single!Meaning(v, now) = now - number * Multiplier[v.unit]
    BY <1>2 DEF Single!Meaning
  <2> HIDE DEF magnitude, number, offset
  <2> QED
    BY <1>0, <2>2, <2>3, <2>4, <2>5, <2>6 DEF number
<1>3. CASE v.form = "epoch"
  <2>1. result = Single!Number(v.digits) /\ ~v.negative
    BY <1>3 DEF Single!ResolveDatadogServiceMapEndpoint, Single!EpochEndpoint
  <2>2. Single!Number(v.digits) \in Nat
    BY <1>3, UnitsAre DEF Single!IsValue
  <2>3. Single!Meaning(v, now) = Single!Number(v.digits)
    BY <1>3, <2>1 DEF Single!Meaning
  <2> QED
    BY <2>1, <2>2, <2>3
<1>4. CASE v.form \in {"empty", "other"}
  BY <1>4 DEF Single!ResolveDatadogServiceMapEndpoint
<1> QED
  BY <1>1, <1>2, <1>3, <1>4 DEF Single!IsValue

\* A window of metrics that is accepted is in order, and exact where it can be.
LEMMA MetricsWindowIs ==
  ASSUME NEW from, NEW to, Single!IsValue(from), Single!IsValue(to), NEW now \in 0..IntMax,
         Single!ResolveMetricsWindow(from, to, now) # Rejected
  PROVE  LET w == Single!ResolveMetricsWindow(from, to, now) IN
         /\ w.from <= w.to
         /\ Single!FitsMetrics(from) => w.from = Single!Meaning(from, now)
         /\ Single!FitsMetrics(to) => w.to = Single!Meaning(to, now)
<1> DEFINE a == Single!ResolveMetricsEndpoint(from, now)
           b == Single!ResolveMetricsEndpoint(to, now)
           w == Single!ResolveMetricsWindow(from, to, now)
<1>1. a # Rejected /\ b # Rejected /\ ~(a > b) /\ w = [from |-> a, to |-> b]
  BY DEF Single!ResolveMetricsWindow, Single!Window
<1>2. a \in Int /\ (Single!FitsMetrics(from) => a = Single!Meaning(from, now))
  BY <1>1, MetricsEndpointIs
<1>3. b \in Int /\ (Single!FitsMetrics(to) => b = Single!Meaning(to, now))
  BY <1>1, MetricsEndpointIs
<1>4. w.from = a /\ w.to = b
  BY <1>1
<1> HIDE DEF a, b, w
<1>5. a <= b
  BY <1>1, <1>2, <1>3
<1> QED
  BY <1>2, <1>3, <1>4, <1>5 DEF w

\* Seconds that a TIMESTAMP_NS can hold are nanoseconds in its range.
LEMMA TimestampRange ==
  ASSUME NEW t \in Single!TimestampSeconds
  PROVE  t * NanosPerSecond \in Single!IntMin..IntMax
<1>1. IntMax \in Nat /\ NanosPerSecond \in Nat \ {0}
  BY SingleAssumption DEF Single!WindowAssumption
<1>2. \A m \in Nat : \A n \in Nat \ {0} : (m \div n) \in Nat /\ (m \div n) * n <= m
  <2> SUFFICES ASSUME NEW m \in Nat, NEW n \in Nat \ {0}
               PROVE  (m \div n) \in Nat /\ (m \div n) * n <= m
    OBVIOUS
  <2>1. m = n * (m \div n) + (m % n) /\ (m % n) \in 0..n - 1 /\ (m \div n) \in Int
    OBVIOUS
  <2> QED
    BY <2>1
<1> DEFINE high == IntMax \div NanosPerSecond
           low == (IntMax + 1) \div NanosPerSecond
<1>3. high \in Nat /\ high * NanosPerSecond <= IntMax
  BY <1>1, <1>2
<1>4. low \in Nat /\ low * NanosPerSecond <= IntMax + 1
  <2>1. IntMax + 1 \in Nat
    BY <1>1
  <2> QED
    BY <1>1, <1>2, <2>1
<1>5. t \in -low..high
  BY DEF Single!TimestampSeconds
<1> HIDE DEF low, high
<1>6. t \in Int /\ -low <= t /\ t <= high
  BY <1>3, <1>4, <1>5
<1>7. t * NanosPerSecond <= high * NanosPerSecond
  <2>1. \A x, y \in Int : \A n \in Nat : x <= y => x * n <= y * n
    OBVIOUS
  <2> QED
    BY <1>1, <1>3, <1>6, <2>1
<1>8. -(low * NanosPerSecond) <= t * NanosPerSecond
  <2>1. \A x, y \in Int : \A n \in Nat : -x <= y => -(x * n) <= y * n
    OBVIOUS
  <2> QED
    BY <1>1, <1>4, <1>6, <2>1
<1>9. t * NanosPerSecond \in Int /\ low * NanosPerSecond \in Int /\ high * NanosPerSecond \in Int
  BY <1>1, <1>3, <1>4, <1>6
<1> DEFINE x == t * NanosPerSecond
           y == low * NanosPerSecond
           z == high * NanosPerSecond
<1> HIDE DEF x, y, z
<1>10. x \in Int /\ y \in Int /\ z \in Int /\ x <= z /\ -y <= x /\ z <= IntMax /\ y <= IntMax + 1
  BY <1>3, <1>4, <1>7, <1>8, <1>9 DEF x, y, z
<1>11. x \in Single!IntMin..IntMax
  BY <1>1, <1>10 DEF Single!IntMin
<1> QED
  BY <1>11 DEF x

\* A window of the service map that is accepted is exact, in order, and in
\* nanoseconds fits 64 bits.
LEMMA ServiceWindowIs ==
  ASSUME NEW from, NEW to, Single!IsValue(from), Single!IsValue(to), NEW now \in 0..IntMax,
         Single!ResolveDatadogServiceMapWindow(from, to, now) # Rejected
  PROVE  LET w == Single!ResolveDatadogServiceMapWindow(from, to, now) IN
         /\ w.from <= w.to
         /\ w.from = Single!Meaning(from, now) /\ w.to = Single!Meaning(to, now)
         /\ {w.from * NanosPerSecond, w.to * NanosPerSecond} \subseteq Single!IntMin..IntMax
<1> DEFINE a == Single!ResolveDatadogServiceMapEndpoint(from, now)
           b == Single!ResolveDatadogServiceMapEndpoint(to, now)
           w == Single!ResolveDatadogServiceMapWindow(from, to, now)
<1>1. w = Single!Window(a, b) /\ w # Rejected /\ {w.from, w.to} \subseteq Single!TimestampSeconds
  BY DEF Single!ResolveDatadogServiceMapWindow
<1>2. a # Rejected /\ b # Rejected /\ ~(a > b) /\ w = [from |-> a, to |-> b]
  <2> HIDE DEF w, a, b
  <2> QED
    BY <1>1 DEF Single!Window
<1>3. a \in Int /\ a = Single!Meaning(from, now)
  BY <1>2, ServiceEndpointIs
<1>4. b \in Int /\ b = Single!Meaning(to, now)
  BY <1>2, ServiceEndpointIs
<1> HIDE DEF a, b, w
<1>5. w.from = a /\ w.to = b
  BY <1>2
<1>6. a <= b
  BY <1>2, <1>3, <1>4
<1>7. w.from * NanosPerSecond \in Single!IntMin..IntMax /\ w.to * NanosPerSecond \in Single!IntMin..IntMax
  BY <1>1, TimestampRange
<1> QED
  BY <1>3, <1>4, <1>5, <1>6, <1>7 DEF w

\* The clock of the model fits 64 bits.
LEMMA ClockRange == \A t \in 0..MaxClock : t \in 0..IntMax
  BY SingleAssumption DEF Single!ScansAssumption, Single!WindowAssumption

\* Before it is bound, a scan has the settings that it was given.
LEMMA WindowInvInit == ReadInit => WindowInv
<1> SUFFICES ASSUME ReadInit, reads = "answer" PROVE Single!WindowInv
  BY DEF WindowInv
<1>1. Single!Init
  BY DEF ReadInit
<1>2. PICK input \in Inputs : answer = input.answer /\ settings = input.settings
  BY <1>1 DEF Single!Init
<1>3. /\ input.answer \in Seq(STRING) /\ input.settings.max_rows \in Nat
      /\ Single!IsValue(input.settings.from) /\ Single!IsValue(input.settings.to)
      /\ MaxClock \in 0..IntMax
  BY SingleAssumption DEF Single!ScansAssumption
<1>4. clock \in 0..MaxClock /\ scan \in Scans /\ pc = "unbound"
  BY <1>1, <1>3 DEF Single!Init
<1>5. Single!BoundInv
  BY <1>2, <1>3, <1>4 DEF Single!BoundInv
<1> QED
  BY <1>4, <1>5 DEF Single!WindowInv, Single!WindowIsCurrent, Single!Started

\* Binding resolves the window of read_datadog_metrics, and keeps the others.
LEMMA BindPreserves ==
  ASSUME Single!WindowInv, Single!Bind
  PROVE  Single!WindowInv'
<1>1. /\ Single!BoundInv
      /\ UNCHANGED <<scan, settings, answer, clock, window, started>>
      /\ pc' \in {"bound", "rejected"}
      /\ pc' = "bound" => bind_window' = Single!BindWindow /\ Single!BindWindow # Rejected
  BY DEF Single!WindowInv, Single!Bind, Single!BindAccepts, Single!given, Single!execution
<1>2. ASSUME pc' = "bound", ~Single!LazyWindow PROVE bind_window'.from <= bind_window'.to
  <2>1. /\ bind_window' = Single!ResolveMetricsWindow(settings.from, settings.to, clock)
        /\ Single!ResolveMetricsWindow(settings.from, settings.to, clock) # Rejected
    BY <1>1, <1>2 DEF Single!BindWindow
  <2>2. clock \in 0..IntMax /\ Single!IsValue(settings.from) /\ Single!IsValue(settings.to)
    BY <1>1, ClockRange DEF Single!BoundInv
  <2> QED
    BY <2>1, <2>2, MetricsWindowIs
<1>3. ASSUME pc' = "bound", Single!LazyWindow PROVE bind_window' = Single!Verbatim'
  BY <1>1, <1>3 DEF Single!BindWindow, Single!Verbatim
<1>4. Single!LazyWindow' <=> Single!LazyWindow
  BY <1>1 DEF Single!LazyWindow
<1>5. Single!BoundInv'
  BY <1>1, <1>2, <1>3, <1>4 DEF Single!BoundInv
<1>6. Single!WindowIsCurrent'
  BY <1>1 DEF Single!WindowIsCurrent, Single!Started
<1> QED
  BY <1>5, <1>6 DEF Single!WindowInv

\* Starting resolves the windows that binding kept.
LEMMA StartPreserves ==
  ASSUME Single!WindowInv, Single!InitGlobal
  PROVE  Single!WindowInv'
<1>1. /\ Single!BoundInv /\ pc = "bound" /\ pc' \in {"idle", "rejected"}
      /\ UNCHANGED <<scan, settings, answer, clock, bind_window>> /\ started' = clock
      /\ pc' = "idle" => window' = Single!StartWindow /\ Single!StartWindow # Rejected
  BY DEF Single!WindowInv, Single!InitGlobal, Single!given
<1>2. Single!BoundInv'
  BY <1>1 DEF Single!BoundInv, Single!LazyWindow, Single!Verbatim
<1>3. /\ clock \in 0..IntMax /\ Single!IsValue(settings.from) /\ Single!IsValue(settings.to)
      /\ IF Single!LazyWindow THEN bind_window = Single!Verbatim
                              ELSE bind_window.from <= bind_window.to
  BY <1>1, ClockRange DEF Single!BoundInv
<1>4. Single!WindowIsCurrent'
  <2> SUFFICES ASSUME pc' = "idle", scan \in Single!MetricsScans \cup Single!ServiceScans
               PROVE  Single!WindowIsCurrent'
    BY <1>1 DEF Single!WindowIsCurrent, Single!Started
  <2>1. window' = Single!StartWindow /\ Single!StartWindow # Rejected
    BY <1>1
  <2>2. CASE scan = "metrics.series"
    <3>1. bind_window.from = settings.from /\ bind_window.to = settings.to
      BY <1>3, <2>2 DEF Single!LazyWindow, Single!Verbatim
    <3>2. Single!StartWindow = Single!ResolveMetricsWindow(settings.from, settings.to, clock)
      BY <2>2, <3>1 DEF Single!StartWindow, Single!LazyWindow, Single!MetricsScans, Single!ServiceScans
    <3>3. /\ window'.from <= window'.to
          /\ Single!FitsMetrics(settings.from) => window'.from = Single!Meaning(settings.from, clock)
          /\ Single!FitsMetrics(settings.to) => window'.to = Single!Meaning(settings.to, clock)
      <4> DEFINE w == Single!ResolveMetricsWindow(settings.from, settings.to, clock)
      <4>1. w # Rejected /\ window' = w
        BY <2>1, <3>2
      <4>2. /\ w.from <= w.to
            /\ Single!FitsMetrics(settings.from) => w.from = Single!Meaning(settings.from, clock)
            /\ Single!FitsMetrics(settings.to) => w.to = Single!Meaning(settings.to, clock)
        BY <1>3, <4>1, MetricsWindowIs
      <4> HIDE DEF w
      <4> QED
        BY <4>1, <4>2
    <3>4. scan \notin Single!ServiceScans
      BY <2>2 DEF Single!ServiceScans
    <3> QED
      BY <1>1, <3>3, <3>4 DEF Single!WindowIsCurrent, Single!ServiceScans
  <2>3. CASE scan \in Single!ServiceScans
    <3>1. bind_window.from = settings.from /\ bind_window.to = settings.to
      BY <1>3, <2>3 DEF Single!LazyWindow, Single!Verbatim, Single!ServiceScans
    <3>2. Single!StartWindow
            = Single!ResolveDatadogServiceMapWindow(settings.from, settings.to, clock)
      BY <2>3, <3>1 DEF Single!StartWindow, Single!ServiceScans, Single!MetricsScans
    <3>3. /\ window'.from <= window'.to
          /\ window'.from = Single!Meaning(settings.from, clock)
          /\ window'.to = Single!Meaning(settings.to, clock)
          /\ {window'.from * NanosPerSecond, window'.to * NanosPerSecond}
                \subseteq Single!IntMin..IntMax
      <4> DEFINE w == Single!ResolveDatadogServiceMapWindow(settings.from, settings.to, clock)
      <4>1. w # Rejected /\ window' = w
        BY <2>1, <3>2
      <4>2. /\ w.from <= w.to
            /\ w.from = Single!Meaning(settings.from, clock)
            /\ w.to = Single!Meaning(settings.to, clock)
            /\ {w.from * NanosPerSecond, w.to * NanosPerSecond} \subseteq Single!IntMin..IntMax
        BY <1>3, <4>1, ServiceWindowIs
      <4> HIDE DEF w
      <4> QED
        BY <4>1, <4>2
    <3> QED
      BY <1>1, <3>3 DEF Single!WindowIsCurrent
  <2>4. CASE scan = "read_datadog_metrics"
    <3>1. Single!StartWindow = bind_window /\ bind_window.from <= bind_window.to
          /\ scan \notin Single!ServiceScans
      BY <1>3, <2>4 DEF Single!StartWindow, Single!LazyWindow, Single!ServiceScans
    <3> QED
      BY <1>1, <2>1, <2>4, <3>1 DEF Single!WindowIsCurrent, Single!ServiceScans
  <2> QED
    BY <2>2, <2>3, <2>4 DEF Single!MetricsScans
<1> QED
  BY <1>2, <1>4 DEF Single!WindowInv

\* A step that starts nothing leaves the window.
LEMMA WindowStays ==
  ASSUME Single!WindowInv, UNCHANGED <<scan, settings, answer, bind_window, window, started>>,
         clock' \in 0..MaxClock, pc' = pc \/ (Single!Started /\ Single!Started')
  PROVE  Single!WindowInv'
<1>1. Single!Started' => Single!Started
  BY DEF Single!Started
<1>2. pc' = "bound" => pc = "bound"
  BY DEF Single!Started
<1>3. Single!BoundInv'
  BY <1>2 DEF Single!WindowInv, Single!BoundInv, Single!LazyWindow, Single!Verbatim
<1>4. Single!WindowIsCurrent'
  BY <1>1 DEF Single!WindowInv, Single!WindowIsCurrent, Single!FitsMetrics, Single!Meaning,
              Single!Number, Single!IntMin
<1> QED
  BY <1>3, <1>4 DEF Single!WindowInv

\* Every step of a query that reads preserves the invariant of the window.
LEMMA WindowInvNext == WindowInv /\ [ReadNext]_readVars => WindowInv'
<1> SUFFICES ASSUME WindowInv, [ReadNext]_readVars, reads' = "answer"
             PROVE  Single!WindowInv'
  BY DEF WindowInv
<1>1. Single!WindowInv /\ (Single!Next \/ UNCHANGED Single!vars)
  BY DEF WindowInv, ReadNext, SearchStep, AlertsStep, AnswerStep, readVars, answerVars, vars,
         scanVars, requestVars, Single!vars, Single!requestVars, Single!given, Single!execution
<1>2. clock \in 0..MaxClock
  BY <1>1 DEF Single!WindowInv, Single!BoundInv
<1> USE DEF Single!given, Single!execution, Single!Started
<1>3. CASE Single!Tick
  <2>1. clock' \in 0..MaxClock
    BY <1>2, <1>3, SingleAssumption DEF Single!Tick, Single!ScansAssumption
  <2> QED
    BY <1>1, <1>3, <2>1, WindowStays DEF Single!Tick
<1>4. CASE Single!Bind
  BY <1>1, <1>4, BindPreserves
<1>5. CASE Single!InitGlobal
  BY <1>1, <1>5, StartPreserves
<1>6. CASE Single!ScanCall
  BY <1>1, <1>2, <1>6, WindowStays DEF Single!ScanCall
<1>7. CASE Single!Scan
  BY <1>1, <1>2, <1>7, WindowStays
     DEF Single!Scan, Single!Load, Single!Receive, Single!Emit, Single!ScanRequestStep
<1>8. CASE Single!InterruptQuery
  BY <1>1, <1>2, <1>8, WindowStays DEF Single!InterruptQuery
<1>9. CASE UNCHANGED Single!vars
  BY <1>1, <1>2, <1>9, WindowStays DEF Single!vars
<1>10. CASE Single!Terminated
  BY <1>9, <1>10 DEF Single!Terminated
<1> QED
  BY <1>1, <1>3, <1>4, <1>5, <1>6, <1>7, <1>8, <1>9, <1>10 DEF Single!Next

\* A window resolved when its scan starts means the time of that start, is in
\* order, and for the service map fits a TIMESTAMP_NS, for every clock and every
\* text of a time that fits its width; no sum or product of them overflows.
THEOREM WindowStaysCurrent == ReadSpec => []WindowIsCurrent
<1>1. WindowInv /\ ParkedInv => WindowIsCurrent
  <2>1. CASE reads = "answer"
    BY <2>1 DEF WindowInv, Single!WindowInv, WindowIsCurrent
  <2>2. ASSUME reads # "answer", ParkedInv PROVE WindowIsCurrent
    <3>1. scan = "none"
      BY <2>2 DEF ParkedInv, NoAnswer
    <3> QED
      BY <3>1 DEF WindowIsCurrent, Single!WindowIsCurrent, Single!MetricsScans, Single!ServiceScans
  <2> QED
    BY <2>1, <2>2
<1> QED
  BY <1>1, WindowInvInit, WindowInvNext, Parked, PTL DEF ReadSpec

--------------------------------------------------------------------------------
(* The rows of the scans that ask once.                                    *)

\* The instance's names for operators of no state: what is selected of a list, ...
LEMMA SingleSelected == \A s, S : Single!Selected(s, S) = Selected(s, S)
  BY DEF Single!Selected, Selected

\* ... and how many elements a set has.
LEMMA SingleCardinality == \A S : Single!Cardinality(S) = Cardinality(S)
  BY DEF Single!Cardinality, Cardinality

\* An item that is kept is one more row.
LEMMA RowStep ==
  /\ Single!Row(0) = 0
  /\ \A m \in Nat : /\ Single!Row(m) \in Nat
                    /\ Single!Row(m + 1) = IF Single!Keeps(m + 1) THEN Single!Row(m) + 1
                                           ELSE Single!Row(m)
<1>1. CASE scan \in Single!MetricsScans
  <2> DEFINE S(m) == {j \in 1..m : answer[j] # "no value"}
  <2>1. scan \notin Single!ServiceScans
    BY <1>1 DEF Single!MetricsScans, Single!ServiceScans
  <2>2. \A m : Single!Row(m) = Cardinality(S(m))
    BY <1>1, <2>1, SingleCardinality DEF Single!Row
  <2>3. \A m \in Nat : IsFiniteSet(S(m))
    <3> SUFFICES ASSUME NEW m \in Nat PROVE IsFiniteSet(S(m))
      OBVIOUS
    <3>1. IsFiniteSet(1..m)
      BY FS_Interval
    <3>2. S(m) \in SUBSET (1..m)
      OBVIOUS
    <3> HIDE DEF S
    <3> QED
      BY <3>1, <3>2, FS_Subset
  <2>4. S(0) = {}
    OBVIOUS
  <2>5. \A m \in Nat : /\ m + 1 \notin S(m)
                       /\ Single!Keeps(m + 1) => S(m + 1) = S(m) \cup {m + 1}
                       /\ ~Single!Keeps(m + 1) => S(m + 1) = S(m)
    <3> SUFFICES ASSUME NEW m \in Nat
                 PROVE  /\ m + 1 \notin S(m)
                        /\ Single!Keeps(m + 1) => S(m + 1) = S(m) \cup {m + 1}
                        /\ ~Single!Keeps(m + 1) => S(m + 1) = S(m)
      OBVIOUS
    <3>1. \A j : j \in 1..m + 1 <=> j \in 1..m \/ j = m + 1
      OBVIOUS
    <3>2. Single!Keeps(m + 1) <=> answer[m + 1] # "no value"
      BY <1>1, <2>1 DEF Single!Keeps
    <3>3. m + 1 \notin 1..m
      OBVIOUS
    <3> QED
      BY <3>1, <3>2, <3>3, Zenon
  <2> HIDE DEF S
  <2>6. Single!Row(0) = 0
    BY <2>2, <2>4, FS_EmptySet
  <2>7. ASSUME NEW m \in Nat
        PROVE  /\ Single!Row(m) \in Nat
               /\ Single!Row(m + 1) = IF Single!Keeps(m + 1) THEN Single!Row(m) + 1
                                      ELSE Single!Row(m)
    <3>1. Single!Row(m) = Cardinality(S(m)) /\ Single!Row(m + 1) = Cardinality(S(m + 1))
      BY <2>2
    <3>2. IsFiniteSet(S(m))
      BY <2>3
    <3>3. Cardinality(S(m)) \in Nat
      BY <3>2, FS_CardinalityType
    <3>4. Cardinality(S(m) \cup {m + 1}) =
            IF m + 1 \in S(m) THEN Cardinality(S(m)) ELSE Cardinality(S(m)) + 1
      BY <3>2, FS_AddElement
    <3> QED
      BY <2>5, <3>1, <3>3, <3>4
  <2> QED
    BY <2>6, <2>7
<1>2. CASE scan \in Single!ServiceScans
  <2> DEFINE S(m) == {answer[j] : j \in 1..m}
  <2>1. scan \notin Single!MetricsScans
    BY <1>2 DEF Single!MetricsScans, Single!ServiceScans
  <2>2. \A m : Single!Row(m) = Cardinality(S(m))
    BY <1>2, <2>1, SingleCardinality DEF Single!Row
  <2>3. S(0) = {}
    OBVIOUS
  <2>4. \A m \in Nat : /\ S(m + 1) = S(m) \cup {answer[m + 1]}
                       /\ Single!Keeps(m + 1) <=> answer[m + 1] \notin S(m)
    <3> SUFFICES ASSUME NEW m \in Nat
                 PROVE  /\ S(m + 1) = S(m) \cup {answer[m + 1]}
                        /\ Single!Keeps(m + 1) <=> answer[m + 1] \notin S(m)
      OBVIOUS
    <3>1. \A j : j \in 1..m + 1 <=> j \in 1..m \/ j = m + 1
      OBVIOUS
    <3>2. \A k : k = m + 1 => 1..k - 1 = 1..m
      OBVIOUS
    <3>3. S(m + 1) = S(m) \cup {answer[m + 1]}
      BY <3>1, Zenon
    <3>4. Single!Keeps(m + 1) <=> \A j \in 1..m : answer[j] # answer[m + 1]
      <4>1. \A k : Single!Keeps(k) <=> \A j \in 1..k - 1 : answer[j] # answer[k]
        BY <1>2, <2>1, Zenon DEF Single!Keeps
      <4> QED
        BY <3>2, <4>1
    <3> QED
      BY <3>3, <3>4, Zenon
  <2>5. \A m \in Nat : IsFiniteSet(S(m))
    <3> DEFINE A == {m \in Nat : IsFiniteSet(S(m))}
    <3> HIDE DEF S
    <3>1. 0 \in A
      BY <2>3, FS_EmptySet
    <3>2. ASSUME NEW m \in Nat, m \in A PROVE m + 1 \in A
      BY <2>4, <3>2, FS_AddElement
    <3>3. Nat \subseteq A
      <4> HIDE DEF A
      <4> QED
        BY <3>1, <3>2, NumberInduction
    <3> QED
      BY <3>3
  <2> HIDE DEF S
  <2>6. Single!Row(0) = 0
    BY <2>2, <2>3, FS_EmptySet
  <2>7. ASSUME NEW m \in Nat
        PROVE  /\ Single!Row(m) \in Nat
               /\ Single!Row(m + 1) = IF Single!Keeps(m + 1) THEN Single!Row(m) + 1
                                      ELSE Single!Row(m)
    <3>1. Single!Row(m) = Cardinality(S(m)) /\ Single!Row(m + 1) = Cardinality(S(m + 1))
      BY <2>2
    <3>2. IsFiniteSet(S(m))
      BY <2>5
    <3>3. Cardinality(S(m)) \in Nat
      BY <3>2, FS_CardinalityType
    <3>4. Cardinality(S(m) \cup {answer[m + 1]}) =
            IF answer[m + 1] \in S(m) THEN Cardinality(S(m)) ELSE Cardinality(S(m)) + 1
      BY <3>2, FS_AddElement
    <3> QED
      BY <2>4, <3>1, <3>3, <3>4
  <2> QED
    BY <2>6, <2>7
<1>3. CASE scan \notin Single!MetricsScans \cup Single!ServiceScans
  BY <1>3 DEF Single!Row, Single!Keeps
<1> QED
  BY <1>1, <1>2, <1>3

\* The positions kept up to the next item are those before, and it if it is kept.
LEMMA KeptStep ==
  /\ Single!KeptUpTo(0) = <<>>
  /\ \A m \in Nat : Single!KeptUpTo(m) \in Seq(Nat)
  /\ \A m \in Nat : Single!KeptUpTo(m + 1) =
        IF Single!Keeps(m + 1) THEN Append(Single!KeptUpTo(m), m + 1) ELSE Single!KeptUpTo(m)
<1> DEFINE s(n) == [i \in 1..n |-> i]
           K(n) == {i \in 1..n : Single!Keeps(i)}
<1>1. \A n : Single!KeptUpTo(n) = Selected(s(n), K(n))
  BY SingleSelected DEF Single!KeptUpTo
<1>2. \A n \in Nat : s(n) \in Seq(Nat) /\ Len(s(n)) = n /\ \A i \in 1..n : s(n)[i] = i
  OBVIOUS
<1>3. s(0) = <<>>
  <2>1. Len(s(0)) = 0 /\ s(0) \in Seq(Nat)
    BY <1>2
  <2> HIDE DEF s
  <2> QED
    BY <2>1, EmptySeq
<1>4. ASSUME NEW m \in Nat
      PROVE  Single!KeptUpTo(m + 1) =
               IF Single!Keeps(m + 1) THEN Append(Single!KeptUpTo(m), m + 1)
               ELSE Single!KeptUpTo(m)
  <2> DEFINE a == s(m)
             b == s(m + 1)
             k == m + 1
             S == K(m + 1)
             R == K(m)
  <2>1. a \in Seq(Nat) /\ Len(a) = m /\ (\A i \in 1..m : a[i] = i)
        /\ b \in Seq(Nat) /\ Len(b) = k /\ (\A i \in 1..k : b[i] = i) /\ k \in Nat
    BY <1>2
  <2>2. (k \in S <=> Single!Keeps(k)) /\ \A i \in 1..m : i \in S <=> i \in R
    OBVIOUS
  <2> HIDE DEF s, K, S, R, a, b
  <2>3. b = Append(a, k)
    <3> DEFINE c == Append(a, k)
    <3>1. c \in Seq(Nat) /\ Len(c) = k /\ (\A i \in 1..m : c[i] = a[i]) /\ c[k] = k
      BY <2>1, AppendProperties
    <3> HIDE DEF c
    <3>2. \A i \in 1..k : b[i] = c[i]
      <4>1. \A i \in 1..k : i \in 1..m \/ i = k
        BY <2>1
      <4> QED
        BY <2>1, <3>1, <4>1
    <3>3. b = c
      BY <2>1, <3>1, <3>2, SeqEqual
    <3> QED
      BY <3>3 DEF c
  <2> HIDE DEF k
  <2>4. Selected(Append(a, k), S) =
          IF k \in S THEN Append(Selected(a, S), k) ELSE Selected(a, S)
    BY <2>1, SelectedAppend
  <2>5. Selected(a, S) = Selected(a, R)
    <3>1. Len(a) \in Nat /\ \A i \in 1..Len(a) : a[i] = a[i] /\ (a[i] \in S <=> a[i] \in R)
      BY <2>1, <2>2
    <3> QED
      BY <3>1, SelectedAgree
  <2>6. Single!KeptUpTo(k) = Selected(b, S) /\ Single!KeptUpTo(m) = Selected(a, R)
    BY <1>1 DEF a, b, S, R, k
  <2>7. Single!KeptUpTo(k) = IF Single!Keeps(k) THEN Append(Single!KeptUpTo(m), k)
                             ELSE Single!KeptUpTo(m)
    BY <2>2, <2>3, <2>4, <2>5, <2>6
  <2> QED
    BY <2>7 DEF k
<1>5. ASSUME NEW m \in Nat PROVE Single!KeptUpTo(m) \in Seq(Nat)
  <2> DEFINE a == s(m)
             R == K(m)
  <2>1. a \in Seq(Nat)
    BY <1>2
  <2> HIDE DEF s, K, a, R
  <2>2. Selected(a, R) \in Seq(Nat \cap R)
    BY <2>1, SelectedType
  <2>3. Selected(a, R) \in Seq(Nat)
    <3> DEFINE q == Selected(a, R)
    <3> HIDE DEF q
    <3>1. q \in Seq(Nat \cap R) /\ Nat \cap R \subseteq Nat
      BY <2>2 DEF q
    <3>2. q \in Seq(Nat)
      BY <3>1, SeqMonotonic
    <3> QED
      BY <3>2 DEF q
  <2> QED
    BY <1>1, <2>3 DEF a, R
<1>6. Single!KeptUpTo(0) = <<>>
  <2> HIDE DEF s, K
  <2> QED
    BY <1>1, <1>3, SelectedEmpty
<1> QED
  BY <1>4, <1>5, <1>6

\* What is kept has as many items as rows, the k-th being row k.
LEMMA KeptRows ==
  \A m \in Nat : /\ Len(Single!KeptUpTo(m)) = Single!Row(m)
                 /\ \A k \in 1..Single!Row(m) : Single!Row(Single!KeptUpTo(m)[k]) = k
<1> DEFINE P(m) == /\ Len(Single!KeptUpTo(m)) = Single!Row(m)
                   /\ \A k \in 1..Single!Row(m) : Single!Row(Single!KeptUpTo(m)[k]) = k
           A == {m \in Nat : P(m)}
<1>1. 0 \in A
  BY RowStep, KeptStep, EmptySeq
<1>2. ASSUME NEW m \in Nat, m \in A PROVE m + 1 \in A
  <2> DEFINE q == Single!KeptUpTo(m)
             r == Single!KeptUpTo(m + 1)
             n == Single!Row(m)
  <2>1. q \in Seq(Nat) /\ Len(q) = n /\ n \in Nat /\ m + 1 \in Nat
        /\ \A k \in 1..n : Single!Row(q[k]) = k
    BY <1>2, KeptStep, RowStep
  <2>2. CASE Single!Keeps(m + 1)
    <3>1. r = Append(q, m + 1) /\ Single!Row(m + 1) = n + 1
      BY <2>2, KeptStep, RowStep
    <3> HIDE DEF q, r, n
    <3>2. Len(r) = n + 1 /\ (\A k \in 1..n : r[k] = q[k]) /\ r[n + 1] = m + 1
      BY <2>1, <3>1, AppendProperties
    <3>3. ASSUME NEW k \in 1..n + 1 PROVE Single!Row(r[k]) = k
      <4>1. k \in 1..n \/ k = n + 1
        BY <2>1
      <4> QED
        BY <2>1, <3>1, <3>2, <4>1
    <3> QED
      BY <2>1, <3>1, <3>2, <3>3 DEF r
  <2>3. CASE ~Single!Keeps(m + 1)
    <3>1. r = q /\ Single!Row(m + 1) = n
      BY <2>3, KeptStep, RowStep
    <3> HIDE DEF q, r, n
    <3> QED
      BY <2>1, <3>1 DEF r
  <2> QED
    BY <2>2, <2>3
<1>3. Nat \subseteq A
  <2> HIDE DEF A
  <2> QED
    BY <1>1, <1>2, NumberInduction
<1> QED
  BY <1>3

\* A call moves as many items from the buffer to the rows as fit a chunk and the
\* cap, in order; it moves none if the buffer is empty or the cap is reached.
LEMMA SingleEmit ==
  ASSUME Single!StreamInv, Single!Emit
  PROVE  LET room == IF Single!Capped THEN settings.max_rows - Len(items_shown) ELSE Len(items)
             count == Single!Smaller(VectorSize, Single!Smaller(room, Len(items)))
         IN  /\ count \in 0..Len(items) /\ count \in Nat
             /\ items_shown' = items_shown \o SubSeq(items, 1, count)
             /\ items' = SubSeq(items, count + 1, Len(items))
             /\ items_shown' \in Seq(Nat) /\ items' \in Seq(Nat)
             /\ Len(items_shown') = Len(items_shown) + count
             /\ Len(items') = Len(items) - count
             /\ items_shown' \o items' = items_shown \o items
             /\ Single!Capped => Len(items_shown) + count <= settings.max_rows
             /\ pc' = IF count = 0 THEN "ended" ELSE "idle"
             /\ count = 0 => \/ items' = <<>>
                             \/ (Single!Capped /\ Len(items_shown) = settings.max_rows)
<1> DEFINE room == IF Single!Capped THEN settings.max_rows - Len(items_shown) ELSE Len(items)
           count == Single!Smaller(VectorSize, Single!Smaller(room, Len(items)))
           head == SubSeq(items, 1, count)
           rest == SubSeq(items, count + 1, Len(items))
<1>1. /\ items_shown \in Seq(Nat) /\ items \in Seq(Nat) /\ settings.max_rows \in Nat
      /\ Single!Capped => Len(items_shown) <= settings.max_rows
      /\ VectorSize \in Nat \ {0}
  BY SingleAssumption
     DEF Single!StreamInv, Single!BoundInv, Single!RowsInv, Single!EndInv, Single!ScansAssumption
<1>2. Len(items) \in Nat /\ Len(items_shown) \in Nat
  BY <1>1, LenProperties
<1>3. /\ items_shown' = items_shown \o head /\ items' = rest
      /\ pc' = IF count = 0 THEN "ended" ELSE "idle"
  BY DEF Single!Emit, Single!Capped
<1>4. /\ room \in Nat /\ (Single!Capped => room = settings.max_rows - Len(items_shown))
      /\ (~Single!Capped => room = Len(items))
  BY <1>1, <1>2
<1> HIDE DEF room
<1>5. /\ count \in 0..Len(items) /\ count \in Nat /\ count <= room /\ Len(items) \in count..Len(items)
      /\ count = 0 => room = 0 \/ Len(items) = 0
  BY <1>1, <1>2, <1>4 DEF Single!Smaller
<1> HIDE DEF count
<1>6. /\ head \in Seq(Nat) /\ Len(head) = count /\ rest \in Seq(Nat) /\ Len(rest) = Len(items) - count
  <2>1. items \in Seq(Nat) /\ count \in 0..Len(items) /\ Len(items) \in count..Len(items)
    BY <1>1, <1>5
  <2>2. SubSeq(items, 1, count) \in Seq(Nat) /\ Len(SubSeq(items, 1, count)) = count
    BY <2>1, Halves
  <2>3. /\ SubSeq(items, count + 1, Len(items)) \in Seq(Nat)
        /\ Len(SubSeq(items, count + 1, Len(items))) = Len(items) - count
    BY <2>1, Halves
  <2> QED
    BY <2>2, <2>3
<1>7. head \o rest = items
  <2>1. 1 \in 1..Len(items) + 1 /\ count \in 1 - 1..Len(items) /\ Len(items) \in count..Len(items)
    BY <1>2, <1>5
  <2>2. SubSeq(items, 1, count) \o SubSeq(items, count + 1, Len(items)) = SubSeq(items, 1, Len(items))
    BY <1>1, <2>1, ConcatAdjacentSubSeq
  <2>3. SubSeq(items, 1, Len(items)) = items
    BY <1>1, SubSeqFull
  <2> QED
    BY <2>2, <2>3
<1> HIDE DEF head, rest
<1>8. items_shown \o head \in Seq(Nat) /\ Len(items_shown \o head) = Len(items_shown) + count
  <2>1. items_shown \o head \in Seq(Nat) /\ Len(items_shown \o head) = Len(items_shown) + Len(head)
    BY <1>1, <1>6, ConcatProperties
  <2> QED
    BY <1>6, <2>1
<1>9. (items_shown \o head) \o rest = items_shown \o items
  <2>1. (items_shown \o head) \o rest = items_shown \o (head \o rest)
    <3>1. items_shown \in Seq(Nat) /\ head \in Seq(Nat) /\ rest \in Seq(Nat)
      BY <1>1, <1>6
    <3> QED
      BY <3>1, ConcatAssociative
  <2> QED
    BY <1>7, <2>1
<1>10. Single!Capped => Len(items_shown) + count <= settings.max_rows
  BY <1>1, <1>2, <1>4, <1>5
<1>11. count = 0 => \/ items' = <<>>
                    \/ (Single!Capped /\ Len(items_shown) = settings.max_rows)
  <2> SUFFICES ASSUME count = 0
               PROVE  items' = <<>> \/ (Single!Capped /\ Len(items_shown) = settings.max_rows)
    OBVIOUS
  <2>1. CASE Len(items) = 0
    <3>1. Len(rest) = 0
      BY <1>2, <1>6, <2>1
    <3> QED
      BY <1>3, <1>6, <3>1, EmptySeq
  <2>2. CASE Len(items) # 0
    <3>1. room = 0
      BY <1>5, <2>2
    <3> QED
      BY <1>1, <1>2, <1>4, <2>2, <3>1
  <2> QED
    BY <2>1, <2>2
<1> QED
  BY <1>3, <1>5, <1>6, <1>8, <1>9, <1>10, <1>11 DEF count, room, head, rest

\* Before it asks, a scan has nothing.
LEMMA StreamInvInit == ReadInit => StreamInv
<1> SUFFICES ASSUME ReadInit, reads = "answer" PROVE Single!StreamInv
  BY DEF StreamInv
<1>1. Single!Init
  BY DEF ReadInit
<1>2. Single!BoundInv
  BY WindowInvInit DEF WindowInv, Single!WindowInv
<1>3. /\ request = "idle" /\ pc = "unbound" /\ loaded = FALSE /\ items = <<>> /\ items_shown = <<>>
  BY <1>1 DEF Single!Init, Single!RequestInit
<1>4. <<>> \in Seq(Nat) /\ Len(<<>>) = 0
  OBVIOUS
<1>5. settings.max_rows \in Nat
  BY <1>2 DEF Single!BoundInv
<1> QED
  BY <1>2, <1>3, <1>4, <1>5 DEF Single!StreamInv, Single!RowsInv, Single!EndInv

\* A malformed item has a first one.
LEMMA FirstMalformedIs ==
  ASSUME Single!BoundInv, ~Single!WellFormed
  PROVE  Single!FirstMalformed - 1 \in Nat
<1> DEFINE B == {i \in DOMAIN answer : Single!IsMalformed(answer[i])}
<1>1. DOMAIN answer = 1..Len(answer) /\ Len(answer) \in Nat
  BY LenProperties DEF Single!BoundInv
<1>2. B \in SUBSET Nat /\ B # {}
  BY <1>1 DEF Single!WellFormed
<1>3. PICK i \in B : \A m \in B : i <= m
  BY <1>2, LeastElement
<1>4. \A j \in 1..i - 1 : ~Single!IsMalformed(answer[j])
  <2> SUFFICES ASSUME NEW j \in 1..i - 1, Single!IsMalformed(answer[j]) PROVE FALSE
    OBVIOUS
  <2>1. j \in DOMAIN answer /\ j < i
    BY <1>1, <1>3
  <2> QED
    BY <1>1, <1>3, <2>1
<1>5. Single!FirstMalformed \in DOMAIN answer
  BY <1>3, <1>4 DEF Single!FirstMalformed
<1> QED
  BY <1>1, <1>5

\* What a scan keeps depends on what it was given alone.
LEMMA SameAnswer ==
  ASSUME UNCHANGED <<scan, settings, answer>>
  PROVE  /\ Single!KeptUpTo(Len(answer))' = Single!KeptUpTo(Len(answer))
         /\ Single!WellFormed' <=> Single!WellFormed
         /\ Single!Capped' <=> Single!Capped
<1>1. scan' = scan /\ answer' = answer /\ settings' = settings
  OBVIOUS
<1>2. Single!WellFormed' <=> Single!WellFormed
  BY <1>1 DEF Single!WellFormed, Single!IsMalformed, Single!ServiceScans
<1>3. Single!KeptUpTo(Len(answer))' = Single!KeptUpTo(Len(answer))
  BY <1>1 DEF Single!KeptUpTo, Single!Keeps, Single!MetricsScans, Single!ServiceScans,
              Single!Selected
<1>4. Single!Capped' <=> Single!Capped
  BY <1>1 DEF Single!Capped, Single!MetricsScans
<1> QED
  BY <1>2, <1>3, <1>4

\* A step that leaves the rows keeps the invariant when it keeps control.
LEMMA StreamStays ==
  ASSUME Single!StreamInv, Single!BoundInv',
         UNCHANGED <<scan, settings, answer, items, items_shown>>,
         request' # "idle" => pc' = "scanning" /\ items_shown = <<>>,
         request' = "idle" => request = "idle" /\ loaded' = loaded,
         pc' = "ended" => pc = "ended",
         pc' \notin {"scanning", "ended", "idle"} => request' = "idle" /\ ~loaded'
  PROVE  Single!StreamInv'
<1>1. Single!KeptUpTo(Len(answer))' = Single!KeptUpTo(Len(answer))
      /\ (Single!WellFormed' <=> Single!WellFormed)
  BY SameAnswer
<1>2. Single!RowsInv'
  BY <1>1 DEF Single!StreamInv, Single!RowsInv
<1>3. pc' = "ended" => request' = "idle"
  BY DEF Single!StreamInv
<1>4. Single!EndInv'
  BY <1>3 DEF Single!StreamInv, Single!EndInv, Single!Capped, Single!MetricsScans
<1> QED
  BY <1>2, <1>4 DEF Single!StreamInv

\* The answer arrives.
LEMMA StreamReceive ==
  ASSUME Single!StreamInv, Single!BoundInv', Single!Receive
  PROVE  Single!StreamInv'
<1>1. /\ request = "waiting" /\ pc = "scanning" /\ items_shown = <<>> /\ items \in Seq(Nat)
      /\ Single!BoundInv /\ settings.max_rows \in Nat
  BY DEF Single!Receive, Single!FinishRequest, Single!StreamInv, Single!RowsInv, Single!BoundInv
<1>2. /\ UNCHANGED <<scan, settings, answer, pc, items_shown>>
      /\ request' = IF Single!WellFormed THEN "idle" ELSE "failed"
  BY DEF Single!Receive, Single!FinishRequest, Single!given
<1>3. Single!KeptUpTo(Len(answer))' = Single!KeptUpTo(Len(answer))
      /\ (Single!WellFormed' <=> Single!WellFormed)
  BY <1>2, SameAnswer
<1>4. Len(answer) \in Nat
  BY <1>1, LenProperties DEF Single!BoundInv
<1>5. CASE Single!WellFormed
  <2> DEFINE kept == Single!KeptUpTo(Len(answer))
  <2>1. loaded' = TRUE /\ items' = kept /\ kept \in Seq(Nat)
    BY <1>4, <1>5, KeptStep DEF Single!Receive
  <2>2. <<>> \o kept = kept
    <3> HIDE DEF kept
    <3> QED
      BY <2>1, ConcatEmptySeq
  <2>3. Single!RowsInv'
    BY <1>1, <1>2, <1>3, <1>5, <2>1, <2>2 DEF Single!RowsInv
  <2>4. Single!EndInv'
    BY <1>1, <1>2 DEF Single!EndInv
  <2> QED
    BY <2>3, <2>4 DEF Single!StreamInv
<1>6. CASE ~Single!WellFormed
  <2>1. items' \in Seq(Nat)
    BY <1>1, <1>6, FirstMalformedIs, KeptStep DEF Single!Receive
  <2>2. Single!RowsInv'
    BY <1>1, <1>2, <1>6, <2>1 DEF Single!RowsInv
  <2>3. Single!EndInv'
    BY <1>1, <1>2 DEF Single!EndInv
  <2> QED
    BY <2>2, <2>3 DEF Single!StreamInv
<1> QED
  BY <1>5, <1>6

\* A call emits a chunk.
LEMMA StreamEmit ==
  ASSUME Single!StreamInv, Single!BoundInv', Single!Emit
  PROVE  Single!StreamInv'
<1> DEFINE room == IF Single!Capped THEN settings.max_rows - Len(items_shown) ELSE Len(items)
           count == Single!Smaller(VectorSize, Single!Smaller(room, Len(items)))
<1>1. /\ request = "idle" /\ pc = "scanning" /\ loaded
      /\ UNCHANGED <<scan, settings, answer, request, loaded>>
  BY DEF Single!Emit, Single!given, Single!requestVars
<1>2. /\ items_shown' \in Seq(Nat) /\ items' \in Seq(Nat)
      /\ Len(items_shown') = Len(items_shown) + count
      /\ items_shown' \o items' = items_shown \o items
      /\ Single!Capped => Len(items_shown) + count <= settings.max_rows
      /\ pc' = IF count = 0 THEN "ended" ELSE "idle"
      /\ count = 0 => \/ items' = <<>>
                      \/ (Single!Capped /\ Len(items_shown) = settings.max_rows)
  BY SingleEmit
<1>3. Len(items_shown) \in Nat
  BY LenProperties DEF Single!StreamInv, Single!RowsInv
<1> HIDE DEF room, count
<1>4. Single!KeptUpTo(Len(answer))' = Single!KeptUpTo(Len(answer))
      /\ (Single!WellFormed' <=> Single!WellFormed) /\ (Single!Capped' <=> Single!Capped)
  BY <1>1, SameAnswer
<1>5. Single!RowsInv'
  BY <1>1, <1>2, <1>4 DEF Single!StreamInv, Single!RowsInv
<1>6. Single!EndInv'
  <2>1. Single!Capped' => Len(items_shown') <= settings.max_rows'
    BY <1>1, <1>2, <1>4
  <2>2. ASSUME pc' = "ended"
        PROVE  items' = <<>> \/ (Single!Capped' /\ Len(items_shown') = settings.max_rows')
    <3>1. count = 0
      BY <1>2, <2>2
    <3> QED
      BY <1>1, <1>2, <1>3, <1>4, <3>1
  <2>3. pc' \in {"scanning", "ended", "idle"}
    BY <1>2
  <2> QED
    BY <1>1, <2>1, <2>2, <2>3 DEF Single!EndInv
<1> QED
  BY <1>5, <1>6 DEF Single!StreamInv

\* Every step of a query that reads preserves the invariant of the rows.
LEMMA StreamInvNext == StreamInv /\ WindowInv' /\ [ReadNext]_readVars => StreamInv'
<1> SUFFICES ASSUME StreamInv, WindowInv', [ReadNext]_readVars, reads' = "answer"
             PROVE  Single!StreamInv'
  BY DEF StreamInv
<1>1. Single!StreamInv /\ (Single!Next \/ UNCHANGED Single!vars)
  BY DEF StreamInv, ReadNext, SearchStep, AlertsStep, AnswerStep, readVars, answerVars, vars,
         scanVars, requestVars, Single!vars, Single!requestVars, Single!given, Single!execution
<1>2. Single!BoundInv'
  BY DEF WindowInv, Single!WindowInv
<1>3. /\ request # "idle" => pc = "scanning" /\ items_shown = <<>>
      /\ request = "idle" /\ ~loaded => items_shown = <<>>
      /\ pc \notin {"scanning", "ended", "idle"} => request = "idle" /\ ~loaded
  BY <1>1 DEF Single!StreamInv, Single!RowsInv, Single!EndInv
<1> USE DEF Single!given, Single!execution, Single!requestVars
<1>4. CASE Single!Tick \/ Single!Bind \/ Single!InitGlobal \/ Single!ScanCall
  <2>1. UNCHANGED <<scan, settings, answer, items, items_shown, request, loaded>>
        /\ (pc' = pc \/ (pc # "scanning" /\ pc' \in {"bound", "rejected", "idle", "scanning"}))
    BY <1>4 DEF Single!Tick, Single!Bind, Single!InitGlobal, Single!ScanCall
  <2>2. request' # "idle" => pc' = "scanning" /\ items_shown = <<>>
    BY <1>3, <2>1
  <2>3. pc' \notin {"scanning", "ended", "idle"} => request' = "idle" /\ ~loaded'
    BY <1>3, <1>4 DEF Single!Tick, Single!Bind, Single!InitGlobal, Single!ScanCall
  <2> QED
    BY <1>1, <1>2, <2>1, <2>2, <2>3, StreamStays
<1>5. CASE Single!Load
  <2>1. /\ UNCHANGED <<scan, settings, answer, items, items_shown, pc>>
        /\ request = "idle" /\ ~loaded /\ pc = "scanning" /\ request' = "starting"
    BY <1>5 DEF Single!Load, Single!BeginRequest
  <2> QED
    BY <1>1, <1>2, <1>3, <2>1, StreamStays
<1>6. CASE Single!Receive
  BY <1>1, <1>2, <1>6, StreamReceive
<1>7. CASE Single!Emit
  BY <1>1, <1>2, <1>7, StreamEmit
<1>8. CASE Single!ScanRequestStep
  <2>1. /\ UNCHANGED <<scan, settings, answer, items, items_shown, pc, loaded>>
        /\ request # "idle" /\ request' # "idle"
    BY <1>8 DEF Single!ScanRequestStep, Single!RequestStep, Single!InterruptedRequest,
                Single!SendRequest, Single!WakeRequest, Single!RetryRequest, Single!FailRequest
  <2> QED
    BY <1>1, <1>2, <1>3, <2>1, StreamStays
<1>9. CASE Single!InterruptQuery \/ UNCHANGED Single!vars
  <2>1. UNCHANGED <<scan, settings, answer, items, items_shown, pc, loaded, request>>
    BY <1>9 DEF Single!InterruptQuery, Single!Interrupt, Single!vars
  <2> QED
    BY <1>1, <1>2, <1>3, <2>1, StreamStays
<1>10. CASE Single!Terminated
  BY <1>9, <1>10 DEF Single!Terminated
<1> QED
  BY <1>1, <1>4, <1>5, <1>6, <1>7, <1>8, <1>9, <1>10 DEF Single!Next, Single!Scan

\* WindowInv, which holds of every state, gives what was bound.
THEOREM StreamInvariance == ReadSpec => []StreamInv
<1>1. ReadSpec => []WindowInv
  BY WindowInvInit, WindowInvNext, PTL DEF ReadSpec
<1> QED
  BY <1>1, StreamInvInit, StreamInvNext, PTL DEF ReadSpec

--------------------------------------------------------------------------------
(* What became of a scan, whichever it is.                                 *)

\* How a step may change what became of a scan, whichever it is: a request that
\* is underway belongs to a call, and what ended or failed stays so.
StatusStep ==
  /\ \/ Single!StreamStatus' = Single!StreamStatus
     \/ Single!StreamStatus = "open" /\ Single!StreamStatus' \in {"ended", "failed"}
  /\ \/ StreamStatus' = StreamStatus
     \/ StreamStatus = "open" /\ StreamStatus' \in {"ended", "failed"}

\* Status moves on only from open: a step that changes where a scan is starts
\* from one that neither ended nor failed.
LEMMA StatusOf ==
  ASSUME CallInv, CallInv',
         \/ UNCHANGED <<pc, request>>
         \/ pc \notin {"ended", "rejected"} /\ request \notin Threw
  PROVE  StatusStep
  BY DEF StatusStep, CallInv, Single!StreamStatus, StreamStatus, Single!Threw, Threw

\* So does a step of a cursor scan, ...
LEMMA SearchControl ==
  ASSUME CallInv, [Next]_vars
  PROVE  CallInv' /\ StatusStep
<1>1. CASE Call
  <2>1. pc = "idle" /\ pc' = "scanning" /\ request' = request
    BY <1>1 DEF Call, requestVars
  <2> QED
    BY <2>1, StatusOf DEF CallInv, Threw
<1>2. CASE FetchNextPage
  <2>1. pc = "scanning" /\ pc' = pc /\ request = "idle"
    BY <1>2 DEF FetchNextPage, BeginRequest, scanVars
  <2> QED
    BY <2>1, StatusOf DEF CallInv, Threw
<1>3. CASE MalformedPage \/ RequestAction
  <2>1. pc' = pc /\ request \in {"starting", "waiting", "sleeping"}
    BY <1>3 DEF MalformedPage, FinishRequest, RequestAction, RequestStep, InterruptedRequest,
                SendRequest, WakeRequest, RetryRequest, FailRequest, scanVars
  <2> QED
    BY <2>1, StatusOf DEF CallInv, Threw
<1>4. ASSUME NEW last, NEW after, ReceivePage(last, after) PROVE CallInv' /\ StatusStep
  <2>1. pc' = pc /\ request = "waiting"
    BY <1>4 DEF ReceivePage, FinishRequest
  <2> QED
    BY <2>1, StatusOf DEF CallInv, Threw
<1>5. CASE Emit
  <2>1. pc = "scanning" /\ request = "idle" /\ request' = request
    BY <1>5 DEF Emit, requestVars
  <2> QED
    BY <2>1, StatusOf DEF CallInv, Threw
<1>6. CASE InterruptQuery \/ Terminated \/ UNCHANGED vars
  <2>1. UNCHANGED <<pc, request>>
    BY <1>6 DEF InterruptQuery, Interrupt, Terminated, vars, requestVars, scanVars
  <2> QED
    BY <2>1, StatusOf DEF CallInv
<1> QED
  BY <1>1, <1>2, <1>3, <1>4, <1>5, <1>6 DEF Next, Scan

\* ... of the open alerts, ...
LEMMA AlertsControl ==
  ASSUME CallInv, Alerts!Next \/ UNCHANGED Alerts!vars
  PROVE  CallInv' /\ StatusStep
<1>1. CASE Alerts!Call
  <2>1. pc = "idle" /\ pc' = "scanning" /\ request' = request
    BY <1>1 DEF Alerts!Call, Alerts!requestVars
  <2> QED
    BY <2>1, StatusOf DEF CallInv, Threw
<1>2. CASE Alerts!FetchNextPage
  <2>1. pc = "scanning" /\ pc' = pc /\ request = "idle"
    BY <1>2 DEF Alerts!FetchNextPage, Alerts!BeginRequest, Alerts!scanVars
  <2> QED
    BY <2>1, StatusOf DEF CallInv, Threw
<1>3. CASE Alerts!MalformedPage \/ (Alerts!RequestStep /\ UNCHANGED <<Alerts!alertVars, Alerts!scanVars>>)
  <2>1. pc' = pc /\ request \in {"starting", "waiting", "sleeping"}
    BY <1>3 DEF Alerts!MalformedPage, Alerts!FinishRequest, Alerts!RequestStep,
                Alerts!InterruptedRequest, Alerts!SendRequest, Alerts!WakeRequest,
                Alerts!RetryRequest, Alerts!FailRequest, Alerts!scanVars
  <2> QED
    BY <2>1, StatusOf DEF CallInv, Threw
<1>4. ASSUME NEW has_total, Alerts!ReceivePage(has_total) PROVE CallInv' /\ StatusStep
  <2>1. pc' = pc /\ request = "waiting"
    BY <1>4 DEF Alerts!ReceivePage, Alerts!FinishRequest
  <2> QED
    BY <2>1, StatusOf DEF CallInv, Threw
<1>5. CASE Alerts!Emit
  <2>1. pc = "scanning" /\ request = "idle" /\ request' = request
    BY <1>5 DEF Alerts!Emit, Alerts!requestVars
  <2> QED
    BY <2>1, StatusOf DEF CallInv, Threw
<1>6. CASE Alerts!Datadog \/ Alerts!InterruptQuery \/ Alerts!Terminated \/ UNCHANGED Alerts!vars
  <2>1. UNCHANGED <<pc, request>>
    BY <1>6 DEF Alerts!Datadog, Alerts!Trigger, Alerts!Resolve, Alerts!Unlist,
                Alerts!InterruptQuery, Alerts!Interrupt, Alerts!Terminated, Alerts!vars,
                Alerts!requestVars, Alerts!scanVars
  <2> QED
    BY <2>1, StatusOf DEF CallInv
<1> QED
  BY <1>1, <1>2, <1>3, <1>4, <1>5, <1>6 DEF Alerts!Next, Alerts!Scan

\* ... and of a scan that asks once.
LEMMA SingleControl ==
  ASSUME CallInv, Single!Next \/ UNCHANGED Single!vars
  PROVE  CallInv' /\ StatusStep
<1> USE DEF Single!requestVars, Single!given, Single!execution
<1>1. CASE Single!Bind \/ Single!InitGlobal \/ Single!ScanCall \/ Single!Emit
  <2>1. pc \in {"unbound", "bound", "idle", "scanning"} /\ request' = request
        /\ (pc = "scanning" => request = "idle")
    BY <1>1 DEF Single!Bind, Single!InitGlobal, Single!ScanCall, Single!Emit
  <2>2. request = "idle"
    BY <2>1 DEF CallInv
  <2> QED
    BY <2>1, <2>2, StatusOf DEF CallInv, Threw
<1>2. CASE Single!Load
  <2>1. pc = "scanning" /\ pc' = pc /\ request = "idle"
    BY <1>2 DEF Single!Load, Single!BeginRequest
  <2> QED
    BY <2>1, StatusOf DEF CallInv, Threw
<1>3. CASE Single!Receive \/ Single!ScanRequestStep
  <2>1. pc' = pc /\ request \in {"starting", "waiting", "sleeping"}
    BY <1>3 DEF Single!Receive, Single!FinishRequest, Single!ScanRequestStep, Single!RequestStep,
                Single!InterruptedRequest, Single!SendRequest, Single!WakeRequest,
                Single!RetryRequest, Single!FailRequest
  <2> QED
    BY <2>1, StatusOf DEF CallInv, Threw
<1>4. CASE Single!Tick \/ Single!InterruptQuery \/ Single!Terminated \/ UNCHANGED Single!vars
  <2>1. UNCHANGED <<pc, request>>
    BY <1>4 DEF Single!Tick, Single!InterruptQuery, Single!Interrupt, Single!Terminated, Single!vars
  <2> QED
    BY <2>1, StatusOf DEF CallInv
<1> QED
  BY <1>1, <1>2, <1>3, <1>4 DEF Single!Next, Single!Scan

\* At first no request is underway.
LEMMA CallInvInit == ReadInit => CallInv
  BY DEF ReadInit, CallInv, Init, RequestInit, Alerts!Init, Alerts!RequestInit, Single!Init,
         Single!RequestInit

\* A request that is underway belongs to a call, and what ended or failed stays so.
LEMMA CallInvNext == CallInv /\ [ReadNext]_readVars => CallInv' /\ StatusStep
<1> SUFFICES ASSUME CallInv, [ReadNext]_readVars PROVE CallInv' /\ StatusStep
  OBVIOUS
<1>1. CASE SearchStep
  BY <1>1, SearchControl DEF SearchStep
<1>2. CASE AlertsStep
  BY <1>2, AlertsControl DEF AlertsStep
<1>3. CASE AnswerStep
  BY <1>3, SingleControl DEF AnswerStep
<1>4. CASE UNCHANGED readVars
  BY <1>4, SearchControl DEF readVars
<1> QED
  BY <1>1, <1>2, <1>3, <1>4 DEF ReadNext

--------------------------------------------------------------------------------
(* The scans that ask once implement the stream of rows.                   *)

\* The rows that were emitted, as numbers, and how many there should be.
Delivered == [n \in DOMAIN items_shown |-> Single!Row(items_shown[n])]

\* All rows of the answer, up to the cap.
AnswerWanted ==
  IF Single!Capped THEN Single!Smaller(settings.max_rows, Single!Row(Len(answer)))
                   ELSE Single!Row(Len(answer))

\* What was emitted is the start of the wanted rows, and an ended scan emitted all.
DeliveredInv ==
  /\ items_shown \in Seq(Nat) /\ Delivered = [n \in 1..Len(items_shown) |-> n]
  /\ AnswerWanted \in Nat /\ Len(items_shown) <= AnswerWanted
  /\ pc = "ended" => Len(items_shown) = AnswerWanted

\* Rows are emitted in order, none beyond the wanted ones; an ended scan has
\* emitted them all.
LEMMA DeliveredIs == StreamInv /\ ParkedInv => DeliveredInv
<1> SUFFICES ASSUME StreamInv, ParkedInv PROVE DeliveredInv
  OBVIOUS
<1>1. ASSUME items_shown = <<>>
      PROVE  /\ items_shown \in Seq(Nat) /\ Len(items_shown) = 0
             /\ Delivered = [n \in 1..Len(items_shown) |-> n]
  BY <1>1 DEF Delivered
<1>2. CASE reads # "answer"
  <2>1. items_shown = <<>> /\ scan = "none" /\ answer = <<>>
    BY <1>2 DEF ParkedInv, NoAnswer
  <2>2. AnswerWanted = 0
    BY <2>1, RowStep DEF AnswerWanted, Single!Capped, Single!MetricsScans
  <2> QED
    BY <1>1, <2>1, <2>2 DEF DeliveredInv
<1>3. CASE reads = "answer"
  <2> DEFINE full == Single!Row(Len(answer))
             kept == Single!KeptUpTo(Len(answer))
  <2>1. Single!BoundInv /\ Single!RowsInv /\ Single!EndInv
    BY <1>3 DEF StreamInv, Single!StreamInv
  <2>2. Len(answer) \in Nat /\ settings.max_rows \in Nat
    BY <2>1, LenProperties DEF Single!BoundInv
  <2>3. full \in Nat /\ kept \in Seq(Nat) /\ Len(kept) = full
        /\ \A k \in 1..full : Single!Row(kept[k]) = k
    BY <2>2, RowStep, KeptStep, KeptRows
  <2>4. AnswerWanted \in Nat
        /\ AnswerWanted = IF Single!Capped /\ settings.max_rows <= full
                          THEN settings.max_rows ELSE full
    BY <2>2, <2>3 DEF AnswerWanted, Single!Smaller
  <2>5. /\ items_shown \in Seq(Nat) /\ items \in Seq(Nat)
        /\ Len(items_shown) \in Nat /\ Len(items) \in Nat
        /\ Single!Capped => Len(items_shown) <= settings.max_rows
    BY <2>1, LenProperties DEF Single!RowsInv, Single!EndInv
  <2>6. CASE items_shown = <<>> /\ ~(request = "idle" /\ loaded)
    <3>1. pc # "ended"
      BY <2>1, <2>6 DEF Single!EndInv
    <3> QED
      BY <1>1, <2>4, <2>6, <3>1 DEF DeliveredInv
  <2>7. CASE request = "idle" /\ loaded
    <3>1. items_shown \o items = kept
      BY <2>1, <2>7 DEF Single!RowsInv
    <3> HIDE DEF full, kept
    <3>2. /\ Len(kept) = Len(items_shown) + Len(items)
          /\ \A i \in 1..Len(items_shown) : kept[i] = items_shown[i]
      BY <2>5, <3>1, ConcatProperties
    <3>3. Len(items_shown) <= AnswerWanted
      BY <2>2, <2>3, <2>4, <2>5, <3>2
    <3>4. \A i \in 1..Len(items_shown) : Single!Row(items_shown[i]) = i
      BY <2>3, <2>5, <3>2
    <3>5. DOMAIN items_shown = 1..Len(items_shown)
      BY <2>5, LenProperties
    <3>6. Delivered = [n \in 1..Len(items_shown) |-> n]
      BY <3>4, <3>5, Zenon DEF Delivered
    <3>7. ASSUME pc = "ended" PROVE Len(items_shown) = AnswerWanted
      <4>1. items = <<>> \/ (Single!Capped /\ Len(items_shown) = settings.max_rows)
        BY <2>1, <3>7 DEF Single!EndInv
      <4>2. CASE items = <<>>
        <5>1. Len(items) = 0
          BY <4>2
        <5> QED
          BY <2>2, <2>3, <2>4, <2>5, <3>2, <5>1
      <4>3. CASE Single!Capped /\ Len(items_shown) = settings.max_rows
        BY <2>2, <2>3, <2>4, <2>5, <3>2, <4>3
      <4> QED
        BY <4>1, <4>2, <4>3
    <3> QED
      BY <2>4, <2>5, <3>3, <3>6, <3>7 DEF DeliveredInv
  <2>8. ~(request = "idle" /\ loaded) => items_shown = <<>>
    BY <2>1 DEF Single!RowsInv
  <2> QED
    BY <2>6, <2>7, <2>8
<1> QED
  BY <1>2, <1>3

\* A step emits rows while the scan goes on, or none.
LEMMA ShownStep ==
  ASSUME StreamInv, DeliveredInv, DeliveredInv', [ReadNext]_readVars
  PROVE  /\ AnswerWanted' = AnswerWanted
         /\ \/ Len(items_shown') = Len(items_shown)
            \/ /\ Len(items_shown') > Len(items_shown)
               /\ Single!StreamStatus = "open" /\ Single!StreamStatus' = "open"
<1>1. ASSUME UNCHANGED <<scan, settings, answer>> PROVE AnswerWanted' = AnswerWanted
  BY <1>1 DEF AnswerWanted, Single!Capped, Single!MetricsScans, Single!ServiceScans, Single!Row
<1>2. CASE SearchStep \/ AlertsStep \/ UNCHANGED readVars
  <2>1. UNCHANGED <<scan, settings, answer, items_shown>>
    BY <1>2 DEF SearchStep, AlertsStep, readVars, answerVars
  <2> QED
    BY <1>1, <2>1
<1>3. ASSUME AnswerStep, ~Single!Emit
      PROVE  UNCHANGED <<scan, settings, answer, items_shown>>
  BY <1>3 DEF AnswerStep, Single!Next, Single!Scan, Single!Tick, Single!Bind, Single!InitGlobal,
              Single!ScanCall, Single!Load, Single!Receive, Single!ScanRequestStep,
              Single!InterruptQuery, Single!Terminated, Single!vars, Single!given,
              Single!execution
<1>4. CASE AnswerStep /\ Single!Emit
  <2> DEFINE room == IF Single!Capped THEN settings.max_rows - Len(items_shown) ELSE Len(items)
             count == Single!Smaller(VectorSize, Single!Smaller(room, Len(items)))
  <2>1. Single!StreamInv
    BY <1>4 DEF AnswerStep, StreamInv
  <2>2. /\ count \in Nat /\ Len(items_shown') = Len(items_shown) + count
        /\ pc' = IF count = 0 THEN "ended" ELSE "idle"
    BY <1>4, <2>1, SingleEmit
  <2> HIDE DEF room, count
  <2>3. /\ pc = "scanning" /\ request = "idle" /\ request' = request
        /\ UNCHANGED <<scan, settings, answer>>
    BY <1>4 DEF Single!Emit, Single!requestVars, Single!given
  <2>4. Len(items_shown) \in Nat
    BY LenProperties DEF DeliveredInv
  <2>5. CASE count = 0
    BY <1>1, <2>2, <2>3, <2>4, <2>5
  <2>6. CASE count > 0
    <3>1. pc' = "idle" /\ Len(items_shown') > Len(items_shown)
      BY <2>2, <2>4, <2>6
    <3>2. Single!StreamStatus = "open" /\ Single!StreamStatus' = "open"
      BY <2>3, <3>1 DEF Single!StreamStatus, Single!Threw
    <3> QED
      BY <1>1, <2>3, <3>1, <3>2
  <2> QED
    BY <2>2, <2>5, <2>6
<1> QED
  BY <1>1, <1>2, <1>3, <1>4 DEF ReadNext

\* Every step delivers the next rows, ends the stream, fails it or leaves it.
LEMMA AnswerStreamStep ==
  ASSUME StreamInv, DeliveredInv, DeliveredInv', StatusStep, [ReadNext]_readVars
  PROVE  [Single!Stream!Next]_(Single!Stream!streamVars)
<1> DEFINE m == Len(items_shown)
           n == Len(items_shown')
           status == Single!StreamStatus
<1>1. /\ m \in Nat /\ n \in Nat /\ AnswerWanted \in Nat /\ AnswerWanted' = AnswerWanted
      /\ m <= AnswerWanted /\ n <= AnswerWanted
      /\ Delivered = [i \in 1..m |-> i] /\ Delivered' = [i \in 1..n |-> i]
  BY ShownStep, LenProperties DEF DeliveredInv
<1>2. n = m \/ (n > m /\ status = "open" /\ status' = "open")
  BY ShownStep
<1>3. /\ Single!Stream!streamVars = <<FALSE, AnswerWanted, Delivered, status>>
      /\ Single!Stream!streamVars' = <<FALSE, AnswerWanted', Delivered', status'>>
  BY DEF Single!Stream!streamVars, AnswerWanted, Delivered, Single!Capped
<1>4. CASE n > m
  <2> DEFINE k == n - m
             more == [i \in 1..k |-> m + i]
  <2>1. k \in 1..AnswerWanted /\ k \in Nat /\ m + k <= AnswerWanted
    BY <1>1, <1>4
  <2>2. Delivered' = Delivered \o more
    <3>1. /\ Delivered \in Seq(Nat) /\ Len(Delivered) = m /\ more \in Seq(Nat) /\ Len(more) = k
          /\ Delivered' \in Seq(Nat) /\ Len(Delivered') = n
          /\ \A i \in 1..m : Delivered[i] = i
          /\ \A i \in 1..k : more[i] = m + i
          /\ \A i \in 1..n : Delivered'[i] = i
      BY <1>1, <2>1
    <3> DEFINE both == Delivered \o more
               a == Delivered
               b == Delivered'
    <3> HIDE DEF more, k, m, n, a, b
    <3>2. a \in Seq(Nat) /\ Len(a) = m /\ more \in Seq(Nat) /\ Len(more) = k
      BY <3>1 DEF a
    <3>3. both \in Seq(Nat) /\ Len(both) = m + k
          /\ \A i \in 1..m + k : both[i] = IF i <= m THEN a[i] ELSE more[i - m]
      BY <3>2, ConcatLens DEF a
    <3>4. m + k = n /\ k \in Nat /\ m \in Nat
      BY <1>1, <1>4 DEF k
    <3>5. ASSUME NEW i \in 1..n PROVE both[i] = b[i]
      <4>1. b[i] = i
        BY <3>1 DEF b
      <4>2. CASE i <= m
        BY <3>1, <3>3, <3>4, <4>1, <4>2 DEF a
      <4>3. CASE ~(i <= m)
        <5>1. i - m \in 1..k /\ m + (i - m) = i
          BY <3>4, <4>3
        <5> QED
          BY <3>1, <3>3, <3>4, <4>1, <4>3, <5>1
      <4> QED
        BY <3>4, <4>2, <4>3
    <3> HIDE DEF both
    <3>6. both \in Seq(Nat) /\ b \in Seq(Nat) /\ Len(both) = Len(b)
          /\ \A i \in 1..Len(both) : both[i] = b[i]
      BY <3>1, <3>3, <3>4, <3>5 DEF b
    <3>7. both = b
      BY <3>6, SeqEqual
    <3> QED
      BY <3>7 DEF both, b
  <2>3. Len(Delivered) = m
    BY <1>1
  <2>4. Single!Stream!Deliver(k)
    <3>1. ASSUME NEW j,
                 status = "open" /\ status' = "open" /\ Len(Delivered) + j <= AnswerWanted,
                 Delivered' = Delivered \o [i \in 1..j |-> Len(Delivered) + i],
                 AnswerWanted' = AnswerWanted
          PROVE  Single!Stream!Deliver(j)
      BY <3>1 DEF Single!Stream!Deliver, AnswerWanted, Delivered, Single!Capped
    <3>2. Delivered' = Delivered \o [i \in 1..k |-> Len(Delivered) + i]
      BY <2>2, <2>3
    <3>3. status = "open" /\ status' = "open"
      BY <1>1, <1>2, <1>4
    <3>4. Len(Delivered) + k <= AnswerWanted
      BY <2>1, <2>3
    <3> HIDE DEF k, m, n
    <3> QED
      BY <1>1, <3>1, <3>2, <3>3, <3>4, Zenon
  <2>5. k \in 1..AnswerWanted
    BY <2>1
  <2> HIDE DEF k
  <2> QED
    BY <2>4, <2>5 DEF Single!Stream!Next, AnswerWanted, Single!Capped
<1>5. CASE n = m /\ status' = status
  BY <1>1, <1>3, <1>5
<1>6. CASE n = m /\ status = "open" /\ status' = "failed"
  <2>1. Single!Stream!Fail
    BY <1>1, <1>6 DEF Single!Stream!Fail, AnswerWanted, Delivered, Single!Capped
  <2> QED
    BY <2>1 DEF Single!Stream!Next
<1>7. CASE n = m /\ status = "open" /\ status' = "ended"
  <2>1. pc' = "ended"
    BY <1>7 DEF Single!StreamStatus
  <2>2. m = AnswerWanted /\ Len(Delivered) = m
    BY <1>1, <1>7, <2>1 DEF DeliveredInv
  <2>3. Single!Stream!End
    BY <1>1, <1>7, <2>2 DEF Single!Stream!End, AnswerWanted, Delivered, Single!Capped
  <2> QED
    BY <2>3 DEF Single!Stream!Next
<1> QED
  BY <1>2, <1>4, <1>5, <1>6, <1>7 DEF StatusStep

\* A scan that asks once starts with an empty stream.
LEMMA AnswerStreamInit == ReadInit /\ DeliveredInv => Single!Stream!Init
<1> SUFFICES ASSUME ReadInit, DeliveredInv PROVE Single!Stream!Init
  OBVIOUS
<1>1. items_shown = <<>> /\ request = "idle" /\ pc \in {"idle", "unbound"}
  BY DEF ReadInit, NoAnswer, Init, RequestInit, Alerts!Init, Alerts!RequestInit, Single!Init,
         Single!RequestInit
<1>2. Delivered = <<>>
  BY <1>1 DEF Delivered
<1>3. Single!StreamStatus = "open"
  BY <1>1 DEF Single!StreamStatus, Single!Threw
<1> QED
  BY <1>2, <1>3 DEF DeliveredInv, Single!Stream!Init, AnswerWanted, Delivered, Single!Capped

\* The scans that ask Datadog once implement the stream of rows: every point
\* that has a value, edge or bucket once and in order, up to the cap, for any
\* answer, cap and chunk size; a malformed item delivers none.
THEOREM AnswersStreamed == ReadSpec => AnswersAreStreamed
<1>1. ReadSpec => []CallInv
  BY CallInvInit, CallInvNext, PTL DEF ReadSpec
<1>2. ReadSpec => []DeliveredInv
  BY StreamInvariance, Parked, DeliveredIs, PTL
<1>3. CallInv /\ [ReadNext]_readVars => StatusStep
  BY CallInvNext
<1>4. StreamInv /\ DeliveredInv /\ DeliveredInv' /\ StatusStep /\ [ReadNext]_readVars
        => [Single!Stream!Next]_(Single!Stream!streamVars)
  BY AnswerStreamStep
<1>5. ReadSpec => Single!Stream!Init /\ [][Single!Stream!Next]_(Single!Stream!streamVars)
  BY <1>1, <1>2, <1>3, <1>4, StreamInvariance, AnswerStreamInit, PTL DEF ReadSpec
<1> QED
  BY <1>5 DEF AnswersAreStreamed, Single!AnswersAreStreamed, Single!Stream!Spec

--------------------------------------------------------------------------------
(* A query that reads with a cursor scan.                                  *)

\* A cursor scan starts in its invariant, ...
LEMMA SearchInvInit == ReadInit => SearchInv
  BY InvInit DEF ReadInit, SearchInv

\* ... and every step of a query that reads preserves it.
LEMMA SearchInvNext == SearchInv /\ [ReadNext]_readVars => SearchInv'
<1> SUFFICES ASSUME SearchInv, [ReadNext]_readVars, reads' = "search" PROVE IInv'
  BY DEF SearchInv
<1>1. reads = "search" /\ [Next]_vars
  BY DEF ReadNext, SearchStep, AlertsStep, AnswerStep, readVars
<1> QED
  BY <1>1, InvNext DEF SearchInv

\* The inductive invariant of a cursor scan holds in every reachable state of a
\* query that reads: what was emitted, what is buffered and where the next page
\* starts are consecutive, emitted rows respect the cap and requested ones the
\* budget.
THEOREM SearchInvariance == ReadSpec => []SearchInv
  BY SearchInvInit, SearchInvNext, PTL DEF ReadSpec

\* Every variable of a cursor scan keeps its type; no attempt passes client.retries
\* and no delay a minute.
THEOREM TypeCorrect == ReadSpec => [](reads = "search" => TypeOK)
<1>1. SearchInv => (reads = "search" => TypeOK)
  BY DEF SearchInv, IInv
<1> QED
  BY <1>1, SearchInvariance, PTL

\* The assertion of FetchNextPage holds and the cap limits what is requested,
\* whatever the pages hold.
THEOREM BudgetIsRespected == ReadSpec => []BudgetRespected
<1>1. SearchInv /\ ParkedInv => BudgetRespected
  <2>1. IInv => BudgetRespected
    BY DEF IInv, CapInv, ControlInv, BudgetRespected, Underway
  <2>2. NoSearch => BudgetRespected
    BY ScanAssumption DEF ScanAssumption, NoSearch, BudgetRespected, PageLimit
  <2> QED
    BY <2>1, <2>2 DEF SearchInv, ParkedInv
<1> QED
  BY <1>1, SearchInvariance, Parked, PTL

\* While another scan runs, the stream of the cursor scan wants no rows.
LEMMA ParkedStreamStep ==
  ASSUME NoSearch, NoSearch', StatusStep
  PROVE  [Stream!Next]_(Stream!streamVars)
<1>1. /\ UNCHANGED <<reliable, output, Wanted>> /\ output = <<>> /\ Wanted = 0
  BY DEF NoSearch, Wanted
<1>2. Len(output) = 0
  BY <1>1
<1>3. CASE StreamStatus' = StreamStatus
  BY <1>1, <1>3 DEF Stream!streamVars
<1>4. CASE StreamStatus = "open" /\ StreamStatus' = "failed"
  BY <1>1, <1>4 DEF Stream!Next, Stream!Fail
<1>5. CASE StreamStatus = "open" /\ StreamStatus' = "ended"
  BY <1>1, <1>2, <1>5 DEF Stream!Next, Stream!End
<1> QED
  BY <1>3, <1>4, <1>5 DEF StatusStep

\* A cursor scan implements the stream of rows: every wanted row once and in
\* order, and an end before the last of them only if pages may be short.
THEOREM ScanImplementsRowStream == ReadSpec => ImplementsRowStream
<1>1. ReadSpec => []CallInv
  BY CallInvInit, CallInvNext, PTL DEF ReadSpec
<1>2. ReadInit => Stream!Init
  <2> SUFFICES ASSUME ReadInit PROVE Stream!Init
    OBVIOUS
  <2>1. CASE reads = "search"
    BY <2>1, RefineInit DEF ReadInit
  <2>2. CASE reads # "search"
    <3>1. NoSearch /\ request = "idle" /\ pc \in {"idle", "unbound"}
      BY <2>2 DEF ReadInit, Alerts!Init, Alerts!RequestInit, Single!Init, Single!RequestInit
    <3> QED
      BY <3>1 DEF NoSearch, Wanted, Stream!Init, StreamStatus, Threw
  <2> QED
    BY <2>1, <2>2
<1>3. SearchInv /\ SearchInv' /\ ParkedInv /\ ParkedInv' /\ CallInv /\ [ReadNext]_readVars
        => [Stream!Next]_(Stream!streamVars)
  <2> SUFFICES ASSUME SearchInv, SearchInv', ParkedInv, ParkedInv', CallInv, [ReadNext]_readVars
               PROVE  [Stream!Next]_(Stream!streamVars)
    OBVIOUS
  <2>1. reads' = reads /\ (reads = "search" => [Next]_vars)
    BY DEF ReadNext, SearchStep, AlertsStep, AnswerStep, readVars
  <2>2. CASE reads = "search"
    BY <2>1, <2>2, RefineStep DEF SearchInv
  <2>3. CASE reads # "search"
    BY <2>1, <2>3, ParkedStreamStep, CallInvNext DEF ParkedInv
  <2> QED
    BY <2>2, <2>3
<1>4. ReadSpec => Stream!Init /\ [][Stream!Next]_(Stream!streamVars)
  BY <1>1, <1>2, <1>3, SearchInvariance, Parked, PTL DEF ReadSpec
<1> QED
  BY <1>4 DEF ImplementsRowStream, Stream!Spec
================================================================================
