-------------------------- MODULE DatadogWritesProofs --------------------------
(***************************************************************************)
(* Proofs that write_datadog_traces never merges two traces nor splits     *)
(* one within a chunk, tells of every row what became of it and keeps what *)
(* the row's tags say, for every word size and every chunk of rows; that   *)
(* send_datadog_metrics sends nothing of a chunk with a bad row and        *)
(* answers "ok" for what is stored, for every chunk and batch size; that   *)
(* a log keeps its columns, its block and its attributes on its way to a   *)
(* listener and on to the next, for all rows and numbers of hops; and that *)
(* a span that was read is written with all it said, for all events.       *)
(***************************************************************************)
EXTENDS DatadogWrites, OperatorProofs, FiniteSetTheorems, TLAPS

\* A number is determined by its high and its low word.
LEMMA WordsDetermine ==
    ASSUME NEW a \in Nat, NEW b \in Nat, NEW w \in Nat \ {0},
           a \div w = b \div w, a % w = b % w
    PROVE  a = b
<1>1. a = w * (a \div w) + (a % w)
  OBVIOUS
<1>2. b = w * (b \div w) + (b % w)
  OBVIOUS
<1> QED
  BY <1>1, <1>2, Zenon

\* The words of a number are numbers.
LEMMA WordsAreNumbers ==
    ASSUME NEW a \in Nat, NEW w \in Nat \ {0}
    PROVE  a \div w \in Int /\ a % w \in Int
OBVIOUS

\* A function on 1..n is a sequence.
LEMMA FunctionsAreSequences ==
    ASSUME NEW S, NEW n \in Nat, NEW f \in [1..n -> S]
    PROVE  f \in Seq(S)
OBVIOUS

\* What is appended is last, and all else stays where it was.
LEMMA AppendKeepsRest ==
    ASSUME NEW s \in Seq(Nat), NEW e \in Nat
    PROVE  /\ DOMAIN s = 1..Len(s) /\ Len(s) \in Nat
           /\ DOMAIN Append(s, e) = 1..(Len(s) + 1)
           /\ \A i \in DOMAIN s : Append(s, e)[i] = s[i]
           /\ Append(s, e)[Len(s) + 1] = e
           /\ \A i \in DOMAIN Append(s, e) : i \in DOMAIN s \/ i = Len(s) + 1
<1>1. DOMAIN s = 1..Len(s) /\ Len(s) \in Nat
  OBVIOUS
<1>2. DOMAIN Append(s, e) = 1..(Len(s) + 1)
  OBVIOUS
<1>3. Append(s, e)[Len(s) + 1] = e
  OBVIOUS
<1>4. \A i \in DOMAIN s : Append(s, e)[i] = s[i]
  BY <1>1
<1>5. \A i \in DOMAIN Append(s, e) : i \in DOMAIN s \/ i = Len(s) + 1
  BY <1>1, <1>2
<1> QED
  BY <1>1, <1>2, <1>3, <1>4, <1>5

\* The id of a row that can be a span is a natural number.
LEMMA IdsAreNumbers ==
    ASSUME IdsAreTyped(chunk), NEW r \in DOMAIN chunk, ReadsId(chunk[r].trace_id)
    PROVE  TraceIdOf(r) \in Nat
<1>1. chunk[r].trace_id.value \in Int
  BY DEF ReadsId, IdsAreTyped
<1>2. chunk[r].trace_id.value >= 0
  BY DEF ReadsId
<1> QED
  BY <1>1, <1>2 DEF TraceIdOf

\* The key of such a row is a pair of numbers, and names its id.
LEMMA KeysAreIds ==
    ASSUME IdsAreTyped(chunk), NEW r \in DOMAIN chunk, NEW q \in DOMAIN chunk,
           ReadsId(chunk[r].trace_id), ReadsId(chunk[q].trace_id)
    PROVE  /\ TraceKey(chunk[r]) \in Int \X Int
           /\ TraceKey(chunk[r]) = TraceKey(chunk[q]) <=> TraceIdOf(r) = TraceIdOf(q)
<1>1. TraceIdOf(r) \in Nat /\ TraceIdOf(q) \in Nat
  BY IdsAreNumbers
<1>2. \A p \in {r, q} :
        TraceKey(chunk[p]) = <<TraceIdOf(p) \div Word, TraceIdOf(p) % Word>>
  BY DEF TraceKey, High, Low, TraceIdOf
<1>3. TraceIdOf(r) \div Word \in Int /\ TraceIdOf(r) % Word \in Int
  BY <1>1, WordsAreNumbers, WordAssumption
<1>4. TraceKey(chunk[r]) \in Int \X Int
  BY <1>2, <1>3
<1>5. ASSUME TraceKey(chunk[r]) = TraceKey(chunk[q])
      PROVE  TraceIdOf(r) = TraceIdOf(q)
  <2>1. /\ TraceIdOf(r) \div Word = TraceIdOf(q) \div Word
        /\ TraceIdOf(r) % Word = TraceIdOf(q) % Word
    BY <1>2, <1>5
  <2> QED
    BY <2>1, <1>1, WordsDetermine, WordAssumption
<1>6. ASSUME TraceIdOf(r) = TraceIdOf(q)
      PROVE  TraceKey(chunk[r]) = TraceKey(chunk[q])
  BY <1>2, <1>6
<1> QED
  BY <1>4, <1>5, <1>6

-----------------------------------------------------------------------------
\* A chunk is a sequence.
LEMMA ChunksAreSequences ==
    ASSUME IdsAreTyped(chunk)
    PROVE  Len(chunk) \in Nat /\ DOMAIN chunk = 1..Len(chunk)
<1>1. chunk \in Seq(Range(chunk))
  BY DEF IdsAreTyped
<1> QED
  BY <1>1

\* Every chunk to begin with satisfies the invariant: a table's, the row of a
\* span that was read, and none.
LEMMA InitIInv == WriteInit => IInv
<1>1. ASSUME IdsAreTyped(chunk), Unread PROVE IInv
  <2>1. Len(chunk) \in Nat
    BY <1>1, ChunksAreSequences
  <2>2. TypeOK
    BY <1>1, <2>1 DEF Unread, TypeOK, Unset
  <2> QED
    BY <1>1, <2>2 DEF Unread, IInv, RowsInOrder, PlacedUnderTheirKey, KeysAreDistinct,
                      PlacedOnce
<1>2. ASSUME chunk = <<>> PROVE IdsAreTyped(chunk)
  BY <1>2 DEF IdsAreTyped
<1> QED
  BY <1>1, <1>2, IdsAssumption, SpansAssumption
     DEF WriteInit, Init, NoTraces, IdsAssumption, SpansAssumption

\* What every step that leaves the rows and the traces alone preserves.
LEMMA Unchanged ==
    ASSUME IInv, TypeOK', UNCHANGED <<chunk, source_rows, placed, traces>>
    PROVE  IInv'
<1>1. IdsAreTyped(chunk')
  BY DEF IInv
<1>2. RowsInOrder'
  BY DEF IInv, RowsInOrder, ReadsId
<1>3. PlacedUnderTheirKey'
  BY DEF IInv, PlacedUnderTheirKey, RowOf, TraceKey, High, Low
<1>4. KeysAreDistinct'
  BY DEF IInv, KeysAreDistinct
<1>5. PlacedOnce'
  BY DEF IInv, PlacedOnce, RowOf
<1> QED
  BY <1>1, <1>2, <1>3, <1>4, <1>5 DEF IInv

\* A row that is read is larger than all rows read before.
LEMMA AddSpanStep == IInv /\ AddSpan => IInv'
<1> SUFFICES ASSUME IInv, AddSpan PROVE IInv'
  OBVIOUS
<1>1. /\ Len(chunk) \in Nat /\ DOMAIN chunk = 1..Len(chunk)
      /\ next \in 1..Len(chunk) /\ next' = next + 1
      /\ source_rows \in Seq(1..next - 1)
      /\ source_rows' = Append(source_rows, next)
      /\ placed = 0 /\ placed' = 0 /\ traces = <<>> /\ traces' = <<>>
      /\ chunk' = chunk /\ results' = results /\ mode' = mode /\ phase' = phase
  BY ChunksAreSequences DEF IInv, TypeOK, AddSpan, InChunk
<1>2. \A k \in DOMAIN source_rows : source_rows[k] \in 1..next - 1
  BY <1>1
<1>3. source_rows' \in Seq(1..next)
  <2>1. source_rows \in Seq(1..next)
    BY <1>1, <1>2
  <2> QED
    BY <2>1, <1>1
<1>4. /\ Len(source_rows) \in Nat
      /\ DOMAIN source_rows' = 1..Len(source_rows) + 1
      /\ source_rows'[Len(source_rows) + 1] = next
      /\ \A k \in DOMAIN source_rows : source_rows'[k] = source_rows[k]
  BY <1>1
<1>5. TypeOK'
  <2>1. next' - 1 = next /\ next' \in 1..Len(chunk) + 1
    BY <1>1
  <2>2. mode \in {"agent", "direct"}
    BY DEF AddSpan, InChunk
  <2>3. Len(source_rows') \in Nat
    BY <1>3
  <2>4. placed' \in 0..Len(source_rows')
    BY <1>1, <2>3
  <2>5. source_rows' \in Seq(1..next' - 1)
    BY <1>3, <2>1
  <2> QED
    BY <1>1, <2>1, <2>2, <2>4, <2>5 DEF TypeOK, IInv, AddSpan, InChunk
<1>6. RowsInOrder'
  <2>1. ASSUME NEW j \in DOMAIN source_rows', NEW k \in DOMAIN source_rows', j < k
        PROVE  source_rows'[j] < source_rows'[k]
    <3>1. CASE k \in DOMAIN source_rows
      <4>1. j \in DOMAIN source_rows
        BY <2>1, <3>1, <1>1, <1>4
      <4> QED
        BY <4>1, <3>1, <2>1, <1>4 DEF IInv, RowsInOrder
    <3>2. CASE k \notin DOMAIN source_rows
      <4>1. k = Len(source_rows) + 1 /\ j \in DOMAIN source_rows
        BY <2>1, <3>2, <1>1, <1>4
      <4> QED
        BY <4>1, <1>1, <1>2, <1>4
    <3> QED
      BY <3>1, <3>2
  <2>2. ASSUME NEW k \in DOMAIN source_rows'
        PROVE  ReadsId(chunk[source_rows'[k]].trace_id)
    <3>1. CASE k \in DOMAIN source_rows
      BY <3>1, <1>4 DEF IInv, RowsInOrder
    <3>2. CASE k \notin DOMAIN source_rows
      <4>1. source_rows'[k] = next
        BY <3>2, <1>1, <1>4
      <4>2. ReadsId(chunk[next].trace_id)
        BY DEF AddSpan, SkipReason, Empty
      <4> QED
        BY <4>1, <4>2
    <3> QED
      BY <3>1, <3>2
  <2>3. \A k \in DOMAIN source_rows' : ReadsId((chunk[source_rows[k]].trace_id)')
    BY <2>2, <1>1
  <2> QED
    BY <2>1, <2>3 DEF RowsInOrder, ReadsId
<1> QED
  BY <1>1, <1>5, <1>6 DEF IInv, PlacedUnderTheirKey, KeysAreDistinct, PlacedOnce

-----------------------------------------------------------------------------
\* The row that is placed next: its key is a pair of numbers, and it is not
\* in any trace yet.
LEMMA NextRowIsNew ==
    ASSUME IInv, Placing
    PROVE  /\ placed + 1 \in DOMAIN source_rows /\ placed \in Nat
           /\ NextRow \in DOMAIN chunk /\ NextRow \in Nat
           /\ NextKey \in Int \X Int
           /\ \A t \in DOMAIN traces : \A i \in DOMAIN traces[t].spans : RowOf(t, i) # NextRow
<1>1. placed + 1 \in DOMAIN source_rows /\ placed \in Nat
  BY DEF IInv, TypeOK, Placing
<1>2. NextRow \in 1..next - 1
  BY <1>1 DEF IInv, TypeOK, NextRow
<1>3. NextRow \in DOMAIN chunk /\ NextRow \in Nat
  BY <1>2, ChunksAreSequences DEF IInv, TypeOK
<1>4. ReadsId(chunk[NextRow].trace_id)
  BY <1>1 DEF IInv, RowsInOrder, NextRow
<1>5. NextKey \in Int \X Int
  BY <1>3, <1>4, KeysAreIds DEF IInv, NextKey
<1>6. ASSUME NEW t \in DOMAIN traces, NEW i \in DOMAIN traces[t].spans
      PROVE  RowOf(t, i) # NextRow
  <2>1. PICK k \in 1..placed : RowOf(t, i) = source_rows[k]
    BY DEF IInv, PlacedUnderTheirKey
  <2>2. k \in DOMAIN source_rows /\ k < placed + 1 /\ source_rows[k] \in Int
    <3>1. /\ source_rows \in Seq(1..next - 1) /\ next \in Int
          /\ placed \in 0..Len(source_rows)
      BY ChunksAreSequences DEF IInv, TypeOK
    <3>2. k \in DOMAIN source_rows /\ k < placed + 1
      BY <3>1
    <3>3. source_rows[k] \in 1..next - 1
      BY <3>1, <3>2
    <3> QED
      BY <3>1, <3>2, <3>3
  <2>3. source_rows[k] < NextRow
    BY <1>1, <2>2 DEF IInv, RowsInOrder, NextRow
  <2> QED
    BY <2>1, <2>2, <2>3, <1>3
<1> QED
  BY <1>1, <1>3, <1>5, <1>6

\* Both ways of placing a row keep the rows read and count the row.
LEMMA PlacingKeepsRows ==
    ASSUME IInv, StartTrace \/ ExtendTrace
    PROVE  /\ placed' = placed + 1 /\ placed' \in 0..Len(source_rows')
           /\ chunk' = chunk /\ source_rows' = source_rows /\ next' = next
           /\ mode' = mode /\ results' = results /\ phase' = phase /\ phase = "building"
           /\ RowsInOrder'
<1>1. /\ placed' = placed + 1 /\ placed' \in 0..Len(source_rows')
      /\ chunk' = chunk /\ source_rows' = source_rows /\ next' = next
      /\ mode' = mode /\ results' = results /\ phase' = phase /\ phase = "building"
  BY DEF IInv, TypeOK, StartTrace, ExtendTrace, Placing
<1>2. RowsInOrder'
  BY <1>1 DEF IInv, RowsInOrder, ReadsId
<1> QED
  BY <1>1, <1>2

Trace == [key : Int \X Int, spans : Seq(Nat)]

\* A trace is started only when no other has its key.
LEMMA StartTraceStep == IInv /\ StartTrace => IInv'
<1> SUFFICES ASSUME IInv, StartTrace PROVE IInv'
  OBVIOUS
<1> DEFINE new == [key |-> NextKey, spans |-> <<NextRow>>]
           n == Len(traces) + 1
<1>0. Placing
  BY DEF StartTrace
<1>1. /\ traces \in Seq(Trace)
      /\ traces' = Append(traces, new)
      /\ \A t \in DOMAIN traces : traces[t].key # NextKey
  BY DEF IInv, TypeOK, StartTrace, Trace
<1>2. new \in Trace
  BY <1>0, NextRowIsNew DEF Trace
<1>3. /\ traces' \in Seq(Trace)
      /\ DOMAIN traces = 1..Len(traces) /\ Len(traces) \in Nat
      /\ DOMAIN traces' = 1..n
      /\ \A t \in DOMAIN traces : traces'[t] = traces[t]
      /\ traces'[n] = new
  BY <1>1, <1>2
<1>4. /\ DOMAIN new.spans = {1} /\ new.spans[1] = NextRow /\ new.key = NextKey
  OBVIOUS
<1> HIDE DEF new
<1>5. \A t \in DOMAIN traces' : t \in DOMAIN traces \/ t = n
  BY <1>3
<1>6. TypeOK'
  BY <1>3, PlacingKeepsRows DEF IInv, TypeOK, Trace
<1>7. PlacedUnderTheirKey'
  <2>1. ASSUME NEW t \in DOMAIN traces', NEW i \in DOMAIN traces'[t].spans
        PROVE  /\ \E k \in 1..placed + 1 : traces'[t].spans[i] = source_rows[k]
               /\ traces'[t].key = TraceKey(chunk[traces'[t].spans[i]])
    <3>1. CASE t \in DOMAIN traces
      <4>1. /\ \E k \in 1..placed : traces[t].spans[i] = source_rows[k]
            /\ traces[t].key = TraceKey(chunk[traces[t].spans[i]])
        BY <1>3, <3>1 DEF IInv, PlacedUnderTheirKey, RowOf
      <4>2. placed \in Nat
        BY <1>0, NextRowIsNew
      <4> QED
        BY <4>1, <4>2, <1>3, <3>1
    <3>2. CASE t = n
      <4>1. traces'[t].spans[i] = source_rows[placed + 1] /\ traces'[t].key = NextKey
        BY <1>3, <1>4, <3>2 DEF NextRow
      <4>2. placed + 1 \in 1..placed + 1
        BY <1>0, NextRowIsNew
      <4> QED
        BY <4>1, <4>2 DEF NextKey, NextRow
    <3> QED
      BY <1>5, <3>1, <3>2
  <2> QED
    BY <2>1, PlacingKeepsRows DEF PlacedUnderTheirKey, RowOf, TraceKey, High, Low
<1>8. KeysAreDistinct'
  <2>1. ASSUME NEW s \in DOMAIN traces', NEW t \in DOMAIN traces',
               traces'[s].key = traces'[t].key
        PROVE  s = t
    <3>1. CASE s \in DOMAIN traces /\ t \in DOMAIN traces
      BY <1>3, <2>1, <3>1 DEF IInv, KeysAreDistinct
    <3>2. CASE s = n /\ t = n
      BY <3>2
    <3>3. CASE s = n /\ t \in DOMAIN traces
      BY <1>1, <1>3, <1>4, <2>1, <3>3
    <3>4. CASE s \in DOMAIN traces /\ t = n
      BY <1>1, <1>3, <1>4, <2>1, <3>4
    <3> QED
      BY <1>5, <3>1, <3>2, <3>3, <3>4
  <2> QED
    BY <2>1 DEF KeysAreDistinct
<1>9. PlacedOnce'
  <2>1. \A t \in DOMAIN traces : \A i \in DOMAIN traces[t].spans : traces[t].spans[i] # NextRow
    BY <1>0, NextRowIsNew DEF RowOf
  <2>2. ASSUME NEW s \in DOMAIN traces', NEW t \in DOMAIN traces',
               NEW i \in DOMAIN traces'[s].spans, NEW j \in DOMAIN traces'[t].spans,
               traces'[s].spans[i] = traces'[t].spans[j]
        PROVE  s = t /\ i = j
    <3>1. CASE s \in DOMAIN traces /\ t \in DOMAIN traces
      BY <1>3, <2>2, <3>1 DEF IInv, PlacedOnce, RowOf
    <3>2. CASE s = n /\ t = n
      BY <1>3, <1>4, <3>2
    <3>3. CASE s = n /\ t \in DOMAIN traces
      BY <1>3, <1>4, <2>1, <2>2, <3>3
    <3>4. CASE s \in DOMAIN traces /\ t = n
      BY <1>3, <1>4, <2>1, <2>2, <3>4
    <3> QED
      BY <1>5, <3>1, <3>2, <3>3, <3>4
  <2> QED
    BY <2>2 DEF PlacedOnce, RowOf
<1> QED
  BY <1>6, <1>7, <1>8, <1>9, PlacingKeepsRows DEF IInv

\* A trace is extended by a row with its own key.
LEMMA ExtendTraceStep == IInv /\ ExtendTrace => IInv'
<1> SUFFICES ASSUME IInv, ExtendTrace PROVE IInv'
  OBVIOUS
<1>0. Placing
  BY DEF ExtendTrace
<1>1. PICK u \in DOMAIN traces :
        /\ traces[u].key = NextKey
        /\ traces' = [traces EXCEPT ![u].spans = Append(@, NextRow)]
  BY DEF ExtendTrace
<1>2. /\ traces \in Seq(Trace) /\ NextRow \in Nat
      /\ traces[u] \in Trace
  <2>1. traces \in Seq(Trace)
    BY DEF IInv, TypeOK, Trace
  <2>2. NextRow \in Nat
    BY <1>0, NextRowIsNew
  <2>3. traces[u] \in Trace
    BY <2>1
  <2> QED
    BY <2>1, <2>2, <2>3
<1> DEFINE old == traces[u].spans
           n == Len(old) + 1
<1>3. old \in Seq(Nat) /\ traces[u].key \in Int \X Int
  BY <1>2 DEF Trace
<1>4. /\ DOMAIN traces' = DOMAIN traces
      /\ \A t \in DOMAIN traces : t # u => traces'[t] = traces[t]
      /\ traces'[u] = [traces[u] EXCEPT !.spans = Append(old, NextRow)]
  BY <1>1, <1>2
<1>5. /\ traces'[u].key = traces[u].key
      /\ traces'[u].spans = Append(old, NextRow)
      /\ traces'[u] \in Trace
  <2>1. Append(old, NextRow) \in Seq(Nat)
    BY <1>2, <1>3
  <2>2. /\ traces'[u].key = traces[u].key
        /\ traces'[u].spans = Append(old, NextRow)
    BY <1>2, <1>4 DEF Trace
  <2>3. traces'[u] \in Trace
    BY <1>2, <1>4, <2>1 DEF Trace
  <2> QED
    BY <2>2, <2>3
<1>6. /\ DOMAIN old = 1..Len(old) /\ Len(old) \in Nat
      /\ DOMAIN traces'[u].spans = 1..n
      /\ \A i \in DOMAIN old : traces'[u].spans[i] = old[i]
      /\ traces'[u].spans[n] = NextRow
      /\ \A i \in DOMAIN traces'[u].spans : i \in DOMAIN old \/ i = n
  <2>1. old \in Seq(Nat) /\ NextRow \in Nat /\ traces'[u].spans = Append(old, NextRow)
    BY <1>2, <1>3, <1>5
  <2> HIDE DEF old
  <2> QED
    BY <2>1, AppendKeepsRest
<1>7. traces' \in Seq(Trace)
  <2>1. \A t \in DOMAIN traces : traces[t] \in Trace
    BY <1>2
  <2>2. \A t \in DOMAIN traces : traces'[t] \in Trace
    BY <1>4, <1>5, <2>1
  <2>3. /\ Len(traces) \in Nat /\ DOMAIN traces = 1..Len(traces)
        /\ traces = [t \in 1..Len(traces) |-> traces[t]]
    BY <1>2
  <2>4. traces' = [t \in 1..Len(traces) |-> traces'[t]]
    BY <1>1, <2>3
  <2>5. [t \in 1..Len(traces) |-> traces'[t]] \in [1..Len(traces) -> Trace]
    BY <2>2, <2>3
  <2>6. traces' \in [1..Len(traces) -> Trace]
    BY <2>4, <2>5, Zenon
  <2>7. Len(traces) \in Nat
    BY <2>3
  <2> QED
    BY <2>6, <2>7, FunctionsAreSequences, Zenon
<1>8. \A t \in DOMAIN traces : traces'[t].key = traces[t].key
  BY <1>4, <1>5
\* Every span of the new traces is the new one or one of the old ones.
<1>9. ASSUME NEW t \in DOMAIN traces, NEW i \in DOMAIN traces'[t].spans
      PROVE  \/ /\ i \in DOMAIN traces[t].spans
                /\ traces'[t].spans[i] = traces[t].spans[i]
             \/ /\ t = u /\ i = n
                /\ traces'[t].spans[i] = NextRow
  <2>1. CASE t = u
    BY <2>1, <1>6
  <2>2. CASE t # u
    BY <2>2, <1>4
  <2> QED
    BY <2>1, <2>2
<1> HIDE DEF old, n
<1>10. TypeOK'
  BY <1>7, PlacingKeepsRows DEF IInv, TypeOK, Trace
<1>11. PlacedUnderTheirKey'
  <2>1. ASSUME NEW t \in DOMAIN traces', NEW i \in DOMAIN traces'[t].spans
        PROVE  /\ \E k \in 1..placed + 1 : traces'[t].spans[i] = source_rows[k]
               /\ traces'[t].key = TraceKey(chunk[traces'[t].spans[i]])
    <3>0. t \in DOMAIN traces /\ placed \in Nat
      BY <1>0, <1>4, NextRowIsNew
    <3>1. CASE /\ i \in DOMAIN traces[t].spans
               /\ traces'[t].spans[i] = traces[t].spans[i]
      <4>1. /\ \E k \in 1..placed : traces[t].spans[i] = source_rows[k]
            /\ traces[t].key = TraceKey(chunk[traces[t].spans[i]])
        BY <3>0, <3>1 DEF IInv, PlacedUnderTheirKey, RowOf
      <4> QED
        BY <4>1, <1>8, <3>0, <3>1
    <3>2. CASE t = u /\ traces'[t].spans[i] = NextRow
      <4>1. placed + 1 \in 1..placed + 1
        BY <3>0
      <4> QED
        BY <4>1, <1>1, <1>8, <3>0, <3>2 DEF NextKey, NextRow
    <3> QED
      BY <1>9, <3>0, <3>1, <3>2
  <2> QED
    BY <2>1, PlacingKeepsRows DEF PlacedUnderTheirKey, RowOf, TraceKey, High, Low
<1>12. KeysAreDistinct'
  BY <1>4, <1>8 DEF IInv, KeysAreDistinct
<1>13. PlacedOnce'
  <2>1. \A t \in DOMAIN traces : \A i \in DOMAIN traces[t].spans : traces[t].spans[i] # NextRow
    BY <1>0, NextRowIsNew DEF RowOf
  <2>2. ASSUME NEW s \in DOMAIN traces, NEW t \in DOMAIN traces,
               NEW i \in DOMAIN traces'[s].spans, NEW j \in DOMAIN traces'[t].spans,
               traces'[s].spans[i] = traces'[t].spans[j]
        PROVE  s = t /\ i = j
    <3>1. \/ /\ i \in DOMAIN traces[s].spans
             /\ traces'[s].spans[i] = traces[s].spans[i]
          \/ s = u /\ i = n /\ traces'[s].spans[i] = NextRow
      BY <1>9
    <3>2. \/ /\ j \in DOMAIN traces[t].spans
             /\ traces'[t].spans[j] = traces[t].spans[j]
          \/ t = u /\ j = n /\ traces'[t].spans[j] = NextRow
      BY <1>9
    <3> QED
      BY <2>1, <2>2, <3>1, <3>2 DEF IInv, PlacedOnce, RowOf
  <2> QED
    BY <2>2, <1>4 DEF PlacedOnce, RowOf
<1> QED
  BY <1>10, <1>11, <1>12, <1>13, PlacingKeepsRows DEF IInv

-----------------------------------------------------------------------------
\* Every step preserves the invariant.
LEMMA NextIInv == IInv /\ [Next]_vars => IInv'
<1> SUFFICES ASSUME IInv, [Next]_vars PROVE IInv'
  OBVIOUS
<1>0. Len(chunk) \in Nat /\ DOMAIN chunk = 1..Len(chunk)
  BY ChunksAreSequences DEF IInv
<1>1. ASSUME NEW secret \in Secrets, Bind(secret) PROVE IInv'
  <2>1. mode' \in {"agent", "direct", "refused"} /\ mode = "none"
    BY <1>1 DEF Bind
  <2>2. source_rows = <<>>
    BY <2>1 DEF IInv, TypeOK
  <2>3. TypeOK'
    BY <1>1, <2>1, <2>2 DEF IInv, TypeOK, Bind
  <2> QED
    BY <1>1, <2>3, Unchanged DEF Bind
<1>2. ASSUME SkipRow PROVE IInv'
  <2>1. next \in 1..Len(chunk) /\ next' = next + 1 /\ DOMAIN results' = DOMAIN results
    BY <1>0, <1>2 DEF SkipRow, InChunk
  <2>2. source_rows \in Seq(1..next' - 1)
    <3>1. \A k \in DOMAIN source_rows : source_rows[k] \in 1..next
      BY <2>1 DEF IInv, TypeOK
    <3> QED
      BY <2>1, <3>1 DEF IInv, TypeOK
  <2>3. TypeOK'
    BY <1>0, <1>2, <2>1, <2>2 DEF IInv, TypeOK, SkipRow, InChunk
  <2> QED
    BY <1>2, <2>3, Unchanged DEF SkipRow
<1>3. ASSUME ReadAll PROVE IInv'
  <2>1. next = Len(chunk) + 1
    BY <1>0, <1>3 DEF IInv, TypeOK, ReadAll
  <2>2. TypeOK'
    BY <1>3, <2>1 DEF IInv, TypeOK, ReadAll
  <2> QED
    BY <1>3, <2>2, Unchanged DEF ReadAll
<1>4. ASSUME Post PROVE IInv'
  <2>1. DOMAIN results' = DOMAIN chunk /\ phase' \in {"done", "failed"}
    BY <1>4 DEF IInv, TypeOK, Post
  <2>2. TypeOK'
    BY <1>4, <2>1 DEF IInv, TypeOK, Post
  <2> QED
    BY <1>4, <2>2, Unchanged DEF Post
<1>5. ASSUME UNCHANGED vars PROVE IInv'
  <2>1. TypeOK'
    BY <1>5 DEF IInv, TypeOK, vars
  <2> QED
    BY <1>5, <2>1, Unchanged DEF vars
<1> QED
  BY <1>1, <1>2, <1>3, <1>4, <1>5, AddSpanStep, StartTraceStep, ExtendTraceStep DEF Next

\* The inductive invariant holds in every reachable state: logs and metrics
\* leave the spans alone.
THEOREM Invariance == WriteSpec => []IInv
<1>1. [WriteNext]_writeVars => [Next]_vars
  BY DEF WriteNext, TraceStep, LogStep, MetricStep, writeVars
<1> QED
  BY <1>1, InitIInv, NextIInv, PTL DEF WriteSpec

\* Every variable keeps its type, for all words and chunks.
THEOREM TypeCorrect == WriteSpec => []TypeOK
<1>1. IInv => TypeOK
  BY DEF IInv
<1> QED
  BY <1>1, Invariance, PTL

\* Two spans are in the same array exactly when their whole trace ids are
\* equal, and no span is sent twice in a request, for all words and chunks.
THEOREM TracesAreKept == WriteSpec => []TracesKeepIdentity
<1>1. IInv => TracesKeepIdentity
  <2> SUFFICES ASSUME IInv,
                      NEW s \in DOMAIN traces, NEW t \in DOMAIN traces,
                      NEW i \in DOMAIN traces[s].spans, NEW j \in DOMAIN traces[t].spans
               PROVE  /\ TraceIdOf(RowOf(s, i)) = TraceIdOf(RowOf(t, j)) <=> s = t
                      /\ RowOf(s, i) = RowOf(t, j) => s = t /\ i = j
    BY DEF TracesKeepIdentity
  <2>0. /\ source_rows \in Seq(1..next - 1) /\ next \in 1..Len(chunk) + 1
        /\ placed \in 0..Len(source_rows) /\ DOMAIN chunk = 1..Len(chunk)
        /\ Len(chunk) \in Nat
    BY ChunksAreSequences DEF IInv, TypeOK
  <2>1. \A k \in 1..placed :
           source_rows[k] \in DOMAIN chunk /\ ReadsId(chunk[source_rows[k]].trace_id)
    <3>1. \A k \in 1..placed : k \in DOMAIN source_rows
      BY <2>0
    <3>2. \A k \in DOMAIN source_rows : source_rows[k] \in DOMAIN chunk
      BY <2>0
    <3> QED
      BY <3>1, <3>2 DEF IInv, RowsInOrder
  <2>2. /\ RowOf(s, i) \in DOMAIN chunk /\ ReadsId(chunk[RowOf(s, i)].trace_id)
        /\ RowOf(t, j) \in DOMAIN chunk /\ ReadsId(chunk[RowOf(t, j)].trace_id)
        /\ traces[s].key = TraceKey(chunk[RowOf(s, i)])
        /\ traces[t].key = TraceKey(chunk[RowOf(t, j)])
    BY <2>1 DEF IInv, PlacedUnderTheirKey
  <2>3. TraceKey(chunk[RowOf(s, i)]) = TraceKey(chunk[RowOf(t, j)])
            <=> TraceIdOf(RowOf(s, i)) = TraceIdOf(RowOf(t, j))
    BY <2>2, KeysAreIds DEF IInv
  <2> QED
    BY <2>2, <2>3 DEF IInv, KeysAreDistinct, PlacedOnce
<1> QED
  BY <1>1, Invariance, PTL

-----------------------------------------------------------------------------
(* The results: every row is accounted for.                                 *)

\* Read so far, sorted out: the first two conjuncts.
RowsAreSorted ==
    /\ \A r \in DOMAIN chunk : r < next =>
           IF IsSpan(chunk[r]) THEN \E k \in DOMAIN source_rows : source_rows[k] = r
           ELSE results[r] = IF chunk[r].null THEN Null ELSE SkipReason(chunk[r])
    /\ \A k \in DOMAIN source_rows : IsSpan(chunk[source_rows[k]])

SpansArePlaced ==
    \A k \in 1..placed :
        \E t \in DOMAIN traces : \E i \in DOMAIN traces[t].spans : RowOf(t, i) = source_rows[k]

\* A reason is neither of the two results that are not one.
LEMMA ReasonsAreReasons ==
    ASSUME NEW row
    PROVE  SkipReason(row) \notin {"ok", "unset"}
BY DEF SkipReason, Empty

\* At the start no row is read.
LEMMA InitAccounts == WriteInit => RowsAreAccountedFor
<1>1. ASSUME Unread, DOMAIN chunk = 1..Len(chunk) PROVE RowsAreAccountedFor
  BY <1>1 DEF Unread, RowsAreAccountedFor
<1>2. WriteInit => Unread
  BY DEF WriteInit, Init, NoTraces
<1> QED
  BY <1>1, <1>2, InitIInv, ChunksAreSequences DEF IInv

\* Reading a row sorts it out.
LEMMA ReadingAccounts ==
    ASSUME IInv, IInv', RowsAreAccountedFor, SkipRow \/ AddSpan
    PROVE  RowsAreAccountedFor'
<1>0. /\ DOMAIN chunk = 1..Len(chunk) /\ Len(chunk) \in Nat
      /\ next \in 1..Len(chunk) /\ next' = next + 1 /\ chunk' = chunk
      /\ phase = "reading" /\ phase' = "reading" /\ placed' = placed /\ placed = 0
      /\ traces' = traces /\ received' = received
  BY ChunksAreSequences DEF IInv, TypeOK, SkipRow, AddSpan, InChunk
<1>1. CASE SkipRow
  <2>1. /\ ~IsSpan(chunk[next]) /\ source_rows' = source_rows
        /\ results' = [results EXCEPT ![next] = IF chunk[next].null THEN Null
                                                ELSE SkipReason(chunk[next])]
    BY <1>1 DEF SkipRow, IsSpan
  <2>2. next \in DOMAIN results
    BY <1>0 DEF IInv, TypeOK
  <2>3. \A r \in DOMAIN chunk : r < next + 1 => r < next \/ r = next
    BY <1>0
  <2>4. RowsAreSorted'
    BY <1>0, <2>1, <2>2, <2>3 DEF RowsAreSorted, RowsAreAccountedFor, IsSpan
  <2> QED
    BY <1>0, <2>1, <2>4 DEF RowsAreSorted, RowsAreAccountedFor
<1>2. CASE AddSpan
  <2>1. /\ IsSpan(chunk[next]) /\ source_rows' = Append(source_rows, next)
        /\ results' = results
    BY <1>2 DEF AddSpan, IsSpan
  <2>2. source_rows \in Seq(Nat) /\ next \in Nat
    <3>1. \A k \in DOMAIN source_rows : source_rows[k] \in Nat
      BY <1>0 DEF IInv, TypeOK
    <3> QED
      BY <1>0, <3>1 DEF IInv, TypeOK
  <2>3. /\ DOMAIN source_rows \subseteq DOMAIN source_rows'
        /\ \A k \in DOMAIN source_rows : source_rows'[k] = source_rows[k]
        /\ Len(source_rows) + 1 \in DOMAIN source_rows'
        /\ source_rows'[Len(source_rows) + 1] = next
        /\ \A k \in DOMAIN source_rows' : k \in DOMAIN source_rows \/ source_rows'[k] = next
    BY <2>1, <2>2, AppendKeepsRest
  <2>4. \A r \in DOMAIN chunk : r < next + 1 => r < next \/ r = next
    BY <1>0
  <2>5. RowsAreSorted'
    <3>1. ASSUME NEW r \in DOMAIN chunk, r < next + 1
          PROVE  IF IsSpan(chunk[r]) THEN \E k \in DOMAIN source_rows' : source_rows'[k] = r
                 ELSE results[r] = IF chunk[r].null THEN Null ELSE SkipReason(chunk[r])
      BY <2>1, <2>3, <2>4, <3>1 DEF RowsAreAccountedFor
    <3>2. \A k \in DOMAIN source_rows' : IsSpan(chunk[source_rows'[k]])
      BY <2>1, <2>3 DEF RowsAreAccountedFor
    <3> QED
      BY <1>0, <2>1, <3>1, <3>2 DEF RowsAreSorted, IsSpan
  <2> QED
    BY <1>0, <2>5 DEF RowsAreSorted, RowsAreAccountedFor
<1> QED
  BY <1>1, <1>2

\* Placing a row keeps every row that is placed, and adds that one.
LEMMA PlacingAccounts ==
    ASSUME IInv, IInv', RowsAreAccountedFor, StartTrace \/ ExtendTrace
    PROVE  RowsAreAccountedFor'
<1>0. /\ placed' = placed + 1 /\ placed \in Nat
      /\ chunk' = chunk /\ source_rows' = source_rows /\ next' = next
      /\ results' = results /\ phase' = phase /\ phase = "building" /\ received' = received
      /\ NextRow \in Nat /\ NextRow = source_rows[placed + 1] /\ Placing
  BY PlacingKeepsRows, NextRowIsNew DEF NextRow, StartTrace, ExtendTrace
<1>1. traces \in Seq(Trace) /\ \A t \in DOMAIN traces : traces[t] \in Trace
  <2>1. traces \in Seq(Trace)
    BY DEF IInv, TypeOK, Trace
  <2> QED
    BY <2>1
<1>2. CASE StartTrace
  <2>1. traces' = Append(traces, [key |-> NextKey, spans |-> <<NextRow>>])
    BY <1>2 DEF StartTrace
  <2>2. /\ \A t \in DOMAIN traces : t \in DOMAIN traces' /\ traces'[t] = traces[t]
        /\ Len(traces) + 1 \in DOMAIN traces'
        /\ traces'[Len(traces) + 1].spans = <<NextRow>>
    BY <1>1, <2>1
  <2>3. 1 \in DOMAIN traces'[Len(traces) + 1].spans /\ traces'[Len(traces) + 1].spans[1] = NextRow
    BY <2>2
  <2>4. SpansArePlaced'
    BY <1>0, <2>2, <2>3 DEF SpansArePlaced, RowsAreAccountedFor, RowOf
  <2> QED
    BY <1>0, <2>4 DEF SpansArePlaced, RowsAreAccountedFor, IsSpan
<1>3. CASE ExtendTrace
  <2>1. PICK u \in DOMAIN traces :
            traces' = [traces EXCEPT ![u].spans = Append(traces[u].spans, NextRow)]
    BY <1>3 DEF ExtendTrace
  <2>2. /\ DOMAIN traces' = DOMAIN traces
        /\ \A t \in DOMAIN traces : t # u => traces'[t] = traces[t]
        /\ traces'[u].spans = Append(traces[u].spans, NextRow)
    <3>1. /\ DOMAIN traces' = DOMAIN traces
          /\ \A t \in DOMAIN traces : t # u => traces'[t] = traces[t]
          /\ traces'[u] = [traces[u] EXCEPT !.spans = Append(traces[u].spans, NextRow)]
      BY <1>1, <2>1
    <3>2. traces[u] \in Trace
      BY <1>1
    <3> QED
      BY <3>1, <3>2 DEF Trace
  <2>3. /\ \A i \in DOMAIN traces[u].spans :
               i \in DOMAIN traces'[u].spans /\ traces'[u].spans[i] = traces[u].spans[i]
        /\ \E i \in DOMAIN traces'[u].spans : traces'[u].spans[i] = NextRow
    <3>1. traces[u].spans \in Seq(Nat)
      BY <1>1 DEF Trace
    <3>2. /\ DOMAIN Append(traces[u].spans, NextRow) = 1..(Len(traces[u].spans) + 1)
          /\ DOMAIN traces[u].spans = 1..Len(traces[u].spans) /\ Len(traces[u].spans) \in Nat
          /\ \A i \in DOMAIN traces[u].spans : Append(traces[u].spans, NextRow)[i] = traces[u].spans[i]
          /\ Append(traces[u].spans, NextRow)[Len(traces[u].spans) + 1] = NextRow
      BY <1>0, <3>1, AppendKeepsRest
    <3> QED
      BY <2>2, <3>2
  <2>4. ASSUME NEW t \in DOMAIN traces, NEW i \in DOMAIN traces[t].spans
        PROVE  i \in DOMAIN traces'[t].spans /\ traces'[t].spans[i] = traces[t].spans[i]
    BY <2>2, <2>3
  <2>5. ASSUME NEW k \in 1..placed + 1
        PROVE  \E t \in DOMAIN traces' : \E i \in DOMAIN traces'[t].spans :
                   traces'[t].spans[i] = source_rows[k]
    <3>1. CASE k = placed + 1
      BY <1>0, <2>2, <2>3, <3>1
    <3>2. CASE k \in 1..placed
      BY <2>2, <2>4, <3>2 DEF RowsAreAccountedFor, RowOf
    <3> QED
      BY <1>0, <3>1, <3>2
  <2>6. SpansArePlaced'
    BY <1>0, <2>5 DEF SpansArePlaced, RowOf
  <2> QED
    BY <1>0, <2>6 DEF SpansArePlaced, RowsAreAccountedFor, IsSpan
<1> QED
  BY <1>2, <1>3

\* An accepted request holds the traces, and its rows are the rows marked "ok".
LEMMA EndingAccounts ==
    ASSUME IInv, IInv', RowsAreAccountedFor, ReadAll \/ Post
    PROVE  RowsAreAccountedFor'
<1>0. /\ chunk' = chunk /\ source_rows' = source_rows /\ next' = next
      /\ placed' = placed /\ traces' = traces /\ DOMAIN results = DOMAIN chunk
  BY DEF ReadAll, Post, IInv, TypeOK
<1>1. CASE ReadAll
  <2>1. /\ results' = results /\ received' = received /\ received = <<>>
        /\ traces = <<>> /\ placed = 0 /\ phase' \in {"done", "building"}
        /\ phase' = "done" => source_rows = <<>>
        /\ \A r \in DOMAIN chunk : r < next
    BY <1>1, ChunksAreSequences DEF ReadAll, RowsAreAccountedFor, IInv, TypeOK
  <2>2. phase' = "done" => \A r \in DOMAIN chunk : ~IsSpan(chunk[r])
    BY <2>1 DEF RowsAreAccountedFor
  <2> QED
    BY <1>0, <2>1, <2>2 DEF RowsAreAccountedFor, IsSpan, RowOf
<1>2. CASE Post /\ phase' = "done"
  <2>1. /\ received' = Request /\ placed = Len(source_rows) /\ phase = "building"
        /\ results' = [r \in DOMAIN chunk |->
               IF \E i \in DOMAIN source_rows : source_rows[i] = r THEN "ok" ELSE results[r]]
    BY <1>2 DEF Post
  <2>2. \A r \in DOMAIN chunk : r < next
    BY <2>1, ChunksAreSequences DEF IInv, TypeOK
  <2>3. \A r \in DOMAIN chunk :
            IsSpan(chunk[r]) <=> \E k \in DOMAIN source_rows : source_rows[k] = r
    BY <2>2 DEF RowsAreAccountedFor
  <2>4. RowsAreSorted'
    BY <1>0, <2>1, <2>3 DEF RowsAreSorted, RowsAreAccountedFor, IsSpan
  <2>5. /\ DOMAIN received' = DOMAIN traces
        /\ \A t \in DOMAIN traces :
               /\ DOMAIN received'[t] = DOMAIN traces[t].spans
               /\ \A i \in DOMAIN traces[t].spans : received'[t][i].row = RowOf(t, i)
    BY <2>1 DEF Request, RowOf
  <2>6. \A r \in DOMAIN chunk : IsSpan(chunk[r]) => results'[r] = "ok"
    BY <2>1, <2>3
  <2> QED
    BY <1>0, <1>2, <2>1, <2>4, <2>5, <2>6 DEF RowsAreSorted, RowsAreAccountedFor, IsSpan, RowOf
<1>3. CASE Post /\ phase' # "done"
  <2>1. phase' = "failed" /\ results' = results
    BY <1>3 DEF Post
  <2> QED
    BY <1>0, <2>1 DEF RowsAreAccountedFor, IsSpan, RowOf
<1> QED
  BY <1>1, <1>2, <1>3

\* What is accounted for has a true result.
LEMMA AccountsAreTrue ==
    ASSUME IInv, RowsAreAccountedFor
    PROVE  ResultsAreTrue
<1> SUFFICES ASSUME phase = "done", NEW r \in DOMAIN chunk
             PROVE  LET sent == \E t \in DOMAIN received : \E i \in DOMAIN received[t] :
                                    received[t][i].row = r
                    IN  /\ results[r] = "ok" <=> sent
                        /\ ~sent => results[r] = IF chunk[r].null THEN Null
                                                 ELSE SkipReason(chunk[r])
                        /\ results[r] # Unset
  BY DEF ResultsAreTrue
<1> DEFINE sent == \E t \in DOMAIN received : \E i \in DOMAIN received[t] : received[t][i].row = r
<1>1. r < next
  BY ChunksAreSequences DEF IInv, TypeOK
<1>2. \A k \in 1..placed : k \in DOMAIN source_rows
  BY DEF IInv, TypeOK
<1>3. \A k \in DOMAIN source_rows : k \in 1..placed
  BY DEF IInv, TypeOK, RowsAreAccountedFor
<1>4. ASSUME sent PROVE IsSpan(chunk[r])
  <2>1. PICK t \in DOMAIN traces : \E i \in DOMAIN traces[t].spans : RowOf(t, i) = r
    BY <1>4 DEF RowsAreAccountedFor
  <2>2. PICK k \in 1..placed : r = source_rows[k]
    BY <2>1 DEF IInv, PlacedUnderTheirKey
  <2> QED
    BY <1>2, <2>2 DEF RowsAreAccountedFor
<1>5. ASSUME IsSpan(chunk[r]) PROVE sent
  <2>1. PICK k \in 1..placed : source_rows[k] = r
    BY <1>1, <1>3, <1>5 DEF RowsAreAccountedFor
  <2>2. PICK t \in DOMAIN traces : \E i \in DOMAIN traces[t].spans : RowOf(t, i) = r
    BY <2>1 DEF RowsAreAccountedFor
  <2> QED
    BY <2>2 DEF RowsAreAccountedFor
<1>6. CASE IsSpan(chunk[r])
  <2>1. results[r] = "ok"
    BY <1>6 DEF RowsAreAccountedFor
  <2> QED
    BY <1>5, <1>6, <2>1 DEF Unset
<1>7. CASE ~IsSpan(chunk[r])
  <2>1. results[r] = IF chunk[r].null THEN Null ELSE SkipReason(chunk[r])
    BY <1>1, <1>7 DEF RowsAreAccountedFor
  <2>2. results[r] # "ok" /\ results[r] # "unset"
    BY <2>1, ReasonsAreReasons, NullAssumption
  <2> QED
    BY <1>4, <1>7, <2>1, <2>2 DEF Unset
<1> QED
  BY <1>6, <1>7

\* Every row of the chunk is at one place of the call: skipped, waiting or placed.
THEOREM RowsStayAccountedFor == WriteSpec => []RowsAreAccountedFor
<1>1. IInv /\ IInv' /\ RowsAreAccountedFor /\ [WriteNext]_writeVars => RowsAreAccountedFor'
  <2> SUFFICES ASSUME IInv, IInv', RowsAreAccountedFor, [Next]_vars
               PROVE  RowsAreAccountedFor'
    BY DEF WriteNext, TraceStep, LogStep, MetricStep, writeVars
  <2>1. CASE (\E secret \in Secrets : Bind(secret)) \/ UNCHANGED vars
    <3>1. UNCHANGED <<chunk, next, source_rows, results, placed, traces, phase, received>>
      BY <2>1 DEF Bind, vars
    <3> QED
      BY <3>1 DEF RowsAreAccountedFor, IsSpan, RowOf
  <2> QED
    BY <2>1, ReadingAccounts, PlacingAccounts, EndingAccounts DEF Next
<1> QED
  BY <1>1, Invariance, InitAccounts, PTL DEF WriteSpec

\* Every row that is not sent is reported, and only rows that are sent are
\* "ok", for all words and chunks.
THEOREM ResultsStayTrue == WriteSpec => []ResultsAreTrue
BY RowsStayAccountedFor, Invariance, AccountsAreTrue, PTL DEF WriteSpec

-----------------------------------------------------------------------------
(* The encodings of a span, and its tags.                                   *)

\* A span is the function from its fields to their values.
LEMMA SpanDomain ==
    ASSUME NEW row
    PROVE  /\ DOMAIN BuildAgentSpanFromRow(row) = SpanFields
           /\ BuildAgentSpanFromRow(row) =
                [f \in SpanFields |-> BuildAgentSpanFromRow(row)[f]]
BY DEF BuildAgentSpanFromRow, SpanFields

\* Whatever the encoding leaves out is read as the zero that it is.
LEMMA WireIsExact ==
    ASSUME NEW row, NEW destination
    PROVE  ReadSpan(WireSpan(BuildAgentSpanFromRow(row), destination)) = BuildAgentSpanFromRow(row)
<1> DEFINE span == BuildAgentSpanFromRow(row)
<1>1. span = [f \in SpanFields |-> span[f]]
  BY SpanDomain
<1> HIDE DEF span
<1> DEFINE sent == WireFields(span, destination)
<1>2. \A f \in SpanFields : f \notin sent => span[f] = Zero(f)
  BY DEF WireFields
<1>3. WireSpan(span, destination) = [f \in sent |-> span[f]]
  BY DEF WireSpan
<1>4. ReadSpan(WireSpan(span, destination)) = [f \in SpanFields |-> span[f]]
  BY <1>2, <1>3, Zenon DEF ReadSpan
<1> QED
  BY <1>1, <1>4 DEF span

\* The agent and the backend read the same span of every row, for all words and
\* chunks.
THEOREM EncodingsStayEqual == WriteSpec => []EncodingsAgree
<1>1. EncodingsAgree
  BY WireIsExact DEF EncodingsAgree
<1> QED
  BY <1>1, PTL

\* The tags that the columns set, by name.
LEMMA TagsOfColumns ==
    ASSUME NEW row
    PROVE  /\ \A column \in ColumnTexts(row) : column[2] # Empty =>
                  /\ column[1] \in DOMAIN ColumnTags(row)
                  /\ ColumnTags(row)[column[1]].of = column[2]
           /\ \A key \in DOMAIN ColumnTags(row) :
                  \E column \in ColumnTexts(row) : column[1] = key /\ column[2] # Empty
           /\ "_dd.p.tid" \notin DOMAIN ColumnTags(row)
<1> DEFINE text(k) == CASE k = "span.kind" -> KindOf(row)
                     [] k = "error.message" -> row.status_message
                     [] k = "w3c.tracestate" -> row.trace_state
                     [] k = "events" -> row.events
                     [] k = "_dd.span_links" -> row.links
<1>1. /\ text("span.kind") = KindOf(row)
      /\ text("error.message") = row.status_message
      /\ text("w3c.tracestate") = row.trace_state
      /\ text("events") = row.events
      /\ text("_dd.span_links") = row.links
  OBVIOUS
<1> HIDE DEF text
<1>2. /\ ColumnTexts(row) = {<<"span.kind", text("span.kind")>>, <<"error.message", text("error.message")>>,
            <<"w3c.tracestate", text("w3c.tracestate")>>, <<"events", text("events")>>,
            <<"_dd.span_links", text("_dd.span_links")>>}
      /\ ColumnTags(row) = [k \in {t \in TagColumns : text(t) # Empty} |->
                               [in |-> "meta", of |-> text(k)]]
  <2>1. ColumnTags(row) = [k \in {t \in TagColumns : text(t) # Empty} |->
                               [in |-> "meta", of |-> text(k)]]
    BY Zenon DEF ColumnTags, text
  <2> QED
    BY <1>1, <2>1 DEF ColumnTexts
<1>3. \A column \in ColumnTexts(row) : column[1] \in TagColumns /\ column[2] = text(column[1])
  BY <1>2 DEF TagColumns
<1>4. \A key \in TagColumns : \E column \in ColumnTexts(row) : column[1] = key /\ column[2] = text(key)
  BY <1>2 DEF TagColumns
<1> QED
  BY <1>2, <1>3, <1>4 DEF TagColumns

\* The tags of an attribute object, by name.
LEMMA TagsOfAttributes ==
    ASSUME NEW attributes
    PROVE  /\ DOMAIN Usable(attributes) = AttributeNames(attributes)
           /\ \A key \in AttributeNames(attributes) :
                  Usable(attributes)[key].of = attributes[key].of
<1>1. CASE attributes \in {Null, Malformed}
  BY <1>1 DEF Usable, AttributeNames
<1>2. CASE attributes \notin {Null, Malformed}
  BY <1>2 DEF Usable, AttributeNames
<1> QED
  BY <1>1, <1>2

\* The first of two sources wins, and no name is lost.
LEMMA Merged ==
    ASSUME NEW f, NEW g
    PROVE  /\ DOMAIN Merge(f, g) = (DOMAIN f) \cup (DOMAIN g)
           /\ \A k \in DOMAIN f : Merge(f, g)[k] = f[k]
           /\ \A k \in DOMAIN g : k \notin DOMAIN f => Merge(f, g)[k] = g[k]
BY DEF Merge

\* The upper bits of an id are a tag unless they are zero.
LEMMA TagOfHighWord ==
    ASSUME NEW high
    PROVE  /\ high = 0 => DOMAIN HighTag(high) = {}
           /\ high # 0 => /\ DOMAIN HighTag(high) = {"_dd.p.tid"}
                          /\ HighTag(high)["_dd.p.tid"].of = ToString(high)
BY DEF HighTag, Only

\* The tags of a span, by name and source.
LEMMA TagsOfRow ==
    ASSUME NEW row
    PROVE  LET tags     == Tags(High(row.trace_id), row)
               ofSpan   == AttributeNames(row.span_attributes)
               ofSource == AttributeNames(row.resource_attributes)
               says(key, text) == key \in DOMAIN tags /\ tags[key].of = text
           IN  /\ High(row.trace_id) # 0 => says("_dd.p.tid", ToString(High(row.trace_id)))
               /\ \A column \in ColumnTexts(row) :
                      column[2] # Empty => says(column[1], column[2])
               /\ \A key \in DOMAIN tags \cup ofSpan \cup ofSource : ~SetByColumn(row, key) =>
                      IF key \in ofSpan THEN says(key, row.span_attributes[key].of)
                      ELSE key \in ofSource /\ says(key, row.resource_attributes[key].of)
<1> DEFINE high   == High(row.trace_id)
           ofSpan   == AttributeNames(row.span_attributes)
           ofSource == AttributeNames(row.resource_attributes)
           a == HighTag(high)
           b == ColumnTags(row)
           c == Usable(row.span_attributes)
           d == Usable(row.resource_attributes)
           cd == Merge(c, d)
           bcd == Merge(b, cd)
           tags == Merge(a, bcd)
<1>0. Tags(high, row) = tags
  BY DEF Tags
<1>a. /\ high = 0 => DOMAIN a = {}
      /\ high # 0 => DOMAIN a = {"_dd.p.tid"} /\ a["_dd.p.tid"].of = ToString(high)
  BY TagOfHighWord
<1>b. /\ \A column \in ColumnTexts(row) : column[2] # Empty =>
             column[1] \in DOMAIN b /\ b[column[1]].of = column[2]
      /\ \A key \in DOMAIN b : SetByColumn(row, key)
      /\ "_dd.p.tid" \notin DOMAIN b
  BY TagsOfColumns DEF SetByColumn
<1>c. DOMAIN c = ofSpan /\ \A key \in ofSpan : c[key].of = row.span_attributes[key].of
  BY TagsOfAttributes
<1>d. DOMAIN d = ofSource /\ \A key \in ofSource : d[key].of = row.resource_attributes[key].of
  BY TagsOfAttributes
<1>e. high # 0 => SetByColumn(row, "_dd.p.tid")
  BY DEF SetByColumn
<1> HIDE DEF high, ofSpan, ofSource, a, b, c, d
<1>1. /\ DOMAIN cd = (DOMAIN c) \cup (DOMAIN d)
      /\ \A k \in DOMAIN c : cd[k] = c[k]
      /\ \A k \in DOMAIN d : k \notin DOMAIN c => cd[k] = d[k]
  BY Merged
<1> HIDE DEF cd
<1>2. /\ DOMAIN bcd = (DOMAIN b) \cup (DOMAIN cd)
      /\ \A k \in DOMAIN b : bcd[k] = b[k]
      /\ \A k \in DOMAIN cd : k \notin DOMAIN b => bcd[k] = cd[k]
  BY Merged
<1> HIDE DEF bcd
<1>3. /\ DOMAIN tags = (DOMAIN a) \cup (DOMAIN bcd)
      /\ \A k \in DOMAIN a : tags[k] = a[k]
      /\ \A k \in DOMAIN bcd : k \notin DOMAIN a => tags[k] = bcd[k]
  BY Merged
<1> HIDE DEF tags
<1>4. high # 0 => "_dd.p.tid" \in DOMAIN tags /\ tags["_dd.p.tid"].of = ToString(high)
  BY <1>a, <1>3
<1>5. ASSUME NEW column \in ColumnTexts(row), column[2] # Empty
      PROVE  column[1] \in DOMAIN tags /\ tags[column[1]].of = column[2]
  <2>1. column[1] \in DOMAIN b /\ b[column[1]].of = column[2]
    BY <1>5, <1>b
  <2>2. column[1] \notin DOMAIN a
    BY <2>1, <1>a, <1>b
  <2> QED
    BY <2>1, <2>2, <1>2, <1>3
<1>6. ASSUME NEW key \in DOMAIN tags \cup ofSpan \cup ofSource, ~SetByColumn(row, key)
      PROVE  IF key \in ofSpan
             THEN key \in DOMAIN tags /\ tags[key].of = row.span_attributes[key].of
             ELSE /\ key \in ofSource
                  /\ key \in DOMAIN tags /\ tags[key].of = row.resource_attributes[key].of
  <2>1. key \notin DOMAIN a /\ key \notin DOMAIN b
    BY <1>6, <1>a, <1>b, <1>e
  <2>2. key \in ofSpan \/ key \in ofSource
    BY <2>1, <1>c, <1>d, <1>1, <1>2, <1>3
  <2>3. key \in DOMAIN tags /\ tags[key] = cd[key]
    BY <2>1, <2>2, <1>c, <1>d, <1>1, <1>2, <1>3
  <2> QED
    BY <2>2, <2>3, <1>c, <1>d, <1>1
<1> QED
  BY <1>0, <1>4, <1>5, <1>6 DEF high, ofSpan, ofSource

\* What was received is the request, and is received at the end.
DeliveredInv ==
    /\ mode = "none" => phase = "reading"
    /\ received # <<>> => phase \in {"done", "failed"} /\ received = Request

\* Nothing that the request was built of changes after it.
LEMMA DeliveredStays ==
    ASSUME DeliveredInv, [Next]_vars
    PROVE  DeliveredInv'
<1>1. CASE (\E secret \in Secrets : Bind(secret)) \/ SkipRow \/ AddSpan \/ ReadAll
  <2>1. phase = "reading" /\ received' = received
    BY <1>1 DEF Bind, SkipRow, AddSpan, InChunk, ReadAll, DeliveredInv
  <2>2. mode' = "none" => phase' = "reading"
    BY <1>1 DEF Bind, SkipRow, AddSpan, InChunk, ReadAll, DeliveredInv
  <2> QED
    BY <2>1, <2>2 DEF DeliveredInv
<1>2. CASE StartTrace \/ ExtendTrace
  <2>1. phase = "building" /\ phase' = phase /\ mode' = mode /\ received' = received
    BY <1>2 DEF StartTrace, ExtendTrace, Placing
  <2> QED
    BY <2>1 DEF DeliveredInv
<1>3. CASE Post
  <2>1. /\ phase = "building" /\ phase' \in {"done", "failed"}
        /\ received' \in {<<>>, Request} /\ UNCHANGED <<mode, chunk, traces>>
    BY <1>3 DEF Post
  <2>2. Request' = Request
    BY <2>1 DEF Request
  <2> QED
    BY <2>1, <2>2 DEF DeliveredInv
<1>4. CASE UNCHANGED vars
  BY <1>4 DEF vars, DeliveredInv, Request
<1> QED
  BY <1>1, <1>2, <1>3, <1>4 DEF Next

\* What is read of the request has the tags of the row it was built from.
LEMMA DeliveredTagsAreKept ==
    ASSUME DeliveredInv
    PROVE  TagsAreKept
<1>1. ASSUME NEW t \in DOMAIN received, NEW i \in DOMAIN received[t]
      PROVE  LET row      == chunk[received[t][i].row]
                 tags     == ReadSpan(received[t][i].wire).tags
                 ofSpan   == AttributeNames(row.span_attributes)
                 ofSource == AttributeNames(row.resource_attributes)
                 says(key, text) == key \in DOMAIN tags /\ tags[key].of = text
             IN  /\ High(row.trace_id) # 0 => says("_dd.p.tid", ToString(High(row.trace_id)))
                 /\ \A column \in ColumnTexts(row) :
                        column[2] # Empty => says(column[1], column[2])
                 /\ \A key \in DOMAIN tags \cup ofSpan \cup ofSource : ~SetByColumn(row, key) =>
                        IF key \in ofSpan THEN says(key, row.span_attributes[key].of)
                        ELSE key \in ofSource /\ says(key, row.resource_attributes[key].of)
  <2> DEFINE row  == chunk[received[t][i].row]
             wire == received[t][i].wire
  <2>1. received = Request
    BY <1>1 DEF DeliveredInv
  <2>2. t \in DOMAIN traces /\ i \in DOMAIN traces[t].spans
    BY <1>1, <2>1 DEF Request
  <2>3. wire = WireSpan(BuildAgentSpanFromRow(row), mode)
    BY <2>1, <2>2 DEF Request
  <2> HIDE DEF row, wire
  <2>4. ReadSpan(wire) = BuildAgentSpanFromRow(row)
    BY <2>3, WireIsExact
  <2>5. ReadSpan(wire).tags = Tags(High(row.trace_id), row)
    BY <2>4 DEF BuildAgentSpanFromRow
  <2> QED
    BY <2>5, TagsOfRow DEF row, wire
<1> QED
  BY <1>1 DEF TagsAreKept

\* Every span that was received has its upper bits, the tags of its columns and
\* every attribute that is not one of them, whatever their names, and no other
\* tag: for all words and chunks.
THEOREM TagsStayKept == WriteSpec => []TagsAreKept
<1>1. WriteInit => DeliveredInv
  BY DEF WriteInit, Init, NoTraces, Unread, DeliveredInv
<1>2. DeliveredInv /\ [WriteNext]_writeVars => DeliveredInv'
  BY DeliveredStays DEF WriteNext, TraceStep, LogStep, MetricStep, writeVars
<1> QED
  BY <1>1, <1>2, DeliveredTagsAreKept, PTL DEF WriteSpec

-----------------------------------------------------------------------------
(* Metrics: a row that cannot be read is found before anything is sent.     *)

\* What is known of the rows read so far holds at the start ...
LEMMA MetricsStart ==
    ASSUME NoMetrics \/ Metrics!Init
    PROVE  Metrics!RowsFirst
<1>1. CASE NoMetrics
  <2>1. DOMAIN readings = 1..Len(readings) /\ Len(readings) = 0
    BY <1>1 DEF NoMetrics
  <2> QED
    BY <1>1, <2>1 DEF NoMetrics, Metrics!RowsFirst, Metrics!UnreadableSendsNothing, Metrics!NothingSent
<1>2. CASE Metrics!Init
  <2>1. DOMAIN readings = 1..Len(readings) /\ Len(readings) \in Nat
    BY <1>2, MetricsAssumption DEF Metrics!Init, Metrics!BoundsAssumption
  <2>2. metric_results = [r \in DOMAIN readings |-> "unset"]
    BY <1>2 DEF Metrics!Init, Metrics!Unset
  <2>3. Metrics!NothingSent
    BY <1>2, <2>2 DEF Metrics!Init, Metrics!NothingSent
  <2>4. \A r \in DOMAIN readings : ~(r < next_reading)
    BY <1>2, <2>1 DEF Metrics!Init
  <2> QED
    BY <1>2, <2>1, <2>2, <2>3, <2>4 DEF Metrics!Init, Metrics!RowsFirst, Metrics!UnreadableSendsNothing
<1> QED
  BY <1>1, <1>2

\* ... and every step keeps it.
LEMMA MetricsStepKeeps ==
    ASSUME Metrics!RowsFirst, Metrics!Next
    PROVE  Metrics!RowsFirst'
<1> USE DEF Metrics!RowsFirst
<1>0. DOMAIN readings = 1..Len(readings) /\ Len(readings) \in Nat
  BY DEF Metrics!RowsFirst
<1>1. CASE Metrics!SkipRow
  <2>1. ~Metrics!Unreadable(readings[next_reading])
    BY <1>1 DEF Metrics!SkipRow, Metrics!Unreadable, Metrics!HasReading
  <2>2. /\ UNCHANGED <<isNanos, readings, points, offset, body, metric_phase, table, foreign>>
        /\ metric_phase = "reading" /\ next_reading \in DOMAIN readings
        /\ next_reading' = next_reading + 1
        /\ metric_results' = [metric_results EXCEPT ![next_reading] = Null]
    BY <1>1 DEF Metrics!SkipRow, Metrics!InChunk
  <2>3. Metrics!NothingSent'
    BY <2>2, MetricsAssumption DEF Metrics!NothingSent, Metrics!BoundsAssumption
  <2>4. \A r \in DOMAIN readings : r < next_reading + 1 => ~Metrics!Unreadable(readings[r])
    BY <1>0, <2>1, <2>2
  <2>5. (DOMAIN readings = 1..Len(readings) /\ Len(readings) \in Nat)' /\ (DOMAIN metric_results = DOMAIN readings)'
    BY <2>2
  <2> QED
    BY <2>2, <2>3, <2>4, <2>5 DEF Metrics!UnreadableSendsNothing, Metrics!Unreadable, Metrics!HasReading
<1>2. CASE Metrics!AddPoint
  <2>1. ~Metrics!Unreadable(readings[next_reading])
    BY <1>2 DEF Metrics!AddPoint, Metrics!Unreadable, Metrics!HasReading
  <2>2. /\ UNCHANGED <<readings, metric_results, body, metric_phase, table>>
        /\ metric_phase = "reading" /\ next_reading \in DOMAIN readings
        /\ next_reading' = next_reading + 1
    BY <1>2 DEF Metrics!AddPoint, Metrics!InChunk
  <2>3. Metrics!NothingSent'
    BY <2>2 DEF Metrics!NothingSent
  <2>4. \A r \in DOMAIN readings : r < next_reading + 1 => ~Metrics!Unreadable(readings[r])
    BY <1>0, <2>1, <2>2
  <2>5. (DOMAIN readings = 1..Len(readings) /\ Len(readings) \in Nat)' /\ (DOMAIN metric_results = DOMAIN readings)'
    BY <2>2
  <2> QED
    BY <2>2, <2>3, <2>4, <2>5 DEF Metrics!UnreadableSendsNothing, Metrics!Unreadable, Metrics!HasReading
<1>3. CASE Metrics!RefuseRow
  <2>1. /\ UNCHANGED <<readings, next_reading, metric_results, body, table>>
        /\ metric_phase = "reading" /\ metric_phase' = "failed"
    BY <1>3 DEF Metrics!RefuseRow, Metrics!InChunk
  <2>2. Metrics!NothingSent'
    BY <2>1 DEF Metrics!NothingSent
  <2>3. (DOMAIN readings = 1..Len(readings) /\ Len(readings) \in Nat)' /\ (DOMAIN metric_results = DOMAIN readings)'
    BY <2>1
  <2> QED
    BY <2>1, <2>2, <2>3 DEF Metrics!UnreadableSendsNothing
<1>4. CASE Metrics!StartSending
  <2>1. /\ UNCHANGED <<readings, next_reading, metric_results, body, table>>
        /\ metric_phase = "reading" /\ metric_phase' = "sending"
        /\ next_reading \notin DOMAIN readings
    BY <1>4 DEF Metrics!StartSending, Metrics!AllRowsRead
  <2>2. \A r \in DOMAIN readings : ~Metrics!Unreadable(readings[r])
    BY <1>0, <2>1
  <2>3. (DOMAIN readings = 1..Len(readings) /\ Len(readings) \in Nat)' /\ (DOMAIN metric_results = DOMAIN readings)'
    BY <2>1
  <2> QED
    BY <2>1, <2>2, <2>3 DEF Metrics!UnreadableSendsNothing, Metrics!Unreadable, Metrics!HasReading
<1>5. CASE \/ Metrics!BuildBatch \/ Metrics!RefuseBatch
           \/ Metrics!BatchSent \/ Metrics!SendFails \/ Metrics!Finish
  <2>1. /\ UNCHANGED <<readings, next_reading>> /\ metric_phase = "sending"
        /\ metric_phase' \in {"sending", "done", "failed"}
        /\ DOMAIN metric_results' = DOMAIN readings
    BY <1>5 DEF Metrics!BuildBatch, Metrics!RefuseBatch, Metrics!BatchIsDue, Metrics!BatchSent,
                Metrics!SendFails, Metrics!Finish
  <2>2. \A r \in DOMAIN readings : ~Metrics!Unreadable(readings[r])
    BY <2>1
  <2>3. (DOMAIN readings = 1..Len(readings) /\ Len(readings) \in Nat)' /\ (DOMAIN metric_results = DOMAIN readings)'
    BY <2>1
  <2> QED
    BY <2>1, <2>2, <2>3 DEF Metrics!UnreadableSendsNothing, Metrics!Unreadable, Metrics!HasReading
<1>6. CASE \E entry \in ForeignEntries : Metrics!ForeignPost(entry)
  <2>1. UNCHANGED <<readings, next_reading, metric_results, body, metric_phase, table>>
    BY <1>6 DEF Metrics!ForeignPost
  <2> QED
    BY <2>1 DEF Metrics!UnreadableSendsNothing, Metrics!NothingSent, Metrics!Unreadable, Metrics!HasReading
<1> QED
  BY <1>1, <1>2, <1>3, <1>4, <1>5, <1>6 DEF Metrics!Next

-----------------------------------------------------------------------------
(* Metrics: "ok" means stored.                                              *)

\* A division that truncates is off by less than one.
LEMMA TruncationIsClose ==
    ASSUME NEW n \in Int, NEW d \in Nat \ {0}
    PROVE  /\ Metrics!TruncatedDiv(n, d) \in Int
           /\ -d < n - Metrics!TruncatedDiv(n, d) * d
           /\ n - Metrics!TruncatedDiv(n, d) * d < d
<1> DEFINE m == IF n >= 0 THEN n ELSE -n
           q == m \div d
<1>1. m \in Nat
  OBVIOUS
<1> HIDE DEF m
<1>2. q \in Int /\ m = d * q + (m % d) /\ m % d \in 0..d - 1
  BY <1>1
<1>3. m % d \in Int /\ 0 <= m % d /\ m % d < d
  BY <1>2
<1>4. m - q * d = m % d
  BY <1>1, <1>2, <1>3
<1> HIDE DEF q
<1>5. CASE n >= 0
  <2>1. Metrics!TruncatedDiv(n, d) = q /\ m = n
    BY <1>5 DEF Metrics!TruncatedDiv, q, m
  <2> QED
    BY <2>1, <1>2, <1>3, <1>4
<1>6. CASE ~(n >= 0)
  <2>1. Metrics!TruncatedDiv(n, d) = -q /\ m = -n
    BY <1>6 DEF Metrics!TruncatedDiv, q, m
  <2>2. (-q) * d = -(q * d) /\ q * d \in Int
    BY <1>2
  <2>3. n - (-q) * d = -(m % d)
    BY <2>1, <2>2, <1>1, <1>2, <1>3, <1>4
  <2> QED
    BY <2>1, <2>3, <1>2, <1>3
<1> QED
  BY <1>5, <1>6

\* Lists of one item each make the list of these items.
LEMMA FlattenedSingles ==
    ASSUME NEW S, NEW e \in Seq(S), Len(e) # 0
    PROVE  Metrics!FlattenSeq([i \in 1..Len(e) |-> <<e[i]>>]) = e
<1> DEFINE n == Len(e)
           seqs == [i \in 1..n |-> <<e[i]>>]
           IsRun(g) == g = [i \in 1..n |-> IF i = 1 THEN seqs[i] ELSE g[i - 1] \o seqs[i]]
           run == CHOOSE g : IsRun(g)
<1>1. n \in Nat \ {0} /\ \A i \in 1..n : e[i] \in S /\ <<e[i]>> \in Seq(S) /\ Len(<<e[i]>>) = 1 /\ <<e[i]>>[1] = e[i]
  BY LenProperties, ElementOfSeq
<1>2. Len(seqs) = n
  BY <1>1
<1>3. Metrics!FlattenSeq(seqs) = run[n]
  BY <1>1, <1>2, Zenon DEF Metrics!FlattenSeq
<1>4. \E g : IsRun(g)
  <2> DEFINE f == [i \in 1..n |-> SubSeq(e, 1, i)]
  <2>1. ASSUME NEW i \in 1..n
        PROVE  f[i] = IF i = 1 THEN seqs[i] ELSE f[i - 1] \o seqs[i]
    <3>0. i - 1 \in 0..n /\ i \in i - 1..n /\ i \in Nat /\ i - 1 + 1 = i /\ i \in 0..n /\ n \in n..n
      BY <1>1
    <3> DEFINE a == SubSeq(e, 1, i - 1)
               b == SubSeq(e, i - 1 + 1, i)
    <3>1. /\ a \in Seq(S) /\ Len(a) = i - 1 /\ b \in Seq(S) /\ Len(b) = i - (i - 1)
          /\ \A j \in 1..i - (i - 1) : b[j] = e[i - 1 + j]
          /\ a \o b = SubSeq(e, 1, i)
      BY <3>0, Halves
    <3> HIDE DEF a, b
    <3>2. Len(b) = 1 /\ b[1] = e[i]
      BY <3>0, <3>1
    <3>3. b = seqs[i]
      <4>1. b = <<e[i]>>
        BY <3>1, <3>2, <1>1, SeqEqual
      <4> QED
        BY <4>1
    <3>4. f[i] = a \o seqs[i]
      BY <3>1, <3>3
    <3>5. CASE i = 1
      <4>1. a = <<>>
        BY <3>1, <3>5, EmptySeq
      <4>2. a \o b = b
        BY <4>1, <3>1, ConcatEmptySeq
      <4> QED
        BY <3>5, <4>2, <3>3, <3>4
    <3>6. CASE i # 1
      <4>1. f[i - 1] = a
        BY <3>0, <3>6 DEF a
      <4> QED
        BY <3>6, <3>4, <4>1
    <3> QED
      BY <3>5, <3>6
  <2>2. f = [i \in 1..n |-> f[i]]
    OBVIOUS
  <2> HIDE DEF f
  <2>3. IsRun(f)
    BY <2>1, <2>2
  <2> QED
    BY <2>3
<1>5. IsRun(run)
  BY <1>4
<1> DEFINE A == {k \in Nat : k \in 1..n =>
                    run[k] \in Seq(S) /\ Len(run[k]) = k /\ \A j \in 1..k : run[k][j] = e[j]}
<1>6. 0 \in A
  OBVIOUS
<1> HIDE DEF run
<1>7. ASSUME NEW k \in Nat, k \in A PROVE k + 1 \in A
  <2> SUFFICES ASSUME k + 1 \in 1..n
               PROVE  run[k + 1] \in Seq(S) /\ Len(run[k + 1]) = k + 1
                      /\ \A j \in 1..k + 1 : run[k + 1][j] = e[j]
    OBVIOUS
  <2> DEFINE one == <<e[k + 1]>>
  <2>1. one \in Seq(S) /\ Len(one) = 1 /\ one[1] = e[k + 1]
    BY <1>1
  <2>2. run[k + 1] = IF k + 1 = 1 THEN one ELSE run[k + 1 - 1] \o one
    <3>1. seqs[k + 1] = one
      OBVIOUS
    <3> HIDE DEF seqs, one
    <3>2. \A i \in 1..n : run[i] = IF i = 1 THEN seqs[i] ELSE run[i - 1] \o seqs[i]
      <4> HIDE DEF n
      <4> QED
        BY <1>5, Zenon
    <3>3. run[k + 1] = IF k + 1 = 1 THEN seqs[k + 1] ELSE run[k + 1 - 1] \o seqs[k + 1]
      <4> HIDE DEF n
      <4> QED
        BY <3>2
    <3> QED
      BY <3>1, <3>3, Zenon
  <2> HIDE DEF one
  <2>3. CASE k = 0
    <3>1. run[k + 1] = one /\ k + 1 = 1
      BY <2>2, <2>3
    <3> QED
      BY <3>1, <2>1
  <2>4. CASE k # 0
    <3>1. run[k + 1] = run[k] \o one
      BY <2>2, <2>4
    <3> DEFINE r == run[k]
    <3>2. r \in Seq(S) /\ Len(r) = k /\ \A j \in 1..k : r[j] = e[j]
      BY <1>7, <2>4
    <3> HIDE DEF r
    <3>3. /\ r \o one \in Seq(S) /\ Len(r \o one) = k + 1
          /\ \A i \in 1..k + 1 : (r \o one)[i] = IF i <= k THEN r[i] ELSE one[i - k]
      <4>1. r \in Seq(S) /\ one \in Seq(S) /\ Len(r) = k /\ Len(one) = 1
        BY <3>2, <2>1
      <4>2. /\ r \o one \in Seq(S) /\ Len(r \o one) = Len(r) + Len(one)
            /\ \A i \in 1..Len(r) + Len(one) :
                   (r \o one)[i] = IF i <= Len(r) THEN r[i] ELSE one[i - Len(r)]
        BY <4>1, ConcatProperties
      <4> QED
        BY <4>1, <4>2
    <3>4. ASSUME NEW j \in 1..k + 1 PROVE (r \o one)[j] = e[j]
      <4>1. CASE j <= k
        BY <4>1, <3>2, <3>3
      <4>2. CASE ~(j <= k)
        <5>1. j = k + 1 /\ j - k = 1
          BY <4>2
        <5> QED
          BY <5>1, <4>2, <3>3, <2>1
      <4> QED
        BY <4>1, <4>2
    <3> QED
      BY <3>1, <3>3, <3>4 DEF r
  <2> QED
    BY <2>3, <2>4
<1>8. Nat \subseteq A
  <2> HIDE DEF A
  <2> QED
    BY <1>6, <1>7, NumberInduction
<1>9. run[n] \in Seq(S) /\ Len(run[n]) = n /\ \A j \in 1..n : run[n][j] = e[j]
  BY <1>1, <1>8
<1>10. run[n] = e
  <2> DEFINE r == run[n]
  <2>1. r \in Seq(S) /\ Len(r) = Len(e) /\ \A j \in 1..Len(r) : r[j] = e[j]
    BY <1>9
  <2> HIDE DEF r
  <2>2. r = e
    BY <2>1, SeqEqual
  <2> QED
    BY <2>2 DEF r
<1> QED
  BY <1>3, <1>10

\* What two lists hold, one after the other.
LEMMA ConcatHolds ==
    ASSUME NEW T, NEW s \in Seq(T), NEW t \in Seq(T)
    PROVE  Metrics!ToSet(s \o t) = Metrics!ToSet(s) \cup Metrics!ToSet(t)
<1>1. /\ DOMAIN s = 1..Len(s) /\ DOMAIN t = 1..Len(t) /\ Len(s) \in Nat /\ Len(t) \in Nat
      /\ DOMAIN (s \o t) = 1..Len(s) + Len(t)
      /\ \A i \in 1..Len(s) + Len(t) : (s \o t)[i] = IF i <= Len(s) THEN s[i] ELSE t[i - Len(s)]
  BY ConcatProperties, LenProperties
<1> DEFINE u == s \o t
<1> HIDE DEF u
<1>2. /\ \A i \in DOMAIN s : i \in DOMAIN u /\ u[i] = s[i]
      /\ \A i \in DOMAIN t : i + Len(s) \in DOMAIN u /\ u[i + Len(s)] = t[i]
      /\ \A i \in DOMAIN u : \/ i \in DOMAIN s /\ u[i] = s[i]
                             \/ i - Len(s) \in DOMAIN t /\ u[i] = t[i - Len(s)]
  BY <1>1 DEF u
<1>3. Metrics!ToSet(u) = Metrics!ToSet(s) \cup Metrics!ToSet(t)
  <2>1. ASSUME NEW x \in Metrics!ToSet(u) PROVE x \in Metrics!ToSet(s) \cup Metrics!ToSet(t)
    BY <2>1, <1>2 DEF Metrics!ToSet
  <2>2. ASSUME NEW x \in Metrics!ToSet(s) \cup Metrics!ToSet(t) PROVE x \in Metrics!ToSet(u)
    BY <2>2, <1>2 DEF Metrics!ToSet
  <2> QED
    BY <2>1, <2>2
<1> QED
  BY <1>3 DEF u

\* Selected is the same operator there.
LEMMA MetricsSelected == \A s, S : Metrics!Selected(s, S) = Selected(s, S)
  BY DEF Metrics!Selected, Selected

\* The tags of a row: its service, its tags and its text attributes, and no
\* other.
LEMMA TagsOfReading ==
    ASSUME NEW row, ~row.null, Metrics!RowIsTyped(row), row.attributes # Malformed
    PROVE  LET service    == IF row.service = Null THEN {} ELSE {<<"service", row.service>>}
               attributes == IF row.attributes = Null THEN {} ELSE Metrics!Range(row.attributes)
           IN  Metrics!Range(Metrics!CollectTags(row)) =
                  service \cup Metrics!Range(row.ddtags) \cup {tag \in attributes : tag[2] # Null}
<1> DEFINE mine == <<"service", row.service>>
           T == {mine} \cup Range(row.ddtags) \cup Range(row.attributes)
           a == IF row.service = Null THEN <<>> ELSE <<mine>>
           b == row.ddtags
           c == Metrics!AttributeTags(row.attributes)
           texts == {tag \in Range(row.attributes) : tag[2] # Null}
<1>1. Metrics!CollectTags(row) = (a \o b) \o c
  BY DEF Metrics!CollectTags
<1>2. b \in Seq(T)
  <2>1. b \in Seq(Range(b))
    BY DEF Metrics!RowIsTyped, Metrics!Range, Range
  <2> HIDE DEF b
  <2>2. Range(b) \subseteq T
    BY DEF b
  <2> HIDE DEF T
  <2> QED
    BY <2>1, <2>2, SeqMonotonic
<1>3. a \in Seq(T)
  <2>1. mine \in T
    OBVIOUS
  <2> HIDE DEF T, mine
  <2> QED
    BY <2>1, EmptySeq
<1>4. row.attributes # Null => row.attributes \in Seq(Range(row.attributes))
  BY DEF Metrics!RowIsTyped, Metrics!Range, Range
<1>5. row.attributes # Null => c = Selected(row.attributes, texts)
  <2>1. row.attributes # Null => c = Metrics!Selected(row.attributes, texts)
    BY DEF Metrics!AttributeTags, Metrics!Range, Range
  <2> QED
    BY <2>1, MetricsSelected
<1>6. c \in Seq(T)
  <2>1. CASE row.attributes = Null
    <3>1. c = <<>>
      BY <2>1 DEF Metrics!AttributeTags
    <3> QED
      BY <3>1, EmptySeq
  <2>2. CASE row.attributes # Null
    <3> DEFINE U == Range(row.attributes)
    <3>1. row.attributes \in Seq(U) /\ U \subseteq T
      BY <1>4, <2>2
    <3> HIDE DEF U, T, texts, c
    <3>2. c \in Seq(U \cap texts)
      BY <1>5, <2>2, <3>1, SelectedType
    <3> QED
      BY <3>1, <3>2, SeqMonotonic
  <2> QED
    BY <2>1, <2>2
<1> DEFINE service == IF row.service = Null THEN {} ELSE {mine}
           attributes == IF row.attributes = Null THEN {} ELSE Metrics!Range(row.attributes)
<1>7. Metrics!ToSet(c) = {tag \in attributes : tag[2] # Null}
  <2>1. CASE row.attributes = Null
    <3>1. c = <<>>
      BY <2>1 DEF Metrics!AttributeTags
    <3> QED
      BY <2>1, <3>1 DEF Metrics!ToSet
  <2>2. CASE row.attributes # Null
    <3> DEFINE s == row.attributes
               U == Range(s)
    <3>1. s \in Seq(U) /\ c = Selected(s, texts) /\ s \in Seq(Range(s))
      BY <1>4, <1>5, <2>2
    <3>2. {tag \in attributes : tag[2] # Null} = U \cap texts
      BY <2>2 DEF Metrics!Range, Range
    <3>3. \A x \in U \cap texts : \E i \in DOMAIN s : s[i] = x /\ s[i] \in texts
      BY DEF Range
    <3> HIDE DEF s, U, texts, c
    <3>4. c \in Seq(U \cap texts)
      BY <3>1, SelectedType
    <3>5. \A j \in DOMAIN c : c[j] \in U \cap texts
      BY <3>4, ElementOfSeq, LenProperties
    <3>6. ASSUME NEW x \in U \cap texts PROVE \E j \in DOMAIN c : c[j] = x
      BY <3>1, <3>3, SelectedHolds
    <3> QED
      BY <3>2, <3>5, <3>6 DEF Metrics!ToSet
  <2> QED
    BY <2>1, <2>2
<1>8. Metrics!ToSet(a) = service /\ Metrics!ToSet(b) = Metrics!Range(row.ddtags)
  BY DEF Metrics!ToSet, Metrics!Range
<1>9. \A u : Metrics!Range(u) = Metrics!ToSet(u)
  BY DEF Metrics!ToSet, Metrics!Range
<1> DEFINE ab == a \o b
<1> HIDE DEF a, b, c, T
<1>10. Metrics!ToSet(ab) = Metrics!ToSet(a) \cup Metrics!ToSet(b) /\ ab \in Seq(T)
  BY <1>2, <1>3, ConcatHolds, ConcatProperties
<1> HIDE DEF ab
<1>11. Metrics!ToSet(ab \o c) = Metrics!ToSet(ab) \cup Metrics!ToSet(c)
  BY <1>6, <1>10, ConcatHolds
<1> QED
  BY <1>1, <1>7, <1>8, <1>9, <1>10, <1>11 DEF ab

\* What the listener stores of a point is what its row says.
LEMMA StoredIsReading ==
    ASSUME NEW r \in DOMAIN readings, Metrics!IsPoint(readings[r]),
           Metrics!RowIsTyped(readings[r])
    PROVE  Metrics!IsReadingOf(Metrics!Stored(Metrics!PointOf(r)), readings[r])
<1> DEFINE row == readings[r]
           point == Metrics!PointOf(r)
           seconds == Metrics!ReadTimestampSeconds(row.time)
<1>1. /\ point.name = row.name /\ point.value = row.value /\ point.unit = row.unit
      /\ point.timestamp_seconds = IF seconds = Null THEN Now ELSE seconds
      /\ point.tags = Metrics!CollectTags(row)
  BY DEF Metrics!PointOf
<1> HIDE DEF point
<1> DEFINE stored_row == Metrics!Stored(point)
<1>2. /\ stored_row.metric = row.name /\ stored_row.value = row.value /\ stored_row.unit = row.unit
      /\ stored_row.type = Metrics!Gauge
      /\ stored_row.timestamp_seconds = IF seconds = Null THEN Now ELSE seconds
      /\ stored_row.tags = Metrics!CollectTags(row)
  BY <1>1 DEF Metrics!Stored, Metrics!ParseSeriesEntry, Metrics!Entry, Metrics!GetReal
<1> HIDE DEF stored_row
<1>3. ~row.null /\ row.attributes # Malformed
  BY DEF Metrics!IsPoint, Metrics!Unreadable, Metrics!HasReading
<1> DEFINE unit == IF isNanos \/ (row.time # Null /\ row.time # Malformed /\ ~row.time.integral)
                   THEN NanosPerSecond ELSE MillisPerSecond
<1>4. IF row.time \in {Null, Malformed} THEN stored_row.timestamp_seconds = Now
      ELSE LET off == row.time.epoch - stored_row.timestamp_seconds * unit
           IN  -unit < off /\ off < unit
  <2>1. CASE row.time \in {Null, Malformed}
    BY <2>1, <1>2 DEF Metrics!ReadTimestampSeconds
  <2>2. CASE row.time \notin {Null, Malformed}
    <3>1. row.time.epoch \in Int
      BY <1>3, <2>2 DEF Metrics!RowIsTyped
    <3>2. unit \in Nat \ {0}
      BY MetricsAssumption DEF Metrics!BoundsAssumption
    <3>3. seconds = Metrics!TruncatedDiv(row.time.epoch, unit)
      BY <2>2 DEF Metrics!ReadTimestampSeconds
    <3> HIDE DEF unit, seconds
    <3>4. /\ seconds \in Int
          /\ -unit < row.time.epoch - seconds * unit
          /\ row.time.epoch - seconds * unit < unit
      BY <3>1, <3>2, <3>3, TruncationIsClose
    <3>5. stored_row.timestamp_seconds = IF seconds = Null THEN Now ELSE seconds
      BY <1>2
    <3>6. seconds # Null
      BY <3>4, MetricsAssumption DEF Metrics!BoundsAssumption
    <3> QED
      BY <2>2, <3>4, <3>5, <3>6
  <2> QED
    BY <2>1, <2>2
<1> DEFINE service == IF row.service = Null THEN {} ELSE {<<"service", row.service>>}
           attributes == IF row.attributes = Null THEN {} ELSE Metrics!Range(row.attributes)
<1>5. Metrics!Range(stored_row.tags) =
         service \cup Metrics!Range(row.ddtags) \cup {tag \in attributes : tag[2] # Null}
  BY <1>2, <1>3, TagsOfReading
<1> QED
  BY <1>2, <1>4, <1>5 DEF Metrics!IsReadingOf, stored_row, point

\* An entry of this sender holds one sample, and becomes one row.
LEMMA OneRowPerEntry ==
    ASSUME NEW point
    PROVE  Metrics!ParseSeriesEntry(Metrics!Entry(point)) = <<Metrics!Stored(point)>>
<1> DEFINE entry == Metrics!Entry(point)
           parsed == Metrics!ParseSeriesEntry(entry)
           Sample(i) == [metric            |-> entry.metric,
                         timestamp_seconds |-> entry.points[i].timestamp,
                         value             |-> Metrics!GetReal(entry.points[i].value),
                         type              |-> entry.type,
                         unit              |-> entry.unit,
                         tags              |-> entry.tags]
<1>1. DOMAIN entry.points = {1}
  BY DEF Metrics!Entry
<1> HIDE DEF entry
<1>2. parsed = [i \in DOMAIN entry.points |-> Sample(i)]
  BY DEF Metrics!ParseSeriesEntry
<1> HIDE DEF Sample
<1>3. parsed = [i \in {1} |-> Sample(i)]
  BY <1>1, <1>2
<1>4. parsed[1] = Metrics!Stored(point)
  BY DEF Metrics!Stored, entry
<1> HIDE DEF parsed
<1>5. parsed = <<parsed[1]>>
  <2>1. DOMAIN parsed = 1..1
    BY <1>3
  <2> DEFINE x == parsed[1]
             T == {x}
  <2>2. parsed \in [1..1 -> T] /\ x \in T
    BY <1>3, <2>1
  <2>3. parsed[1] = x
    OBVIOUS
  <2> HIDE DEF parsed, x, T
  <2>4. parsed \in Seq(T)
    BY <2>2, FunctionsAreSequences
  <2>5. Len(parsed) = 1
    BY <2>1, <2>4, LenProperties
  <2>6. <<x>> \in Seq(T) /\ Len(<<x>>) = 1 /\ <<x>>[1] = x
    BY <2>2
  <2>7. parsed = <<x>>
    BY <2>3, <2>4, <2>5, <2>6, SeqEqual
  <2> QED
    BY <2>7 DEF x
<1> QED
  BY <1>4, <1>5 DEF parsed, entry

\* What the listener makes of a batch: the rows of its points, in order.
LEMMA ParsedBatch ==
    ASSUME NEW S, NEW n \in Nat \ {0}, NEW p, NEW e \in Seq(S), Len(e) = n,
           NEW entries, DOMAIN entries = 1..n,
           \A i \in 1..n : entries[i] = Metrics!Entry(p[i]) /\ e[i] = Metrics!Stored(p[i])
    PROVE  Metrics!ParseSeriesBody(entries) = e
<1>2. [i \in DOMAIN entries |-> Metrics!ParseSeriesEntry(entries[i])] = [i \in 1..n |-> <<e[i]>>]
  <2>1. \A i \in 1..n : Metrics!ParseSeriesEntry(Metrics!Entry(p[i])) = <<e[i]>>
    BY OneRowPerEntry
  <2> QED
    BY <2>1, Zenon
<1>3. Metrics!FlattenSeq([i \in 1..Len(e) |-> <<e[i]>>]) = e
  <2>1. e \in Seq(S) /\ Len(e) # 0
    OBVIOUS
  <2> QED
    BY <2>1, FlattenedSingles
<1>4. Metrics!ParseSeriesBody(entries) = e
  <2>1. Metrics!FlattenSeq([i \in 1..n |-> <<e[i]>>]) = e
    BY <1>3, Zenon
  <2>2. Metrics!ParseSeriesBody(entries)
           = Metrics!FlattenSeq([i \in DOMAIN entries |-> Metrics!ParseSeriesEntry(entries[i])])
    BY DEF Metrics!ParseSeriesBody
  <2> QED
    BY <1>2, <2>1, <2>2, Zenon
<1> QED
  BY <1>4

\* The next batch is as many of the points that remain as fit,
\* and at least one.
LEMMA NextBatchIsNext ==
    ASSUME NEW S, points \in Seq(S), offset \in Nat, offset < Len(points)
    PROVE  \E n \in Nat \ {0} :
               /\ offset + n <= Len(points) /\ ~Metrics!Fits(offset, n + 1)
               /\ Len(Metrics!NextBatch) = n /\ DOMAIN Metrics!NextBatch = 1..n
               /\ \A i \in 1..n : Metrics!NextBatch[i] = points[offset + i]
<1>0. Len(points) \in Nat /\ MaxBatch \in Nat \ {0}
  BY LenProperties, MetricsAssumption DEF Metrics!BoundsAssumption
<1> DEFINE Ends(n) == n \in 1..Len(points) /\ Metrics!Fits(offset, n) /\ ~Metrics!Fits(offset, n + 1)
           A == {n \in Nat : n # 0 /\ ~Metrics!Fits(offset, n + 1)}
<1>1. Metrics!Fits(offset, 1)
  <2>1. 2..1 = {}
    OBVIOUS
  <2>2. \A n \in 2..1 : Metrics!Estimate(Metrics!SubSeq(points, offset + 1, offset + n)) <= MaxBatchBytes
    BY <2>1
  <2> QED
    BY <1>0, <2>2 DEF Metrics!Fits
<1>2. \A n : Metrics!Fits(offset, n) => offset + n <= Len(points)
  BY DEF Metrics!Fits
<1>3. \E n : Ends(n)
  <2>1. Len(points) \in A
    <3>1. ~(offset + (Len(points) + 1) <= Len(points)) /\ Len(points) # 0
      BY <1>0
    <3> QED
      BY <1>0, <1>2, <3>1
  <2>2. PICK n \in A : \A m \in A : n <= m
    <3>1. A \in SUBSET Nat /\ A # {}
      BY <2>1
    <3> HIDE DEF A
    <3> QED
      BY <3>1, LeastElement
  <2>3. Metrics!Fits(offset, n)
    <3>1. CASE n = 1
      BY <1>1, <3>1
    <3>2. CASE n # 1
      <4>1. n - 1 \in Nat /\ n - 1 # 0 /\ n - 1 + 1 = n /\ ~(n <= n - 1)
        BY <3>2
      <4>2. n - 1 \notin A
        BY <2>2, <4>1
      <4> QED
        BY <4>1, <4>2
    <3> QED
      BY <3>1, <3>2
  <2>4. n \in 1..Len(points)
    BY <2>3, <1>0, <1>2
  <2> QED
    BY <2>2, <2>3, <2>4
<1> DEFINE n == CHOOSE n \in 1..Len(points) : Metrics!Fits(offset, n) /\ ~Metrics!Fits(offset, n + 1)
<1>4. Ends(n)
  BY <1>3
<1>5. Metrics!NextBatch = SubSeq(points, offset + 1, offset + n)
  BY DEF Metrics!NextBatch
<1> HIDE DEF n
<1>6. n \in Nat \ {0} /\ offset + n <= Len(points) /\ ~Metrics!Fits(offset, n + 1)
      /\ offset \in 0..Len(points)
      /\ offset + n \in offset..Len(points) /\ offset + n - offset = n
  BY <1>0, <1>2, <1>4
<1> DEFINE last == offset + n
           batch == SubSeq(points, offset + 1, last)
<1>7. /\ batch \in Seq(S) /\ Len(batch) = last - offset
      /\ \A i \in 1..last - offset : batch[i] = points[offset + i]
  <2>1. offset \in 0..Len(points) /\ last \in offset..Len(points) /\ points \in Seq(S)
    BY <1>6
  <2> HIDE DEF last
  <2> QED
    BY <2>1, Halves
<1>8. DOMAIN batch = 1..Len(batch)
  <2> HIDE DEF batch
  <2> QED
    BY <1>7, LenProperties
<1>9. last - offset = n
  BY <1>6
<1>10. Metrics!NextBatch = batch
  BY <1>5
<1> HIDE DEF batch, last
<1>11. /\ Len(batch) = n /\ DOMAIN batch = 1..n
       /\ \A i \in 1..n : batch[i] = points[offset + i]
  BY <1>7, <1>8, <1>9, Zenon
<1> QED
  BY <1>6, <1>10, <1>11, Zenon

\* The points that rows can become, and what is stored of them, are the same
\* as long as the chunk is.
LEMMA ChunkStays ==
    ASSUME UNCHANGED <<isNanos, readings>>
    PROVE  /\ Metrics!PointRows' = Metrics!PointRows
           /\ \A r : Metrics!PointOf(r)' = Metrics!PointOf(r)
BY DEF Metrics!PointRows, Metrics!PointOf, Metrics!ReadTimestampSeconds

\* What a step that reads no row preserves: it gives no result to a row that
\* is no point.
LEMMA ReadingStays ==
    ASSUME Metrics!RowsAreRead, UNCHANGED <<isNanos, readings, next_reading, points>>,
           \A r \in DOMAIN readings :
               ~Metrics!IsPoint(readings[r]) => metric_results'[r] = metric_results[r]
    PROVE  Metrics!RowsAreRead'
<1>1. {Metrics!PointOf(r) : r \in Metrics!PointRows}' = {Metrics!PointOf(r) : r \in Metrics!PointRows}
  BY ChunkStays
<1> QED
  BY <1>1 DEF Metrics!RowsAreRead, Metrics!RowOf

\* What a step that neither sends nor stores preserves.
LEMMA SendingStays ==
    ASSUME Metrics!PointsAreAcknowledged, Metrics!TableIsTheirs,
           UNCHANGED <<isNanos, readings, points, metric_results, offset, table>>,
           body' # <<>> => body' = body,
           metric_phase' = "reading" => metric_phase = "reading" /\ body' = <<>>,
           metric_phase' \in {"sending", "done"} => next_reading' \notin DOMAIN readings,
           metric_phase' = "done" => offset = Len(points) /\ body' = <<>>,
           metric_phase = "failed" => metric_phase' = "failed"
    PROVE  Metrics!PointsAreAcknowledged' /\ Metrics!TableIsTheirs'
<1>1. {Metrics!Stored(Metrics!PointOf(r)) : r \in Metrics!PointRows}'
         = {Metrics!Stored(Metrics!PointOf(r)) : r \in Metrics!PointRows}
  BY ChunkStays DEF Metrics!Stored
<1>2. Metrics!TableIsTheirs'
  BY <1>1 DEF Metrics!TableIsTheirs, Metrics!Stored
<1>3. Metrics!PointsAreAcknowledged'
  BY DEF Metrics!PointsAreAcknowledged, Metrics!RowOf
<1> QED
  BY <1>2, <1>3

\* While rows are read nothing is acknowledged and nothing is stored.
LEMMA NothingIsSent ==
    ASSUME Metrics!SendInv, metric_phase = "reading"
    PROVE  /\ offset = 0 /\ body = <<>> /\ table = <<>>
           /\ \A r \in DOMAIN readings : metric_results[r] # "ok"
BY DEF Metrics!SendInv, Metrics!RowsFirst, Metrics!PointsAreAcknowledged, Metrics!NothingSent

\* A step that reads a row keeps that so.
LEMMA NothingSentHolds ==
    ASSUME UNCHANGED <<isNanos, readings, offset, body, table, metric_phase>>,
           offset = 0, body = <<>>, table = <<>>, metric_phase = "reading",
           Len(points') \in Nat,
           \A r \in DOMAIN readings : metric_results'[r] # "ok"
    PROVE  Metrics!PointsAreAcknowledged' /\ Metrics!TableIsTheirs'
<1>1. 1..0 = {} /\ 0 \in 0..Len(points') /\ Len(<<>>) = 0
  OBVIOUS
<1>2. Metrics!PointsAreAcknowledged'
  BY <1>1 DEF Metrics!PointsAreAcknowledged
<1>3. table' \in Seq({Metrics!Stored(Metrics!PointOf(r)) : r \in Metrics!PointRows}')
  BY EmptySeq
<1> QED
  BY <1>1, <1>2, <1>3 DEF Metrics!TableIsTheirs

\* A row without a reading becomes no point.
LEMMA SkippedRow ==
    ASSUME Metrics!SendInv, Metrics!SkipRow
    PROVE  Metrics!SendInv'
<1> USE DEF Metrics!SendInv
<1>1. /\ UNCHANGED <<isNanos, readings, points, offset, body, metric_phase, table>>
      /\ metric_phase = "reading" /\ next_reading \in DOMAIN readings
      /\ next_reading' = next_reading + 1
      /\ metric_results' = [metric_results EXCEPT ![next_reading] = Null]
      /\ ~Metrics!IsPoint(readings[next_reading])
  BY DEF Metrics!SkipRow, Metrics!InChunk, Metrics!IsPoint, Metrics!HasReading
<1>2. DOMAIN readings = 1..Len(readings) /\ Len(readings) \in Nat /\ DOMAIN metric_results = DOMAIN readings
  BY DEF Metrics!RowsFirst
<1>3. /\ metric_results'[next_reading] = Null
      /\ \A r \in DOMAIN readings : r # next_reading => metric_results'[r] = metric_results[r]
      /\ \A r \in DOMAIN readings : r < next_reading + 1 => r < next_reading \/ r = next_reading
      /\ next_reading \in Nat /\ \A r \in DOMAIN readings : r \in Nat
  BY <1>1, <1>2
<1>4. Metrics!RowsAreRead'
  <2>1. {Metrics!PointOf(r) : r \in Metrics!PointRows}' = {Metrics!PointOf(r) : r \in Metrics!PointRows}
    BY <1>1, ChunkStays
  <2>2. points \in Seq({Metrics!PointOf(r) : r \in Metrics!PointRows})
    BY DEF Metrics!RowsAreRead
  <2>3. \A i \in DOMAIN points : Metrics!RowOf(i)' = Metrics!RowOf(i)
    BY <1>1 DEF Metrics!RowOf
  <2>4. \A i \in DOMAIN points : Metrics!RowOf(i) \in DOMAIN readings
    <3>1. \A i \in DOMAIN points : points[i] \in {Metrics!PointOf(r) : r \in Metrics!PointRows}
      BY <2>2, ElementOfSeq, LenProperties
    <3> QED
      BY <3>1 DEF Metrics!RowOf, Metrics!PointOf, Metrics!PointRows
  <2>5. \A i \in DOMAIN points : Metrics!RowOf(i) < next_reading + 1
    BY <1>3, <2>4 DEF Metrics!RowsAreRead
  <2>6. \A r \in DOMAIN readings : r < next_reading + 1 =>
           IF Metrics!IsPoint(readings[r]) THEN \E i \in DOMAIN points : Metrics!RowOf(i) = r
           ELSE metric_results'[r] = Null
    BY <1>1, <1>3 DEF Metrics!RowsAreRead
  <2> QED
    BY <1>1, <2>1, <2>3, <2>5, <2>6 DEF Metrics!RowsAreRead
<1>5. Metrics!PointsAreAcknowledged' /\ Metrics!TableIsTheirs'
  <2>1. Null # "ok"
    BY MetricsAssumption DEF Metrics!BoundsAssumption
  <2>2. \A r \in DOMAIN readings : metric_results'[r] # "ok"
    BY <1>1, <1>3, <2>1, NothingIsSent
  <2>3. Len(points') \in Nat
    BY <1>1, LenProperties DEF Metrics!RowsAreRead
  <2> QED
    BY <1>1, <2>2, <2>3, NothingIsSent, NothingSentHolds
<1>6. Metrics!RowsFirst'
  BY MetricsStepKeeps DEF Metrics!Next
<1> QED
  BY <1>4, <1>5, <1>6

\* A row with a reading becomes the last point.
LEMMA AddedPoint ==
    ASSUME Metrics!SendInv, Metrics!AddPoint
    PROVE  Metrics!SendInv'
<1> USE DEF Metrics!SendInv
<1>1. /\ UNCHANGED <<isNanos, readings, metric_results, offset, body, metric_phase, table>>
      /\ metric_phase = "reading" /\ next_reading \in DOMAIN readings
      /\ next_reading' = next_reading + 1
      /\ points' = Append(points, Metrics!PointOf(next_reading))
      /\ Metrics!IsPoint(readings[next_reading])
  BY DEF Metrics!AddPoint, Metrics!InChunk, Metrics!IsPoint, Metrics!HasReading, Metrics!Unreadable
<1>2. DOMAIN readings = 1..Len(readings) /\ Len(readings) \in Nat
  BY DEF Metrics!RowsFirst
<1>3. /\ \A r \in DOMAIN readings : r < next_reading + 1 => r < next_reading \/ r = next_reading
      /\ next_reading \in Nat /\ \A r \in DOMAIN readings : r \in Nat
      /\ next_reading < next_reading + 1
      /\ \A n \in Nat : n < next_reading => n < next_reading + 1
  BY <1>1, <1>2
<1> DEFINE S == {Metrics!PointOf(r) : r \in Metrics!PointRows}
           point == Metrics!PointOf(next_reading)
           more == Append(points, point)
<1>4. S' = S
  BY <1>1, ChunkStays
<1>5. points \in Seq(S) /\ point \in S /\ point.source_row = next_reading
  BY <1>1 DEF Metrics!RowsAreRead, Metrics!PointRows, Metrics!PointOf
<1>6. \A i \in DOMAIN points : points[i] \in S
  <2> HIDE DEF S
  <2> QED
    BY <1>5, ElementOfSeq, LenProperties
<1>7. \A i \in DOMAIN points : points[i].source_row \in DOMAIN readings
                               /\ points[i].source_row < next_reading
  BY <1>6 DEF Metrics!RowsAreRead, Metrics!RowOf, Metrics!PointOf, Metrics!PointRows
<1>8. \A i, j \in DOMAIN points : i < j => points[i].source_row < points[j].source_row
  BY DEF Metrics!RowsAreRead, Metrics!RowOf
<1> HIDE DEF S, point
<1>9. /\ more \in Seq(S) /\ DOMAIN more = 1..Len(points) + 1 /\ Len(more) = Len(points) + 1
      /\ Len(points) \in Nat /\ DOMAIN points = 1..Len(points)
      /\ more[Len(points) + 1] = point /\ \A i \in DOMAIN points : more[i] = points[i]
  BY <1>5, AppendProperties, LenProperties
<1> HIDE DEF more
<1>10. \A i \in DOMAIN more : \/ i \in DOMAIN points /\ more[i] = points[i]
                              \/ i = Len(points) + 1 /\ more[i] = point
  BY <1>9
<1>11. points' = more
  BY <1>1 DEF more, point
<1>12. Metrics!RowsAreRead'
  <2>1. \A r \in DOMAIN readings : Metrics!RowIsTyped(readings[r])
    BY DEF Metrics!RowsAreRead
  <2>2. \A i \in DOMAIN more : more[i].source_row < next_reading + 1
    BY <1>3, <1>5, <1>7, <1>10
  <2>3. ASSUME NEW i \in DOMAIN more, NEW j \in DOMAIN more, i < j
        PROVE  more[i].source_row < more[j].source_row
    <3>1. i \in DOMAIN points
      BY <1>9, <2>3
    <3>2. CASE j \in DOMAIN points
      BY <1>8, <1>9, <2>3, <3>1, <3>2
    <3>3. CASE j = Len(points) + 1
      BY <1>5, <1>7, <1>9, <3>1, <3>3
    <3> QED
      BY <1>10, <3>2, <3>3
  <2>4. ASSUME NEW r \in DOMAIN readings, r < next_reading + 1
        PROVE  IF Metrics!IsPoint(readings[r]) THEN \E i \in DOMAIN more : more[i].source_row = r
               ELSE metric_results[r] = Null
    <3>1. CASE r < next_reading
      <4>1. IF Metrics!IsPoint(readings[r]) THEN \E i \in DOMAIN points : points[i].source_row = r
            ELSE metric_results[r] = Null
        BY <3>1 DEF Metrics!RowsAreRead, Metrics!RowOf
      <4>2. \A i \in DOMAIN points : i \in DOMAIN more
        BY <1>9
      <4> QED
        BY <4>1, <4>2, <1>9
    <3>2. CASE r = next_reading
      <4>1. Len(points) + 1 \in DOMAIN more
        BY <1>9
      <4> QED
        BY <1>1, <1>5, <1>9, <3>2, <4>1
    <3> QED
      BY <1>3, <2>4, <3>1, <3>2
  <2>5. points' \in Seq({Metrics!PointOf(r) : r \in Metrics!PointRows})'
    BY <1>4, <1>9, <1>11 DEF S
  <2> QED
    BY <1>1, <1>11, <2>1, <2>2, <2>3, <2>4, <2>5 DEF Metrics!RowsAreRead, Metrics!RowOf
<1>13. Metrics!PointsAreAcknowledged' /\ Metrics!TableIsTheirs'
  <2>1. Len(points') \in Nat
    BY <1>9, <1>11
  <2>2. \A r \in DOMAIN readings : metric_results'[r] # "ok"
    BY <1>1, NothingIsSent
  <2> QED
    BY <1>1, <2>1, <2>2, NothingIsSent, NothingSentHolds
<1>14. Metrics!RowsFirst'
  BY MetricsStepKeeps DEF Metrics!Next
<1> QED
  BY <1>12, <1>13, <1>14

\* What the steps preserve that read no row and change no table.
LEMMA QuietSteps ==
    ASSUME Metrics!SendInv,
           \/ Metrics!RefuseRow \/ Metrics!StartSending \/ Metrics!BuildBatch
           \/ Metrics!RefuseBatch \/ Metrics!Finish
           \/ \E entry \in ForeignEntries : Metrics!ForeignPost(entry)
    PROVE  Metrics!SendInv'
<1> USE DEF Metrics!SendInv
<1>1. UNCHANGED <<isNanos, readings, next_reading, points, metric_results, offset, table>>
  BY DEF Metrics!RefuseRow, Metrics!StartSending, Metrics!BuildBatch, Metrics!RefuseBatch,
         Metrics!Finish, Metrics!ForeignPost
<1>2. Metrics!RowsAreRead'
  BY <1>1, ReadingStays
<1>3. Metrics!RowsFirst'
  BY MetricsStepKeeps DEF Metrics!Next
<1>4. CASE Metrics!BuildBatch
  <2>1. /\ UNCHANGED metric_phase /\ metric_phase = "sending" /\ offset < Len(points)
        /\ body' = [i \in DOMAIN Metrics!NextBatch |-> Metrics!Entry(Metrics!NextBatch[i])]
    BY <1>4 DEF Metrics!BuildBatch, Metrics!BatchIsDue
  <2> DEFINE S == {Metrics!PointOf(r) : r \in Metrics!PointRows}
             batch == Metrics!NextBatch
  <2>2. points \in Seq(S) /\ offset \in Nat
    <3>1. Len(points) \in Nat
      BY LenProperties DEF Metrics!RowsAreRead
    <3> QED
      BY <3>1 DEF Metrics!RowsAreRead, Metrics!PointsAreAcknowledged
  <2> HIDE DEF S
  <2>3. PICK n \in Nat \ {0} :
          /\ offset + n <= Len(points) /\ Len(batch) = n /\ DOMAIN batch = 1..n
          /\ \A i \in 1..n : batch[i] = points[offset + i]
    BY <2>1, <2>2, NextBatchIsNext
  <2> HIDE DEF batch
  <2>4. body' = [i \in 1..n |-> Metrics!Entry(points[offset + i])]
    <3>1. body' = [i \in 1..n |-> Metrics!Entry(batch[i])]
      BY <2>1, <2>3 DEF batch
    <3> QED
      BY <2>3, <3>1
  <2>5. Len(body') = n
    BY <2>4
  <2>6. Metrics!TableIsTheirs'
    <3>1. {Metrics!Stored(Metrics!PointOf(r)) : r \in Metrics!PointRows}'
             = {Metrics!Stored(Metrics!PointOf(r)) : r \in Metrics!PointRows}
      BY <1>1, ChunkStays DEF Metrics!Stored
    <3> QED
      BY <1>1, <2>1, <3>1 DEF Metrics!TableIsTheirs, Metrics!Stored
  <2>7. Metrics!PointsAreAcknowledged'
    <3>1. body' = [i \in 1..Len(body') |-> Metrics!Entry(points[offset + i])]
      BY <2>4, <2>5
    <3>2. /\ offset \in 0..Len(points)
          /\ \A r \in DOMAIN readings :
                metric_results[r] = "ok" <=> \E i \in 1..offset : points[i].source_row = r
          /\ next_reading \notin DOMAIN readings
      BY <2>1 DEF Metrics!PointsAreAcknowledged, Metrics!RowOf
    <3>3. Len(body') \in Nat /\ offset + Len(body') <= Len(points)
      BY <2>3, <2>5
    <3> QED
      BY <1>1, <2>1, <3>1, <3>2, <3>3 DEF Metrics!PointsAreAcknowledged, Metrics!RowOf, Metrics!Entry
  <2> QED
    BY <1>2, <1>3, <2>6, <2>7
<1>5. CASE Metrics!RefuseRow
  BY <1>1, <1>2, <1>3, <1>5, SendingStays DEF Metrics!RefuseRow, Metrics!InChunk
<1>6. CASE Metrics!StartSending
  BY <1>1, <1>2, <1>3, <1>6, SendingStays DEF Metrics!StartSending, Metrics!AllRowsRead
<1>7. CASE Metrics!Finish
  <2>1. next_reading \notin DOMAIN readings
    BY <1>7 DEF Metrics!Finish, Metrics!PointsAreAcknowledged
  <2> QED
    BY <1>1, <1>2, <1>3, <1>7, <2>1, SendingStays DEF Metrics!Finish
<1>8. CASE \E entry \in ForeignEntries : Metrics!ForeignPost(entry)
  <2>1. UNCHANGED <<body, metric_phase>>
    BY <1>8 DEF Metrics!ForeignPost
  <2>2. /\ metric_phase = "reading" => body = <<>>
        /\ metric_phase \in {"sending", "done"} => next_reading \notin DOMAIN readings
        /\ metric_phase = "done" => offset = Len(points) /\ body = <<>>
    BY DEF Metrics!PointsAreAcknowledged
  <2> QED
    BY <1>1, <1>2, <1>3, <2>1, <2>2, SendingStays
<1>9. CASE Metrics!RefuseBatch
  BY <1>1, <1>2, <1>3, <1>9, SendingStays DEF Metrics!RefuseBatch, Metrics!BatchIsDue
<1> QED
  BY <1>4, <1>5, <1>6, <1>7, <1>8, <1>9

\* A batch under way is the points after those that are acknowledged, and the
\* table with it holds what is stored of them.
LEMMA BatchUnderWay ==
    ASSUME Metrics!SendInv, body # <<>>, metric_phase = "sending"
    PROVE  \E n \in Nat \ {0} :
               /\ Len(body) = n /\ offset + n \in 0..Len(points)
               /\ Metrics!ParseSeriesBody(body) \in Seq({Metrics!Stored(Metrics!PointOf(r)) : r \in Metrics!PointRows})
               /\ table \o Metrics!ParseSeriesBody(body)
                     \in Seq({Metrics!Stored(Metrics!PointOf(r)) : r \in Metrics!PointRows})
               /\ Len(table \o Metrics!ParseSeriesBody(body)) = offset + n
               /\ \A i \in 1..offset + n :
                      (table \o Metrics!ParseSeriesBody(body))[i] = Metrics!Stored(points[i])
<1> USE DEF Metrics!SendInv
<1> DEFINE S == {Metrics!PointOf(r) : r \in Metrics!PointRows}
           T == {Metrics!Stored(Metrics!PointOf(r)) : r \in Metrics!PointRows}
           n == Len(body)
           p == [i \in 1..n |-> points[offset + i]]
           rows == [i \in 1..n |-> Metrics!Stored(p[i])]
<1>1. points \in Seq(S) /\ Len(points) \in Nat /\ offset \in 0..Len(points)
  <2>1. points \in Seq(S)
    BY DEF Metrics!RowsAreRead
  <2> HIDE DEF S
  <2> QED
    BY <2>1, LenProperties DEF Metrics!PointsAreAcknowledged
<1>2. /\ n \in Nat /\ offset + n <= Len(points)
      /\ body = [i \in 1..n |-> Metrics!Entry(points[offset + i])]
  BY DEF Metrics!PointsAreAcknowledged
<1> HIDE DEF n
<1>3. n # 0
  <2>1. ASSUME n = 0 PROVE body = <<>>
    <3>1. 1..n = {}
      BY <2>1
    <3> QED
      BY <1>2, <3>1
  <2> QED
    BY <2>1
<1>4. body = [i \in 1..n |-> Metrics!Entry(p[i])]
  <2>1. \A i \in 1..n : p[i] = points[offset + i]
    OBVIOUS
  <2> HIDE DEF p
  <2> QED
    BY <1>2, <2>1
<1>5. \A i \in 1..n : Metrics!Stored(p[i]) \in T
  <2>1. \A i \in 1..n : p[i] \in S
    <3>1. \A i \in 1..n : offset + i \in 1..Len(points) /\ p[i] = points[offset + i]
      BY <1>1, <1>2
    <3> HIDE DEF S, p
    <3> QED
      BY <1>1, <3>1, ElementOfSeq
  <2> HIDE DEF p
  <2> QED
    BY <2>1
<1>6. table \in Seq(T) /\ Len(table) = offset /\ \A i \in 1..offset : table[i] = Metrics!Stored(points[i])
  BY DEF Metrics!TableIsTheirs
<1>7. \A i \in 1..n : rows[i] = Metrics!Stored(points[offset + i])
  BY <1>2
<1> HIDE DEF p, T
<1>8. Metrics!ParseSeriesBody(body) = rows /\ rows \in Seq(T) /\ Len(rows) = n
  <2>1. rows \in [1..n -> T] /\ DOMAIN rows = 1..n
    BY <1>5
  <2>2. DOMAIN body = 1..n
    BY <1>4
  <2>3. \A i \in 1..n : body[i] = Metrics!Entry(p[i]) /\ rows[i] = Metrics!Stored(p[i])
    BY <1>4
  <2> HIDE DEF rows
  <2>4. rows \in Seq(T) /\ Len(rows) = n
    <3>1. rows \in Seq(T)
      BY <1>2, <2>1, FunctionsAreSequences
    <3> QED
      BY <1>2, <2>1, <3>1, LenProperties
  <2>5. n \in Nat \ {0}
    BY <1>2, <1>3
  <2> QED
    BY <2>2, <2>3, <2>4, <2>5, ParsedBatch
<1> HIDE DEF rows
<1>9. /\ table \o rows \in Seq(T) /\ Len(table \o rows) = offset + n
      /\ \A i \in 1..offset + n : (table \o rows)[i] = IF i <= offset THEN table[i] ELSE rows[i - offset]
  BY <1>6, <1>8, ConcatLens
<1>10. ASSUME NEW i \in 1..offset + n PROVE (table \o rows)[i] = Metrics!Stored(points[i])
  <2>1. CASE i <= offset
    BY <1>1, <1>6, <1>9, <2>1
  <2>2. CASE ~(i <= offset)
    <3>1. i - offset \in 1..n /\ offset + (i - offset) = i
      BY <1>1, <1>2, <2>2
    <3> QED
      BY <1>7, <1>9, <2>2, <3>1
  <2> QED
    BY <2>1, <2>2
<1>11. offset + n \in 0..Len(points)
  BY <1>1, <1>2
<1> QED
  BY <1>2, <1>3, <1>8, <1>9, <1>10, <1>11 DEF T, n

\* An acknowledged batch gives its rows their results.
LEMMA SentBatch ==
    ASSUME Metrics!SendInv, Metrics!BatchSent
    PROVE  Metrics!SendInv'
<1> USE DEF Metrics!SendInv
<1>1. /\ UNCHANGED <<isNanos, readings, next_reading, points, metric_phase>>
      /\ body # <<>> /\ metric_phase = "sending" /\ body' = <<>>
      /\ offset' = offset + Len(body)
      /\ table' = table \o Metrics!ParseSeriesBody(body)
      /\ metric_results' = [r \in DOMAIN readings |->
             IF \E i \in offset + 1..offset + Len(body) : points[i].source_row = r
             THEN "ok" ELSE metric_results[r]]
  BY DEF Metrics!BatchSent
<1> DEFINE T == {Metrics!Stored(Metrics!PointOf(r)) : r \in Metrics!PointRows}
<1>2. PICK n \in Nat \ {0} :
        /\ Len(body) = n /\ offset + n \in 0..Len(points)
        /\ table' \in Seq(T) /\ Len(table') = offset + n
        /\ \A i \in 1..offset + n : table'[i] = Metrics!Stored(points[i])
  BY <1>1, BatchUnderWay
<1>3. T' = T
  BY <1>1, ChunkStays DEF Metrics!Stored
<1> HIDE DEF T
<1>4. /\ offset \in Nat /\ Len(points) \in Nat /\ DOMAIN points = 1..Len(points)
      /\ \A r \in DOMAIN readings :
            metric_results[r] = "ok" <=> \E i \in 1..offset : points[i].source_row = r
      /\ next_reading \notin DOMAIN readings
  <2>1. Len(points) \in Nat /\ DOMAIN points = 1..Len(points)
    BY LenProperties DEF Metrics!RowsAreRead
  <2> QED
    BY <1>1, <2>1 DEF Metrics!PointsAreAcknowledged, Metrics!RowOf
<1>5. \A i \in DOMAIN points : Metrics!IsPoint(readings[points[i].source_row])
  <2>1. points \in Seq({Metrics!PointOf(r) : r \in Metrics!PointRows})
    BY DEF Metrics!RowsAreRead
  <2>2. \A i \in DOMAIN points : points[i] \in {Metrics!PointOf(r) : r \in Metrics!PointRows}
    BY <1>4, <2>1, ElementOfSeq
  <2> QED
    BY <2>2 DEF Metrics!PointOf, Metrics!PointRows
<1>6. \A i \in 1..offset : i \in 1..offset + n
  BY <1>4
<1>7. /\ \A i \in 1..offset + n : i \in 1..offset \/ i \in offset + 1..offset + n
      /\ \A i \in offset + 1..offset + n : i \in 1..offset + n /\ i \in DOMAIN points
  BY <1>2, <1>4
<1>8. Metrics!RowsAreRead'
  <2>1. ASSUME NEW r \in DOMAIN readings, ~Metrics!IsPoint(readings[r])
        PROVE  metric_results'[r] = metric_results[r]
    <3>1. ~\E i \in offset + 1..offset + n : points[i].source_row = r
      BY <1>5, <1>7, <2>1
    <3> QED
      BY <1>1, <1>2, <3>1
  <2> QED
    BY <1>1, <2>1, ReadingStays
<1>9. Metrics!PointsAreAcknowledged'
  <2>1. ASSUME NEW r \in DOMAIN readings
        PROVE  metric_results'[r] = "ok" <=> \E i \in 1..offset + n : points[i].source_row = r
    <3>1. metric_results'[r] = IF \E i \in offset + 1..offset + n : points[i].source_row = r
                               THEN "ok" ELSE metric_results[r]
      BY <1>1, <1>2
    <3> QED
      BY <1>4, <1>6, <1>7, <3>1
  <2> QED
    BY <1>1, <1>2, <1>4, <2>1 DEF Metrics!PointsAreAcknowledged, Metrics!RowOf
<1>10. Metrics!TableIsTheirs'
  <2>1. table' \in Seq(T')
    BY <1>2, <1>3
  <2>2. \A i \in 1..offset' : table'[i] = Metrics!Stored(points'[i])
    BY <1>1, <1>2
  <2>3. offset' \in Nat /\ Len(table') = offset'
    BY <1>1, <1>2, <1>4
  <2> QED
    BY <1>1, <2>1, <2>2, <2>3 DEF Metrics!TableIsTheirs, T, Metrics!Stored
<1>11. Metrics!RowsFirst'
  BY MetricsStepKeeps DEF Metrics!Next
<1> QED
  BY <1>8, <1>9, <1>10, <1>11

\* A lost answer leaves a batch in the table that no row has a result for.
LEMMA FailedSend ==
    ASSUME Metrics!SendInv, Metrics!SendFails
    PROVE  Metrics!SendInv'
<1> USE DEF Metrics!SendInv
<1>1. /\ UNCHANGED <<isNanos, readings, next_reading, points, metric_results, offset, body>>
      /\ metric_phase = "sending" /\ metric_phase' = "failed"
      /\ \/ table' = table
         \/ body # <<>> /\ table' = table \o Metrics!ParseSeriesBody(body)
  BY DEF Metrics!SendFails
<1> DEFINE T == {Metrics!Stored(Metrics!PointOf(r)) : r \in Metrics!PointRows}
<1>2. T' = T
  BY <1>1, ChunkStays DEF Metrics!Stored
<1>3. /\ offset \in Nat /\ table \in Seq(T) /\ Len(table) = offset
      /\ \A i \in 1..offset : table[i] = Metrics!Stored(points[i])
  <2>1. Len(points) \in Nat
    BY LenProperties DEF Metrics!RowsAreRead
  <2> QED
    BY <1>1, <2>1 DEF Metrics!PointsAreAcknowledged, Metrics!TableIsTheirs
<1>4. /\ table' \in Seq(T) /\ offset <= Len(table')
      /\ \A i \in 1..offset : table'[i] = Metrics!Stored(points[i])
  <2>1. CASE table' = table
    BY <2>1, <1>3
  <2>2. CASE body # <<>> /\ table' = table \o Metrics!ParseSeriesBody(body)
    <3>1. PICK n \in Nat \ {0} :
            /\ table' \in Seq(T) /\ Len(table') = offset + n
            /\ \A i \in 1..offset + n : table'[i] = Metrics!Stored(points[i])
      BY <1>1, <2>2, BatchUnderWay
    <3>2. offset <= offset + n /\ \A i \in 1..offset : i \in 1..offset + n
      BY <1>3
    <3> QED
      BY <3>1, <3>2
  <2> QED
    BY <1>1, <2>1, <2>2
<1>5. Metrics!TableIsTheirs'
  BY <1>1, <1>2, <1>4 DEF Metrics!TableIsTheirs, T, Metrics!Stored
<1>6. Metrics!PointsAreAcknowledged'
  BY <1>1 DEF Metrics!PointsAreAcknowledged, Metrics!RowOf
<1>7. Metrics!RowsAreRead'
  BY <1>1, ReadingStays
<1>8. Metrics!RowsFirst'
  BY MetricsStepKeeps DEF Metrics!Next
<1> QED
  BY <1>5, <1>6, <1>7, <1>8

\* Nothing is read to begin with.
LEMMA SendStarts ==
    ASSUME NoMetrics \/ Metrics!Init
    PROVE  Metrics!SendInv
<1>1. Metrics!RowsFirst
  BY MetricsStart
<1>2. /\ points = <<>> /\ next_reading = 1 /\ offset = 0 /\ body = <<>>
      /\ table = <<>> /\ metric_phase = "reading"
  BY DEF NoMetrics, Metrics!Init
<1>3. DOMAIN readings = 1..Len(readings) /\ Len(readings) \in Nat
  BY <1>1 DEF Metrics!RowsFirst
<1>4. \A r \in DOMAIN readings : Metrics!RowIsTyped(readings[r]) /\ metric_results[r] # "ok"
  <2>1. CASE NoMetrics
    <3>1. DOMAIN readings = {}
      BY <2>1 DEF NoMetrics
    <3> QED
      BY <3>1
  <2>2. CASE Metrics!Init
    BY <2>2, MetricsAssumption DEF Metrics!Init, Metrics!BoundsAssumption, Metrics!Unset
  <2> QED
    BY <2>1, <2>2
<1>5. /\ 1..0 = {} /\ Len(<<>>) = 0 /\ DOMAIN <<>> = {}
      /\ \A S : <<>> \in Seq(S)
      /\ \A r \in DOMAIN readings : ~(r < 1)
  BY <1>3, EmptySeq
<1>6. Metrics!RowsAreRead
  BY <1>2, <1>4, <1>5 DEF Metrics!RowsAreRead
<1>7. Metrics!PointsAreAcknowledged
  BY <1>2, <1>4, <1>5 DEF Metrics!PointsAreAcknowledged
<1>8. Metrics!TableIsTheirs
  BY <1>2, <1>5 DEF Metrics!TableIsTheirs
<1> QED
  BY <1>1, <1>6, <1>7, <1>8 DEF Metrics!SendInv

\* The first k points come from k rows.
LEMMA FirstRows ==
    ASSUME Metrics!SendInv, NEW k \in 0..Len(points)
    PROVE  LET rows == {points[i].source_row : i \in 1..k}
           IN  Metrics!Cardinality(rows) = k
<1> DEFINE rows == {points[i].source_row : i \in 1..k}
           f == [i \in 1..k |-> points[i].source_row]
           S == {Metrics!PointOf(r) : r \in Metrics!PointRows}
<1>1. Len(points) \in Nat /\ DOMAIN points = 1..Len(points) /\ k \in Nat
      /\ \A i \in 1..k : i \in DOMAIN points
  <2>1. points \in Seq(S)
    BY DEF Metrics!SendInv, Metrics!RowsAreRead
  <2> HIDE DEF S
  <2>2. Len(points) \in Nat /\ DOMAIN points = 1..Len(points)
    BY <2>1, LenProperties
  <2> QED
    BY <2>2
<1>2. \A i \in DOMAIN points : points[i].source_row \in Int
  <2>1. points \in Seq(S)
    BY DEF Metrics!SendInv, Metrics!RowsAreRead
  <2>2. \A i \in DOMAIN points : points[i] \in S
    <3> HIDE DEF S
    <3> QED
      BY <1>1, <2>1, ElementOfSeq
  <2>3. \A r \in DOMAIN readings : r \in Int
    BY DEF Metrics!SendInv, Metrics!RowsFirst
  <2> QED
    BY <2>2, <2>3 DEF Metrics!PointOf, Metrics!PointRows
<1>3. \A i, j \in DOMAIN points : i < j => points[i].source_row < points[j].source_row
  BY DEF Metrics!SendInv, Metrics!RowsAreRead, Metrics!RowOf
<1>4. ASSUME NEW i \in 1..k, NEW j \in 1..k, points[i].source_row = points[j].source_row
      PROVE  i = j
  <2>1. ~(i < j) /\ ~(j < i)
    <3>1. \A m \in Int : ~(m < m)
      OBVIOUS
    <3> QED
      BY <1>1, <1>2, <1>3, <1>4, <3>1
  <2> QED
    BY <2>1
<1>5. f \in Bijection(1..k, rows)
  <2>1. f \in [1..k -> rows] /\ \A i \in 1..k : f[i] = points[i].source_row
    OBVIOUS
  <2> HIDE DEF f
  <2>2. f \in Injection(1..k, rows)
    BY <1>4, <2>1 DEF Injection, IsInjective
  <2>3. f \in Surjection(1..k, rows)
    BY <2>1 DEF Surjection
  <2> QED
    BY <2>2, <2>3 DEF Bijection
<1>6. IsFiniteSet(1..k) /\ Cardinality(1..k) = k
  <2>1. IsFiniteSet(1..k) /\ Cardinality(1..k) = IF 1 > k THEN 0 ELSE k - 1 + 1
    BY <1>1, FS_Interval
  <2> QED
    BY <1>1, <2>1
<1> HIDE DEF f, rows
<1>7. Cardinality(rows) = k
  <2>1. ExistsBijection(1..k, rows)
    BY <1>5 DEF ExistsBijection
  <2> QED
    BY <1>6, <2>1, FS_Bijection
<1>8. Metrics!Cardinality(rows) = Cardinality(rows)
  BY DEF Metrics!Cardinality, Cardinality
<1> QED
  BY <1>7, <1>8 DEF rows

\* The rows with the result "ok" are those of the acknowledged points, which
\* the table begins with.
LEMMA OkRowsInTable ==
    ASSUME Metrics!SendInv
    PROVE  OkRowsAreStored
<1> USE DEF Metrics!SendInv
<1> DEFINE S == {Metrics!PointOf(r) : r \in Metrics!PointRows}
           ok == {r \in DOMAIN readings : metric_results[r] = "ok"}
           upto(r) == {q \in ok : q <= r}
<1>1. /\ Len(points) \in Nat /\ DOMAIN points = 1..Len(points) /\ Len(table) \in Nat
      /\ offset \in 0..Len(points) /\ offset \in Nat
  <2>1. points \in Seq(S)
    BY DEF Metrics!RowsAreRead
  <2> HIDE DEF S
  <2>2. Len(points) \in Nat /\ DOMAIN points = 1..Len(points)
    BY <2>1, LenProperties
  <2>3. Len(table) \in Nat
    BY LenProperties DEF Metrics!TableIsTheirs
  <2>4. offset \in 0..Len(points)
    BY DEF Metrics!PointsAreAcknowledged
  <2>5. offset \in Nat
    BY <2>2, <2>4
  <2> QED
    BY <2>2, <2>3, <2>4, <2>5
<1>2. \A i \in DOMAIN points : \E r \in Metrics!PointRows :
         points[i] = Metrics!PointOf(r) /\ points[i].source_row = r
  <2>1. points \in Seq(S)
    BY DEF Metrics!RowsAreRead
  <2>2. \A i \in DOMAIN points : points[i] \in S
    <3> HIDE DEF S
    <3> QED
      BY <1>1, <2>1, ElementOfSeq
  <2> QED
    BY <2>2 DEF Metrics!PointOf
<1>3. /\ \A r \in DOMAIN readings : r \in Int
      /\ \A i \in DOMAIN points : points[i].source_row \in DOMAIN readings
  BY <1>2 DEF Metrics!RowsFirst, Metrics!PointRows
<1>4. \A r \in DOMAIN readings :
         metric_results[r] = "ok" <=> \E i \in 1..offset : points[i].source_row = r
  BY DEF Metrics!PointsAreAcknowledged, Metrics!RowOf
<1>5. \A i, j \in DOMAIN points : i < j => points[i].source_row < points[j].source_row
  BY DEF Metrics!RowsAreRead, Metrics!RowOf
<1>6. \A i \in 1..offset : i \in DOMAIN points
  BY <1>1
<1>7. Metrics!Cardinality(ok) = offset
  <2>1. ok = {points[i].source_row : i \in 1..offset}
    BY <1>3, <1>4, <1>6
  <2> HIDE DEF ok
  <2> QED
    BY <1>1, <2>1, FirstRows
<1>8. ASSUME NEW k \in 1..offset
      PROVE  Metrics!Cardinality(upto(points[k].source_row)) = k
  <2> DEFINE rows == {points[i].source_row : i \in 1..k}
             r == points[k].source_row
  <2>1. k \in 0..Len(points) /\ \A i \in 1..k : i \in 1..offset /\ (i < k \/ i = k)
    BY <1>1
  <2>2. \A q \in rows : q \in upto(r)
    <3>1. ASSUME NEW i \in 1..k PROVE points[i].source_row \in upto(r)
      <4>1. points[i].source_row \in ok
        BY <1>3, <1>4, <1>6, <2>1
      <4>2. points[i].source_row <= r
        <5>1. points[i].source_row \in Int /\ r \in Int
          BY <1>3, <1>6, <2>1
        <5>2. points[i].source_row < r \/ points[i].source_row = r
          BY <1>5, <1>6, <2>1
        <5> QED
          BY <5>1, <5>2
      <4> QED
        BY <4>1, <4>2
    <3> QED
      BY <3>1
  <2>3. ASSUME NEW q \in upto(r) PROVE q \in rows
    <3>1. PICK i \in 1..offset : points[i].source_row = q
      BY <1>4
    <3>2. q \in Int /\ r \in Int /\ q <= r
      BY <1>3, <1>6
    <3>3. ~(k < i)
      <4>1. k < i => r < q
        BY <1>5, <1>6, <3>1
      <4> QED
        BY <3>2, <4>1
    <3>4. i \in 1..k
      BY <3>3, <1>1
    <3> QED
      BY <3>1, <3>4
  <2>4. upto(r) = rows
    BY <2>2, <2>3
  <2>5. Metrics!Cardinality(rows) = k
    BY <2>1, FirstRows
  <2> QED
    BY <2>4, <2>5
<1>9. ASSUME NEW r \in ok
      PROVE  Metrics!IsReadingOf(table[Metrics!Cardinality(upto(r))], readings[r])
  <2>1. PICK k \in 1..offset : points[k].source_row = r
    BY <1>4
  <2>2. Metrics!Cardinality(upto(r)) = k
    BY <1>8, <2>1
  <2>3. table[k] = Metrics!Stored(points[k])
    BY DEF Metrics!TableIsTheirs
  <2>4. points[k] = Metrics!PointOf(r) /\ r \in Metrics!PointRows
    BY <1>2, <1>6, <2>1
  <2>5. Metrics!IsPoint(readings[r]) /\ Metrics!RowIsTyped(readings[r]) /\ r \in DOMAIN readings
    BY <2>4 DEF Metrics!PointRows, Metrics!RowsAreRead
  <2> QED
    BY <2>2, <2>3, <2>4, <2>5, StoredIsReading
<1>10. ASSUME metric_phase = "done", NEW r \in DOMAIN readings
       PROVE  metric_results[r] = IF Metrics!HasReading(readings[r]) THEN "ok" ELSE Null
  <2>1. /\ next_reading \notin DOMAIN readings /\ offset = Len(points)
    BY <1>10 DEF Metrics!PointsAreAcknowledged
  <2>2. r < next_reading
    BY <2>1 DEF Metrics!RowsFirst
  <2>3. IF Metrics!IsPoint(readings[r]) THEN \E i \in DOMAIN points : points[i].source_row = r
        ELSE metric_results[r] = Null
    BY <2>2 DEF Metrics!RowsAreRead, Metrics!RowOf
  <2>4. ~Metrics!Unreadable(readings[r])
    BY <1>10 DEF Metrics!RowsFirst
  <2> QED
    BY <1>1, <1>4, <2>1, <2>3, <2>4 DEF Metrics!IsPoint
<1>11. offset <= Len(table) /\ (metric_phase # "failed" => offset = Len(table))
  BY DEF Metrics!TableIsTheirs
<1> QED
  BY <1>7, <1>9, <1>10, <1>11 DEF OkRowsAreStored, Metrics!OkRowsAreStored

\* Every step keeps what is known of the rows, the points and the table.
LEMMA SendInvStays ==
    ASSUME Metrics!SendInv, [WriteNext]_writeVars
    PROVE  Metrics!SendInv'
<1>1. CASE MetricStep
  BY <1>1, SkippedRow, AddedPoint, QuietSteps, SentBatch, FailedSend DEF MetricStep, Metrics!Next
<1>2. CASE UNCHANGED metricVars
  <2>1. /\ UNCHANGED <<isNanos, readings, next_reading, points, metric_results, offset>>
        /\ UNCHANGED <<body, metric_phase, table>>
    BY <1>2 DEF metricVars
  <2>2. Metrics!RowsFirst'
    BY <2>1 DEF Metrics!SendInv, Metrics!RowsFirst, Metrics!UnreadableSendsNothing, Metrics!NothingSent
  <2>3. Metrics!RowsAreRead'
    BY <2>1, ReadingStays DEF Metrics!SendInv
  <2>4. Metrics!PointsAreAcknowledged' /\ Metrics!TableIsTheirs'
    <3>1. /\ metric_phase = "reading" => body = <<>>
          /\ metric_phase \in {"sending", "done"} => next_reading \notin DOMAIN readings
          /\ metric_phase = "done" => offset = Len(points) /\ body = <<>>
      BY DEF Metrics!SendInv, Metrics!PointsAreAcknowledged
    <3> QED
      BY <2>1, <3>1, SendingStays DEF Metrics!SendInv
  <2> QED
    BY <2>2, <2>3, <2>4 DEF Metrics!SendInv
<1> QED
  BY <1>1, <1>2 DEF WriteNext, TraceStep, LogStep, writeVars

\* "ok" means stored, for every chunk of rows, every size of a batch and every
\* answer that is lost: the rows with that result are those whose points the
\* listener has, in order, each with its own name, value, time and unit
\* and exactly the tags that CollectTags gives it.
THEOREM OkRowsStayStored == WriteSpec => []OkRowsAreStored
<1>1. WriteInit => Metrics!SendInv
  BY SendStarts DEF WriteInit
<1>2. Metrics!SendInv /\ [WriteNext]_writeVars => Metrics!SendInv'
  BY SendInvStays
<1>3. Metrics!SendInv => OkRowsAreStored
  BY OkRowsInTable
<1> QED
  BY <1>1, <1>2, <1>3, PTL DEF WriteSpec

-----------------------------------------------------------------------------
(* Metrics: a row that cannot be read or written fails its chunk.           *)

\* What is sent stays writable when no point is added and no batch is built.
LEMMA SentStays ==
    ASSUME Metrics!SentAreWritable, UNCHANGED <<next_reading, readings, points>>,
           offset' + Len(body') = offset + Len(body), Len(table') <= offset + Len(body)
    PROVE  Metrics!SentAreWritable'
<1>1. \A i : Metrics!Fits(0, i)' <=> Metrics!Fits(0, i)
  BY DEF Metrics!Fits
<1> QED
  BY <1>1 DEF Metrics!SentAreWritable, Metrics!Sent

\* A batch that is built is writable, and if it is the first then every point
\* that is not comes after it.
LEMMA BuiltBatch ==
    ASSUME Metrics!RefuseInv, Metrics!BuildBatch
    PROVE  Metrics!SentAreWritable'
<1> USE DEF Metrics!RefuseInv, Metrics!SendInv
<1> DEFINE S == {Metrics!PointOf(r) : r \in Metrics!PointRows}
           batch == Metrics!NextBatch
<1>1. /\ UNCHANGED <<readings, next_reading, points, offset, table>>
      /\ body = <<>> /\ metric_phase = "sending" /\ offset < Len(points)
      /\ body' = [i \in DOMAIN batch |-> Metrics!Entry(batch[i])]
      /\ \A i \in DOMAIN batch : batch[i].value # NotFinite
  BY DEF Metrics!BuildBatch, Metrics!BatchIsDue, Metrics!IsWritable
<1>2. points \in Seq(S)
  BY DEF Metrics!RowsAreRead
<1> HIDE DEF S
<1>3. Len(points) \in Nat /\ DOMAIN points = 1..Len(points) /\ offset \in Nat
  <2>1. Len(points) \in Nat /\ DOMAIN points = 1..Len(points)
    BY <1>2, LenProperties
  <2>2. offset \in 0..Len(points)
    BY DEF Metrics!PointsAreAcknowledged
  <2> QED
    BY <2>1, <2>2
<1>4. PICK n \in Nat \ {0} :
        /\ offset + n <= Len(points) /\ ~Metrics!Fits(offset, n + 1)
        /\ Len(batch) = n /\ DOMAIN batch = 1..n
        /\ \A i \in 1..n : batch[i] = points[offset + i]
  BY <1>1, <1>2, <1>3, NextBatchIsNext
<1> HIDE DEF batch
<1>5. Len(body') = n
  BY <1>1, <1>4
<1>6. /\ Len(table) <= offset
      /\ \A i \in 1..offset : points[i].value # NotFinite
      /\ offset > 0 => \A i \in DOMAIN points : points[i].value = NotFinite => ~Metrics!Fits(0, i)
  <2>1. Metrics!Sent = offset
    BY <1>1, <1>3 DEF Metrics!Sent
  <2> QED
    BY <2>1 DEF Metrics!SentAreWritable
<1>7. ASSUME NEW i \in 1..offset + n PROVE points[i].value # NotFinite
  <2>1. CASE i <= offset
    BY <1>3, <1>6, <2>1
  <2>2. CASE ~(i <= offset)
    <3>1. i - offset \in 1..n /\ offset + (i - offset) = i
      BY <1>3, <1>4, <2>2
    <3> QED
      BY <1>1, <1>4, <3>1
  <2> QED
    BY <2>1, <2>2
<1>8. ASSUME NEW i \in DOMAIN points, points[i].value = NotFinite PROVE ~Metrics!Fits(0, i)
  <2>1. CASE offset = 0
    <3>1. i \in Nat /\ n + 1 <= i
      BY <1>3, <1>4, <1>7, <1>8, <2>1
    <3>2. \A m \in 2..n + 1 : m \in 2..i
      BY <3>1
    <3>3. Metrics!Fits(0, i) => Metrics!Fits(0, n + 1)
      BY <1>3, <3>1, <3>2, MetricsAssumption DEF Metrics!Fits, Metrics!BoundsAssumption
    <3> QED
      BY <1>4, <2>1, <3>3
  <2>2. CASE offset > 0
    BY <1>6, <1>8, <2>2
  <2> QED
    BY <1>3, <2>1, <2>2
<1>9. next_reading \notin DOMAIN readings
  BY <1>1 DEF Metrics!PointsAreAcknowledged
<1>10. Len(table) \in Nat
  BY LenProperties DEF Metrics!TableIsTheirs
<1>11. Len(table) <= offset + n
  BY <1>3, <1>4, <1>6, <1>10
<1>12. \A i : Metrics!Fits(0, i)' <=> Metrics!Fits(0, i)
  BY <1>1 DEF Metrics!Fits
<1> QED
  BY <1>1, <1>5, <1>7, <1>8, <1>9, <1>11, <1>12 DEF Metrics!SentAreWritable, Metrics!Sent

\* What is sent stays writable.
LEMMA RefusingSteps ==
    ASSUME Metrics!RefuseInv, Metrics!Next
    PROVE  Metrics!SentAreWritable'
<1> USE DEF Metrics!RefuseInv
<1>1. CASE Metrics!SkipRow \/ Metrics!AddPoint
  <2>1. /\ UNCHANGED <<offset, body, table>> /\ metric_phase = "reading"
    BY <1>1 DEF Metrics!SkipRow, Metrics!AddPoint, Metrics!InChunk
  <2>2. offset' = 0 /\ body' = <<>> /\ table' = <<>>
    BY <2>1, NothingIsSent
  <2>3. Len(<<>>) = 0 /\ 1..0 = {}
    OBVIOUS
  <2> QED
    BY <2>2, <2>3 DEF Metrics!SentAreWritable, Metrics!Sent
<1>2. CASE \/ Metrics!RefuseRow \/ Metrics!StartSending \/ Metrics!RefuseBatch \/ Metrics!Finish
           \/ \E entry \in ForeignEntries : Metrics!ForeignPost(entry)
  <2>1. UNCHANGED <<readings, next_reading, points, offset, body, table>>
    BY <1>2 DEF Metrics!RefuseRow, Metrics!StartSending, Metrics!RefuseBatch, Metrics!Finish,
                Metrics!ForeignPost
  <2>2. Len(table) <= offset + Len(body)
    BY DEF Metrics!SentAreWritable, Metrics!Sent
  <2> QED
    BY <2>1, <2>2, SentStays
<1>3. CASE Metrics!BuildBatch
  BY <1>3, BuiltBatch
<1>4. CASE Metrics!BatchSent \/ Metrics!SendFails
  <2>1. /\ UNCHANGED <<readings, next_reading, points>> /\ metric_phase = "sending"
        /\ \/ body' = body /\ offset' = offset
           \/ body # <<>> /\ body' = <<>> /\ offset' = offset + Len(body)
        /\ \/ table' = table
           \/ body # <<>> /\ table' = table \o Metrics!ParseSeriesBody(body)
    BY <1>4 DEF Metrics!BatchSent, Metrics!SendFails
  <2>2. Len(table) <= offset + Len(body) /\ offset \in Nat
    <3>1. Len(points) \in Nat
      BY LenProperties DEF Metrics!SendInv, Metrics!RowsAreRead
    <3> QED
      BY <3>1 DEF Metrics!SentAreWritable, Metrics!Sent, Metrics!SendInv, Metrics!PointsAreAcknowledged
  <2>3. body # <<>> => /\ Len(body) \in Nat
                       /\ Len(table \o Metrics!ParseSeriesBody(body)) = offset + Len(body)
    BY <2>1, BatchUnderWay
  <2>4. Len(table') <= offset + Len(body)
    BY <2>1, <2>2, <2>3
  <2>5. offset' + Len(body') = offset + Len(body)
    <3>1. Len(<<>>) = 0
      OBVIOUS
    <3> QED
      BY <2>1, <2>2, <2>3, <3>1
  <2> QED
    BY <2>1, <2>4, <2>5, SentStays
<1> QED
  BY <1>1, <1>2, <1>3, <1>4 DEF Metrics!Next

\* Once all rows are read, a row that cannot be written is a point that cannot.
LEMMA UnwritablePoint ==
    ASSUME Metrics!SendInv, next_reading \notin DOMAIN readings,
           \A q \in DOMAIN readings : ~Metrics!Unreadable(readings[q]),
           NEW r \in DOMAIN readings, Metrics!Unwritable(readings[r])
    PROVE  \E p \in DOMAIN points : points[p].source_row = r /\ points[p].value = NotFinite
<1> USE DEF Metrics!SendInv
<1> DEFINE S == {Metrics!PointOf(q) : q \in Metrics!PointRows}
<1>1. r < next_reading
  BY DEF Metrics!RowsFirst
<1>2. Metrics!IsPoint(readings[r]) /\ readings[r].value = NotFinite
  BY DEF Metrics!Unwritable, Metrics!IsPoint
<1>3. PICK p \in DOMAIN points : points[p].source_row = r
  BY <1>1, <1>2 DEF Metrics!RowsAreRead, Metrics!RowOf
<1>4. points[p] \in S
  <2>1. points \in Seq(S)
    BY DEF Metrics!RowsAreRead
  <2> HIDE DEF S
  <2> QED
    BY <2>1, ElementOfSeq, LenProperties
<1>5. points[p].value = NotFinite
  BY <1>2, <1>3, <1>4 DEF Metrics!PointOf
<1> QED
  BY <1>3, <1>5

\* The point of a row has as many before it as the row has readings.
LEMMA PlaceOfRow ==
    ASSUME Metrics!SendInv, next_reading \notin DOMAIN readings,
           \A q \in DOMAIN readings : ~Metrics!Unreadable(readings[q]),
           NEW p \in DOMAIN points
    PROVE  Metrics!Place(points[p].source_row) = p
<1> USE DEF Metrics!SendInv
<1> DEFINE S == {Metrics!PointOf(q) : q \in Metrics!PointRows}
           r == points[p].source_row
           before == {q \in 1..r : Metrics!HasReading(readings[q])}
           rows == {points[i].source_row : i \in 1..p}
<1>1. Len(points) \in Nat /\ DOMAIN points = 1..Len(points) /\ \A i \in DOMAIN points : points[i] \in S
  <2>1. points \in Seq(S)
    BY DEF Metrics!RowsAreRead
  <2> HIDE DEF S
  <2> QED
    BY <2>1, ElementOfSeq, LenProperties
<1>2. DOMAIN readings = 1..Len(readings) /\ Len(readings) \in Nat /\ next_reading \in Nat \ {0}
  BY DEF Metrics!RowsFirst
<1>3. \A i \in DOMAIN points : /\ points[i].source_row \in DOMAIN readings
                               /\ Metrics!HasReading(readings[points[i].source_row])
  BY <1>1 DEF Metrics!PointOf, Metrics!PointRows, Metrics!IsPoint
<1>4. \A i, j \in DOMAIN points : i < j => points[i].source_row < points[j].source_row
  BY DEF Metrics!RowsAreRead, Metrics!RowOf
<1>5. ASSUME NEW i \in 1..p PROVE points[i].source_row \in before
  <2>1. i \in DOMAIN points /\ (i < p \/ i = p)
    BY <1>1
  <2>2. points[i].source_row < r \/ points[i].source_row = r
    BY <1>4, <2>1
  <2>3. points[i].source_row \in 1..Len(readings) /\ r \in 1..Len(readings)
    BY <1>2, <1>3, <2>1
  <2>4. points[i].source_row \in 1..r
    <3> DEFINE first == points[i].source_row
    <3> HIDE DEF r, first
    <3>1. first \in 1..Len(readings) /\ r \in 1..Len(readings) /\ (first < r \/ first = r)
      BY <2>2, <2>3 DEF first
    <3>2. first \in 1..r
      BY <1>2, <3>1
    <3> QED
      BY <3>2 DEF first
  <2> QED
    BY <1>3, <2>1, <2>4
<1>6. ASSUME NEW q \in before PROVE q \in rows
  <2>1. r \in 1..Len(readings)
    BY <1>2, <1>3
  <2>2. q \in 1..r /\ Metrics!HasReading(readings[q])
    OBVIOUS
  <2> HIDE DEF r
  <2>3. q \in DOMAIN readings /\ q < next_reading /\ ~(r < q)
    BY <1>2, <2>1, <2>2
  <2>4. PICK i \in DOMAIN points : points[i].source_row = q
    BY <2>2, <2>3 DEF Metrics!RowsAreRead, Metrics!RowOf, Metrics!IsPoint
  <2>5. ~(p < i)
    BY <1>4, <2>3, <2>4 DEF r
  <2>6. i \in 1..p
    BY <1>1, <2>5
  <2> QED
    BY <2>4, <2>6
<1>7. before = rows
  BY <1>5, <1>6
<1>8. Metrics!Cardinality(rows) = p
  BY <1>1, FirstRows
<1> QED
  BY <1>7, <1>8 DEF Metrics!Place

\* A bad row fails its chunk, at most the batches before it being stored.
LEMMA BadRowsFail ==
    ASSUME Metrics!RefuseInv
    PROVE  BadRowsFailTheirChunk
<1> USE DEF Metrics!RefuseInv, Metrics!SendInv
<1> DEFINE Bad(r) == Metrics!Unwritable(readings[r])
<1>1. /\ Len(points) \in Nat /\ DOMAIN points = 1..Len(points) /\ Len(table) \in Nat
      /\ table \in Seq({Metrics!Stored(Metrics!PointOf(r)) : r \in Metrics!PointRows})
      /\ offset \in Nat /\ Len(table) <= Metrics!Sent
  <2>1. Len(points) \in Nat /\ DOMAIN points = 1..Len(points) /\ Len(table) \in Nat
    BY LenProperties DEF Metrics!RowsAreRead, Metrics!TableIsTheirs
  <2>2. offset \in 0..Len(points)
    BY DEF Metrics!PointsAreAcknowledged
  <2>3. offset \in Nat
    BY <2>1, <2>2
  <2> QED
    BY <2>1, <2>3 DEF Metrics!TableIsTheirs, Metrics!SentAreWritable
<1>2. Metrics!Sent \in Nat /\ offset <= Metrics!Sent
  <2>1. Len(body) \in Nat
    <3>1. Len(<<>>) = 0
      OBVIOUS
    <3> QED
      BY <3>1 DEF Metrics!PointsAreAcknowledged
  <2> QED
    BY <1>1, <2>1 DEF Metrics!Sent
<1>3. ASSUME NEW r \in DOMAIN readings, Bad(r), table # <<>>
      PROVE  Len(table) < Metrics!Place(r) /\ ~Metrics!Fits(0, Metrics!Place(r))
  <2>1. Metrics!Sent > 0
    <3>1. Len(table) # 0
      BY <1>1, <1>3, EmptySeq
    <3> QED
      BY <1>1, <1>2, <3>1
  <2>2. /\ next_reading \notin DOMAIN readings
        /\ \A i \in DOMAIN points : points[i].value = NotFinite => ~Metrics!Fits(0, i)
        /\ \A i \in 1..Metrics!Sent : points[i].value # NotFinite
    BY <2>1 DEF Metrics!SentAreWritable
  <2>3. \A q \in DOMAIN readings : ~Metrics!Unreadable(readings[q])
    BY <1>3 DEF Metrics!RowsFirst, Metrics!UnreadableSendsNothing, Metrics!NothingSent
  <2>4. PICK p \in DOMAIN points : points[p].source_row = r /\ points[p].value = NotFinite
    BY <1>3, <2>2, <2>3, UnwritablePoint
  <2>5. Metrics!Place(r) = p
    BY <2>2, <2>3, <2>4, PlaceOfRow
  <2>6. Metrics!Sent < p
    BY <1>1, <1>2, <2>2, <2>4
  <2> QED
    BY <1>1, <1>2, <2>2, <2>4, <2>5, <2>6
<1>4. ASSUME NEW r \in DOMAIN readings, Bad(r) PROVE Metrics!Place(r) \in Nat \ {0}
  <2> DEFINE before == {q \in 1..r : Metrics!HasReading(readings[q])}
  <2>1. r \in Nat \ {0} /\ r \in before
    BY <1>4 DEF Metrics!RowsFirst, Metrics!Unwritable
  <2>2. IsFiniteSet(before)
    <3>1. IsFiniteSet(1..r) /\ before \subseteq 1..r
      BY <2>1, FS_Interval
    <3> HIDE DEF before
    <3> QED
      BY <3>1, FS_Subset
  <2> HIDE DEF before
  <2>3. Cardinality(before) \in Nat /\ Cardinality(before) # 0
    BY <2>1, <2>2, FS_CardinalityType, FS_EmptySet
  <2>4. Metrics!Cardinality(before) = Cardinality(before)
    BY DEF Metrics!Cardinality, Cardinality
  <2> QED
    BY <2>3, <2>4 DEF Metrics!Place, before
<1>5. ASSUME NEW r \in DOMAIN readings, Bad(r)
      PROVE  /\ Len(table) < Metrics!Place(r)
             /\ Metrics!Fits(0, Metrics!Place(r)) => table = <<>>
  <2>1. CASE table = <<>>
    <3>1. Len(<<>>) = 0
      OBVIOUS
    <3> QED
      BY <1>4, <1>5, <2>1, <3>1
  <2>2. CASE table # <<>>
    BY <1>3, <1>5, <2>2
  <2> QED
    BY <2>1, <2>2
<1>6. ASSUME NEW r \in DOMAIN readings, Metrics!BadRow(readings[r]) PROVE metric_phase # "done"
  <2> SUFFICES ASSUME metric_phase = "done" PROVE FALSE
    OBVIOUS
  <2>1. \A q \in DOMAIN readings : ~Metrics!Unreadable(readings[q])
    BY DEF Metrics!RowsFirst
  <2>2. Bad(r)
    BY <1>6, <2>1 DEF Metrics!BadRow
  <2>3. next_reading \notin DOMAIN readings /\ offset = Len(points)
    BY DEF Metrics!PointsAreAcknowledged
  <2>4. PICK p \in DOMAIN points : points[p].source_row = r /\ points[p].value = NotFinite
    BY <2>1, <2>2, <2>3, UnwritablePoint
  <2>5. p \in 1..Metrics!Sent
    BY <1>1, <1>2, <2>3
  <2> QED
    BY <2>4, <2>5 DEF Metrics!SentAreWritable
<1>7. Metrics!UnreadableSendsNothing
  BY DEF Metrics!RowsFirst
<1> QED
  BY <1>5, <1>6, <1>7 DEF BadRowsFailTheirChunk, Metrics!BadRowsFailTheirChunk

\* A chunk of metrics with a row that cannot be read stores nothing, wherever
\* the row stands; one with a value that is not finite stores only points before
\* it, and none if its first batch would hold the value. Neither call succeeds:
\* for every chunk, every size of a batch and every answer that is lost.
THEOREM BadChunksFail == WriteSpec => []BadRowsFailTheirChunk
<1>1. WriteInit => Metrics!RefuseInv
  <2> SUFFICES ASSUME WriteInit PROVE Metrics!RefuseInv
    OBVIOUS
  <2>1. Metrics!SendInv
    BY SendStarts DEF WriteInit
  <2>2. offset = 0 /\ body = <<>> /\ table = <<>>
    BY DEF WriteInit, NoMetrics, Metrics!Init
  <2>3. Len(<<>>) = 0 /\ 1..0 = {}
    OBVIOUS
  <2>4. Metrics!SentAreWritable
    BY <2>2, <2>3 DEF Metrics!SentAreWritable, Metrics!Sent
  <2> QED
    BY <2>1, <2>4 DEF Metrics!RefuseInv
<1>2. Metrics!RefuseInv /\ [WriteNext]_writeVars => Metrics!RefuseInv'
  <2> SUFFICES ASSUME Metrics!RefuseInv, [WriteNext]_writeVars
               PROVE  Metrics!RefuseInv'
    OBVIOUS
  <2>1. Metrics!SendInv'
    BY SendInvStays DEF Metrics!RefuseInv
  <2>2. Metrics!SentAreWritable'
    <3>1. CASE MetricStep
      BY <3>1, RefusingSteps DEF MetricStep
    <3>2. CASE UNCHANGED metricVars
      <4>1. UNCHANGED <<readings, next_reading, points, offset, body, table>>
        BY <3>2 DEF metricVars
      <4>2. Len(table) <= offset + Len(body)
        BY DEF Metrics!RefuseInv, Metrics!SentAreWritable, Metrics!Sent
      <4> QED
        BY <4>1, <4>2, SentStays DEF Metrics!RefuseInv
    <3> QED
      BY <3>1, <3>2 DEF WriteNext, TraceStep, LogStep, writeVars
  <2> QED
    BY <2>1, <2>2 DEF Metrics!RefuseInv
<1>3. Metrics!RefuseInv => BadRowsFailTheirChunk
  BY BadRowsFail
<1> QED
  BY <1>1, <1>2, <1>3, PTL DEF WriteSpec

-----------------------------------------------------------------------------
(* Logs: what the sender reads of a row.                                    *)

\* Two objects merged: the first wins where both have a name.
LEMMA LogsMerged ==
    ASSUME NEW f, NEW g
    PROVE  /\ DOMAIN Logs!Merge(f, g) = DOMAIN f \cup DOMAIN g
           /\ \A n \in DOMAIN f : Logs!Merge(f, g)[n] = f[n]
           /\ \A n \in DOMAIN g : n \notin DOMAIN f => Logs!Merge(f, g)[n] = g[n]
BY DEF Logs!Merge

\* An object of one name.
LEMMA LogsOnly ==
    ASSUME NEW name, NEW value
    PROVE  DOMAIN Logs!Only(name, value) = {name} /\ Logs!Only(name, value)[name] = value
BY DEF Logs!Only

\* A field whose first name is a column is that column.
LEMMA FirstName ==
    ASSUME NEW row, NEW T, NEW names \in Seq(T), Len(names) # 0, names[1] \in DOMAIN row
    PROVE  Logs!PickField(row, names) = row[names[1]]
<1> DEFINE found == {i \in DOMAIN names : names[i] \in DOMAIN row}
<1>1. DOMAIN names = 1..Len(names) /\ Len(names) \in Nat
  BY LenProperties
<1>2. 1 \in found /\ \A i \in found : i \in Int /\ 1 <= i
  BY <1>1
<1>3. Logs!PickField(row, names) = row[names[Logs!Min(found)]]
  BY <1>2 DEF Logs!PickField
<1> HIDE DEF found
<1>4. Logs!Min(found) = 1
  BY <1>2 DEF Logs!Min
<1> QED
  BY <1>3, <1>4

\* A field none of whose names is a column is NULL.
LEMMA NoName ==
    ASSUME NEW row, NEW names, \A i \in DOMAIN names : names[i] \notin DOMAIN row
    PROVE  Logs!PickField(row, names) = Null
BY DEF Logs!PickField

\* A field with one name is that column, or NULL.
LEMMA OneName ==
    ASSUME NEW row, NEW name
    PROVE  Logs!PickField(row, <<name>>) = IF name \in DOMAIN row THEN row[name] ELSE Null
<1> DEFINE names == <<name>>
           T == {name}
<1>1. names \in Seq(T) /\ Len(names) # 0 /\ names[1] = name /\ \A i \in DOMAIN names : names[i] = name
  OBVIOUS
<1> HIDE DEF names, T
<1>2. name \in DOMAIN row => Logs!PickField(row, names) = row[name]
  BY <1>1, FirstName
<1>3. name \notin DOMAIN row => Logs!PickField(row, names) = Null
  BY <1>1, NoName
<1> QED
  BY <1>2, <1>3 DEF names

\* Milliseconds truncate.
LEMMA MillisecondsAreClose ==
    ASSUME NEW n \in Int
    PROVE  /\ Logs!Milliseconds(n) \in Int
           /\ -NanosPerMilli < n - Logs!Milliseconds(n) * NanosPerMilli
           /\ n - Logs!Milliseconds(n) * NanosPerMilli < NanosPerMilli
<1>1. NanosPerMilli \in Nat \ {0}
  BY LogsAssumption DEF Logs!NanosPerMilliAssumption
<1>2. Logs!Milliseconds(n) = Metrics!TruncatedDiv(n, NanosPerMilli)
  BY DEF Logs!Milliseconds, Metrics!TruncatedDiv
<1> QED
  BY <1>1, <1>2, TruncationIsClose

-----------------------------------------------------------------------------
(* The object in the request.                                               *)

Fields(row) == Logs!BuildDatadogIntakeObject(Logs!BuildIntakeLogFromRow(row)).fields
Resource(row) == Logs!BuildDatadogIntakeObject(Logs!BuildIntakeLogFromRow(row)).resource
Columns(row) == Logs!BuildIntakeLogFromRow(row)

\* What the columns set, and nothing else.
LEMMA ReservedNames ==
    ASSUME NEW log
    PROVE  LET f == Logs!ReservedFields(log)
           IN  /\ DOMAIN f = {name \in Logs!TextAttributes : log[name] # <<>>}
                             \cup (IF log.timestamp = Null THEN {} ELSE {"timestamp"})
               /\ \A name \in Logs!TextAttributes : log[name] # <<>> => f[name] = Logs!Text(log[name])
               /\ log.timestamp # Null => f["timestamp"] = Logs!Number(log.timestamp)
<1> DEFINE texts == [name \in {a \in Logs!TextAttributes : log[a] # Logs!Empty} |-> Logs!Text(log[name])]
           time == IF log.timestamp = Null THEN Logs!NoFields
                   ELSE Logs!Only("timestamp", Logs!Number(log.timestamp))
<1>1. /\ DOMAIN texts = {name \in Logs!TextAttributes : log[name] # <<>>}
      /\ \A name \in DOMAIN texts : texts[name] = Logs!Text(log[name])
  BY DEF Logs!Empty
<1>2. /\ DOMAIN time = IF log.timestamp = Null THEN {} ELSE {"timestamp"}
      /\ log.timestamp # Null => time["timestamp"] = Logs!Number(log.timestamp)
  <2>1. CASE log.timestamp = Null
    BY <2>1 DEF Logs!NoFields
  <2>2. CASE log.timestamp # Null
    BY <2>2, LogsOnly
  <2> QED
    BY <2>1, <2>2
<1>3. Logs!ReservedFields(log) = Logs!Merge(texts, time)
  BY DEF Logs!ReservedFields
<1>4. "timestamp" \notin DOMAIN texts
  BY <1>1 DEF Logs!TextAttributes
<1> HIDE DEF texts, time
<1>5. /\ DOMAIN Logs!Merge(texts, time) = DOMAIN texts \cup DOMAIN time
      /\ \A n \in DOMAIN texts : Logs!Merge(texts, time)[n] = texts[n]
      /\ \A n \in DOMAIN time : n \notin DOMAIN texts => Logs!Merge(texts, time)[n] = time[n]
  BY LogsMerged
<1>6. log.timestamp # Null => Logs!Merge(texts, time)["timestamp"] = Logs!Number(log.timestamp)
  BY <1>2, <1>4, <1>5
<1>7. \A name \in Logs!TextAttributes : log[name] # <<>> =>
         Logs!Merge(texts, time)[name] = Logs!Text(log[name])
  BY <1>1, <1>5
<1> QED
  BY <1>1, <1>2, <1>3, <1>5, <1>6, <1>7

\* What the resource block stands in for.
LEMMA MinedNames ==
    ASSUME NEW log, NEW block
    PROVE  LET f    == Logs!MinedFields(log, block)
               host == Logs!GetString(block.fields, "host")
               tags == Logs!FlattenSeq(block.ddtags)
           IN  /\ DOMAIN f = (IF log.hostname = <<>> /\ host # Null THEN {"hostname"} ELSE {})
                             \cup (IF log.ddtags = <<>> /\ tags # <<>> THEN {"ddtags"} ELSE {})
               /\ log.hostname = <<>> /\ host # Null => f["hostname"] = Logs!Text(host)
               /\ log.ddtags = <<>> /\ tags # <<>> => f["ddtags"] = Logs!Text(tags)
<1> DEFINE host == Logs!GetString(block.fields, "host")
           tags == Logs!FlattenSeq(block.ddtags)
           hosts == IF log.hostname # Logs!Empty \/ host = Null THEN Logs!NoFields
                    ELSE Logs!Only("hostname", Logs!Text(host))
           lists == IF log.ddtags # Logs!Empty \/ tags = Logs!Empty THEN Logs!NoFields
                    ELSE Logs!Only("ddtags", Logs!Text(tags))
<1>1. Logs!MinedFields(log, block) = Logs!Merge(hosts, lists)
  BY DEF Logs!MinedFields
<1> HIDE DEF host, tags
<1>2. /\ DOMAIN hosts = IF log.hostname = <<>> /\ host # Null THEN {"hostname"} ELSE {}
      /\ log.hostname = <<>> /\ host # Null => hosts["hostname"] = Logs!Text(host)
  <2>1. CASE log.hostname = <<>> /\ host # Null
    BY <2>1, LogsOnly DEF Logs!Empty
  <2>2. CASE ~(log.hostname = <<>> /\ host # Null)
    BY <2>2 DEF Logs!Empty, Logs!NoFields
  <2> QED
    BY <2>1, <2>2
<1>3. /\ DOMAIN lists = IF log.ddtags = <<>> /\ tags # <<>> THEN {"ddtags"} ELSE {}
      /\ log.ddtags = <<>> /\ tags # <<>> => lists["ddtags"] = Logs!Text(tags)
  <2>1. CASE log.ddtags = <<>> /\ tags # <<>>
    BY <2>1, LogsOnly DEF Logs!Empty
  <2>2. CASE ~(log.ddtags = <<>> /\ tags # <<>>)
    BY <2>2 DEF Logs!Empty, Logs!NoFields
  <2> QED
    BY <2>1, <2>2
<1>4. "hostname" # "ddtags" /\ "ddtags" \notin DOMAIN hosts
  BY <1>2
<1> HIDE DEF hosts, lists
<1>5. /\ DOMAIN Logs!Merge(hosts, lists) = DOMAIN hosts \cup DOMAIN lists
      /\ \A n \in DOMAIN hosts : Logs!Merge(hosts, lists)[n] = hosts[n]
      /\ \A n \in DOMAIN lists : n \notin DOMAIN hosts => Logs!Merge(hosts, lists)[n] = lists[n]
  BY LogsMerged
<1>6. log.hostname = <<>> /\ host # Null => Logs!Merge(hosts, lists)["hostname"] = Logs!Text(host)
  BY <1>2, <1>5
<1>7. log.ddtags = <<>> /\ tags # <<>> => Logs!Merge(hosts, lists)["ddtags"] = Logs!Text(tags)
  BY <1>3, <1>4, <1>5
<1> QED
  BY <1>1, <1>2, <1>3, <1>5, <1>6, <1>7 DEF host, tags

\* A value that is there and well formed.
IsJson(value) == value \notin {Null, Malformed}

\* What the block stands in for.
MinedHost(log) ==
    /\ IsJson(log.resource_attributes) /\ log.hostname = <<>>
    /\ Logs!GetString(log.resource_attributes.fields, "host") # Null
MinedTags(log) ==
    /\ IsJson(log.resource_attributes) /\ log.ddtags = <<>>
    /\ Logs!FlattenSeq(log.resource_attributes.ddtags) # <<>>

\* The names that columns and the block set.
SetNames(log) ==
    {name \in Logs!TextAttributes : log[name] # <<>>}
        \cup (IF log.timestamp = Null THEN {} ELSE {"timestamp"})
        \cup (IF MinedHost(log) THEN {"hostname"} ELSE {})
        \cup (IF MinedTags(log) THEN {"ddtags"} ELSE {})

\* The object before the attributes: what the columns and the block set.
LEMMA ColumnsAndBlock ==
    ASSUME NEW log
    PROVE  LET o == Logs!ApplyResourceAttributes(log, [fields |-> Logs!ReservedFields(log), resource |-> Null])
           IN  /\ DOMAIN o.fields = SetNames(log)
               /\ \A name \in Logs!TextAttributes : log[name] # <<>> => o.fields[name] = Logs!Text(log[name])
               /\ log.timestamp # Null => o.fields["timestamp"] = Logs!Number(log.timestamp)
               /\ MinedHost(log) => o.fields["hostname"]
                      = Logs!Text(Logs!GetString(log.resource_attributes.fields, "host"))
               /\ MinedTags(log) => o.fields["ddtags"]
                      = Logs!Text(Logs!FlattenSeq(log.resource_attributes.ddtags))
               /\ o.resource = IF IsJson(log.resource_attributes) THEN log.resource_attributes ELSE Null
<1> DEFINE f == Logs!ReservedFields(log)
           block == log.resource_attributes
           g == Logs!MinedFields(log, block)
           h == Logs!Merge(f, g)
           o == Logs!ApplyResourceAttributes(log, [fields |-> f, resource |-> Null])
           host == Logs!GetString(block.fields, "host")
           tags == Logs!FlattenSeq(block.ddtags)
           texts == {name \in Logs!TextAttributes : log[name] # <<>>}
           time == IF log.timestamp = Null THEN {} ELSE {"timestamp"}
<1>1. /\ DOMAIN f = texts \cup time
      /\ \A name \in Logs!TextAttributes : log[name] # <<>> => f[name] = Logs!Text(log[name])
      /\ log.timestamp # Null => f["timestamp"] = Logs!Number(log.timestamp)
  BY ReservedNames
<1>2. /\ DOMAIN g = (IF log.hostname = <<>> /\ host # Null THEN {"hostname"} ELSE {})
                    \cup (IF log.ddtags = <<>> /\ tags # <<>> THEN {"ddtags"} ELSE {})
      /\ log.hostname = <<>> /\ host # Null => g["hostname"] = Logs!Text(host)
      /\ log.ddtags = <<>> /\ tags # <<>> => g["ddtags"] = Logs!Text(tags)
  BY MinedNames
<1>3. o = IF IsJson(block) THEN [fields |-> h, resource |-> block] ELSE [fields |-> f, resource |-> Null]
  BY DEF Logs!ApplyResourceAttributes, IsJson
<1>4. /\ "hostname" \in texts <=> log.hostname # <<>>
      /\ "ddtags" \in texts <=> log.ddtags # <<>>
      /\ "hostname" \notin time /\ "ddtags" \notin time
      /\ "hostname" \in Logs!TextAttributes /\ "ddtags" \in Logs!TextAttributes
  BY DEF Logs!TextAttributes
<1>5. /\ DOMAIN h = DOMAIN f \cup DOMAIN g
      /\ \A n \in DOMAIN f : h[n] = f[n]
      /\ \A n \in DOMAIN g : n \notin DOMAIN f => h[n] = g[n]
  BY LogsMerged
<1>6. /\ MinedHost(log) <=> IsJson(block) /\ log.hostname = <<>> /\ host # Null
      /\ MinedTags(log) <=> IsJson(block) /\ log.ddtags = <<>> /\ tags # <<>>
  BY DEF MinedHost, MinedTags
<1>7. SetNames(log) = texts \cup time \cup (IF MinedHost(log) THEN {"hostname"} ELSE {})
                                      \cup (IF MinedTags(log) THEN {"ddtags"} ELSE {})
  BY DEF SetNames
<1>8. \A name \in Logs!TextAttributes : log[name] # <<>> => name \in texts
  OBVIOUS
<1> HIDE DEF f, g, h, host, tags, texts, o
<1>9. log.timestamp # Null => "timestamp" \in time
  OBVIOUS
<1> HIDE DEF time
<1>10. CASE IsJson(block)
  <2>1. o.fields = h /\ o.resource = block
    BY <1>3, <1>10
  <2>2. DOMAIN h = SetNames(log)
    BY <1>1, <1>2, <1>5, <1>6, <1>7, <1>10
  <2>3. \A name \in Logs!TextAttributes : log[name] # <<>> => h[name] = Logs!Text(log[name])
    BY <1>1, <1>5, <1>8
  <2>4. log.timestamp # Null => h["timestamp"] = Logs!Number(log.timestamp)
    BY <1>1, <1>5, <1>9
  <2>5. MinedHost(log) => h["hostname"] = Logs!Text(host)
    BY <1>1, <1>2, <1>4, <1>5, <1>6
  <2>6. MinedTags(log) => h["ddtags"] = Logs!Text(tags)
    BY <1>1, <1>2, <1>4, <1>5, <1>6
  <2> QED
    BY <1>10, <2>1, <2>2, <2>3, <2>4, <2>5, <2>6 DEF o, f, host, tags
<1>11. CASE ~IsJson(block)
  <2>1. o.fields = f /\ o.resource = Null /\ ~MinedHost(log) /\ ~MinedTags(log)
    BY <1>3, <1>6, <1>11
  <2>2. DOMAIN f = SetNames(log)
    BY <1>1, <1>7, <2>1
  <2> QED
    BY <1>1, <1>11, <2>1, <2>2 DEF o, f, host, tags
<1> QED
  BY <1>10, <1>11

\* The object: what is set, and of the attributes the names that are not.
LEMMA ObjectNames ==
    ASSUME NEW row
    PROVE  LET f == Fields(row)
               log == Columns(row)
               attributes == log.log_attributes
           IN  /\ SetNames(log) \subseteq DOMAIN f
               /\ \A name \in Logs!TextAttributes : log[name] # <<>> => f[name] = Logs!Text(log[name])
               /\ log.timestamp # Null => f["timestamp"] = Logs!Number(log.timestamp)
               /\ MinedHost(log) => f["hostname"]
                      = Logs!Text(Logs!GetString(log.resource_attributes.fields, "host"))
               /\ MinedTags(log) => f["ddtags"]
                      = Logs!Text(Logs!FlattenSeq(log.resource_attributes.ddtags))
               /\ IsJson(attributes) => DOMAIN attributes.fields \subseteq DOMAIN f
               /\ \A name \in DOMAIN f : name \notin SetNames(log) =>
                      IsJson(attributes) /\ name \in DOMAIN attributes.fields
                      /\ f[name] = attributes.fields[name]
               /\ IsJson(log.resource_attributes) => Resource(row) = log.resource_attributes
<1> DEFINE log == Columns(row)
           attributes == log.log_attributes
           o == Logs!ApplyResourceAttributes(log, [fields |-> Logs!ReservedFields(log), resource |-> Null])
           h == Logs!Merge(o.fields, attributes.fields)
           first == Logs!First(o.resource, attributes.resource)
           f == Fields(row)
<1>1. IF IsJson(attributes) THEN f = h /\ Resource(row) = first
      ELSE f = o.fields /\ Resource(row) = o.resource
  BY DEF Fields, Resource, Columns, Logs!BuildDatadogIntakeObject, Logs!MergeJsonObjectAttributes, IsJson
<1>2. /\ DOMAIN o.fields = SetNames(log)
      /\ \A name \in Logs!TextAttributes : log[name] # <<>> => o.fields[name] = Logs!Text(log[name])
      /\ log.timestamp # Null => o.fields["timestamp"] = Logs!Number(log.timestamp)
      /\ MinedHost(log) => o.fields["hostname"]
             = Logs!Text(Logs!GetString(log.resource_attributes.fields, "host"))
      /\ MinedTags(log) => o.fields["ddtags"]
             = Logs!Text(Logs!FlattenSeq(log.resource_attributes.ddtags))
      /\ o.resource = IF IsJson(log.resource_attributes) THEN log.resource_attributes ELSE Null
  BY ColumnsAndBlock
<1>3. /\ DOMAIN h = DOMAIN o.fields \cup DOMAIN attributes.fields
      /\ \A n \in DOMAIN o.fields : h[n] = o.fields[n]
      /\ \A n \in DOMAIN attributes.fields : n \notin DOMAIN o.fields => h[n] = attributes.fields[n]
  BY LogsMerged
<1>4. IsJson(log.resource_attributes) => first = o.resource
  BY <1>2 DEF Logs!First, IsJson
<1>5. /\ \A name \in Logs!TextAttributes : log[name] # <<>> => name \in SetNames(log)
      /\ log.timestamp # Null => "timestamp" \in SetNames(log)
      /\ MinedHost(log) => "hostname" \in SetNames(log)
      /\ MinedTags(log) => "ddtags" \in SetNames(log)
  BY DEF SetNames
<1> HIDE DEF o, h, first, f, log
<1>6. /\ SetNames(log) \subseteq DOMAIN f /\ \A n \in SetNames(log) : f[n] = o.fields[n]
      /\ IsJson(attributes) => DOMAIN attributes.fields \subseteq DOMAIN f
      /\ \A name \in DOMAIN f : name \notin SetNames(log) =>
             IsJson(attributes) /\ name \in DOMAIN attributes.fields /\ f[name] = attributes.fields[name]
  BY <1>1, <1>2, <1>3
<1>7. IsJson(log.resource_attributes) => Resource(row) = log.resource_attributes
  BY <1>1, <1>2, <1>4
<1>8. \A name \in Logs!TextAttributes : log[name] # <<>> => f[name] = Logs!Text(log[name])
  BY <1>2, <1>5, <1>6
<1>9. /\ log.timestamp # Null => f["timestamp"] = Logs!Number(log.timestamp)
      /\ MinedHost(log) => f["hostname"]
             = Logs!Text(Logs!GetString(log.resource_attributes.fields, "host"))
      /\ MinedTags(log) => f["ddtags"]
             = Logs!Text(Logs!FlattenSeq(log.resource_attributes.ddtags))
  BY <1>2, <1>5, <1>6
<1> QED
  BY <1>6, <1>7, <1>8, <1>9 DEF f, log

\* The tags of a block are flattened as those of a metric.
LEMMA LogsFlatten == \A s : Logs!FlattenSeq(s) = Metrics!FlattenSeq(s)
  BY DEF Logs!FlattenSeq, Metrics!FlattenSeq

\* A list of lists, one after the other, is a list of their items.
LEMMA FlattenedType ==
    ASSUME NEW T, NEW e \in Seq(Seq(T))
    PROVE  Logs!FlattenSeq(e) \in Seq(T)
<1> DEFINE n == Len(e)
           D == Seq(T)
           IsRun(g) == g = [i \in 1..n |-> IF i = 1 THEN e[i] ELSE g[i - 1] \o e[i]]
           run == CHOOSE g : IsRun(g)
<1>1. n \in Nat /\ \A i \in 1..n : e[i] \in D
  <2>1. e \in Seq(D)
    OBVIOUS
  <2> HIDE DEF D
  <2> QED
    BY <2>1, LenProperties, ElementOfSeq
<1>2. CASE n = 0
  <2>1. e = <<>>
    <3>1. e \in Seq(D)
      OBVIOUS
    <3> HIDE DEF D
    <3> QED
      BY <1>2, <3>1, EmptySeq
  <2>2. Logs!FlattenSeq(e) = e
    BY <1>2 DEF Logs!FlattenSeq
  <2> QED
    BY <2>1, <2>2, EmptySeq
<1>3. CASE n # 0
  <2>1. Logs!FlattenSeq(e) = run[n]
    BY <1>3, Zenon DEF Logs!FlattenSeq
  <2>2. \E g : IsRun(g)
    <3> DEFINE step == [p \in D \X (1..n) |-> p[1] \o e[p[2]]]
    <3>1. IsLoop(step, D, n)
      <4>1. ASSUME NEW p \in D \X (1..n) PROVE p[1] \o e[p[2]] \in D
        <5>1. p[1] \in Seq(T) /\ e[p[2]] \in Seq(T)
          BY <1>1
        <5> QED
          BY <5>1, ConcatProperties
      <4> HIDE DEF D
      <4> QED
        BY <1>1, <4>1 DEF IsLoop
    <3>2. <<>> \in D
      BY EmptySeq
    <3>3. \A a \in D, i \in 1..n : step[<<a, i>>] = a \o e[i]
      OBVIOUS
    <3>4. \A a \in D : <<>> \o a = a
      BY ConcatEmptySeq
    <3> HIDE DEF step, D
    <3>5. PICK f : LoopRuns(f, <<>>, step, D, n)
      BY <3>1, <3>2, LoopExists
    <3>6. f \in [0..n -> D] /\ f[0] = <<>> /\ \A i \in 1..n : f[i] = f[i - 1] \o e[i]
      <4>1. f \in [0..n -> D] /\ f[0] = <<>> /\ \A i \in 1..n : f[i] = step[<<f[i - 1], i>>]
        BY <3>5 DEF LoopRuns
      <4>2. \A i \in 1..n : i - 1 \in 0..n
        BY <1>1
      <4> QED
        BY <3>3, <4>1, <4>2
    <3> DEFINE g == [i \in 1..n |-> f[i]]
    <3>7. ASSUME NEW i \in 1..n PROVE g[i] = IF i = 1 THEN e[i] ELSE g[i - 1] \o e[i]
      <4>1. CASE i = 1
        <5>1. f[i - 1] = <<>>
          BY <3>6, <4>1
        <5>2. e[i] \in D /\ f[i] = f[i - 1] \o e[i]
          BY <1>1, <3>6
        <5> QED
          BY <3>4, <4>1, <5>1, <5>2
      <4>2. CASE i # 1
        <5>1. i - 1 \in 1..n
          BY <1>1, <4>2
        <5>2. g[i - 1] = f[i - 1] /\ g[i] = f[i] /\ f[i] = f[i - 1] \o e[i]
          BY <3>6, <5>1
        <5> QED
          BY <4>2, <5>2
      <4> QED
        BY <4>1, <4>2
    <3>8. g = [i \in 1..n |-> g[i]]
      OBVIOUS
    <3> HIDE DEF g
    <3>9. IsRun(g)
      BY <3>7, <3>8
    <3> QED
      BY <3>9
  <2>3. IsRun(run)
    BY <2>2
  <2> HIDE DEF run
  <2>4. \A i \in 1..n : run[i] = IF i = 1 THEN e[i] ELSE run[i - 1] \o e[i]
    <3> HIDE DEF n
    <3> QED
      BY <2>3, Zenon
  <2> DEFINE A == {k \in Nat : k \in 1..n => run[k] \in Seq(T)}
  <2>5. 0 \in A
    OBVIOUS
  <2>6. ASSUME NEW k \in Nat, k \in A PROVE k + 1 \in A
    <3> SUFFICES ASSUME k + 1 \in 1..n PROVE run[k + 1] \in Seq(T)
      OBVIOUS
    <3>1. CASE k = 0
      <4>1. 1 \in 1..n /\ run[1] = e[1] /\ e[1] \in D
        <5> HIDE DEF n
        <5>1. 1 \in 1..n
          BY <3>1
        <5>2. run[1] = IF 1 = 1 THEN e[1] ELSE run[1 - 1] \o e[1]
          BY <2>4, <5>1, Zenon
        <5> HIDE DEF D
        <5> QED
          BY <1>1, <5>1, <5>2
      <4> QED
        BY <3>1, <4>1
    <3>2. CASE k # 0
      <4>1. k \in 1..n /\ k + 1 - 1 = k /\ k + 1 # 1
        BY <1>1, <3>2
      <4>2. run[k + 1] = run[k] \o e[k + 1]
        <5>1. run[k + 1] = IF k + 1 = 1 THEN e[k + 1] ELSE run[k + 1 - 1] \o e[k + 1]
          <6> HIDE DEF n
          <6> QED
            BY <2>4
        <5> QED
          BY <4>1, <5>1, Zenon
      <4>3. run[k] \in Seq(T) /\ e[k + 1] \in Seq(T)
        BY <1>1, <2>6, <4>1
      <4> DEFINE a == run[k]
                 b == e[k + 1]
      <4>4. a \in Seq(T) /\ b \in Seq(T)
        BY <4>3
      <4> HIDE DEF a, b
      <4>5. a \o b \in Seq(T)
        BY <4>4, ConcatProperties
      <4> QED
        BY <4>2, <4>5 DEF a, b
    <3> QED
      BY <3>1, <3>2
  <2>7. Nat \subseteq A
    <3> HIDE DEF A
    <3> QED
      BY <2>5, <2>6, NumberInduction
  <2>8. n \in 1..n
    BY <1>1, <1>3
  <2> QED
    BY <1>1, <2>1, <2>7, <2>8
<1> QED
  BY <1>2, <1>3

\* A JSON object is neither NULL nor malformed.
ObjectsAreJson ==
    \A f, g : IsJson([fields |-> f, ddtags |-> g]) /\ IsJson([fields |-> f, resource |-> g])

\* A text is never NULL.
LEMMA TextIsNotNull == \A t \in Seq(STRING) : t # Null
  BY LogsAssumption DEF Logs!NullsAssumption

\* The words that the code writes are texts.
LEMMA WordsAreTexts ==
    /\ <<"duckdb">> \in Seq(STRING)
    /\ \A n \in 1..24 : Logs!SeverityNumberToStatus(n) \in Seq(STRING)
<1>1. "duckdb" \in STRING
  BY LogsAssumption DEF Logs!NullsAssumption
<1>2. ASSUME NEW n \in 1..24
      PROVE  Logs!SeverityNumberToStatus(n) \in Seq(STRING)
  <2> DEFINE i == (n + 3) \div 4
             word == Logs!Severities[i]
  <2>1. i \in 1..6
    OBVIOUS
  <2>2. DOMAIN Logs!Severities = 1..6
    BY DEF Logs!Severities
  <2>3. word \in STRING
    BY <2>1, <2>2, LogsAssumption DEF Logs!NullsAssumption, Logs!Range
  <2>4. Logs!SeverityNumberToStatus(n) = <<word>>
    BY DEF Logs!SeverityNumberToStatus
  <2> HIDE DEF word
  <2> DEFINE T == STRING
  <2>5. word \in T
    BY <2>3
  <2> HIDE DEF T
  <2>6. <<word>> \in Seq(T)
    BY <2>5
  <2> QED
    BY <2>4, <2>6 DEF T
<1> DEFINE T == STRING
           word == "duckdb"
<1>3. word \in T
  BY <1>1
<1> HIDE DEF T, word
<1>4. <<word>> \in Seq(T)
  BY <1>3
<1> QED
  BY <1>2, <1>4 DEF T, word

\* The row that a listener stores of another row.
Kept(row, now) ==
    Logs!MapIntakeLog(Logs!BuildDatadogIntakeObject(Logs!BuildIntakeLogFromRow(row)), now)

\* Its columns, from the names of the object.
LEMMA KeptColumns ==
    ASSUME NEW row, NEW now
    PROVE  LET s == Kept(row, now)
               f == Fields(row)
           IN  /\ DOMAIN s = {"time_unix_nano", "observed_time_unix_nano", "trace_id", "span_id",
                              "service_name", "severity_number", "severity_text", "body",
                              "resource_attributes", "log_attributes"}
               /\ s.time_unix_nano = Logs!Timestamp(Logs!ParseDatadogTimestamp(f, now))
               /\ s.observed_time_unix_nano = Logs!Timestamp(now)
               /\ s.trace_id = Logs!First(Logs!GetString(f, "dd.trace_id"), Logs!GetString(f, "trace_id"))
               /\ s.span_id = Logs!First(Logs!GetString(f, "dd.span_id"), Logs!GetString(f, "span_id"))
               /\ s.service_name = Logs!GetString(f, "service")
               /\ s.severity_text = Logs!GetString(f, "status")
               /\ s.severity_number = IF s.severity_text = Null THEN Null
                                      ELSE Logs!StatusToSeverityNumber(s.severity_text)
               /\ s.body = Logs!MessageValue(f)
               /\ s.resource_attributes = Logs!BuildResourceAttributes(f)
               /\ s.log_attributes =
                    IF Logs!Without(f, Logs!ListenerReserved) = <<>> /\ Resource(row) = Null THEN Null
                    ELSE [fields |-> Logs!Without(f, Logs!ListenerReserved), resource |-> Resource(row)]
BY DEF Kept, Fields, Resource, Logs!MapIntakeLog, Logs!LogRow, Logs!BuildLogAttributes, Logs!NoFields

\* A text column that is set is a string of the object.
LEMMA SetString ==
    ASSUME NEW row, NEW name \in Logs!TextAttributes, Columns(row)[name] # <<>>
    PROVE  /\ name \in DOMAIN Fields(row)
           /\ Logs!GetString(Fields(row), name) = Columns(row)[name]
           /\ Fields(row)[name].text = Columns(row)[name]
<1>1. name \in DOMAIN Fields(row) /\ Fields(row)[name] = Logs!Text(Columns(row)[name])
  BY ObjectNames DEF SetNames
<1> QED
  BY <1>1 DEF Logs!GetString, Logs!Text

\* A name that nothing sets is that of an attribute.
LEMMA FreeString ==
    ASSUME NEW row, NEW name, name \notin SetNames(Columns(row))
    PROVE  /\ Logs!GetString(Fields(row), name) = Logs!GetString(Logs!FieldsOf(row), name)
           /\ name \in DOMAIN Fields(row) <=> name \in DOMAIN Logs!FieldsOf(row)
           /\ name \in DOMAIN Fields(row) => Fields(row)[name] = Logs!FieldsOf(row)[name]
<1> DEFINE a == Columns(row).log_attributes
           f == Fields(row)
           g == Logs!FieldsOf(row)
<1>1. g = IF IsJson(a) THEN a.fields ELSE <<>>
  BY DEF Logs!FieldsOf, Logs!IsObject, Logs!Attributes, Logs!NoFields, IsJson,
         Columns, Logs!BuildIntakeLogFromRow
<1>2. /\ IsJson(a) => DOMAIN a.fields \subseteq DOMAIN f
      /\ name \in DOMAIN f => IsJson(a) /\ name \in DOMAIN a.fields /\ f[name] = a.fields[name]
  BY ObjectNames
<1> HIDE DEF a, f, g
<1>3. /\ name \in DOMAIN f <=> name \in DOMAIN g
      /\ name \in DOMAIN f => f[name] = g[name]
  BY <1>1, <1>2
<1> QED
  BY <1>3 DEF f, g, Logs!GetString

\* What the columns of the object are.
LEMMA ColumnsRead ==
    ASSUME NEW row
    PROVE  LET log == Columns(row)
           IN  /\ log.message = Logs!Column(row, <<"body", "message">>)
               /\ log.service = Logs!Column(row, <<"service_name", "service">>)
               /\ log.status = Logs!Status(row)
               /\ log.hostname = Logs!Column(row, <<"hostname", "host">>)
               /\ log.ddsource = Logs!DdSource(row)
               /\ log.ddtags = Logs!Column(row, <<"ddtags">>)
               /\ log.trace_id = Logs!Column(row, <<"trace_id">>)
               /\ log.span_id = Logs!Column(row, <<"span_id">>)
               /\ log.resource_attributes = Logs!Block(row)
               /\ log.log_attributes = Logs!Attributes(row)
BY DEF Columns, Logs!BuildIntakeLogFromRow, Logs!Column, Logs!Block, Logs!Attributes

\* The source is always set, and never NULL.
LEMMA SourceIsSet ==
    ASSUME NEW row
    PROVE  Columns(row).ddsource # <<>> /\ Columns(row).ddsource # Null
<1>1. Columns(row).ddsource = Logs!DdSource(row)
  BY ColumnsRead
<1>2. <<"duckdb">> # <<>> /\ <<"duckdb">> # Null
  BY WordsAreTexts, TextIsNotNull
<1>3. Logs!ReadStringField(row, <<"ddsource">>) = Null => Null = <<>>
  BY DEF Logs!ReadStringField, Logs!Empty
<1> QED
  BY <1>1, <1>2, <1>3 DEF Logs!DdSource, Logs!Empty

\* The block that the listener stores: the host, the source and the tags.
LEMMA KeptBlock ==
    ASSUME NEW row, NEW now, ObjectsAreJson
    PROVE  LET s    == Kept(row, now)
               f    == Fields(row)
               tags == Logs!GetString(f, "ddtags")
           IN  /\ IsJson(s.resource_attributes)
               /\ Logs!Block(s) = s.resource_attributes
               /\ Logs!HostOf(s) = Logs!First(Logs!GetString(f, "hostname"), Logs!GetString(f, "host"))
               /\ Logs!GetString(s.resource_attributes.fields, "ddsource") = Columns(row).ddsource
               /\ s.resource_attributes.ddtags =
                     IF tags = Null THEN <<>> ELSE [i \in DOMAIN tags |-> <<tags[i]>>]
               /\ Logs!TagsOf(s) = Logs!FlattenSeq(s.resource_attributes.ddtags)
<1> DEFINE s == Kept(row, now)
           f == Fields(row)
           host == Logs!First(Logs!GetString(f, "hostname"), Logs!GetString(f, "host"))
           from == Logs!GetString(f, "ddsource")
           tags == Logs!GetString(f, "ddtags")
           lists == IF tags = Null THEN <<>> ELSE [i \in DOMAIN tags |-> <<tags[i]>>]
           hosts == Logs!Present("host", host)
           sources == Logs!Present("ddsource", from)
           both == Logs!Merge(hosts, sources)
<1>1. from = Columns(row).ddsource /\ from # Null
  BY SourceIsSet, SetString DEF Logs!TextAttributes
<1>2. s.resource_attributes = [fields |-> both, ddtags |-> lists]
  <2>1. s.resource_attributes = Logs!BuildResourceAttributes(f)
    BY KeptColumns
  <2> HIDE DEF s, f
  <2> QED
    BY <1>1, <2>1 DEF Logs!BuildResourceAttributes
<1>3. "resource_attributes" \in DOMAIN s
  BY KeptColumns
<1> HIDE DEF s
<1>4. Logs!Block(s) = s.resource_attributes
  BY <1>3, OneName DEF Logs!Block
<1> HIDE DEF lists
<1>5. IsJson(s.resource_attributes)
  BY <1>2 DEF ObjectsAreJson
<1> HIDE DEF host, from, tags, f
<1>6. Logs!GetString(both, "host") = host /\ Logs!GetString(both, "ddsource") = from
  <2>1. /\ DOMAIN hosts = IF host = Null THEN {} ELSE {"host"}
        /\ host # Null => hosts["host"] = Logs!Text(host)
    <3>1. CASE host = Null
      BY <3>1 DEF Logs!Present, Logs!NoFields
    <3>2. CASE host # Null
      BY <3>2, LogsOnly DEF Logs!Present
    <3> QED
      BY <3>1, <3>2
  <2>2. DOMAIN sources = {"ddsource"} /\ sources["ddsource"] = Logs!Text(from)
    BY <1>1, LogsOnly DEF Logs!Present
  <2> HIDE DEF hosts, sources
  <2>3. /\ DOMAIN both = DOMAIN hosts \cup DOMAIN sources
        /\ \A n \in DOMAIN hosts : both[n] = hosts[n]
        /\ \A n \in DOMAIN sources : n \notin DOMAIN hosts => both[n] = sources[n]
    BY LogsMerged
  <2> HIDE DEF both
  <2>4. /\ host # Null => "host" \in DOMAIN both /\ both["host"] = Logs!Text(host)
        /\ host = Null => "host" \notin DOMAIN both
        /\ "ddsource" \in DOMAIN both /\ both["ddsource"] = Logs!Text(from)
    BY <2>1, <2>2, <2>3
  <2> QED
    BY <2>4 DEF Logs!GetString, Logs!Text
<1> HIDE DEF both
<1>7. s.resource_attributes.fields = both /\ s.resource_attributes.ddtags = lists
  BY <1>2
<1>8. Logs!HostOf(s) = host
  BY <1>4, <1>5, <1>6, <1>7 DEF Logs!HostOf, Logs!IsObject, IsJson
<1>9. Logs!TagsOf(s) = Logs!FlattenSeq(s.resource_attributes.ddtags)
  BY <1>4, <1>5 DEF Logs!TagsOf, Logs!IsObject, IsJson
<1> QED
  BY <1>1, <1>4, <1>5, <1>6, <1>7, <1>8, <1>9 DEF s, host, from, tags, lists, f

\* The tags of a text, each a tag of its own.
LEMMA KeptTags ==
    ASSUME NEW row, NEW now, ObjectsAreJson, NEW t \in Seq(STRING), t # <<>>,
           Logs!GetString(Fields(row), "ddtags") = t
    PROVE  Logs!TagsOf(Kept(row, now)) = t
<1> DEFINE T == STRING
           tags == Logs!GetString(Fields(row), "ddtags")
           lists == Kept(row, now).resource_attributes.ddtags
<1>1. t # Null
  BY TextIsNotNull
<1>2. lists = IF tags = Null THEN <<>> ELSE [i \in DOMAIN tags |-> <<tags[i]>>]
  BY KeptBlock
<1>3. Logs!TagsOf(Kept(row, now)) = Logs!FlattenSeq(lists)
  BY KeptBlock
<1> HIDE DEF tags, lists
<1>4. tags = t
  BY DEF tags
<1>5. lists = [i \in DOMAIN t |-> <<t[i]>>]
  BY <1>1, <1>2, <1>4
<1>6. t \in Seq(T)
  OBVIOUS
<1> HIDE DEF T
<1>7. DOMAIN t = 1..Len(t) /\ Len(t) # 0
  BY <1>6, LenProperties, EmptySeq
<1>8. Metrics!FlattenSeq([i \in 1..Len(t) |-> <<t[i]>>]) = t
  BY <1>6, <1>7, FlattenedSingles
<1>9. Logs!FlattenSeq(lists) = Metrics!FlattenSeq(lists)
  BY LogsFlatten
<1>10. lists = [i \in 1..Len(t) |-> <<t[i]>>]
  BY <1>5, <1>7, Zenon
<1> QED
  BY <1>3, <1>8, <1>9, <1>10, Zenon

\* A severity number comes back as the first of its range.
LEMMA SeverityComesBack ==
    ASSUME NEW n \in 1..24
    PROVE  LET number == Logs!StatusToSeverityNumber(Logs!SeverityNumberToStatus(n))
           IN  number <= n /\ n < number + 4
<1> DEFINE i == (n + 3) \div 4
           status == Logs!SeverityNumberToStatus(n)
           number == Logs!StatusToSeverityNumber(status)
<1>1. i \in 1..6 /\ 4 * i <= n + 3 /\ n + 3 < 4 * i + 4
  OBVIOUS
<1>2. status = <<Logs!Severities[i]>>
  BY DEF Logs!SeverityNumberToStatus
<1> HIDE DEF i, status
<1>3. /\ Logs!Severities[1] = "trace" /\ Logs!Severities[2] = "debug"
      /\ Logs!Severities[3] = "info" /\ Logs!Severities[4] = "warn"
      /\ Logs!Severities[5] = "error" /\ Logs!Severities[6] = "critical"
  BY DEF Logs!Severities
<1>4. /\ status = <<"trace">> => number = 1
      /\ status = <<"debug">> => number = 5
      /\ status = <<"info">> => number = 9
      /\ status = <<"warn">> => number = 13
      /\ status = <<"error">> => number = 17
      /\ status = <<"critical">> => number = 21
  BY DEF Logs!StatusToSeverityNumber
<1> HIDE DEF number
<1>5. CASE i = 1
  <2>1. status = <<"trace">> /\ 1 <= n /\ n <= 4
    BY <1>1, <1>2, <1>3, <1>5
  <2> QED
    BY <1>4, <2>1 DEF number, status
<1>6. CASE i = 2
  <2>1. status = <<"debug">> /\ 5 <= n /\ n <= 8
    BY <1>1, <1>2, <1>3, <1>6
  <2> QED
    BY <1>4, <2>1 DEF number, status
<1>7. CASE i = 3
  <2>1. status = <<"info">> /\ 9 <= n /\ n <= 12
    BY <1>1, <1>2, <1>3, <1>7
  <2> QED
    BY <1>4, <2>1 DEF number, status
<1>8. CASE i = 4
  <2>1. status = <<"warn">> /\ 13 <= n /\ n <= 16
    BY <1>1, <1>2, <1>3, <1>8
  <2> QED
    BY <1>4, <2>1 DEF number, status
<1>9. CASE i = 5
  <2>1. status = <<"error">> /\ 17 <= n /\ n <= 20
    BY <1>1, <1>2, <1>3, <1>9
  <2> QED
    BY <1>4, <2>1 DEF number, status
<1>10. CASE i = 6
  <2>1. status = <<"critical">> /\ 21 <= n /\ n <= 24
    BY <1>1, <1>2, <1>3, <1>10
  <2> QED
    BY <1>4, <2>1 DEF number, status
<1> QED
  BY <1>1, <1>5, <1>6, <1>7, <1>8, <1>9, <1>10

\* A time that is set is that of the row that is stored, to the millisecond.
LEMMA TimeIsKept ==
    ASSUME NEW row, NEW now, Columns(row).timestamp # Null
    PROVE  Kept(row, now).time_unix_nano = Logs!Timestamp(Columns(row).timestamp * NanosPerMilli)
<1> DEFINE f == Fields(row)
           ms == Columns(row).timestamp
<1>1. "timestamp" \in DOMAIN f /\ f["timestamp"] = Logs!Number(ms)
  <2>1. "timestamp" \in SetNames(Columns(row))
    BY DEF SetNames
  <2> QED
    BY <2>1, ObjectNames
<1>2. Kept(row, now).time_unix_nano = Logs!Timestamp(Logs!ParseDatadogTimestamp(f, now))
  BY KeptColumns
<1> HIDE DEF f, ms
<1>3. Logs!ParseDatadogTimestamp(f, now) = ms * NanosPerMilli
  BY <1>1 DEF Logs!ParseDatadogTimestamp, Logs!Number
<1> QED
  BY <1>2, <1>3 DEF ms

\* The first time column is the time, in milliseconds.
LEMMA TimeIsSet ==
    ASSUME NEW row, Logs!RowIsTyped(row), "time_unix_nano" \in DOMAIN row,
           IsJson(row["time_unix_nano"])
    PROVE  /\ row["time_unix_nano"].epoch \in Int
           /\ Columns(row).timestamp = Logs!Milliseconds(row["time_unix_nano"].epoch)
           /\ Columns(row).timestamp \in Int /\ Columns(row).timestamp # Null
<1> DEFINE time == row["time_unix_nano"]
           names == <<"time_unix_nano", "timestamp">>
           ms == Logs!ReadTimestampMs(row, names, TRUE)
<1>1. time.epoch \in Int
  BY DEF Logs!RowIsTyped, IsJson
<1>2. Logs!PickField(row, names) = time
  <2> DEFINE T == {"time_unix_nano", "timestamp"}
  <2>1. names \in Seq(T) /\ Len(names) # 0 /\ names[1] = "time_unix_nano"
    OBVIOUS
  <2>2. names[1] \in DOMAIN row
    BY <2>1
  <2> HIDE DEF names, T
  <2>3. Logs!PickField(row, names) = row[names[1]]
    BY <2>1, <2>2, FirstName
  <2> QED
    BY <2>1, <2>3
<1> HIDE DEF names
<1>3. ms = Logs!Milliseconds(time.epoch)
  BY <1>2 DEF Logs!ReadTimestampMs, IsJson
<1>4. ms \in Int /\ ms # Null
  BY <1>1, <1>3, MillisecondsAreClose, LogsAssumption DEF Logs!NullsAssumption
<1>5. Columns(row).timestamp = Logs!First(ms, Logs!ReadTimestampMs(row, <<"observed_time_unix_nano">>, TRUE))
  BY DEF Columns, Logs!BuildIntakeLogFromRow, names
<1> HIDE DEF ms
<1>6. Columns(row).timestamp = ms
  BY <1>4, <1>5 DEF Logs!First
<1> QED
  BY <1>1, <1>3, <1>4, <1>6

\* A text column is no text only if it is NULL or empty.
LEMMA ColumnIsNotNull ==
    ASSUME NEW row, NEW names, Logs!Column(row, names) # <<>>
    PROVE  Logs!Column(row, names) # Null
BY DEF Logs!Column, Logs!ReadStringField, Logs!Empty

\* A log that is stored is the one that was sent.
StoredIsKept == stored = Kept(source, Clock + hops)

\* The severity number stands in for a text that is missing.
LEMMA SeverityArrives ==
    ASSUME NEW row, NEW now, NEW n \in 1..24,
           Logs!Column(row, <<"severity_text", "severity", "status">>) = <<>>,
           Logs!PickField(row, <<"severity_number">>) = n
    PROVE  Kept(row, now).severity_number <= n /\ n < Kept(row, now).severity_number + 4
<1> DEFINE status == Logs!SeverityNumberToStatus(n)
           s == Kept(row, now)
<1>1. n # Null
  BY LogsAssumption DEF Logs!NullsAssumption
<1>2. Columns(row).status = status
  <2>1. Columns(row).status = Logs!Status(row)
    BY ColumnsRead
  <2> QED
    BY <1>1, <2>1 DEF Logs!Status, Logs!Column, Logs!Empty
<1>3. status # Null /\ status # <<>>
  <2>1. status # Null
    BY WordsAreTexts, TextIsNotNull
  <2>2. status = <<Logs!Severities[(n + 3) \div 4]>>
    BY DEF Logs!SeverityNumberToStatus
  <2> QED
    BY <2>1, <2>2
<1> HIDE DEF status
<1>4. s.severity_text = status
  <2>1. s.severity_text = Logs!GetString(Fields(row), "status")
    BY KeptColumns
  <2>2. "status" \in Logs!TextAttributes
    BY DEF Logs!TextAttributes
  <2> QED
    BY <1>2, <1>3, <2>1, <2>2, SetString
<1>5. s.severity_number = IF s.severity_text = Null THEN Null
                          ELSE Logs!StatusToSeverityNumber(s.severity_text)
  BY KeptColumns
<1> HIDE DEF s
<1>6. s.severity_number = Logs!StatusToSeverityNumber(status)
  BY <1>3, <1>4, <1>5
<1> QED
  BY <1>6, SeverityComesBack DEF s, status

\* The names that are texts.
LEMMA NamesOfTexts ==
    /\ "message" \in Logs!TextAttributes /\ "service" \in Logs!TextAttributes
    /\ "status" \in Logs!TextAttributes /\ "hostname" \in Logs!TextAttributes
    /\ "ddtags" \in Logs!TextAttributes /\ "ddsource" \in Logs!TextAttributes
    /\ "trace_id" \in Logs!TextAttributes /\ "span_id" \in Logs!TextAttributes
BY DEF Logs!TextAttributes

\* Of the columns that are set the listener has the value.
LEMMA ColumnsArriveIn ==
    ASSUME Logs!RowIsTyped(source), StoredIsKept, ObjectsAreJson
    PROVE  ColumnsArrive
<1> DEFINE f == Fields(source)
           log == Columns(source)
           now == Clock + hops
<1>1. stored = Kept(source, now)
  BY DEF StoredIsKept
<1> HIDE DEF now
<1>2. \A name \in Logs!TextAttributes : log[name] # <<>> =>
         /\ name \in DOMAIN f /\ Logs!GetString(f, name) = log[name] /\ f[name].text = log[name]
  BY SetString
<1>3. /\ log.message = Logs!Column(source, <<"body", "message">>)
      /\ log.service = Logs!Column(source, <<"service_name", "service">>)
      /\ log.status = Logs!Status(source)
      /\ log.hostname = Logs!Column(source, <<"hostname", "host">>)
      /\ log.ddsource = Logs!DdSource(source)
      /\ log.ddtags = Logs!Column(source, <<"ddtags">>)
      /\ log.trace_id = Logs!Column(source, <<"trace_id">>)
      /\ log.span_id = Logs!Column(source, <<"span_id">>)
  BY ColumnsRead
<1>4. /\ stored.trace_id = Logs!First(Logs!GetString(f, "dd.trace_id"), Logs!GetString(f, "trace_id"))
      /\ stored.span_id = Logs!First(Logs!GetString(f, "dd.span_id"), Logs!GetString(f, "span_id"))
      /\ stored.service_name = Logs!GetString(f, "service")
      /\ stored.severity_text = Logs!GetString(f, "status")
      /\ stored.body = Logs!MessageValue(f)
  BY <1>1, KeptColumns
<1>5. /\ Logs!HostOf(stored) = Logs!First(Logs!GetString(f, "hostname"), Logs!GetString(f, "host"))
      /\ Logs!GetString(stored.resource_attributes.fields, "ddsource") = log.ddsource
  BY <1>1, KeptBlock
<1> HIDE DEF f, log
<1>6. Logs!Column(source, <<"body", "message">>) # <<>> =>
         stored.body = Logs!Column(source, <<"body", "message">>)
  BY <1>2, <1>3, <1>4, NamesOfTexts DEF Logs!MessageValue, Logs!Empty
<1>7. Logs!Column(source, <<"service_name", "service">>) # <<>> =>
         stored.service_name = Logs!Column(source, <<"service_name", "service">>)
  BY <1>2, <1>3, <1>4, NamesOfTexts
<1>8. ASSUME Logs!Column(source, <<"severity_text", "severity", "status">>) # <<>>
      PROVE  stored.severity_text = Logs!Column(source, <<"severity_text", "severity", "status">>)
  <2>1. log.status = Logs!Column(source, <<"severity_text", "severity", "status">>)
    BY <1>3, <1>8 DEF Logs!Status, Logs!Column, Logs!Empty
  <2> QED
    BY <1>2, <1>4, <1>8, <2>1, NamesOfTexts
<1>9. ASSUME Logs!Column(source, <<"hostname", "host">>) # <<>>
      PROVE  Logs!HostOf(stored) = Logs!Column(source, <<"hostname", "host">>)
  <2>1. Logs!GetString(f, "hostname") = Logs!Column(source, <<"hostname", "host">>)
    BY <1>2, <1>3, <1>9, NamesOfTexts
  <2>2. Logs!Column(source, <<"hostname", "host">>) # Null
    BY <1>9, ColumnIsNotNull
  <2> QED
    BY <1>5, <2>1, <2>2 DEF Logs!First
<1>10. ASSUME Logs!Column(source, <<"ddtags">>) # <<>>
       PROVE  Logs!TagsOf(stored) = Logs!Column(source, <<"ddtags">>)
  <2> DEFINE t == Logs!Column(source, <<"ddtags">>)
  <2>1. t \in Seq(STRING)
    BY DEF Logs!RowIsTyped, Logs!Column
  <2>2. Logs!GetString(Fields(source), "ddtags") = t
    BY <1>2, <1>3, <1>10, NamesOfTexts DEF f
  <2>3. t # <<>>
    BY <1>10
  <2> HIDE DEF t
  <2>4. Logs!TagsOf(Kept(source, now)) = t
    BY <2>1, <2>2, <2>3, KeptTags
  <2> QED
    BY <1>1, <2>4 DEF t
<1>11. ASSUME NEW name \in {"trace_id", "span_id"}, NEW override \in {"dd.trace_id", "dd.span_id"},
              Logs!Column(source, <<name>>) # <<>>
       PROVE  Logs!First(Logs!GetString(f, override), Logs!GetString(f, name))
                = Logs!First(Logs!GetString(Logs!FieldsOf(source), override), Logs!Column(source, <<name>>))
  <2>1. override \notin SetNames(Columns(source))
    BY DEF SetNames, Logs!TextAttributes
  <2>2. Logs!GetString(f, override) = Logs!GetString(Logs!FieldsOf(source), override)
    BY <2>1, FreeString DEF f
  <2>3. log[name] = Logs!Column(source, <<name>>)
    BY <1>3
  <2>4. Logs!GetString(f, name) = Logs!Column(source, <<name>>)
    BY <1>2, <1>11, <2>3, NamesOfTexts
  <2> QED
    BY <2>2, <2>4
<1>12. Logs!SeverityAndTimeArrive
  <2> DEFINE number == Logs!PickField(source, <<"severity_number">>)
             time == Logs!PickField(source, <<"time_unix_nano">>)
  <2>1. ASSUME Logs!Column(source, <<"severity_text", "severity", "status">>) = <<>>, number \in 1..24
        PROVE  stored.severity_number <= number /\ number < stored.severity_number + 4
    <3> HIDE DEF number
    <3> DEFINE n == number
    <3>1. n \in 1..24 /\ Logs!PickField(source, <<"severity_number">>) = n
      BY <2>1 DEF number
    <3> HIDE DEF n
    <3>2. Kept(source, now).severity_number <= n /\ n < Kept(source, now).severity_number + 4
      BY <2>1, <3>1, SeverityArrives
    <3> QED
      BY <1>1, <3>2 DEF n
  <2>2. ASSUME time \notin {Null, Malformed}
        PROVE  /\ stored.time_unix_nano.epoch - time.epoch < NanosPerMilli
               /\ time.epoch - stored.time_unix_nano.epoch < NanosPerMilli
    <3>1. "time_unix_nano" \in DOMAIN source /\ time = source["time_unix_nano"] /\ IsJson(time)
      BY <2>2, OneName DEF IsJson
    <3> HIDE DEF time
    <3> DEFINE ms == Logs!Milliseconds(time.epoch)
    <3>2. /\ time.epoch \in Int /\ Columns(source).timestamp = ms
          /\ Columns(source).timestamp # Null
      BY <3>1, TimeIsSet
    <3>3. /\ ms \in Int /\ -NanosPerMilli < time.epoch - ms * NanosPerMilli
          /\ time.epoch - ms * NanosPerMilli < NanosPerMilli
      BY <3>2, MillisecondsAreClose
    <3> HIDE DEF ms
    <3>4. stored.time_unix_nano = Logs!Timestamp(ms * NanosPerMilli)
      BY <1>1, <3>2, TimeIsKept
    <3>5. stored.time_unix_nano.epoch = ms * NanosPerMilli
      BY <3>4 DEF Logs!Timestamp
    <3>6. NanosPerMilli \in Int
      BY LogsAssumption DEF Logs!NanosPerMilliAssumption
    <3> QED
      BY <3>2, <3>3, <3>5, <3>6
  <2> QED
    BY <2>1, <2>2 DEF Logs!SeverityAndTimeArrive, Logs!Empty
<1>13. /\ Logs!Column(source, <<"trace_id">>) # <<>> =>
             stored.trace_id = Logs!First(Logs!GetString(Logs!FieldsOf(source), "dd.trace_id"),
                                          Logs!Column(source, <<"trace_id">>))
       /\ Logs!Column(source, <<"span_id">>) # <<>> =>
             stored.span_id = Logs!First(Logs!GetString(Logs!FieldsOf(source), "dd.span_id"),
                                         Logs!Column(source, <<"span_id">>))
  BY <1>4, <1>11
<1> QED
  BY <1>3, <1>5, <1>6, <1>7, <1>8, <1>9, <1>10, <1>12, <1>13
     DEF ColumnsArrive, Logs!ColumnsArrive, Logs!Empty

\* The attributes that the listener stores: all that are not its own names.
LEMMA KeptAttributes ==
    ASSUME NEW row, NEW now, ObjectsAreJson
    PROVE  LET s == Kept(row, now)
               f == Fields(row)
           IN  /\ Logs!Attributes(s) = s.log_attributes
               /\ \A name \in DOMAIN f \ Logs!ListenerReserved :
                      name \in DOMAIN Logs!FieldsOf(s) /\ Logs!FieldsOf(s)[name] = f[name]
               /\ \A name \in DOMAIN Logs!FieldsOf(s) : name \in DOMAIN f \ Logs!ListenerReserved
               /\ IsJson(s.log_attributes) => s.log_attributes.fields = Logs!FieldsOf(s)
               /\ Resource(row) # Null => IsJson(s.log_attributes) /\ s.log_attributes.resource = Resource(row)
<1> DEFINE s == Kept(row, now)
           f == Fields(row)
           rest == Logs!Without(f, Logs!ListenerReserved)
           g == Logs!FieldsOf(s)
<1>1. /\ "log_attributes" \in DOMAIN s
      /\ s.log_attributes = IF rest = <<>> /\ Resource(row) = Null THEN Null
                            ELSE [fields |-> rest, resource |-> Resource(row)]
  BY KeptColumns
<1>2. /\ DOMAIN rest = DOMAIN f \ Logs!ListenerReserved
      /\ \A name \in DOMAIN rest : rest[name] = f[name]
  BY DEF Logs!Without
<1> HIDE DEF s, f, rest
<1>3. Logs!Attributes(s) = s.log_attributes
  BY <1>1, OneName DEF Logs!Attributes
<1>4. g = IF IsJson(s.log_attributes) THEN s.log_attributes.fields ELSE <<>>
  BY <1>3 DEF Logs!FieldsOf, Logs!IsObject, Logs!NoFields, IsJson
<1> HIDE DEF g
<1>5. CASE rest = <<>> /\ Resource(row) = Null
  <2>1. ~IsJson(s.log_attributes) /\ g = <<>>
    BY <1>1, <1>4, <1>5 DEF IsJson
  <2>2. DOMAIN rest = {} /\ DOMAIN g = {}
    BY <1>5, <2>1
  <2> QED
    BY <1>2, <1>3, <1>5, <2>1, <2>2 DEF s, f, g
<1>6. CASE ~(rest = <<>> /\ Resource(row) = Null)
  <2>1. s.log_attributes = [fields |-> rest, resource |-> Resource(row)]
    BY <1>1, <1>6
  <2>2. IsJson(s.log_attributes)
    BY <2>1 DEF ObjectsAreJson
  <2>3. g = s.log_attributes.fields
    BY <1>4, <2>2
  <2>4. g = rest
    BY <2>1, <2>3
  <2> QED
    BY <1>2, <1>3, <2>1, <2>2, <2>4 DEF s, f, g
<1> QED
  BY <1>5, <1>6

\* What the block says arrives, and so does every attribute.
LEMMA AttributesArriveIn ==
    ASSUME Logs!RowIsTyped(source), StoredIsKept, ObjectsAreJson
    PROVE  AttributesArrive
<1> DEFINE f == Fields(source)
           log == Columns(source)
           now == Clock + hops
           block == Logs!Block(source)
<1>1. stored = Kept(source, now)
  BY DEF StoredIsKept
<1> HIDE DEF now
<1>2. /\ log.hostname = Logs!Column(source, <<"hostname", "host">>)
      /\ log.ddtags = Logs!Column(source, <<"ddtags">>)
      /\ log.resource_attributes = block
      /\ log.log_attributes = Logs!Attributes(source)
      /\ log.trace_id = Logs!Column(source, <<"trace_id">>)
      /\ log.span_id = Logs!Column(source, <<"span_id">>)
  BY ColumnsRead
<1>3. Logs!IsObject(block) <=> IsJson(block)
  BY DEF Logs!IsObject, IsJson
<1>4. ASSUME IsJson(block)
      PROVE  stored.log_attributes # Null /\ stored.log_attributes.resource = block
  <2>1. Resource(source) = block
    BY <1>2, <1>4, ObjectNames
  <2>2. Resource(source) # Null
    BY <1>4, <2>1 DEF IsJson
  <2>3. IsJson(stored.log_attributes) /\ stored.log_attributes.resource = Resource(source)
    BY <1>1, <2>2, KeptAttributes
  <2> QED
    BY <2>1, <2>3 DEF IsJson
<1>5. ASSUME IsJson(block), Logs!Column(source, <<"hostname", "host">>) = <<>>,
             Logs!HostOf(source) # Null
      PROVE  Logs!HostOf(stored) = Logs!HostOf(source)
  <2>1. Logs!HostOf(source) = Logs!GetString(block.fields, "host")
    BY <1>3, <1>5 DEF Logs!HostOf
  <2>2. MinedHost(log)
    BY <1>2, <1>5, <2>1 DEF MinedHost
  <2>3. "hostname" \in DOMAIN f /\ f["hostname"] = Logs!Text(Logs!HostOf(source))
    <3>1. "hostname" \in SetNames(log)
      BY <2>2 DEF SetNames
    <3> QED
      BY <1>2, <2>1, <2>2, <3>1, ObjectNames
  <2>4. Logs!HostOf(stored) = Logs!First(Logs!GetString(f, "hostname"), Logs!GetString(f, "host"))
    BY <1>1, KeptBlock
  <2> HIDE DEF f
  <2> QED
    BY <1>5, <2>3, <2>4 DEF Logs!First, Logs!GetString, Logs!Text
<1>6. ASSUME IsJson(block), Logs!Column(source, <<"ddtags">>) = <<>>, Logs!TagsOf(source) # <<>>
      PROVE  Logs!TagsOf(stored) = Logs!TagsOf(source)
  <2> DEFINE t == Logs!TagsOf(source)
  <2>1. t = Logs!FlattenSeq(block.ddtags)
    BY <1>3, <1>6 DEF Logs!TagsOf
  <2>2. t \in Seq(STRING)
    <3>1. block.ddtags \in Seq(Seq(STRING))
      BY <1>6 DEF Logs!RowIsTyped, Logs!Block, IsJson
    <3> QED
      BY <2>1, <3>1, FlattenedType
  <2>3. MinedTags(log)
    BY <1>2, <1>6, <2>1 DEF MinedTags
  <2>4. "ddtags" \in DOMAIN f /\ f["ddtags"] = Logs!Text(t)
    <3>1. "ddtags" \in SetNames(log)
      BY <2>3 DEF SetNames
    <3> QED
      BY <1>2, <2>1, <2>3, <3>1, ObjectNames
  <2>5. t # <<>>
    BY <1>6
  <2> HIDE DEF t, f
  <2>6. Logs!GetString(f, "ddtags") = t
    BY <2>4 DEF Logs!GetString, Logs!Text
  <2>7. Logs!TagsOf(Kept(source, now)) = t
    BY <2>2, <2>5, <2>6, KeptTags DEF f
  <2> QED
    BY <1>1, <2>7 DEF t
<1>7. ASSUME NEW name \in DOMAIN Logs!FieldsOf(source) \ Logs!ListenerReserved
      PROVE  /\ name \in DOMAIN Logs!FieldsOf(stored)
             /\ \/ Logs!FieldsOf(stored)[name] = Logs!FieldsOf(source)[name]
                \/ name \in {"trace_id", "span_id"} /\ Logs!Column(source, <<name>>) # <<>>
  <2>1. name \in DOMAIN f
    <3>1. Logs!FieldsOf(source) = IF IsJson(log.log_attributes) THEN log.log_attributes.fields ELSE <<>>
      BY <1>2 DEF Logs!FieldsOf, Logs!IsObject, Logs!NoFields, IsJson
    <3>2. IsJson(log.log_attributes) /\ name \in DOMAIN log.log_attributes.fields
      <4> HIDE DEF log
      <4>1. DOMAIN <<>> = {}
        OBVIOUS
      <4> QED
        BY <3>1, <4>1
    <3> QED
      BY <3>2, ObjectNames
  <2>2. name \in DOMAIN Logs!FieldsOf(stored) /\ Logs!FieldsOf(stored)[name] = f[name]
    BY <1>1, <2>1, KeptAttributes
  <2>3. CASE name \notin SetNames(log)
    BY <2>1, <2>2, <2>3, FreeString
  <2>4. CASE name \in SetNames(log)
    <3>1. name \in {"trace_id", "span_id"} /\ log[name] # <<>>
      <4> HIDE DEF log
      <4> QED
        BY <2>4 DEF SetNames, Logs!TextAttributes, Logs!ListenerReserved
    <3> QED
      BY <1>2, <2>2, <3>1
  <2> QED
    BY <2>3, <2>4
<1> HIDE DEF f, log, block
<1> QED
  BY <1>3, <1>4, <1>5, <1>6, <1>7 DEF AttributesArrive, Logs!AttributesArrive, Logs!Empty, block

-----------------------------------------------------------------------------
(* Logs: passed from listener to listener.                                  *)

\* The columns of read_datadog_logs and of a listener's table.
LogColumns ==
    {"time_unix_nano", "observed_time_unix_nano", "trace_id", "span_id",
     "service_name", "severity_number", "severity_text", "body",
     "resource_attributes", "log_attributes"}

\* A row of read_datadog_logs or of a listener has the columns of the struct,
\* and the severity number of its severity text.
IsCopy(row) ==
    /\ DOMAIN row = LogColumns
    /\ row.severity_text # Null =>
           row.severity_number = Logs!StatusToSeverityNumber(row.severity_text)

\* That of a listener has a time, and the ids of the tracer where it kept them.
FromListener(row) ==
    /\ row.time_unix_nano.epoch \in Int
    /\ row.time_unix_nano = Logs!Timestamp(row.time_unix_nano.epoch)
    /\ LET ids == Logs!FieldsOf(row)
       IN  /\ Logs!GetString(ids, "dd.trace_id") \in {Null, row.trace_id}
           /\ Logs!GetString(ids, "dd.span_id") \in {Null, row.span_id}

\* The inductive invariant: the row that is sent is typed, and a copy if it
\* does not come from a table; the object and the stored row are made of it.
LogInv ==
    /\ Logs!RowIsTyped(source)
    /\ hops \in Nat
    /\ object # Null =>
           object = Logs!BuildDatadogIntakeObject(Logs!BuildIntakeLogFromRow(source))
    /\ Logs!Arrived => StoredIsKept
    /\ origin # "table" => IsCopy(source)
    /\ origin = "listener" => FromListener(source)

-----------------------------------------------------------------------------
\* Of two names the first that is a column counts.
LEMMA TwoNames ==
    ASSUME NEW row, NEW a, NEW b, a # b
    PROVE  Logs!PickField(row, <<a, b>>) =
               IF a \in DOMAIN row THEN row[a] ELSE IF b \in DOMAIN row THEN row[b] ELSE Null
<1> DEFINE names == <<a, b>>
           T == {a, b}
           found == {i \in DOMAIN names : names[i] \in DOMAIN row}
<1>1. names \in Seq(T) /\ Len(names) # 0 /\ names[1] = a /\ names[2] = b /\ DOMAIN names = 1..2
  OBVIOUS
<1> HIDE DEF names, T
<1>2. a \in DOMAIN row => Logs!PickField(row, names) = row[a]
  BY <1>1, FirstName
<1>3. ASSUME a \notin DOMAIN row, b \in DOMAIN row
      PROVE  Logs!PickField(row, names) = row[b]
  <2>1. found = {2}
    BY <1>1, <1>3
  <2>2. Logs!PickField(row, names) = row[names[Logs!Min(found)]]
    BY <2>1 DEF Logs!PickField
  <2> HIDE DEF found
  <2>3. Logs!Min(found) = 2
    BY <2>1 DEF Logs!Min
  <2> QED
    BY <1>1, <2>2, <2>3
<1>4. ASSUME a \notin DOMAIN row, b \notin DOMAIN row
      PROVE  Logs!PickField(row, names) = Null
  <2>1. \A i \in DOMAIN names : names[i] \notin DOMAIN row
    BY <1>1, <1>4
  <2> QED
    BY <2>1, NoName
<1> QED
  BY <1>2, <1>3, <1>4 DEF names

\* The time of the object is an integer, or there is none.
LEMMA TimeIsTyped ==
    ASSUME NEW row, Logs!RowIsTyped(row)
    PROVE  Columns(row).timestamp \in Int \cup {Null}
<1> DEFINE nanos == "time_unix_nano" \in DOMAIN row
           names == <<"time_unix_nano", "timestamp">>
           other == <<"observed_time_unix_nano">>
           Typed(value) == IsJson(value) => value.epoch \in Int
<1>1. \A name \in {"time_unix_nano", "timestamp", "observed_time_unix_nano"} \cap DOMAIN row :
         Typed(row[name])
  BY DEF Logs!RowIsTyped, IsJson
<1>2. Typed(Logs!PickField(row, names))
  <2>1. Logs!PickField(row, names) =
            IF "time_unix_nano" \in DOMAIN row THEN row["time_unix_nano"]
            ELSE IF "timestamp" \in DOMAIN row THEN row["timestamp"] ELSE Null
    BY TwoNames
  <2> HIDE DEF names
  <2> QED
    BY <1>1, <2>1 DEF IsJson
<1>3. Typed(Logs!PickField(row, other))
  <2>1. Logs!PickField(row, other) = IF "observed_time_unix_nano" \in DOMAIN row
                                     THEN row["observed_time_unix_nano"] ELSE Null
    BY OneName
  <2> HIDE DEF other
  <2> QED
    BY <1>1, <2>1 DEF IsJson
<1> HIDE DEF names, other
<1>4. \A some, isNano : Typed(Logs!PickField(row, some)) =>
          Logs!ReadTimestampMs(row, some, isNano) \in Int \cup {Null}
  BY MillisecondsAreClose DEF Logs!ReadTimestampMs, IsJson
<1>5. Columns(row).timestamp = Logs!First(Logs!ReadTimestampMs(row, names, nanos),
                                          Logs!ReadTimestampMs(row, other, TRUE))
  BY DEF Columns, Logs!BuildIntakeLogFromRow, names, other
<1> QED
  BY <1>2, <1>3, <1>4, <1>5 DEF Logs!First

\* The listener's clock, a date or a number of milliseconds is a time.
LEMMA ParsedIsTyped ==
    ASSUME NEW row, Logs!RowIsTyped(row), NEW now \in Int
    PROVE  Logs!ParseDatadogTimestamp(Fields(row), now) \in Int
<1> DEFINE f == Fields(row)
           ms == Columns(row).timestamp
           a == Columns(row).log_attributes
<1>1. ms \in Int \cup {Null}
  BY TimeIsTyped
<1>2. "timestamp" \in DOMAIN f /\ f["timestamp"].kind = "number" => f["timestamp"].number \in Int
  <2>1. CASE ms # Null
    <3>1. f["timestamp"] = Logs!Number(ms)
      BY <2>1, ObjectNames
    <3> HIDE DEF f, ms
    <3> QED
      BY <1>1, <2>1, <3>1 DEF Logs!Number
  <2>2. CASE ms = Null
    <3>1. "timestamp" \notin SetNames(Columns(row))
      BY <2>2 DEF SetNames, Logs!TextAttributes
    <3>2. "timestamp" \in DOMAIN f =>
              IsJson(a) /\ "timestamp" \in DOMAIN a.fields /\ f["timestamp"] = a.fields["timestamp"]
      BY <3>1, ObjectNames
    <3>3. a = Logs!PickField(row, <<"log_attributes">>)
      BY DEF Columns, Logs!BuildIntakeLogFromRow
    <3> HIDE DEF f, a
    <3>4. /\ IsJson(a) /\ "timestamp" \in DOMAIN a.fields
          /\ a.fields["timestamp"].kind = "number"
          => a.fields["timestamp"].number \in Int
      BY <3>3 DEF Logs!RowIsTyped, IsJson
    <3> QED
      BY <3>2, <3>4
  <2> QED
    BY <2>1, <2>2
<1>3. NanosPerMilli \in Int /\ \A text \in DOMAIN Dates : Dates[text] \in Int
  BY LogsAssumption DEF Logs!NanosPerMilliAssumption, Logs!RowsAssumption
<1> HIDE DEF f
<1>4. CASE "timestamp" \notin DOMAIN f
  BY <1>4 DEF Logs!ParseDatadogTimestamp, f
<1>5. CASE "timestamp" \in DOMAIN f /\ f["timestamp"].kind = "number"
  BY <1>2, <1>3, <1>5 DEF Logs!ParseDatadogTimestamp, f
<1>6. CASE /\ "timestamp" \in DOMAIN f /\ f["timestamp"].kind = "string"
           /\ f["timestamp"].text \in DOMAIN Dates
  BY <1>3, <1>6 DEF Logs!ParseDatadogTimestamp, f
<1>7. CASE /\ "timestamp" \in DOMAIN f /\ f["timestamp"].kind # "number"
           /\ ~(f["timestamp"].kind = "string" /\ f["timestamp"].text \in DOMAIN Dates)
  BY <1>7 DEF Logs!ParseDatadogTimestamp, f
<1> QED
  BY <1>4, <1>5, <1>6, <1>7

\* The tags of the object are a list of texts, or there are none.
LEMMA TagsAreTyped ==
    ASSUME NEW row, Logs!RowIsTyped(row)
    PROVE  Logs!GetString(Fields(row), "ddtags") \in Seq(STRING) \cup {Null}
<1> DEFINE log == Columns(row)
           block == log.resource_attributes
           a == log.log_attributes
           f == Fields(row)
<1>1. /\ log.ddtags = Logs!ReadStringField(row, <<"ddtags">>)
      /\ block = Logs!PickField(row, <<"resource_attributes">>)
      /\ a = Logs!PickField(row, <<"log_attributes">>)
  BY DEF Columns, Logs!BuildIntakeLogFromRow
<1>2. /\ log.ddtags \in Seq(STRING)
      /\ IsJson(block) => block.ddtags \in Seq(Seq(STRING))
      /\ IsJson(a) => Logs!GetString(a.fields, "ddtags") \in {Null} \cup Seq(STRING)
  BY <1>1 DEF Logs!RowIsTyped, IsJson
<1>3. CASE log.ddtags # <<>>
  BY <1>2, <1>3, SetString, NamesOfTexts
<1>4. CASE MinedTags(log)
  <2> DEFINE tags == Logs!FlattenSeq(block.ddtags)
  <2>1. tags \in Seq(STRING)
    BY <1>2, <1>4, FlattenedType DEF MinedTags
  <2>2. f["ddtags"] = Logs!Text(tags)
    BY <1>4, ObjectNames
  <2> HIDE DEF tags, f
  <2> QED
    BY <2>1, <2>2 DEF Logs!GetString, Logs!Text, f
<1>5. CASE log.ddtags = <<>> /\ ~MinedTags(log)
  <2>1. "ddtags" \notin SetNames(log)
    BY <1>5 DEF SetNames
  <2>2. "ddtags" \in DOMAIN f =>
            IsJson(a) /\ "ddtags" \in DOMAIN a.fields /\ f["ddtags"] = a.fields["ddtags"]
    BY <2>1, ObjectNames
  <2> HIDE DEF a, f
  <2> QED
    BY <1>2, <2>2 DEF Logs!GetString, f
<1> QED
  BY <1>3, <1>4, <1>5

\* What a listener stores of a typed row is a typed row.
LEMMA KeptIsTyped ==
    ASSUME NEW row, Logs!RowIsTyped(row), NEW now \in Int, ObjectsAreJson
    PROVE  Logs!RowIsTyped(Kept(row, now))
<1> DEFINE s == Kept(row, now)
           f == Fields(row)
           tags == Logs!GetString(f, "ddtags")
           rest == Logs!Without(f, Logs!ListenerReserved)
           block == s.resource_attributes
           attributes == s.log_attributes
<1>1. DOMAIN s = LogColumns
  BY KeptColumns DEF LogColumns
<1>2. Logs!ReadStringField(s, <<"ddtags">>) = <<>>
  <2>1. "ddtags" \notin DOMAIN s
    BY <1>1 DEF LogColumns
  <2> HIDE DEF s
  <2>2. Logs!PickField(s, <<"ddtags">>) = Null
    BY <2>1, OneName
  <2> QED
    BY <2>2 DEF Logs!ReadStringField, Logs!Empty
<1>3. Logs!PickField(s, <<"resource_attributes">>) = block
  <2> HIDE DEF s
  <2> QED
    BY <1>1, OneName DEF LogColumns
<1>4. Logs!PickField(s, <<"log_attributes">>) = attributes
  <2> HIDE DEF s
  <2> QED
    BY <1>1, OneName DEF LogColumns
<1>5. block.ddtags \in Seq(Seq(STRING))
  <2>1. block.ddtags = IF tags = Null THEN <<>> ELSE [i \in DOMAIN tags |-> <<tags[i]>>]
    BY KeptBlock
  <2>2. tags \in Seq(STRING) \cup {Null}
    BY TagsAreTyped
  <2> DEFINE T == STRING
             D == Seq(T)
             lists == [i \in DOMAIN tags |-> <<tags[i]>>]
  <2> HIDE DEF block, tags
  <2>3. CASE tags = Null
    BY <2>1, <2>3
  <2>4. CASE tags # Null
    <3>1. tags \in Seq(T)
      BY <2>2, <2>4
    <3> HIDE DEF T
    <3>2. Len(tags) \in Nat /\ DOMAIN tags = 1..Len(tags) /\ \A i \in DOMAIN tags : tags[i] \in T
      BY <3>1, LenProperties, ElementOfSeq
    <3>3. \A i \in DOMAIN tags : <<tags[i]>> \in Seq(T)
      BY <3>2
    <3>4. DOMAIN lists = 1..Len(tags) /\ \A i \in 1..Len(tags) : lists[i] \in D
      BY <3>2, <3>3
    <3>5. lists \in [1..Len(tags) -> D]
      BY <3>2, <3>3
    <3> HIDE DEF lists, D
    <3>6. lists \in Seq(D)
      BY <3>2, <3>5
    <3> QED
      BY <2>1, <2>4, <3>6 DEF T, D, lists
  <2> QED
    BY <2>3, <2>4
<1>6. ASSUME IsJson(attributes)
      PROVE  "ddtags" \notin DOMAIN attributes.fields /\ "timestamp" \notin DOMAIN attributes.fields
  <2>1. /\ attributes.fields = Logs!FieldsOf(s)
        /\ \A name \in DOMAIN Logs!FieldsOf(s) : name \in DOMAIN f \ Logs!ListenerReserved
    BY <1>6, KeptAttributes
  <2> HIDE DEF s, f
  <2> QED
    BY <2>1 DEF Logs!ListenerReserved
<1>7. /\ s.time_unix_nano = Logs!Timestamp(Logs!ParseDatadogTimestamp(f, now))
      /\ s.observed_time_unix_nano = Logs!Timestamp(now)
  BY KeptColumns
<1>8. Logs!ParseDatadogTimestamp(f, now) \in Int
  BY ParsedIsTyped
<1>9. s["time_unix_nano"].epoch \in Int /\ s["observed_time_unix_nano"].epoch \in Int
  <2> HIDE DEF s, f
  <2> QED
    BY <1>7, <1>8 DEF Logs!Timestamp
<1>10. {"time_unix_nano", "timestamp", "observed_time_unix_nano"} \cap DOMAIN s
         = {"time_unix_nano", "observed_time_unix_nano"}
  BY <1>1 DEF LogColumns
<1>11. <<>> \in Seq(STRING)
  OBVIOUS
<1> HIDE DEF s, block, attributes
<1>12. IsJson(attributes) => Logs!GetString(attributes.fields, "ddtags") = Null
  BY <1>6 DEF Logs!GetString
<1> QED
  BY <1>2, <1>3, <1>4, <1>5, <1>6, <1>9, <1>10, <1>11, <1>12 DEF Logs!RowIsTyped, IsJson, s

\* ... and a copy, ...
LEMMA KeptIsCopy ==
    ASSUME NEW row, NEW now
    PROVE  IsCopy(Kept(row, now))
BY KeptColumns DEF IsCopy, LogColumns

\* ... as is what read_datadog_logs makes of an event.
LEMMA EventIsCopy ==
    ASSUME NEW event
    PROVE  IsCopy(Logs!MapEvent(event))
BY DEF IsCopy, LogColumns, Logs!MapEvent, Logs!LogRow

\* What a listener stores has a time, and the ids of the tracer.
LEMMA KeptFromListener ==
    ASSUME NEW row, Logs!RowIsTyped(row), NEW now \in Int, ObjectsAreJson
    PROVE  FromListener(Kept(row, now))
<1> DEFINE s == Kept(row, now)
           f == Fields(row)
           g == Logs!FieldsOf(s)
           time == Logs!ParseDatadogTimestamp(f, now)
<1>1. /\ s.time_unix_nano = Logs!Timestamp(time)
      /\ s.trace_id = Logs!First(Logs!GetString(f, "dd.trace_id"), Logs!GetString(f, "trace_id"))
      /\ s.span_id = Logs!First(Logs!GetString(f, "dd.span_id"), Logs!GetString(f, "span_id"))
  BY KeptColumns
<1>2. time \in Int
  BY ParsedIsTyped
<1>3. /\ \A name \in DOMAIN f \ Logs!ListenerReserved : name \in DOMAIN g /\ g[name] = f[name]
      /\ \A name \in DOMAIN g : name \in DOMAIN f \ Logs!ListenerReserved
  BY KeptAttributes
<1>4. "dd.trace_id" \notin Logs!ListenerReserved /\ "dd.span_id" \notin Logs!ListenerReserved
  BY DEF Logs!ListenerReserved
<1> HIDE DEF f, g, time
<1>5. \A name \in {"dd.trace_id", "dd.span_id"} : Logs!GetString(g, name) = Logs!GetString(f, name)
  BY <1>3, <1>4 DEF Logs!GetString
<1> HIDE DEF s
<1>6. s.time_unix_nano.epoch = time
  BY <1>1 DEF Logs!Timestamp
<1>7. /\ Logs!GetString(g, "dd.trace_id") \in {Null, s.trace_id}
      /\ Logs!GetString(g, "dd.span_id") \in {Null, s.span_id}
  BY <1>1, <1>5 DEF Logs!First
<1> QED
  BY <1>1, <1>2, <1>6, <1>7 DEF FromListener, s, g

-----------------------------------------------------------------------------
\* A copy of a copy is faithful.
LEMMA CopiesAreFaithfulIn ==
    ASSUME LogInv, StoredIsKept, ObjectsAreJson
    PROVE  CopiesAreFaithful
<1> SUFFICES ASSUME origin # "table"
             PROVE  Logs!CopiesAreFaithful
  BY DEF CopiesAreFaithful, Logs!CopiesAreFaithful
<1> DEFINE now == Clock + hops
<1>1. Logs!RowIsTyped(source) /\ IsCopy(source) /\ stored = Kept(source, now)
  BY DEF LogInv, StoredIsKept
<1> HIDE DEF now
<1>2. ColumnsArrive /\ AttributesArrive
  BY <1>1, ColumnsArriveIn, AttributesArriveIn
<1>3. DOMAIN source = LogColumns
  BY <1>1 DEF IsCopy
<1>4. \A a, b : a # b /\ a \in LogColumns => Logs!PickField(source, <<a, b>>) = source[a]
  BY <1>3, TwoNames
<1>5. \A a : a \in LogColumns => Logs!PickField(source, <<a>>) = source[a]
  BY <1>3, OneName
<1>6. \A a : a \notin LogColumns => Logs!PickField(source, <<a>>) = Null
  BY <1>3, OneName
<1>7. Logs!PickField(source, <<"severity_text", "severity", "status">>) = source["severity_text"]
  <2> DEFINE names == <<"severity_text", "severity", "status">>
             T == {"severity_text", "severity", "status"}
  <2>1. names \in Seq(T) /\ Len(names) # 0 /\ names[1] = "severity_text"
    OBVIOUS
  <2>2. names[1] \in DOMAIN source
    BY <1>3, <2>1 DEF LogColumns
  <2> HIDE DEF names, T
  <2> QED
    BY <2>1, <2>2, FirstName DEF names
<1>8. Logs!PickField(source, <<"hostname", "host">>) = Null
  BY <1>3, TwoNames DEF LogColumns
<1>9. Logs!Column(source, <<"hostname", "host">>) = <<>> /\ Logs!Column(source, <<"ddtags">>) = <<>>
  BY <1>6, <1>8 DEF Logs!Column, Logs!ReadStringField, Logs!Empty, LogColumns
<1>10. ASSUME Logs!Arrived
       PROVE  \A name \in {"body", "service_name", "severity_text"} :
                  source[name] \notin {Null, <<>>} => stored[name] = source[name]
  <2>1. /\ source.body \notin {Null, <<>>} => Logs!Column(source, <<"body", "message">>) = source.body
        /\ source.service_name \notin {Null, <<>>} =>
               Logs!Column(source, <<"service_name", "service">>) = source.service_name
        /\ source.severity_text \notin {Null, <<>>} =>
               Logs!Column(source, <<"severity_text", "severity", "status">>) = source.severity_text
    BY <1>4, <1>7 DEF Logs!Column, Logs!ReadStringField, LogColumns
  <2> QED
    BY <1>2, <1>10, <2>1 DEF ColumnsArrive, Logs!ColumnsArrive, Logs!Empty
<1>11. ASSUME Logs!Arrived, source.severity_text \notin {Null, <<>>}
       PROVE  stored.severity_number = source.severity_number
  <2>1. stored.severity_text = source.severity_text
    BY <1>10, <1>11
  <2>2. stored.severity_number = IF stored.severity_text = Null THEN Null
                                 ELSE Logs!StatusToSeverityNumber(stored.severity_text)
    BY <1>1, KeptColumns
  <2> QED
    BY <1>1, <1>11, <2>1, <2>2 DEF IsCopy
<1>12. ASSUME Logs!Arrived
       PROVE  /\ Logs!HostOf(source) # Null => Logs!HostOf(stored) = Logs!HostOf(source)
              /\ Logs!TagsOf(source) # <<>> => Logs!TagsOf(stored) = Logs!TagsOf(source)
  <2>1. /\ Logs!HostOf(source) # Null => Logs!IsObject(Logs!Block(source))
        /\ Logs!TagsOf(source) # <<>> => Logs!IsObject(Logs!Block(source))
    BY DEF Logs!HostOf, Logs!TagsOf, Logs!Empty
  <2> QED
    BY <1>2, <1>9, <1>12, <2>1 DEF AttributesArrive, Logs!AttributesArrive, Logs!Empty
<1>13. ASSUME Logs!Arrived, origin = "listener"
       PROVE  /\ stored.time_unix_nano =
                     Logs!Timestamp(Logs!Milliseconds(source.time_unix_nano.epoch) * NanosPerMilli)
              /\ source.trace_id \notin {Null, <<>>} => stored.trace_id = source.trace_id
              /\ source.span_id \notin {Null, <<>>} => stored.span_id = source.span_id
  <2>1. FromListener(source)
    BY <1>13 DEF LogInv
  <2>2. "time_unix_nano" \in DOMAIN source /\ IsJson(source["time_unix_nano"])
    <3>1. source.time_unix_nano \in [integral : BOOLEAN, epoch : Int]
      <4> DEFINE time == source.time_unix_nano
                 t == time.epoch
      <4>1. t \in Int /\ time = [integral |-> FALSE, epoch |-> t]
        BY <2>1 DEF FromListener, Logs!Timestamp
      <4> HIDE DEF t
      <4> QED
        BY <4>1
    <3>2. \A value \in {Null, Malformed} : value \notin [integral : BOOLEAN, epoch : Int]
      BY LogsAssumption DEF Logs!NullsAssumption
    <3> QED
      BY <1>3, <3>1, <3>2 DEF IsJson, LogColumns
  <2>3. stored.time_unix_nano =
            Logs!Timestamp(Logs!Milliseconds(source["time_unix_nano"].epoch) * NanosPerMilli)
    <3>1. /\ Columns(source).timestamp = Logs!Milliseconds(source["time_unix_nano"].epoch)
          /\ Columns(source).timestamp # Null
      BY <1>1, <2>2, TimeIsSet
    <3>2. Kept(source, now).time_unix_nano = Logs!Timestamp(Columns(source).timestamp * NanosPerMilli)
      BY <3>1, TimeIsKept
    <3> QED
      BY <1>1, <3>1, <3>2
  <2>4. /\ source.trace_id \notin {Null, <<>>} => Logs!Column(source, <<"trace_id">>) = source.trace_id
        /\ source.span_id \notin {Null, <<>>} => Logs!Column(source, <<"span_id">>) = source.span_id
    BY <1>5 DEF Logs!Column, Logs!ReadStringField, LogColumns
  <2> QED
    BY <1>2, <1>13, <2>1, <2>3, <2>4
       DEF ColumnsArrive, Logs!ColumnsArrive, Logs!Empty, FromListener, Logs!First
<1> QED
  BY <1>10, <1>11, <1>12, <1>13 DEF Logs!CopiesAreFaithful, Logs!Empty

-----------------------------------------------------------------------------
\* The invariant holds at the start ...
LEMMA LogsStart == ASSUME NoLogs \/ Logs!Init PROVE LogInv
<1>1. object = Null /\ stored = Null /\ hops = 0 /\ origin # "listener"
  BY DEF NoLogs, Logs!Init
<1>2. CASE NoLogs
  <2>1. DOMAIN source = {} /\ origin = "table"
    BY <1>2 DEF NoLogs
  <2>2. \A name : Logs!PickField(source, <<name>>) = Null
    BY <2>1, OneName
  <2>3. Logs!ReadStringField(source, <<"ddtags">>) = <<>> /\ <<>> \in Seq(STRING)
    BY <2>2 DEF Logs!ReadStringField, Logs!Empty
  <2>4. /\ Logs!PickField(source, <<"resource_attributes">>) = Null
        /\ Logs!PickField(source, <<"log_attributes">>) = Null
    BY <2>2
  <2>5. Logs!RowIsTyped(source)
    BY <2>1, <2>3, <2>4 DEF Logs!RowIsTyped
  <2> QED
    BY <1>1, <2>1, <2>5 DEF LogInv, Logs!Arrived
<1>3. CASE Logs!Init
  <2>1. Logs!RowIsTyped(source)
    BY <1>3, LogsAssumption DEF Logs!Init, Logs!RowsAssumption
  <2>2. origin # "table" => IsCopy(source)
    BY <1>3, EventIsCopy DEF Logs!Init
  <2> QED
    BY <1>1, <2>1, <2>2 DEF LogInv, Logs!Arrived
<1> QED
  BY <1>2, <1>3

\* ... and after every step.
LEMMA LogsStep ==
    ASSUME LogInv, Logs!Next, ObjectsAreJson
    PROVE  LogInv'
<1>1. CASE \E secret \in LogSecrets : Logs!Bind(secret)
  BY <1>1 DEF Logs!Bind, LogInv, Logs!Arrived, StoredIsKept
<1>2. CASE Logs!Send
  BY <1>2 DEF Logs!Send, LogInv, Logs!Arrived, StoredIsKept
<1>3. CASE Logs!Receive
  BY <1>3 DEF Logs!Receive, LogInv, Logs!Arrived, StoredIsKept, Kept
<1>4. CASE Logs!Forward
  <2> DEFINE now == Clock + hops
  <2>1. now \in Int /\ Logs!RowIsTyped(source) /\ stored = Kept(source, now)
    BY <1>4, LogsAssumption DEF Logs!RowsAssumption, LogInv, Logs!Forward, Logs!Arrived, StoredIsKept
  <2> HIDE DEF now
  <2>2. Logs!RowIsTyped(stored) /\ IsCopy(stored) /\ FromListener(stored)
    BY <2>1, KeptIsTyped, KeptIsCopy, KeptFromListener
  <2>3. /\ source' = stored /\ object' = Null /\ stored' = Null
        /\ hops' = hops + 1 /\ origin' = "listener"
    BY <1>4 DEF Logs!Forward
  <2>4. hops' \in Nat
    BY <2>3 DEF LogInv
  <2> QED
    BY <2>2, <2>3, <2>4 DEF LogInv, Logs!Arrived
<1> QED
  BY <1>1, <1>2, <1>3, <1>4 DEF Logs!Next

\* What a row is on each hop, for all rows, events, dates and numbers of hops.
THEOREM LogInvariance == ASSUME ObjectsAreJson PROVE WriteSpec => []LogInv
<1>1. WriteInit => LogInv
  BY LogsStart DEF WriteInit
<1>2. LogInv /\ [WriteNext]_writeVars => LogInv'
  <2> SUFFICES ASSUME LogInv, [WriteNext]_writeVars
               PROVE  LogInv'
    OBVIOUS
  <2>1. CASE LogStep
    BY <2>1, LogsStep DEF LogStep
  <2>2. CASE UNCHANGED logVars
    BY <2>2 DEF logVars, LogInv, Logs!Arrived, StoredIsKept
  <2> QED
    BY <2>1, <2>2 DEF WriteNext, TraceStep, MetricStep, writeVars
<1> QED
  BY <1>1, <1>2, PTL DEF WriteSpec

\* No attribute or resource block takes the place of a column that is set: it
\* reaches its column in the listener's table, on every hop, for all rows.
THEOREM ColumnsAlwaysArrive == ASSUME ObjectsAreJson PROVE WriteSpec => []ColumnsArrive
<1>1. LogInv => ColumnsArrive
  <2>1. ASSUME LogInv, Logs!Arrived
        PROVE  ColumnsArrive
    BY <2>1, ColumnsArriveIn DEF LogInv
  <2> QED
    BY <2>1 DEF ColumnsArrive, Logs!ColumnsArrive
<1> QED
  BY <1>1, LogInvariance, PTL

\* The block is stored whole and stands in for the columns that are missing,
\* and no attribute is lost, on every hop, for all rows.
THEOREM AttributesAlwaysArrive == ASSUME ObjectsAreJson PROVE WriteSpec => []AttributesArrive
<1>1. LogInv => AttributesArrive
  <2>1. ASSUME LogInv, Logs!Arrived
        PROVE  AttributesArrive
    BY <2>1, AttributesArriveIn DEF LogInv
  <2> QED
    BY <2>1 DEF AttributesArrive, Logs!AttributesArrive
<1> QED
  BY <1>1, LogInvariance, PTL

\* A log of Datadog or of a listener is passed on with its body, service,
\* severity, host, tags and ids, however many listeners it passes.
THEOREM CopiesStayFaithful == ASSUME ObjectsAreJson PROVE WriteSpec => []CopiesAreFaithful
<1>1. LogInv => CopiesAreFaithful
  <2>1. ASSUME LogInv, Logs!Arrived
        PROVE  CopiesAreFaithful
    BY <2>1, CopiesAreFaithfulIn DEF LogInv
  <2> QED
    BY <2>1 DEF CopiesAreFaithful, Logs!CopiesAreFaithful
<1> QED
  BY <1>1, LogInvariance, PTL

-----------------------------------------------------------------------------
(* Spans: read from one account and written to another.                     *)

\* What a text that is not there, or not a number, is read as.
Absent == {Null, Malformed}

\* A number is neither NULL nor malformed, and an id is no NULL.
LEMMA NumbersAreRead ==
    /\ \A n \in Int : n \notin Absent
    /\ Null \notin BOOLEAN
BY SpansAssumption DEF SpansAssumption, Absent

\* An id that is read is cut into its words.
LEMMA IdIsRead ==
    ASSUME NEW v \in 0..(Word * Word - 1)
    PROVE  /\ v \notin Absent
           /\ ReadsId(Spans!Id(v))
           /\ Low(Spans!Id(v)) = v % Word
           /\ High(Spans!Id(v)) = v \div Word
<1> DEFINE most == Word * Word
           id == Spans!Id(v)
<1>1. most \in Int
  BY WordAssumption
<1>2. v \in Int /\ 0 <= v /\ v < most
  <2> HIDE DEF most
  <2>1. v \in 0..(most - 1)
    BY DEF most
  <2> QED
    BY <1>1, <2>1
<1>3. v \notin Absent
  BY <1>2, NumbersAreRead
<1>4. id = [integral |-> FALSE, value |-> v]
  BY <1>3 DEF Spans!Id, Absent
<1> HIDE DEF id
<1>5. id \in [integral : BOOLEAN, value : Int]
  BY <1>2, <1>4
<1>6. id \notin Absent
  BY <1>5, SpansAssumption DEF SpansAssumption, Absent
<1>7. id.integral = FALSE /\ id.value = v
  BY <1>4
<1> HIDE DEF most
<1>8. ReadsId(id)
  BY <1>2, <1>6, <1>7 DEF ReadsId, Absent, most
<1> QED
  BY <1>3, <1>7, <1>8 DEF Low, High, id

\* An id that is absent is not read.
LEMMA AbsentIdIsNotRead ==
    ASSUME NEW v \in Absent
    PROVE  ~ReadsId(Spans!Id(v))
BY DEF ReadsId, Spans!Id, Absent

\* A kind is one of five, or none, ...
LEMMA KindIsSmall ==
    ASSUME NEW text
    PROVE  Spans!SpanKindToInteger(text) \in 0..5
<1>1. DOMAIN Spans!Spellings = 1..5
  BY DEF Spans!Spellings
<1> QED
  BY <1>1 DEF Spans!SpanKindToInteger

\* ... whichever of the two places it is read from.
LEMMA ExtractedKindIsSmall ==
    ASSUME NEW custom, NEW tags
    PROVE  Spans!ExtractSpanKind(custom, tags) \in 0..5
BY KindIsSmall DEF Spans!ExtractSpanKind

\* The text of a kind.
LEMMA KindIsWritten ==
    ASSUME NEW n \in 0..5, NEW row, row.kind = IF n = 0 THEN Null ELSE n
    PROVE  /\ n = 0 => KindOf(row) = Empty
           /\ n # 0 => KindOf(row) = SpanKindToString(n) /\ SpanKindToString(n) # Empty
<1>1. CASE n = 0
  BY <1>1 DEF KindOf, ReadsNumber
<1>2. CASE n # 0
  <2>1. KindOf(row) = SpanKindToString(n)
    BY <1>2, NumbersAreRead DEF KindOf, ReadsNumber, Absent
  <2>2. n = 1 \/ n = 2 \/ n = 3 \/ n = 4 \/ n = 5
    BY <1>2
  <2>3. SpanKindToString(n) # Empty
    BY <2>2 DEF SpanKindToString, Empty
  <2> QED
    BY <1>2, <2>1, <2>3
<1> QED
  BY <1>1, <1>2

\* The columns of the row that read_datadog_traces makes of an event.
SpanRow == Spans!MapSpanEvent(span_event)
\* What the event says of its kind and of its error.
KindSaid == Spans!ExtractSpanKind(Custom, Spans!Tagged(span_event))
Message == Spans!ExtractErrorMessage(span_event, Custom)

\* Each column of it.
LEMMA SpanColumns ==
    /\ ~SpanRow.null
    /\ SpanRow.trace_id = Spans!Id(Said("trace_id"))
    /\ SpanRow.span_id = Spans!Id(Said("span_id"))
    /\ SpanRow.parent_span_id = Spans!Id(Said("parent_id"))
    /\ SpanRow.start = IF Said("start_timestamp") = Malformed THEN Null ELSE Said("start_timestamp")
    /\ SpanRow.duration = Spans!Duration(span_event, Custom)
    /\ SpanRow.service = Spans!Text(Said("service"))
    /\ SpanRow.name = Spans!Text(Spans!Name(span_event, Custom))
    /\ SpanRow.kind = IF KindSaid = 0 THEN Null ELSE KindSaid
    /\ SpanRow.status_code = IF Spans!SpanHasError(span_event, Custom) THEN 2 ELSE 0
    /\ SpanRow.status_message = Spans!Text(Message)
    /\ SpanRow.trace_state = "" /\ SpanRow.events = "" /\ SpanRow.links = ""
    /\ SpanRow.span_attributes = Spans!Column(Spans!CustomFields(span_event, Custom))
    /\ SpanRow.resource_attributes = Spans!Column(Spans!ResourceFields(span_event))
BY DEF SpanRow, KindSaid, Message, Said, Custom, Spans!MapSpanEvent, Spans!Empty,
       Spans!BuildSpanAttributes, Spans!BuildResourceAttributes

\* What an event that is typed says.
LEMMA SaidIsTyped ==
    ASSUME EventIsTyped(span_event)
    PROVE  /\ \A key \in {"trace_id", "span_id", "parent_id"} :
                  Said(key) \in Absent \cup 0..(Word * Word - 1)
           /\ \A key \in {"start_timestamp", "end_timestamp"} : Said(key) \in Absent \cup Int
           /\ \A key \in DOMAIN span_event : span_event[key] # Null
           /\ \A key \in DOMAIN Custom : Custom[key] # Null
           /\ Spans!CustomFields(span_event, Custom) \notin Absent
           /\ Spans!ResourceFields(span_event) \notin Absent
BY DEF EventIsTyped, Said, Custom, Absent

\* A row is written exactly when its ids and its start were said.
LEMMA ReadableIsSpan ==
    ASSUME EventIsTyped(span_event)
    PROVE  IsSpan(SpanRow) <=> Readable
<1> DEFINE start == Said("start_timestamp")
           ids == {Said("trace_id"), Said("span_id")}
<1>1. \A v \in Absent \cup 0..(Word * Word - 1) : ReadsId(Spans!Id(v)) <=> v \notin Absent
  <2>1. ASSUME NEW v \in Absent PROVE ~ReadsId(Spans!Id(v))
    BY AbsentIdIsNotRead
  <2>2. ASSUME NEW v \in 0..(Word * Word - 1) PROVE ReadsId(Spans!Id(v)) /\ v \notin Absent
    BY IdIsRead
  <2> HIDE DEF Absent
  <2> QED
    BY <2>1, <2>2, Zenon
<1>2. /\ ReadsId(SpanRow.trace_id) <=> Said("trace_id") \notin Absent
      /\ ReadsId(SpanRow.span_id) <=> Said("span_id") \notin Absent
  BY <1>1, SpanColumns, SaidIsTyped
<1>3. ReadsNumber(SpanRow.start) <=> start \notin Absent
  BY SpanColumns DEF ReadsNumber, Absent
<1>4. Readable <=> Said("trace_id") \notin Absent /\ Said("span_id") \notin Absent /\ start \notin Absent
  BY DEF Readable, Absent
<1>5. IsSpan(SpanRow) <=> /\ ReadsId(SpanRow.trace_id) /\ ReadsId(SpanRow.span_id)
                          /\ ReadsNumber(SpanRow.start)
  BY SpanColumns DEF IsSpan, SkipReason, Empty
<1> QED
  BY <1>2, <1>3, <1>4, <1>5

\* The span that write_datadog_traces makes of that row.
SentSpan == BuildAgentSpanFromRow(SpanRow)

\* Its ids, its times and its texts.
LEMMA SpanIsTheSame ==
    ASSUME EventIsTyped(span_event), IsSpan(SpanRow)
    PROVE  LET start == Said("start_timestamp")
               end   == Said("end_timestamp")
           IN  /\ SentSpan.trace_id = Said("trace_id") % Word
               /\ SentSpan.span_id = Said("span_id") % Word
               /\ Said("parent_id") \notin {Null, Malformed} =>
                      SentSpan.parent_id = Said("parent_id") % Word
               /\ SentSpan.start = start
               /\ end \notin {Null, Malformed} /\ end >= start =>
                      SentSpan.start + SentSpan.duration = end
               /\ Said("service") \notin {Null, Empty} => SentSpan.service = Said("service")
               /\ ("operation_name" \notin DOMAIN Custom /\ Said("operation_name") \notin {Null, Empty}) =>
                      SentSpan.name = Said("operation_name")
<1> DEFINE start == Said("start_timestamp")
           end   == Said("end_timestamp")
           parent == Said("parent_id")
           row == SpanRow
<1>1. /\ SentSpan.trace_id = Low(row.trace_id)
      /\ SentSpan.span_id = Low(row.span_id)
      /\ SentSpan.parent_id = IF ReadsId(row.parent_span_id) THEN Low(row.parent_span_id) ELSE 0
      /\ SentSpan.start = row.start
      /\ SentSpan.duration = IF ReadsNumber(row.duration) /\ row.duration >= 0
                             THEN row.duration ELSE 0
      /\ SentSpan.service = Default(row.service, "unknown-service")
      /\ SentSpan.name = Default(row.name, "unnamed_operation")
  BY DEF SentSpan, BuildAgentSpanFromRow
<1>2. Said("trace_id") \notin Absent /\ Said("span_id") \notin Absent /\ start \notin Absent
  BY ReadableIsSpan DEF Readable, Absent
<1>3. \A v \in 0..(Word * Word - 1) : ReadsId(Spans!Id(v)) /\ Low(Spans!Id(v)) = v % Word
  BY IdIsRead
<1>4. \A key \in {"trace_id", "span_id", "parent_id"} :
         Said(key) \notin Absent => Said(key) \in 0..(Word * Word - 1)
  BY SaidIsTyped
<1>5. /\ Low(row.trace_id) = Said("trace_id") % Word
      /\ Low(row.span_id) = Said("span_id") % Word
  BY <1>2, <1>3, <1>4, SpanColumns
<1>6. parent \notin Absent => ReadsId(row.parent_span_id) /\ Low(row.parent_span_id) = parent % Word
  BY <1>3, <1>4, SpanColumns
<1>7. row.start = start /\ start \in Int
  BY <1>2, SpanColumns, SaidIsTyped DEF Absent
<1>8. ASSUME end \notin Absent, end >= start
      PROVE  row.duration = end - start /\ end \in Int
  <2>1. end \in Int
    BY <1>8, SaidIsTyped
  <2>2. row.duration = Spans!Duration(span_event, Custom)
    BY SpanColumns
  <2>3. Spans!GetStr(span_event, "start_timestamp") = start /\ Spans!GetStr(span_event, "end_timestamp") = end
    BY DEF Said
  <2> HIDE DEF start, end
  <2> QED
    BY <1>2, <1>8, <2>1, <2>2, <2>3 DEF Spans!Duration, Absent
<1>9. ASSUME end \notin Absent, end >= start
      PROVE  SentSpan.start + SentSpan.duration = end
  <2>1. row.duration = end - start /\ end \in Int
    BY <1>8, <1>9
  <2> HIDE DEF start, end
  <2>2. row.duration \in Int /\ row.duration >= 0
    BY <1>7, <1>9, <2>1
  <2>3. ReadsNumber(row.duration)
    BY <2>2, NumbersAreRead DEF ReadsNumber, Absent
  <2>4. SentSpan.duration = end - start /\ SentSpan.start = start
    BY <1>1, <1>7, <2>1, <2>2, <2>3
  <2> QED
    BY <1>7, <2>1, <2>4
<1>10. Said("service") \notin {Null, Empty} => SentSpan.service = Said("service")
  BY <1>1, SpanColumns DEF Default, Spans!Text
<1>11. ASSUME "operation_name" \notin DOMAIN Custom, Said("operation_name") \notin {Null, Empty}
       PROVE  SentSpan.name = Said("operation_name")
  <2>1. Spans!Name(span_event, Custom) = Said("operation_name")
    BY <1>11 DEF Spans!Name, Spans!First, Spans!GetStr, Said
  <2> QED
    BY <1>1, <1>11, <2>1, SpanColumns DEF Default, Spans!Text
<1> QED
  BY <1>1, <1>5, <1>6, <1>7, <1>9, <1>10, <1>11 DEF Absent

\* What an error attribute that is there says.
LEMMA VerdictOf ==
    ASSUME NEW parent, \A key \in DOMAIN parent : parent[key] # Null
    PROVE  /\ "error" \notin DOMAIN parent => Spans!ErrorVerdict(parent) = Null
           /\ "error" \in DOMAIN parent /\ parent["error"].kind = "object"
              /\ parent["error"].fields # <<>> => Spans!ErrorVerdict(parent) = TRUE
           /\ "error" \in DOMAIN parent /\ parent["error"].kind \notin {"number", "boolean", "object"}
              => Spans!ErrorVerdict(parent) = Null
           /\ "error" \in DOMAIN parent /\ parent["error"].kind = "object"
              /\ parent["error"].fields = <<>> => Spans!ErrorVerdict(parent) = Null
<1> DEFINE error == parent["error"]
<1>1. CASE "error" \notin DOMAIN parent
  BY <1>1 DEF Spans!ErrorVerdict, Spans!Get
<1>2. CASE "error" \in DOMAIN parent
  <2>1. Spans!Get(parent, "error") = error /\ error # Null
    BY <1>2 DEF Spans!Get
  <2>2. CASE error.kind = "object" /\ error.fields # <<>>
    BY <1>2, <2>1, <2>2 DEF Spans!ErrorVerdict, Spans!NoFields
  <2>3. CASE error.kind = "object" /\ error.fields = <<>>
    BY <1>2, <2>1, <2>3 DEF Spans!ErrorVerdict, Spans!NoFields
  <2>4. CASE error.kind \notin {"number", "boolean", "object"}
    BY <1>2, <2>1, <2>4 DEF Spans!ErrorVerdict
  <2> QED
    BY <1>2, <2>2, <2>3, <2>4
<1> QED
  BY <1>1, <1>2

\* A message is in an error object, which makes an error.
LEMMA MessageIsError ==
    ASSUME NEW parent, \A key \in DOMAIN parent : parent[key] # Null,
           Spans!GetStr(Spans!GetFields(parent, "error"), "message") # Null
    PROVE  Spans!ErrorVerdict(parent) = TRUE
<1>1. "error" \in DOMAIN parent /\ parent["error"].kind = "object"
  BY DEF Spans!GetStr, Spans!GetFields, Spans!NoFields
<1>2. parent["error"].fields # <<>>
  <2>1. "message" \in DOMAIN parent["error"].fields
    BY <1>1 DEF Spans!GetStr, Spans!GetFields
  <2>2. DOMAIN <<>> = {}
    OBVIOUS
  <2> QED
    BY <2>1, <2>2
<1> QED
  BY <1>1, <1>2, VerdictOf

\* A message without a status is that of an error, unless a flag denies it.
LEMMA MessageWithoutStatus ==
    ASSUME EventIsTyped(span_event), Said("status") = Null, Message # Null,
           ~Spans!SpanHasError(span_event, Custom)
    PROVE  Spans!Get(span_event, "error").kind \in {"number", "boolean"}
<1> DEFINE a == Spans!ErrorVerdict(span_event)
           b == Spans!ErrorVerdict(Custom)
<1>1. Spans!First(a, b) # TRUE
  BY DEF Spans!SpanHasError, Spans!ErrorOfObjects, Said
<1>2. /\ \A key \in DOMAIN span_event : span_event[key] # Null
      /\ \A key \in DOMAIN Custom : Custom[key] # Null
  BY SaidIsTyped
<1>3. \/ Spans!GetStr(Spans!GetFields(span_event, "error"), "message") # Null
      \/ Spans!GetStr(Spans!GetFields(Custom, "error"), "message") # Null
  BY DEF Message, Spans!ExtractErrorMessage, Spans!First
<1>4. a = TRUE \/ b = TRUE
  BY <1>2, <1>3, MessageIsError
<1>5. a # TRUE
  BY <1>1, NumbersAreRead DEF Spans!First
<1>6. a # Null
  BY <1>1, <1>4, <1>5 DEF Spans!First
<1> QED
  BY <1>2, <1>5, <1>6, VerdictOf DEF Spans!Get

\* The texts of the row that are tags are its kind and its message.
LEMMA ColumnsOfSpan ==
    ASSUME EventIsTyped(span_event), IsSpan(SpanRow)
    PROVE  LET high == Said("trace_id") \div Word
               kind == SpanKindToString(KindSaid)
           IN  /\ High(SpanRow.trace_id) = high
               /\ \A key : SetByColumn(SpanRow, key) <=>
                      \/ key = "_dd.p.tid" /\ high # 0
                      \/ key = "span.kind" /\ KindSaid # 0
                      \/ key = "error.message" /\ Message \notin {Null, Empty}
               /\ KindSaid # 0 => <<"span.kind", kind>> \in ColumnTexts(SpanRow) /\ kind # Empty
               /\ Message \notin {Null, Empty} => <<"error.message", Message>> \in ColumnTexts(SpanRow)
<1> DEFINE row == SpanRow
           high == Said("trace_id") \div Word
           kind == SpanKindToString(KindSaid)
<1>1. High(row.trace_id) = high
  <2>1. Said("trace_id") \in 0..(Word * Word - 1)
    BY ReadableIsSpan, SaidIsTyped DEF Readable, Absent
  <2> QED
    BY <2>1, IdIsRead, SpanColumns
<1>2. /\ KindSaid = 0 => KindOf(row) = Empty
      /\ KindSaid # 0 => KindOf(row) = kind /\ kind # Empty
  <2>1. KindSaid \in 0..5
    BY ExtractedKindIsSmall DEF KindSaid
  <2>2. row.kind = IF KindSaid = 0 THEN Null ELSE KindSaid
    BY SpanColumns
  <2> HIDE DEF row
  <2> QED
    BY <2>1, <2>2, KindIsWritten
<1>3. row.status_message = IF Message = Null THEN Empty ELSE Message
  BY SpanColumns DEF Spans!Text, Spans!Empty, Empty
<1>4. row.trace_state = Empty /\ row.events = Empty /\ row.links = Empty
  BY SpanColumns DEF Empty
<1> HIDE DEF row, high, kind
<1>5. ColumnTexts(row) = {<<"span.kind", KindOf(row)>>, <<"error.message", row.status_message>>,
                          <<"w3c.tracestate", Empty>>, <<"events", Empty>>, <<"_dd.span_links", Empty>>}
  BY <1>4 DEF ColumnTexts
<1>6. \A key : (\E column \in ColumnTexts(row) : column[1] = key /\ column[2] # Empty) <=>
          \/ key = "span.kind" /\ KindOf(row) # Empty
          \/ key = "error.message" /\ row.status_message # Empty
  BY <1>5
<1>7. row.status_message # Empty <=> Message \notin {Null, Empty}
  BY <1>3
<1> QED
  BY <1>1, <1>2, <1>3, <1>5, <1>6, <1>7 DEF SetByColumn, row, high, kind

\* The attributes of the row, by name.
LEMMA NamesOfColumn ==
    ASSUME NEW fields, fields \notin Absent
    PROVE  /\ AttributeNames(Spans!Column(fields)) = {key \in DOMAIN fields : fields[key].kind # "null"}
           /\ \A key \in DOMAIN fields : Spans!Column(fields)[key] = fields[key]
<1>1. DOMAIN <<>> = {}
  OBVIOUS
<1>2. CASE fields = <<>>
  BY <1>1, <1>2 DEF Spans!Column, Spans!NoFields, AttributeNames
<1>3. CASE fields # <<>>
  BY <1>3 DEF Spans!Column, Spans!NoFields, AttributeNames, Absent
<1> QED
  BY <1>2, <1>3

\* The reserved attributes that become span attributes.
ReservedOfSpan == {"resource_name", "type", "single_span", "ingestion_reason", "retained_by"}

\* The span attributes are the custom ones and, where they leave the name
\* free, the reserved ones.
LEMMA CustomFieldsByName ==
    LET fields == Spans!CustomFields(span_event, Custom)
    IN  /\ DOMAIN fields = (DOMAIN Custom) \cup
               {key \in ReservedOfSpan \cap DOMAIN span_event : span_event[key].kind # "null"}
        /\ \A key \in DOMAIN Custom : fields[key] = Custom[key]
        /\ \A key \in DOMAIN fields \ DOMAIN Custom : fields[key] = span_event[key]
<1> DEFINE reserved == {key \in ReservedOfSpan \cap DOMAIN span_event : span_event[key].kind # "null"}
           g == [k \in reserved |-> span_event[k]]
           fields == Spans!Merge(Custom, g)
<1>1. Spans!CustomFields(span_event, Custom) = fields
  BY DEF Spans!CustomFields, ReservedOfSpan
<1>2. DOMAIN g = reserved /\ \A key \in reserved : g[key] = span_event[key]
  OBVIOUS
<1> HIDE DEF g
<1>3. /\ DOMAIN fields = (DOMAIN Custom) \cup (DOMAIN g)
      /\ \A key \in DOMAIN Custom : fields[key] = Custom[key]
      /\ \A key \in DOMAIN g : key \notin DOMAIN Custom => fields[key] = g[key]
  BY DEF Spans!Merge
<1> HIDE DEF fields
<1> QED
  BY <1>1, <1>2, <1>3

\* The resource attributes are the host, the environment and the tags.
LEMMA ResourceFieldsByName ==
    LET fields == Spans!ResourceFields(span_event)
    IN  /\ DOMAIN fields \subseteq {"host", "env", "ddtags"}
        /\ \A key \in {"host", "env"} : Said(key) # Null =>
               key \in DOMAIN fields /\ fields[key] = span_event[key]
<1> DEFINE named == {k \in {"host", "env"} : Spans!GetStr(span_event, k) # Null}
           f == [k \in named |-> span_event[k]]
           tags == IF Spans!Tagged(span_event) = <<>> THEN Spans!NoFields
                   ELSE Spans!Only("ddtags", span_event["tags"])
           fields == Spans!Merge(f, tags)
<1>1. Spans!ResourceFields(span_event) = fields
  BY DEF Spans!ResourceFields
<1>2. DOMAIN f = named /\ \A key \in named : f[key] = span_event[key]
  OBVIOUS
<1>3. DOMAIN tags \subseteq {"ddtags"}
  <2>1. DOMAIN <<>> = {} /\ DOMAIN Spans!Only("ddtags", span_event["tags"]) = {"ddtags"}
    BY DEF Spans!Only
  <2> QED
    BY <2>1 DEF Spans!NoFields
<1> HIDE DEF f, tags
<1>4. /\ DOMAIN fields = (DOMAIN f) \cup (DOMAIN tags)
      /\ \A key \in DOMAIN f : fields[key] = f[key]
  BY DEF Spans!Merge
<1> HIDE DEF fields
<1> QED
  BY <1>1, <1>2, <1>3, <1>4 DEF Said

\* A tag that no column sets.
LEMMA TagOfAttribute ==
    ASSUME EventIsTyped(span_event), NEW key, ~SetByColumn(SpanRow, key)
    PROVE  /\ key \in DOMAIN Custom /\ Custom[key].kind # "null" => TagOf(SentSpan, key) = Custom[key].of
           /\ key \notin ReservedOfSpan \cup {"host", "env", "ddtags"} =>
                  TagOf(SentSpan, key) = CustomTag(key)
           /\ key \in {"resource_name", "type", "host", "env"} \ DOMAIN Custom /\ Said(key) # Null =>
                  TagOf(SentSpan, key) = Said(key)
<1> DEFINE a == SpanRow.span_attributes
           b == SpanRow.resource_attributes
           f == Spans!CustomFields(span_event, Custom)
           g == Spans!ResourceFields(span_event)
           tags == SentSpan.tags
           ofSpan == AttributeNames(a)
           ofSource == AttributeNames(b)
<1>1. f \notin Absent /\ g \notin Absent /\ a = Spans!Column(f) /\ b = Spans!Column(g)
  BY SaidIsTyped, SpanColumns
<1>2. /\ \A k \in DOMAIN tags \cup ofSpan \cup ofSource : ~SetByColumn(SpanRow, k) =>
             IF k \in ofSpan THEN k \in DOMAIN tags /\ tags[k].of = a[k].of
             ELSE k \in ofSource /\ k \in DOMAIN tags /\ tags[k].of = b[k].of
  <2>1. tags = Tags(High(SpanRow.trace_id), SpanRow)
    BY DEF SentSpan, BuildAgentSpanFromRow
  <2> HIDE DEF tags
  <2> QED
    BY <2>1, TagsOfRow
<1> HIDE DEF f, g, a, b, tags
<1>3. /\ ofSpan = {k \in DOMAIN f : f[k].kind # "null"} /\ \A k \in DOMAIN f : a[k] = f[k]
      /\ ofSource = {k \in DOMAIN g : g[k].kind # "null"} /\ \A k \in DOMAIN g : b[k] = g[k]
  BY <1>1, NamesOfColumn
<1> HIDE DEF ofSpan, ofSource
<1>4. /\ DOMAIN f = (DOMAIN Custom) \cup
               {k \in ReservedOfSpan \cap DOMAIN span_event : span_event[k].kind # "null"}
      /\ \A k \in DOMAIN Custom : f[k] = Custom[k]
      /\ \A k \in DOMAIN f \ DOMAIN Custom : f[k] = span_event[k]
  BY CustomFieldsByName DEF f
<1>5. /\ DOMAIN g \subseteq {"host", "env", "ddtags"}
      /\ \A k \in {"host", "env"} : Said(k) # Null => k \in DOMAIN g /\ g[k] = span_event[k]
  BY ResourceFieldsByName DEF g
<1>6. TagOf(SentSpan, key) = IF key \in DOMAIN tags THEN tags[key].of ELSE Null
  BY DEF TagOf, tags
<1>7. ASSUME key \in DOMAIN Custom, Custom[key].kind # "null"
      PROVE  TagOf(SentSpan, key) = Custom[key].of
  BY <1>2, <1>3, <1>4, <1>6, <1>7
<1>8. ASSUME key \notin ReservedOfSpan \cup {"host", "env", "ddtags"}
      PROVE  TagOf(SentSpan, key) = CustomTag(key)
  <2>1. CASE key \in DOMAIN Custom /\ Custom[key].kind # "null"
    BY <1>7, <2>1 DEF CustomTag
  <2>2. CASE ~(key \in DOMAIN Custom /\ Custom[key].kind # "null")
    <3>1. key \notin ofSpan /\ key \notin ofSource
      BY <1>3, <1>4, <1>5, <1>8, <2>2
    <3> QED
      BY <1>2, <1>6, <2>2, <3>1 DEF CustomTag
  <2> QED
    BY <2>1, <2>2
<1>9. ASSUME key \in {"resource_name", "type", "host", "env"} \ DOMAIN Custom, Said(key) # Null
      PROVE  TagOf(SentSpan, key) = Said(key)
  <2>1. key \in DOMAIN span_event /\ span_event[key].kind = "string" /\ Said(key) = span_event[key].of
    BY <1>9 DEF Said, Spans!GetStr
  <2>2. CASE key \in {"resource_name", "type"}
    <3>1. key \in ofSpan /\ a[key] = span_event[key]
      BY <1>3, <1>4, <1>9, <2>1, <2>2 DEF ReservedOfSpan
    <3> QED
      BY <1>2, <1>6, <2>1, <3>1
  <2>3. CASE key \in {"host", "env"}
    <3>1. key \notin ofSpan /\ key \in ofSource /\ b[key] = span_event[key]
      BY <1>3, <1>4, <1>5, <1>9, <2>1, <2>3 DEF ReservedOfSpan
    <3> QED
      BY <1>2, <1>6, <2>1, <3>1
  <2> QED
    BY <1>9, <2>2, <2>3
<1> QED
  BY <1>7, <1>8, <1>9

\* A tag that a column sets.
LEMMA TagOfColumn ==
    ASSUME EventIsTyped(span_event), NEW column \in ColumnTexts(SpanRow), column[2] # Empty
    PROVE  TagOf(SentSpan, column[1]) = column[2]
<1> DEFINE tags == SentSpan.tags
<1>1. column[1] \in DOMAIN tags /\ tags[column[1]].of = column[2]
  <2>1. tags = Tags(High(SpanRow.trace_id), SpanRow)
    BY DEF SentSpan, BuildAgentSpanFromRow
  <2> HIDE DEF tags
  <2> QED
    BY <2>1, TagsOfRow
<1> QED
  BY <1>1 DEF TagOf

\* The upper word of the trace id, unless it is zero.
LEMMA TagOfUpperBits ==
    ASSUME High(SpanRow.trace_id) # 0
    PROVE  TagOf(SentSpan, "_dd.p.tid") = ToString(High(SpanRow.trace_id))
<1> DEFINE tags == SentSpan.tags
<1>1. "_dd.p.tid" \in DOMAIN tags /\ tags["_dd.p.tid"].of = ToString(High(SpanRow.trace_id))
  <2>1. tags = Tags(High(SpanRow.trace_id), SpanRow)
    BY DEF SentSpan, BuildAgentSpanFromRow
  <2> HIDE DEF tags
  <2> QED
    BY <2>1, TagsOfRow
<1> QED
  BY <1>1 DEF TagOf

\* The error of a span and its message.
LEMMA ErrorIsTheSame ==
    ASSUME EventIsTyped(span_event), IsSpan(SpanRow)
    PROVE  ErrorIsKept(SentSpan)
<1> DEFINE error == Spans!SpanHasError(span_event, Custom)
<1>1. SentSpan.error = IF error THEN 1 ELSE 0
  <2>1. SentSpan.error = IF ReadsNumber(SpanRow.status_code) /\ SpanRow.status_code = 2 THEN 1 ELSE 0
    BY DEF SentSpan, BuildAgentSpanFromRow
  <2>2. SpanRow.status_code = IF error THEN 2 ELSE 0
    BY SpanColumns
  <2>3. 2 \notin Absent
    BY NumbersAreRead
  <2> HIDE DEF error
  <2> QED
    BY <2>1, <2>2, <2>3 DEF ReadsNumber, Absent
<1>2. Said("status") # Null => (error <=> Said("status") \in {"error", "ERROR"})
  BY DEF Spans!SpanHasError, Said
<1>3. Said("status") = Null /\ Message # Null /\ ~error =>
          Spans!Get(span_event, "error").kind \in {"number", "boolean"}
  BY MessageWithoutStatus
<1>4. TagOf(SentSpan, "error.message") =
          IF Message \notin {Null, Empty} THEN Message ELSE CustomTag("error.message")
  <2>1. CASE Message \notin {Null, Empty}
    <3> DEFINE column == <<"error.message", Message>>
    <3>1. column \in ColumnTexts(SpanRow) /\ column[1] = "error.message" /\ column[2] = Message
      BY <2>1, ColumnsOfSpan
    <3> HIDE DEF column
    <3>2. TagOf(SentSpan, column[1]) = column[2]
      BY <2>1, <3>1, TagOfColumn
    <3> QED
      BY <2>1, <3>1, <3>2
  <2>2. CASE Message \in {Null, Empty}
    <3>1. ~SetByColumn(SpanRow, "error.message")
      BY <2>2, ColumnsOfSpan
    <3>2. "error.message" \notin ReservedOfSpan \cup {"host", "env", "ddtags"}
      BY DEF ReservedOfSpan
    <3> QED
      BY <2>2, <3>1, <3>2, TagOfAttribute
  <2> QED
    BY <2>1, <2>2
<1> HIDE DEF error
<1> QED
  BY <1>1, <1>2, <1>3, <1>4 DEF ErrorIsKept, Message

\* The tags of a span.
LEMMA TagsAreTheSame ==
    ASSUME EventIsTyped(span_event), IsSpan(SpanRow)
    PROVE  TagsAreForwarded(SentSpan)
<1> DEFINE high == Said("trace_id") \div Word
<1>1. /\ High(SpanRow.trace_id) = high
      /\ \A key : SetByColumn(SpanRow, key) <=>
             \/ key = "_dd.p.tid" /\ high # 0
             \/ key = "span.kind" /\ KindSaid # 0
             \/ key = "error.message" /\ Message \notin {Null, Empty}
  BY ColumnsOfSpan
<1> HIDE DEF high
<1>2. "_dd.p.tid" \notin ReservedOfSpan /\ "span.kind" \notin ReservedOfSpan
  BY DEF ReservedOfSpan
<1>3. TagOf(SentSpan, "_dd.p.tid") = IF high = 0 THEN CustomTag("_dd.p.tid") ELSE ToString(high)
  <2>1. CASE high = 0
    <3>1. ~SetByColumn(SpanRow, "_dd.p.tid")
      BY <1>1, <2>1
    <3> QED
      BY <1>2, <2>1, <3>1, TagOfAttribute
  <2>2. CASE high # 0
    BY <1>1, <2>2, TagOfUpperBits
  <2> QED
    BY <2>1, <2>2
<1>4. ASSUME CustomKind # Null
      PROVE  TagOf(SentSpan, "span.kind") =
                 IF Spans!SpanKindToInteger(CustomKind) = 0 THEN CustomTag("span.kind")
                 ELSE SpanKindToString(Spans!SpanKindToInteger(CustomKind))
  <2>1. Spans!SpanKindToInteger(CustomKind) = KindSaid
    BY <1>4 DEF KindSaid, CustomKind, Spans!ExtractSpanKind
  <2>2. CASE KindSaid = 0
    <3>1. ~SetByColumn(SpanRow, "span.kind")
      BY <1>1, <2>2
    <3> QED
      BY <1>2, <2>1, <2>2, <3>1, TagOfAttribute
  <2>3. CASE KindSaid # 0
    <3> DEFINE column == <<"span.kind", SpanKindToString(KindSaid)>>
    <3>1. /\ column \in ColumnTexts(SpanRow) /\ column[1] = "span.kind"
          /\ column[2] = SpanKindToString(KindSaid) /\ column[2] # Empty
      BY <2>3, ColumnsOfSpan
    <3> HIDE DEF column
    <3>2. TagOf(SentSpan, column[1]) = column[2]
      BY <3>1, TagOfColumn
    <3> QED
      BY <2>1, <2>3, <3>1, <3>2
  <2> QED
    BY <2>2, <2>3
<1>5. ASSUME NEW key \in DOMAIN Custom \ {"_dd.p.tid", "span.kind", "error.message"},
             Custom[key].kind # "null"
      PROVE  TagOf(SentSpan, key) = Custom[key].of
  <2>1. ~SetByColumn(SpanRow, key)
    BY <1>1
  <2> QED
    BY <1>5, <2>1, TagOfAttribute
<1>6. ASSUME NEW key \in {"resource_name", "type", "host", "env"} \ DOMAIN Custom, Said(key) # Null
      PROVE  TagOf(SentSpan, key) = Said(key)
  <2>1. ~SetByColumn(SpanRow, key)
    BY <1>1
  <2> QED
    BY <1>6, <2>1, TagOfAttribute
<1> QED
  BY <1>3, <1>4, <1>5, <1>6 DEF TagsAreForwarded, high

\* The chunk of a span that was read is its row, and no trace is empty.
SpanInv ==
    /\ span_event # Null => span_event \in SpanEvents /\ chunk = <<SpanRow>>
    /\ \A t \in DOMAIN traces : traces[t].spans # <<>>

\* It holds at the start ...
LEMMA SpanStarts == ASSUME WriteInit PROVE SpanInv
<1>1. traces = <<>>
  BY DEF WriteInit, Init, NoTraces, Unread
<1>2. span_event # Null => span_event \in SpanEvents /\ chunk = <<SpanRow>>
  BY DEF WriteInit, SpanRow
<1> QED
  BY <1>1, <1>2 DEF SpanInv

\* Every trace is a record of its key and its spans.
LEMMA TracesAreTyped ==
    ASSUME IInv, NEW t \in DOMAIN traces
    PROVE  /\ traces[t].spans \in Seq(Nat)
           /\ \A value : [traces[t] EXCEPT !.spans = value].spans = value
<1>1. traces \in Seq(Trace)
  BY DEF IInv, TypeOK, Trace
<1>2. DOMAIN traces = 1..Len(traces)
  BY <1>1, LenProperties
<1>3. traces[t] \in Trace
  BY <1>1, <1>2, ElementOfSeq
<1> DEFINE trace == traces[t]
<1> HIDE DEF trace
<1>4. trace \in Trace
  BY <1>3 DEF trace
<1>5. trace.spans \in Seq(Nat) /\ \A value : [trace EXCEPT !.spans = value].spans = value
  BY <1>4 DEF Trace
<1> QED
  BY <1>5 DEF trace

\* ... and every step keeps it.
LEMMA SpanStays ==
    ASSUME IInv, SpanInv, [Next]_vars, UNCHANGED span_event
    PROVE  SpanInv'
<1>1. chunk' = chunk
  BY DEF Next, vars, Bind, SkipRow, AddSpan, ReadAll, StartTrace, ExtendTrace, Post
<1>2. (span_event # Null => span_event \in SpanEvents /\ chunk = <<SpanRow>>)'
  <2>1. SpanRow' = SpanRow
    BY DEF SpanRow
  <2> QED
    BY <1>1, <2>1 DEF SpanInv
<1>3. traces \in Seq([key : Int \X Int, spans : Seq(Nat)]) /\ source_rows \in Seq(Nat)
      /\ placed \in 0..Len(source_rows)
  <2>1. TypeOK
    BY DEF IInv
  <2>2. source_rows \in Seq(1..next - 1) /\ next \in 1..Len(chunk) + 1 /\ Len(chunk) \in Nat
    BY <2>1, ChunksAreSequences DEF TypeOK, IInv
  <2>3. 1..next - 1 \subseteq Nat
    BY <2>2
  <2> HIDE DEF TypeOK
  <2>4. source_rows \in Seq(Nat)
    BY <2>2, <2>3
  <2> QED
    BY <2>1, <2>4 DEF TypeOK
<1>4. CASE StartTrace
  <2> DEFINE new == [key |-> NextKey, spans |-> <<NextRow>>]
  <2>1. traces' = Append(traces, new)
    BY <1>4 DEF StartTrace
  <2>2. new.spans # <<>>
    OBVIOUS
  <2>3. DOMAIN traces = 1..Len(traces) /\ Len(traces) \in Nat
    BY <1>3
  <2> HIDE DEF new
  <2>4. /\ DOMAIN Append(traces, new) = 1..(Len(traces) + 1)
        /\ \A i \in 1..Len(traces) : Append(traces, new)[i] = traces[i]
        /\ Append(traces, new)[Len(traces) + 1] = new
    BY <1>3
  <2>5. ASSUME NEW t \in DOMAIN traces' PROVE traces'[t].spans # <<>>
    BY <2>1, <2>2, <2>3, <2>4 DEF SpanInv
  <2> QED
    BY <1>2, <2>5 DEF SpanInv
<1>5. CASE ExtendTrace
  <2>1. PICK t \in DOMAIN traces : traces' = [traces EXCEPT ![t].spans = Append(@, NextRow)]
    BY <1>5 DEF ExtendTrace
  <2>2. traces[t].spans \in Seq(Nat)
    BY TracesAreTyped
  <2> DEFINE longer == Append(traces[t].spans, NextRow)
  <2>3. NextRow \in Nat
    <3>1. Len(source_rows) \in Nat /\ DOMAIN source_rows = 1..Len(source_rows)
      BY <1>3, LenProperties
    <3>2. placed < Len(source_rows)
      BY <1>5 DEF ExtendTrace, Placing
    <3>3. placed \in 0..Len(source_rows)
      BY <1>3
    <3>4. placed + 1 \in DOMAIN source_rows
      BY <3>1, <3>2, <3>3
    <3> QED
      BY <1>3, <3>1, <3>4, ElementOfSeq DEF NextRow
  <2>4. longer # <<>>
    <3>1. Len(longer) = Len(traces[t].spans) + 1 /\ Len(traces[t].spans) \in Nat
      BY <2>2, <2>3
    <3> HIDE DEF longer
    <3>2. Len(<<>>) = 0
      OBVIOUS
    <3> QED
      BY <3>1, <3>2
  <2>5. traces' = [traces EXCEPT ![t].spans = longer]
    BY <2>1
  <2> HIDE DEF longer
  <2>6. \A s \in DOMAIN traces' : traces'[s].spans # <<>>
    <3>1. [traces[t] EXCEPT !.spans = longer].spans = longer
      BY TracesAreTyped
    <3>2. traces'[t].spans = longer
      BY <2>5, <3>1
    <3>3. \A s \in DOMAIN traces : s # t => traces'[s] = traces[s]
      BY <2>5
    <3>4. DOMAIN traces' = DOMAIN traces
      BY <2>5
    <3> QED
      BY <2>4, <3>2, <3>3, <3>4 DEF SpanInv
  <2> QED
    BY <1>2, <2>6 DEF SpanInv
<1>6. CASE ~StartTrace /\ ~ExtendTrace
  <2>1. traces' = traces
    BY <1>6 DEF Next, vars, Bind, SkipRow, AddSpan, ReadAll, Post
  <2> QED
    BY <1>2, <2>1 DEF SpanInv
<1> QED
  BY <1>4, <1>5, <1>6

\* A request for one row carries its span.
LEMMA OneRowRequest ==
    ASSUME IInv, RowsAreAccountedFor, DeliveredInv, SpanInv, span_event # Null, received # <<>>
    PROVE  IsSpan(SpanRow) /\ ReadSpan(received[1][1].wire) = SentSpan
<1>1. chunk = <<SpanRow>> /\ Len(chunk) = 1 /\ chunk[1] = SpanRow
  BY DEF SpanInv
<1>2. TypeOK /\ PlacedUnderTheirKey
  BY DEF IInv
<1>3. traces \in Seq([key : Int \X Int, spans : Seq(Nat)])
  BY <1>2 DEF TypeOK
<1>4. received = Request
  BY DEF DeliveredInv
<1>5. 1 \in DOMAIN traces
  <2>1. traces # <<>>
    <3> SUFFICES ASSUME traces = <<>> PROVE FALSE
      OBVIOUS
    <3>1. DOMAIN traces = {}
      OBVIOUS
    <3>2. Request = <<>>
      BY <3>1 DEF Request
    <3> QED
      BY <1>4, <3>2
  <2>2. Len(traces) # 0 /\ Len(traces) \in Nat /\ DOMAIN traces = 1..Len(traces)
    BY <1>3, <2>1, EmptySeq, LenProperties
  <2> QED
    BY <2>2
<1> DEFINE spans == traces[1].spans
<1>6. 1 \in DOMAIN spans
  <2>1. spans \in Seq(Nat) /\ spans # <<>>
    BY <1>5, TracesAreTyped DEF SpanInv
  <2> HIDE DEF spans
  <2>2. Len(spans) # 0 /\ Len(spans) \in Nat /\ DOMAIN spans = 1..Len(spans)
    BY <2>1, EmptySeq, LenProperties
  <2> QED
    BY <2>2
<1>7. PICK k \in 1..placed : spans[1] = source_rows[k]
  BY <1>2, <1>5, <1>6 DEF PlacedUnderTheirKey, RowOf
<1>8. k \in DOMAIN source_rows /\ source_rows[k] = 1
  <2>1. /\ placed \in 0..Len(source_rows) /\ source_rows \in Seq(1..next - 1)
        /\ next \in 1..Len(chunk) + 1
    BY <1>2 DEF TypeOK
  <2>2. k \in DOMAIN source_rows
    BY <2>1
  <2>3. source_rows[k] \in 1..next - 1
    BY <2>1, <2>2
  <2> QED
    BY <1>1, <2>1, <2>2, <2>3
<1>9. IsSpan(SpanRow)
  BY <1>1, <1>8 DEF RowsAreAccountedFor
<1>10. received[1][1].wire = WireSpan(SentSpan, mode)
  <2>1. spans[1] = 1
    BY <1>7, <1>8
  <2>2. received[1][1].wire = WireSpan(BuildAgentSpanFromRow(chunk[spans[1]]), mode)
    BY <1>4, <1>5, <1>6 DEF Request
  <2> QED
    BY <1>1, <2>1, <2>2 DEF SentSpan
<1> QED
  BY <1>9, <1>10, WireIsExact DEF SentSpan

\* A span that was read from Datadog keeps its ids, times, texts, error and
\* tags when it is written, for all words and events.
THEOREM SpansStayForwarded == WriteSpec => []ForwardedSpansKeep
<1> DEFINE Inv == IInv /\ RowsAreAccountedFor /\ DeliveredInv /\ SpanInv
<1>1. Inv => ForwardedSpansKeep
  <2> SUFFICES ASSUME Inv, span_event # Null
               PROVE  /\ phase = "done" /\ Readable => results[1] = "ok"
                      /\ received # <<>> => ForwardedSpansKeep
    BY DEF ForwardedSpansKeep
  <2>1. EventIsTyped(span_event) /\ chunk = <<SpanRow>>
    BY SpansAssumption DEF SpansAssumption, SpanInv
  <2>2. phase = "done" /\ Readable => results[1] = "ok"
    <3>1. 1 \in DOMAIN chunk /\ chunk[1] = SpanRow
      BY <2>1
    <3> QED
      BY <2>1, <3>1, ReadableIsSpan DEF RowsAreAccountedFor
  <2>3. ASSUME received # <<>> PROVE ForwardedSpansKeep
    <3>1. IsSpan(SpanRow) /\ ReadSpan(received[1][1].wire) = SentSpan
      BY <2>3, OneRowRequest
    <3>2. ErrorIsKept(SentSpan) /\ TagsAreForwarded(SentSpan)
      BY <2>1, <3>1, ErrorIsTheSame, TagsAreTheSame
    <3> DEFINE start == Said("start_timestamp")
               end == Said("end_timestamp")
    <3>3. /\ SentSpan.trace_id = Said("trace_id") % Word
          /\ SentSpan.span_id = Said("span_id") % Word
          /\ Said("parent_id") \notin {Null, Malformed} => SentSpan.parent_id = Said("parent_id") % Word
          /\ SentSpan.start = start
          /\ end \notin {Null, Malformed} /\ end >= start => SentSpan.start + SentSpan.duration = end
          /\ Said("service") \notin {Null, Empty} => SentSpan.service = Said("service")
          /\ ("operation_name" \notin DOMAIN Custom /\ Said("operation_name") \notin {Null, Empty}) =>
                 SentSpan.name = Said("operation_name")
      BY <2>1, <3>1, SpanIsTheSame
    <3> QED
      BY <2>2, <3>1, <3>2, <3>3, Zenon DEF ForwardedSpansKeep
  <2> QED
    BY <2>2, <2>3
<1>2. WriteInit => DeliveredInv /\ SpanInv
  BY SpanStarts DEF WriteInit, Init, NoTraces, Unread, DeliveredInv
<1>3. IInv /\ DeliveredInv /\ SpanInv /\ [WriteNext]_writeVars => (DeliveredInv /\ SpanInv)'
  <2> SUFFICES ASSUME IInv, DeliveredInv, SpanInv, [WriteNext]_writeVars
               PROVE  (DeliveredInv /\ SpanInv)'
    OBVIOUS
  <2>1. [Next]_vars /\ UNCHANGED span_event
    BY DEF WriteNext, TraceStep, LogStep, MetricStep, writeVars
  <2> QED
    BY <2>1, DeliveredStays, SpanStays
<1> QED
  BY <1>1, <1>2, <1>3, RowsStayAccountedFor, Invariance, PTL DEF WriteSpec
================================================================================
