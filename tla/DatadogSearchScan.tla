--------------------------- MODULE DatadogSearchScan ---------------------------
(***************************************************************************)
(* read_datadog_logs, read_datadog_traces and the tables of the catalog:   *)
(* a scan of a search API that follows meta.page.after.  The two functions *)
(* have a copy each of this code.                                          *)
(*                                                                         *)
(* A row is its position in the result of the search.  A cursor names the  *)
(* position it continues from; its mark tells apart two cursors for the    *)
(* same position.                                                          *)
(***************************************************************************)
EXTENDS AuthenticatedRequest, Sequences

CONSTANTS
    PageSizes,       \* values of page_size
    RowCaps,         \* values of max_rows, 0 for no cap
    EventCounts,     \* how many events the search may match
    VectorSize,      \* STANDARD_VECTOR_SIZE, rows per call
    PageFillings,    \* whether the API fills every page but the last
    None

ASSUME ScanAssumption ==
    /\ PageSizes \subseteq Nat \ {0} /\ RowCaps \subseteq Nat
    /\ EventCounts \subseteq Nat
    /\ VectorSize \in Nat \ {0}
    /\ PageFillings \subseteq BOOLEAN

Cursors == [position : Nat, mark : 0..1]

ASSUME NoneAssumption == None \notin Cursors

VARIABLES
    page_size, max_rows,   \* the bind data
    events,                \* events the search matches
    reliable,              \* whether this API fills every page but the last
    pc,                    \* "idle", "scanning" inside a call, "ended"
    buffer,                \* rows parsed and waiting to be emitted
    cursor,                \* where the next page starts, or None
    row_budget_used,       \* sum of the requested page limits
    total_emitted,
    finished,
    output                 \* every row emitted so far

bindVars == <<page_size, max_rows, events, reliable>>
scanVars == <<pc, buffer, cursor, row_budget_used, total_emitted, finished, output>>
vars == <<requestVars, bindVars, scanVars>>

\* InitGlobal may find that the pushed-down window is empty.
Init ==
    /\ RequestInit
    /\ page_size \in PageSizes /\ max_rows \in RowCaps /\ events \in EventCounts
    /\ reliable \in PageFillings
    /\ finished \in BOOLEAN /\ (finished => events = 0)
    /\ pc = "idle" /\ buffer = <<>> /\ cursor = None
    /\ row_budget_used = 0 /\ total_emitted = 0 /\ output = <<>>

Smaller(m, n) == IF m <= n THEN m ELSE n

--------------------------------------------------------------------------------
(* The row cap.                                                            *)

\* DatadogLogsMaxRowsReached
MaxRowsReached(emitted) == max_rows > 0 /\ emitted >= max_rows

\* GetDatadogLogsPageLimit
PageLimit(budget) ==
    IF max_rows = 0 THEN page_size
    ELSE IF budget >= max_rows THEN 0
    ELSE Smaller(page_size, max_rows - budget)

--------------------------------------------------------------------------------
(* One call of the table function.                                         *)

Call ==
    /\ pc = "idle"
    /\ pc' = "scanning"
    /\ IF MaxRowsReached(total_emitted)
       THEN finished' = TRUE /\ buffer' = <<>>
       ELSE UNCHANGED <<finished, buffer>>
    /\ UNCHANGED <<requestVars, bindVars, cursor, row_budget_used, total_emitted, output>>

\* The buffer is refilled until it has a row or the scan is finished.
FetchNextPage ==
    /\ pc = "scanning" /\ buffer = <<>> /\ ~finished
    /\ BeginRequest
    /\ UNCHANGED <<bindVars, scanVars>>

Position(c) == IF c = None THEN 0 ELSE c.position

\* The API: the last row of a page, and the cursor it names.
Page(last, after) ==
    /\ last \in Position(cursor)..events
    /\ after \in {None, cursor}
        \cup {[position |-> last, mark |-> m] : m \in 0..1}
    /\ reliable =>
        /\ last = Smaller(events, Position(cursor) + PageLimit(row_budget_used))
        /\ after = cursor \/ after = None => last = events

Rows(first, last) == [i \in 1..(last - first) |-> first + i]

\* Mutant: the budget is not looked at again.
IsLastUnbudgeted(rows, after, budget) ==
    after = None \/ rows = 0 \/ after = cursor

\* The last page: no row may be asked for, or no cursor leads on.  The last
\* two cases stop an endless stream of pages.
IsLast(rows, after, budget) ==
    PageLimit(budget) = 0 \/ after = None \/ rows = 0 \/ after = cursor

\* Mutant: the next request repeats the cursor of this one.
ReceivePageKeepingCursor(last, after) ==
    /\ FinishRequest(TRUE)
    /\ Page(last, after)
    /\ row_budget_used' = row_budget_used + PageLimit(row_budget_used)
    /\ buffer' = buffer \o Rows(Position(cursor), last)
    /\ finished' = IsLast(last - Position(cursor), after, row_budget_used')
    /\ UNCHANGED <<bindVars, pc, cursor, total_emitted, output>>

ReceivePage(last, after) ==
    /\ FinishRequest(TRUE)
    /\ Page(last, after)
    /\ row_budget_used' = row_budget_used + PageLimit(row_budget_used)
    /\ buffer' = buffer \o Rows(Position(cursor), last)
    /\ finished' = IsLast(last - Position(cursor), after, row_budget_used')
    /\ cursor' = IF finished' THEN cursor ELSE after
    /\ UNCHANGED <<bindVars, pc, total_emitted, output>>

\* A response that is not JSON.
MalformedPage ==
    /\ FinishRequest(FALSE)
    /\ row_budget_used' = row_budget_used + PageLimit(row_budget_used)
    /\ UNCHANGED <<bindVars, pc, buffer, cursor, total_emitted, finished, output>>

\* Rows of the buffer that go into the chunk.
ChunkSize ==
    LET n == Smaller(VectorSize, Len(buffer)) IN
        IF max_rows > 0 THEN Smaller(n, max_rows - total_emitted) ELSE n

\* The call returns a chunk; an empty one ends the scan.
Emit ==
    /\ pc = "scanning" /\ request = "idle"
    /\ buffer # <<>> \/ finished
    /\ total_emitted' = total_emitted + ChunkSize
    /\ output' = output \o SubSeq(buffer, 1, ChunkSize)
    /\ IF MaxRowsReached(total_emitted')
       THEN finished' = TRUE /\ buffer' = <<>>
       ELSE buffer' = SubSeq(buffer, ChunkSize + 1, Len(buffer)) /\ UNCHANGED finished
    /\ pc' = IF ChunkSize = 0 THEN "ended" ELSE "idle"
    /\ UNCHANGED <<requestVars, bindVars, cursor, row_budget_used>>

--------------------------------------------------------------------------------
RequestAction == RequestStep /\ UNCHANGED <<bindVars, scanVars>>

\* The scan thread inside a call.  A request always ends, by a timeout if by
\* nothing else.
Scan ==
    \/ FetchNextPage \/ MalformedPage \/ Emit \/ RequestAction
    \/ \E last \in 0..events :
         \E after \in {None, cursor} \cup [position : {last}, mark : 0..1] :
            ReceivePage(last, after)

\* The user presses Ctrl+C.
InterruptQuery == Interrupt /\ UNCHANGED <<bindVars, scanVars>>

Terminated == (pc = "ended" \/ request \in Threw) /\ UNCHANGED vars

Next == Call \/ Scan \/ InterruptQuery \/ Terminated

Spec == Init /\ [][Next]_vars

FairSpec == Spec /\ WF_vars(Scan)

--------------------------------------------------------------------------------
TypeOK ==
    /\ RequestOK
    /\ page_size \in PageSizes /\ max_rows \in RowCaps /\ events \in EventCounts
    /\ reliable \in PageFillings
    /\ pc \in {"idle", "scanning", "ended"}
    /\ buffer \in Seq(Nat) /\ output \in Seq(Nat)
    /\ cursor \in Cursors \cup {None}
    /\ row_budget_used \in Nat /\ total_emitted \in Nat
    /\ finished \in BOOLEAN

(* Properties.                                                             *)

\* D_ASSERT(page_limit > 0), and the claim that MAX_ROWS limits what is asked
\* of the API: every request asks for at least a row, and all requests
\* together for at most max_rows of them.
BudgetRespected ==
    /\ request \in Underway => PageLimit(row_budget_used) > 0
    /\ max_rows > 0 => row_budget_used <= max_rows

\* The rows the query should get.
Wanted == IF max_rows > 0 THEN Smaller(max_rows, events) ELSE events

StreamStatus ==
    IF request \in Threw THEN "failed" ELSE IF pc = "ended" THEN "ended" ELSE "open"

Stream == INSTANCE RowStream WITH
    may_end_early <- ~reliable, wanted <- Wanted, delivered <- output,
    status <- StreamStatus

\* "The function pages through the whole window for you": each wanted event
\* is delivered once and in order, across pages, chunks and retries, at most
\* max_rows of them, and a request that fails is not taken for the end.  An
\* API whose pages are short, empty or too long, or whose cursor is stuck, may
\* only make the scan end early.
ImplementsRowStream == Stream!Spec

\* Every call returns or throws: retries are bounded, and a stream of empty
\* pages or a cursor that does not advance is noticed.
CallReturns == pc = "scanning" ~> pc \in {"idle", "ended"} \/ request \in Threw

--------------------------------------------------------------------------------
(* The inductive invariant behind the first two.                           *)

\* What was emitted, what is buffered, and where the next page starts are
\* three consecutive stretches of the result.
RowsInv ==
    /\ total_emitted = Len(output)
    /\ \A i \in 1..Len(output) : output[i] = i
    /\ \A i \in 1..Len(buffer) : buffer[i] = Len(output) + i
    /\ Len(output) + Len(buffer) <= events
    /\ ~finished => Position(cursor) = Len(output) + Len(buffer)

\* The cap counts emitted rows, the budget requested ones.
CapInv ==
    /\ max_rows > 0 => Len(output) <= max_rows /\ row_budget_used <= max_rows
    /\ MaxRowsReached(total_emitted) => finished /\ buffer = <<>>
    /\ ~finished /\ request # "failed" => PageLimit(row_budget_used) > 0

\* If pages are full, a row is missing only while pages are.
CompleteInv ==
    reliable =>
        /\ ~finished /\ request # "failed" => Position(cursor) \in {events, row_budget_used}
        /\ finished => Len(output) + Len(buffer) >= Wanted

\* A page is requested only for an empty buffer; an ended scan got everything.
ControlInv ==
    /\ request # "idle" => pc = "scanning" /\ buffer = <<>> /\ ~finished
    /\ pc = "ended" => finished /\ buffer = <<>>

IInv == TypeOK /\ RowsInv /\ CapInv /\ CompleteInv /\ ControlInv
================================================================================
