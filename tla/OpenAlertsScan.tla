---------------------------- MODULE OpenAlertsScan ----------------------------
(***************************************************************************)
(* The scan of alerts.open, which pages by number through Datadog's search *)
(* for triggered monitor groups.  The search answers each page from its    *)
(* listing at that moment, while groups trigger and resolve; a group that  *)
(* resolved stays in the listing until the index of the search follows.    *)
(***************************************************************************)
EXTENDS AuthenticatedRequest, SequencesExt, Selection

CONSTANTS
    Groups,       \* monitor groups
    PageSize,     \* ALERTS_PAGE_SIZE
    VectorSize,   \* STANDARD_VECTOR_SIZE, rows per call
    MaxChanges    \* changes of the listing or of a status during a scan (a bound)

AlertsAssumption == {PageSize, VectorSize} \subseteq Nat \ {0} /\ MaxChanges \in Nat

VARIABLES
    open,                \* groups in Alert, Warn or No Data
    listing,             \* what the search finds, in its order
    changes,
    undisturbed,         \* groups at its start that have not changed since the scan began
    ever_open,           \* groups that were open at some time of the scan
    pc,                  \* "idle", "scanning" inside a call, "ended"
    page, api_rows_received, buffer, finished,
    output               \* groups emitted so far

alertVars == <<open, listing, changes, undisturbed, ever_open>>
scanVars == <<pc, page, api_rows_received, buffer, finished, output>>
vars == <<requestVars, alertVars, scanVars>>

Listings == {s \in UNION {[1..n -> Groups] : n \in 0..Cardinality(Groups)} : IsInjective(s)}

Init ==
    /\ RequestInit
    /\ listing \in Listings /\ open \in SUBSET Range(listing)
    /\ changes = 0 /\ undisturbed = Len(listing) /\ ever_open = open
    /\ pc = "idle" /\ page = 0 /\ api_rows_received = 0 /\ buffer = <<>>
    /\ finished = FALSE /\ output = <<>>

--------------------------------------------------------------------------------
(* Datadog.                                                                *)

Smaller(m, n) == IF m <= n THEN m ELSE n

Trigger(g) ==
    /\ changes < MaxChanges /\ g \notin open \cup Range(listing)
    /\ open' = open \cup {g} /\ ever_open' = ever_open \cup {g}
    /\ \E i \in 1..Len(listing) + 1 :
        listing' = InsertAt(listing, i, g) /\ undisturbed' = Smaller(undisturbed, i - 1)
    /\ changes' = changes + 1
    /\ UNCHANGED <<requestVars, scanVars>>

Resolve(i) ==
    /\ changes < MaxChanges /\ listing[i] \in open
    /\ open' = open \ {listing[i]} /\ undisturbed' = Smaller(undisturbed, i - 1)
    /\ changes' = changes + 1
    /\ UNCHANGED <<requestVars, listing, ever_open, scanVars>>

Unlist(i) ==
    /\ changes < MaxChanges /\ listing[i] \notin open
    /\ listing' = RemoveAt(listing, i) /\ undisturbed' = Smaller(undisturbed, i - 1)
    /\ changes' = changes + 1
    /\ UNCHANGED <<requestVars, open, ever_open, scanVars>>

--------------------------------------------------------------------------------
(* The scan.                                                               *)

Call ==
    /\ pc = "idle" /\ pc' = "scanning"
    /\ UNCHANGED <<requestVars, alertVars, page, api_rows_received, buffer, finished, output>>

FetchNextPage ==
    /\ pc = "scanning" /\ buffer = <<>> /\ ~finished
    /\ BeginRequest
    /\ UNCHANGED <<alertVars, scanVars>>

\* The groups of a page, whatever their status by now.
PageGroups ==
    SubSeq(listing, page * PageSize + 1, Smaller((page + 1) * PageSize, Len(listing)))

\* Mutant: the search alone decides what is open.
AllOpen(groups) == groups

\* IsOpenStatus, of each group.
OpenOf(groups) == Selected(groups, open)

\* Mutant: a page of open groups only is a full page.
IsLastByRows(received, has_total) ==
    \/ PageGroups = <<>>
    \/ has_total /\ received >= Len(listing)
    \/ ~has_total /\ Len(OpenOf(PageGroups)) < PageSize

\* metadata.total_count is optional; without it a short page is the last.
IsLast(received, has_total) ==
    \/ PageGroups = <<>>
    \/ has_total /\ received >= Len(listing)
    \/ ~has_total /\ Len(PageGroups) < PageSize

ReceivePage(has_total) ==
    /\ FinishRequest(TRUE)
    /\ page' = page + 1
    /\ api_rows_received' = api_rows_received + Len(PageGroups)
    /\ buffer' = buffer \o OpenOf(PageGroups)
    /\ finished' = IsLast(api_rows_received', has_total)
    /\ UNCHANGED <<alertVars, pc, output>>

\* Not JSON, a field of another type, or a negative count: the page throws
\* before any of its groups is kept.
MalformedPage == FinishRequest(FALSE) /\ UNCHANGED <<alertVars, scanVars>>

Emit ==
    /\ pc = "scanning" /\ request = "idle"
    /\ buffer # <<>> \/ finished
    /\ LET count == Smaller(VectorSize, Len(buffer)) IN
        /\ output' = output \o SubSeq(buffer, 1, count)
        /\ buffer' = SubSeq(buffer, count + 1, Len(buffer))
        /\ pc' = IF count = 0 THEN "ended" ELSE "idle"
    /\ UNCHANGED <<requestVars, alertVars, page, api_rows_received, finished>>

--------------------------------------------------------------------------------
Scan ==
    \/ FetchNextPage \/ MalformedPage \/ Emit
    \/ \E has_total \in BOOLEAN : ReceivePage(has_total)
    \/ RequestStep /\ UNCHANGED <<alertVars, scanVars>>

Datadog ==
    \/ \E g \in Groups : Trigger(g)
    \/ \E i \in DOMAIN listing : Resolve(i) \/ Unlist(i)

InterruptQuery == Interrupt /\ UNCHANGED <<alertVars, scanVars>>

Terminated == (pc = "ended" \/ request \in Threw) /\ UNCHANGED vars

Next == Call \/ Scan \/ Datadog \/ InterruptQuery \/ Terminated

--------------------------------------------------------------------------------
(* Properties.                                                             *)

\* "The local check preserves the table contract if a monitor resolves
\* concurrently with pagination": a group that was not open at any time of the
\* scan is not shown, although the search may still list it.
OnlyOpenShown == Range(output) \cup Range(buffer) \subseteq ever_open

OpenListing(n) == OpenOf(SubSeq(listing, 1, n))

\* "One row per currently triggered monitor group": a scan that ends while
\* nothing changes showed every open group once and in order, with or without
\* a total count.  Whatever changes behind them, the open groups at the start
\* of the listing that did not change are shown, first and in order: no page
\* is skipped, and neither a count nor a short page ends the scan before them.
UndisturbedShown ==
    pc = "ended" =>
        /\ changes = 0 => output = OpenListing(Len(listing))
        /\ IsPrefix(OpenListing(undisturbed), output)

--------------------------------------------------------------------------------
(* The inductive invariant behind them.                                    *)

\* How much of the listing was asked for.
Asked == page * PageSize

Shown == output \o buffer

ListingInv ==
    /\ listing \in Seq(Groups)
    /\ \A i, j \in DOMAIN listing : listing[i] = listing[j] => i = j
    /\ changes \in Nat /\ undisturbed \in 0..Len(listing)
    /\ changes = 0 => undisturbed = Len(listing)
    /\ open \subseteq ever_open

\* While all that was asked for is undisturbed, what is shown are the open
\* groups of it; later, they are what is shown first.  A scan does not finish
\* before it has asked for all that is undisturbed.
ShownInv ==
    /\ output \in Seq(Groups \cap ever_open) /\ buffer \in Seq(Groups \cap ever_open)
    /\ page \in Nat /\ api_rows_received \in 0..Asked
    /\ Asked <= undisturbed => Shown = OpenListing(Asked)
    /\ Asked > undisturbed => IsPrefix(OpenListing(undisturbed), Shown)
    /\ Asked > undisturbed /\ changes = 0 => Shown = OpenListing(Len(listing))
    /\ finished => Asked >= undisturbed

\* A page is requested only for an empty buffer; an ended scan has shown all.
ControlInv ==
    /\ request # "idle" => pc = "scanning" /\ buffer = <<>> /\ ~finished
    /\ pc = "ended" => finished /\ buffer = <<>>

IInv == ListingInv /\ ShownInv /\ ControlInv
================================================================================
