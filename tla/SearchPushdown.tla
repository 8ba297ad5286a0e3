---------------------------- MODULE SearchPushdown ----------------------------
(***************************************************************************)
(* WHERE pushdown of the search scans: which part of a WHERE clause the    *)
(* optimizer callback turns into a Datadog query and time window, and what *)
(* the scan then asks Datadog for.  DuckDB evaluates the whole clause once *)
(* more above the scan.                                                    *)
(*                                                                         *)
(* A condition is one of the ANDed comparisons of the clause, or any other *)
(* expression, of column "other".  Times are nanoseconds, windows          *)
(* milliseconds of Scale nanoseconds.  A string is a sequence of "x" and   *)
(* "X" (word characters), "-" and "*" (any character that is not safe).  A *)
(* Datadog query is a sequence of alternatives, each a set of terms; "*"   *)
(* is the one alternative without terms.                                   *)
(***************************************************************************)
EXTENDS Integers, Sequences, FiniteSets

CONSTANTS
    Scale,           \* NANOS_PER_MILLISECOND
    FacetColumns,    \* columns pushed as facet:value terms
    Strings,         \* values of those columns, and constants compared to them
    Events,          \* what the account stores: [time, facets, other]
    Conditions,      \* conditions the WHERE clause may have
    Queries,         \* values of query
    Windows,         \* values of from and to: [absolute, ms]
    RowCaps,         \* values of max_rows, 0 for no cap
    MaxConditions,   \* conditions of a clause (a bound of the model)
    None             \* NULL, and a bound that is not set

Operators == {"=", "<>", "<", "<=", ">", ">="}

ASSUME PushdownAssumption ==
    /\ Scale \in Nat \ {0}
    /\ Strings \subseteq Seq({"x", "X", "-", "*"})
    /\ None \notin Int /\ None \notin Strings
    /\ FacetColumns \cap {"time", "other"} = {}
    /\ Events \subseteq [time : Int, facets : [FacetColumns -> Strings \cup {None}],
                         other : BOOLEAN]
    /\ Conditions \subseteq
        [column : {"time"}, op : Operators, reversed : BOOLEAN, value : Int]
        \cup [column : FacetColumns, op : Operators, reversed : BOOLEAN,
              value : Strings \cup {None}]
        \cup {[column |-> "other"]}
    /\ Queries \subseteq Seq(SUBSET (FacetColumns \X Strings))
    /\ Windows \subseteq [absolute : BOOLEAN, ms : Int]
    /\ RowCaps \subseteq Nat

VARIABLES
    query, from, to, max_rows,   \* the bind data
    truncates,               \* whether the API compares whole milliseconds
    stage,                   \* "bound", "pushing", "executed"
    conditions,              \* conditions of this pass of the optimizer
    query_terms,             \* bind.pushdown: terms <<column, value>> ...
    lower_bound, upper_bound,   \* ... and bounds in ms, or None
    request                  \* what the scan asks for, once executed

bindVars == <<query, from, to, max_rows, truncates>>
pushdown == <<query_terms, lower_bound, upper_bound>>
vars == <<bindVars, stage, conditions, pushdown, request>>

NoRequest == [query |-> <<>>, lower |-> None, upper |-> None, empty |-> FALSE]

Init ==
    /\ query \in Queries /\ from \in Windows /\ to \in Windows
    /\ max_rows \in RowCaps
    /\ truncates \in BOOLEAN
    /\ stage = "bound" /\ conditions = {}
    /\ query_terms = {} /\ lower_bound = None /\ upper_bound = None
    /\ request = NoRequest

--------------------------------------------------------------------------------
(* Outside the extension: SQL's comparison, and Datadog's search.          *)

Compare(a, op, b) ==
    CASE op = "="  -> a = b
      [] op = "<>" -> a # b
      [] op = "<"  -> a < b
      [] op = "<=" -> a <= b
      [] op = ">"  -> a > b
      [] op = ">=" -> a >= b

\* A comparison with NULL holds of no row.  Strings are only tested for
\* equality here; their order is not modelled.
Holds(c, e) ==
    CASE c.column = "other" -> e.other
      [] c.column = "time" ->
            IF c.reversed THEN Compare(c.value, c.op, e.time)
                          ELSE Compare(e.time, c.op, c.value)
      [] OTHER ->
            /\ c.value # None /\ e.facets[c.column] # None
            /\ c.op = "=" => e.facets[c.column] = c.value
            /\ c.op = "<>" => e.facets[c.column] # c.value

FoldCase(s) == [i \in DOMAIN s |-> IF s[i] = "X" THEN "x" ELSE s[i]]

\* Words the query language takes literally.
Literal(s) == s # <<>> /\ s[1] # "-" /\ \A i \in DOMAIN s : s[i] # "*"

\* A term matches a value whatever its case.  What a word that is not literal
\* means is unknown: it may match nothing.
TermMatches(term, e) ==
    LET value == e.facets[term[1]] IN
        value # None /\ Literal(term[2]) /\ FoldCase(value) = FoldCase(term[2])

\* The bounds of a window are inclusive; a relative one ("now-15m") is known
\* to the server only.
InWindow(time, lower, upper) ==
    IF truncates THEN time \div Scale \in lower..upper
                 ELSE time \in (lower * Scale)..(upper * Scale)

Found(q, lower, upper) ==
    {e \in Events : /\ \E i \in DOMAIN q : \A term \in q[i] : TermMatches(term, e)
                    /\ InWindow(e.time, lower, upper)}

\* max_rows keeps the first events (here: the first times).
Capped(S) ==
    IF max_rows = 0 THEN S
    ELSE {e \in S : Cardinality({f \in S : f.time < e.time}) < max_rows}

--------------------------------------------------------------------------------
(* The optimizer callback.                                                 *)

IsSafeDatadogFacetValue(value) ==
    /\ value # <<>>
    /\ \A i \in DOMAIN value : value[i] \in {"x", "X"} \/ (value[i] = "-" /\ i > 1)

ReverseComparison(op) ==
    CASE op = "<" -> ">" [] op = "<=" -> ">=" [] op = ">" -> "<" [] op = ">=" -> "<="
      [] OTHER -> op

\* Division and remainder of C++ truncate toward zero.
Truncated(n) == IF n >= 0 THEN n \div Scale ELSE -((-n) \div Scale)
Remainder(n) == n - Truncated(n) * Scale

\* Mutant: C++ division alone, which rounds up before 1970.
FloorTruncated(nanos) == Truncated(nanos)

FloorNanosecondsToMilliseconds(nanos) ==
    IF Remainder(nanos) < 0 THEN Truncated(nanos) - 1 ELSE Truncated(nanos)

CeilNanosecondsToMilliseconds(nanos) ==
    IF Remainder(nanos) > 0 THEN Truncated(nanos) + 1 ELSE Truncated(nanos)

\* Each pass of the optimizer starts from nothing.
DatadogPushdownComplexFilter ==
    /\ stage \in {"bound", "pushing"}
    /\ stage' = "pushing" /\ conditions' = {}
    /\ query_terms' = {} /\ lower_bound' = None /\ upper_bound' = None
    /\ UNCHANGED <<bindVars, request>>

Operator(c) == IF c.reversed THEN ReverseComparison(c.op) ELSE c.op

\* Nothing is pushed below a cap: it would change the rows the cap keeps.
PushesTerm(c) ==
    /\ max_rows = 0 /\ c.column \in FacetColumns
    /\ Operator(c) = "=" /\ c.value # None /\ IsSafeDatadogFacetValue(c.value)

PushesLower(c) ==
    /\ max_rows = 0 /\ c.column = "time" /\ Operator(c) \in {">", ">="}
    /\ LET millis == FloorNanosecondsToMilliseconds(c.value) IN
        lower_bound = None \/ millis > lower_bound

PushesUpper(c) ==
    /\ max_rows = 0 /\ c.column = "time" /\ Operator(c) \in {"<", "<="}
    /\ LET millis == CeilNanosecondsToMilliseconds(c.value) IN
        upper_bound = None \/ millis < upper_bound

\* The walk over the filters comes to a condition.
TryPushDatadogExpression(c) ==
    /\ stage = "pushing" /\ c \notin conditions
    /\ Cardinality(conditions) < MaxConditions
    /\ conditions' = conditions \cup {c}
    /\ query_terms' = IF PushesTerm(c) THEN query_terms \cup {<<c.column, c.value>>}
                                       ELSE query_terms
    /\ lower_bound' = IF PushesLower(c) THEN FloorNanosecondsToMilliseconds(c.value)
                                        ELSE lower_bound
    /\ upper_bound' = IF PushesUpper(c) THEN CeilNanosecondsToMilliseconds(c.value)
                                        ELSE upper_bound
    /\ UNCHANGED <<bindVars, stage, request>>

--------------------------------------------------------------------------------
(* The request.                                                            *)

BuildDatadogSearchQuery == [i \in DOMAIN query |-> query[i] \cup query_terms]

Greater(m, n) == IF m = None \/ m < n THEN n ELSE m
Lesser(m, n) == IF m = None \/ m > n THEN n ELSE m

\* Only a window of two absolute times can be intersected on the client.
Narrows == (lower_bound # None \/ upper_bound # None) /\ from.absolute /\ to.absolute

\* from and to of an unchanged window are resolved by the server, when the
\* request arrives: "now" is then later, for this query and for any other.
ResolveDatadogSearch ==
    LET lower == IF Narrows THEN Greater(lower_bound, from.ms) ELSE from.ms
        upper == IF Narrows THEN Lesser(upper_bound, to.ms) ELSE to.ms
    IN [query |-> BuildDatadogSearchQuery, lower |-> lower, upper |-> upper,
        empty |-> Narrows /\ lower > upper]

DatadogInitGlobal ==
    /\ stage \in {"bound", "pushing"}
    /\ stage' = "executed" /\ request' = ResolveDatadogSearch
    /\ UNCHANGED <<bindVars, conditions, pushdown>>

Terminated == stage = "executed" /\ UNCHANGED vars

Next ==
    \/ DatadogPushdownComplexFilter
    \/ \E c \in Conditions : TryPushDatadogExpression(c)
    \/ DatadogInitGlobal
    \/ Terminated

Spec == Init /\ [][Next]_vars

--------------------------------------------------------------------------------
TypeOK ==
    /\ query \in Queries /\ from \in Windows /\ to \in Windows
    /\ max_rows \in RowCaps
    /\ truncates \in BOOLEAN
    /\ stage \in {"bound", "pushing", "executed"}
    /\ conditions \subseteq Conditions
    /\ query_terms \subseteq FacetColumns \X Strings
    /\ lower_bound \in Int \cup {None} /\ upper_bound \in Int \cup {None}

(* Properties.                                                             *)

Where(S) == {e \in S : \A c \in conditions : Holds(c, e)}

Scanned ==
    IF request.empty THEN {}
    ELSE Capped(Found(request.query, request.lower, request.upper))

\* "The original WHERE clause is still evaluated by DuckDB for exact SQL
\* semantics" (README): the query sees the rows of the whole source relation
\* that satisfy the clause, as if nothing had been pushed.  The rounding of
\* bounds, negative times, windows the server resolves, the cap and the
\* values that mean something to the query language could each lose rows, or
\* add some from outside the window.
PushdownIsExact ==
    stage = "executed" => Where(Scanned) = Where(Capped(Found(query, from.ms, to.ms)))

(* The inductive invariant behind it: what was pushed follows from the     *)
(* conditions of this pass.                                                *)

TermsFollow ==
    \A term \in query_terms : \A e \in Where(Events) : TermMatches(term, e)

LowerFollows ==
    lower_bound # None => \A e \in Where(Events) : e.time >= lower_bound * Scale

UpperFollows ==
    upper_bound # None => \A e \in Where(Events) : e.time <= upper_bound * Scale

CappedPushesNothing ==
    max_rows > 0 => query_terms = {} /\ lower_bound = None /\ upper_bound = None

IInv == TypeOK /\ TermsFollow /\ LowerFollows /\ UpperFollows /\ CappedPushesNothing
        /\ (stage = "executed" => request = ResolveDatadogSearch)
================================================================================
