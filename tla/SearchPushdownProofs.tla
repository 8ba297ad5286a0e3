------------------------- MODULE SearchPushdownProofs -------------------------
(***************************************************************************)
(* WHERE pushdown changes no result, for every clause, account and window. *)
(***************************************************************************)
EXTENDS SearchPushdown, TLAPS

--------------------------------------------------------------------------------
(* Rounding.                                                               *)

LEMMA DivBounds ==
    ASSUME NEW n \in Int
    PROVE  /\ n \div Scale \in Int
           /\ (n \div Scale) * Scale <= n
           /\ n < (n \div Scale) * Scale + Scale
  BY SMT, PushdownAssumption

\* Comparing whole milliseconds, as the API may, keeps every time a rounded
\* bound lets pass.
LEMMA DivMonotone ==
    ASSUME NEW n \in Int, NEW m \in Int
    PROVE  /\ n >= m * Scale => n \div Scale >= m
           /\ n <= m * Scale => n \div Scale <= m
  BY SMT, PushdownAssumption, DivBounds

\* Bounds are rounded outward, before 1970 as well.
LEMMA RoundsOutward ==
    ASSUME NEW n \in Int
    PROVE  /\ FloorNanosecondsToMilliseconds(n) \in Int
           /\ CeilNanosecondsToMilliseconds(n) \in Int
           /\ FloorNanosecondsToMilliseconds(n) * Scale <= n
           /\ CeilNanosecondsToMilliseconds(n) * Scale >= n
  BY SMT, PushdownAssumption
     DEF FloorNanosecondsToMilliseconds, CeilNanosecondsToMilliseconds, Remainder, Truncated

--------------------------------------------------------------------------------
(* What a pushed condition says of the events it holds of.                 *)

LEMMA SafeIsLiteral ==
    ASSUME NEW s \in Strings, IsSafeDatadogFacetValue(s)
    PROVE  Literal(s)
<1>1. s \in Seq({"x", "X", "-", "*"})
  BY PushdownAssumption
<1>2. 1 \in DOMAIN s
  BY <1>1 DEF IsSafeDatadogFacetValue
<1>3. \A i \in DOMAIN s : s[i] # "*"
  BY DEF IsSafeDatadogFacetValue
<1>4. s[1] # "-"
  BY <1>2 DEF IsSafeDatadogFacetValue
<1> QED
  BY <1>3, <1>4 DEF Literal, IsSafeDatadogFacetValue

LEMMA TermHolds ==
    ASSUME NEW c \in Conditions, NEW e \in Events, Holds(c, e), PushesTerm(c)
    PROVE  /\ <<c.column, c.value>> \in FacetColumns \X Strings
           /\ TermMatches(<<c.column, c.value>>, e)
<1>1. /\ c.column \in FacetColumns /\ c.column # "time" /\ c.column # "other"
      /\ c.value # None
  BY PushdownAssumption DEF PushesTerm
<1>2. c \in [column : FacetColumns, op : Operators, reversed : BOOLEAN,
             value : Strings \cup {None}]
  BY <1>1, PushdownAssumption
<1>3. c.op = "="
  BY <1>2 DEF PushesTerm, Operator, ReverseComparison, Operators
<1>4. e.facets[c.column] = c.value
  BY <1>1, <1>3 DEF Holds
<1>5. c.value \in Strings /\ Literal(c.value)
  BY <1>1, <1>2, SafeIsLiteral DEF PushesTerm
<1> QED
  BY <1>1, <1>4, <1>5 DEF TermMatches

LEMMA ComparesTime ==
    ASSUME NEW op \in Operators, NEW a \in Int, NEW b \in Int
    PROVE  /\ Compare(a, op, b) /\ op \in {">", ">="} => a >= b
           /\ Compare(a, op, b) /\ op \in {"<", "<="} => a <= b
           /\ Compare(b, op, a) /\ ReverseComparison(op) \in {">", ">="} => a >= b
           /\ Compare(b, op, a) /\ ReverseComparison(op) \in {"<", "<="} => a <= b
<1>1. CASE op = "="
  BY <1>1 DEF Compare, ReverseComparison
<1>2. CASE op = "<>"
  BY <1>2 DEF Compare, ReverseComparison
<1>3. CASE op = "<"
  BY <1>3 DEF Compare, ReverseComparison
<1>4. CASE op = "<="
  BY <1>4 DEF Compare, ReverseComparison
<1>5. CASE op = ">"
  BY <1>5 DEF Compare, ReverseComparison
<1>6. CASE op = ">="
  BY <1>6 DEF Compare, ReverseComparison
<1> QED
  BY <1>1, <1>2, <1>3, <1>4, <1>5, <1>6 DEF Operators

LEMMA TimeCondition ==
    ASSUME NEW c \in Conditions, NEW e \in Events, c.column = "time", Holds(c, e)
    PROVE  /\ c.value \in Int /\ e.time \in Int
           /\ Operator(c) \in {">", ">="} => e.time >= c.value
           /\ Operator(c) \in {"<", "<="} => e.time <= c.value
<1>1. c \in [column : {"time"}, op : Operators, reversed : BOOLEAN, value : Int]
  BY PushdownAssumption
<1>2. e.time \in Int
  BY PushdownAssumption
<1>3. IF c.reversed THEN Compare(c.value, c.op, e.time) ELSE Compare(e.time, c.op, c.value)
  BY <1>1 DEF Holds
<1>4. c.op \in Operators /\ c.reversed \in BOOLEAN /\ c.value \in Int
  BY <1>1
<1>5. CASE c.reversed
  BY <1>2, <1>3, <1>4, <1>5, ComparesTime DEF Operator
<1>6. CASE ~c.reversed
  BY <1>2, <1>3, <1>4, <1>6, ComparesTime DEF Operator
<1> QED
  BY <1>2, <1>4, <1>5, <1>6

LEMMA LowerHolds ==
    ASSUME NEW c \in Conditions, NEW e \in Events, Holds(c, e), PushesLower(c)
    PROVE  /\ FloorNanosecondsToMilliseconds(c.value) \in Int
           /\ e.time >= FloorNanosecondsToMilliseconds(c.value) * Scale
<1>1. c.value \in Int /\ e.time \in Int /\ e.time >= c.value
  BY TimeCondition DEF PushesLower
<1>2. /\ FloorNanosecondsToMilliseconds(c.value) \in Int
      /\ FloorNanosecondsToMilliseconds(c.value) * Scale <= c.value
  BY <1>1, RoundsOutward
<1>3. FloorNanosecondsToMilliseconds(c.value) * Scale \in Int
  BY <1>2, PushdownAssumption
<1> QED
  BY <1>1, <1>2, <1>3

LEMMA UpperHolds ==
    ASSUME NEW c \in Conditions, NEW e \in Events, Holds(c, e), PushesUpper(c)
    PROVE  /\ CeilNanosecondsToMilliseconds(c.value) \in Int
           /\ e.time <= CeilNanosecondsToMilliseconds(c.value) * Scale
<1>1. c.value \in Int /\ e.time \in Int /\ e.time <= c.value
  BY TimeCondition DEF PushesUpper
<1>2. /\ CeilNanosecondsToMilliseconds(c.value) \in Int
      /\ c.value <= CeilNanosecondsToMilliseconds(c.value) * Scale
  BY <1>1, RoundsOutward
<1>3. CeilNanosecondsToMilliseconds(c.value) * Scale \in Int
  BY <1>2, PushdownAssumption
<1> QED
  BY <1>1, <1>2, <1>3

LEMMA ConditionTypes ==
    ASSUME NEW c \in Conditions
    PROVE  /\ PushesTerm(c) => <<c.column, c.value>> \in FacetColumns \X Strings
           /\ c.column = "time" => c.value \in Int
<1>1. ASSUME PushesTerm(c) PROVE <<c.column, c.value>> \in FacetColumns \X Strings
  <2>1. c.column \in FacetColumns /\ c.column # "time" /\ c.column # "other" /\ c.value # None
    BY <1>1, PushdownAssumption DEF PushesTerm
  <2>2. c \in [column : FacetColumns, op : Operators, reversed : BOOLEAN,
               value : Strings \cup {None}]
    BY <2>1, PushdownAssumption
  <2> QED
    BY <2>1, <2>2
<1>2. ASSUME c.column = "time" PROVE c.value \in Int
  BY <1>2, PushdownAssumption
<1> QED
  BY <1>1, <1>2

--------------------------------------------------------------------------------
(* The inductive invariant.                                                *)

LEMMA Initially == Init => IInv
  BY DEF Init, IInv, TypeOK, TermsFollow, LowerFollows, UpperFollows, CappedPushesNothing

LEMMA PassPreserves == IInv /\ DatadogPushdownComplexFilter => IInv'
  BY DEF DatadogPushdownComplexFilter, bindVars, IInv, TypeOK, TermsFollow, LowerFollows,
         UpperFollows, CappedPushesNothing

LEMMA PushPreserves ==
    ASSUME IInv, NEW c \in Conditions, TryPushDatadogExpression(c)
    PROVE  IInv'
<1> USE DEF IInv
<1>1. /\ UNCHANGED <<query, from, to, max_rows, truncates, stage>>
      /\ conditions' = conditions \cup {c} /\ stage = "pushing"
  BY DEF TryPushDatadogExpression, bindVars
<1>2. Where(Events)' \subseteq {e \in Where(Events) : Holds(c, e)}
  BY <1>1 DEF Where
<1>3. ASSUME PushesLower(c) \/ PushesUpper(c) PROVE c.value \in Int
  BY <1>3, ConditionTypes DEF PushesLower, PushesUpper
<1>4. TypeOK'
  <2>1. query_terms' \subseteq FacetColumns \X Strings
    BY ConditionTypes DEF TypeOK, TryPushDatadogExpression
  <2>2. lower_bound' \in Int \cup {None} /\ upper_bound' \in Int \cup {None}
    BY <1>3, RoundsOutward DEF TypeOK, TryPushDatadogExpression
  <2> QED
    BY <1>1, <2>1, <2>2 DEF TypeOK
<1>5. TermsFollow'
  <2> SUFFICES ASSUME NEW term \in query_terms', NEW e \in Where(Events)'
               PROVE  TermMatches(term, e)
    BY DEF TermsFollow, TermMatches
  <2>1. e \in Events /\ e \in Where(Events) /\ Holds(c, e)
    BY <1>2 DEF Where
  <2>2. CASE term \in query_terms
    BY <2>1, <2>2 DEF TermsFollow
  <2>3. CASE term \notin query_terms
    <3>1. PushesTerm(c) /\ term = <<c.column, c.value>>
      BY <2>3 DEF TryPushDatadogExpression
    <3> QED
      BY <2>1, <3>1, TermHolds
  <2> QED
    BY <2>2, <2>3
<1>6. LowerFollows'
  <2> SUFFICES ASSUME lower_bound' # None, NEW e \in Where(Events)'
               PROVE  e.time >= lower_bound' * Scale
    BY DEF LowerFollows
  <2>1. e \in Events /\ e \in Where(Events) /\ Holds(c, e)
    BY <1>2 DEF Where
  <2>2. CASE PushesLower(c)
    BY <2>1, <2>2, LowerHolds DEF TryPushDatadogExpression
  <2>3. CASE ~PushesLower(c)
    BY <2>1, <2>3 DEF TryPushDatadogExpression, LowerFollows
  <2> QED
    BY <2>2, <2>3
<1>7. UpperFollows'
  <2> SUFFICES ASSUME upper_bound' # None, NEW e \in Where(Events)'
               PROVE  e.time <= upper_bound' * Scale
    BY DEF UpperFollows
  <2>1. e \in Events /\ e \in Where(Events) /\ Holds(c, e)
    BY <1>2 DEF Where
  <2>2. CASE PushesUpper(c)
    BY <2>1, <2>2, UpperHolds DEF TryPushDatadogExpression
  <2>3. CASE ~PushesUpper(c)
    BY <2>1, <2>3 DEF TryPushDatadogExpression, UpperFollows
  <2> QED
    BY <2>2, <2>3
<1>8. CappedPushesNothing'
  <2> SUFFICES ASSUME max_rows > 0
               PROVE  UNCHANGED <<query_terms, lower_bound, upper_bound>>
    BY <1>1 DEF CappedPushesNothing
  <2>1. max_rows # 0
    BY PushdownAssumption DEF TypeOK
  <2> QED
    BY <2>1 DEF TryPushDatadogExpression, PushesTerm, PushesLower, PushesUpper
<1> QED
  BY <1>1, <1>4, <1>5, <1>6, <1>7, <1>8

LEMMA ExecutePreserves == IInv /\ DatadogInitGlobal => IInv'
  BY DEF DatadogInitGlobal, bindVars, pushdown, IInv, TypeOK, TermsFollow, LowerFollows,
         UpperFollows, CappedPushesNothing, Where, TermMatches, ResolveDatadogSearch, Narrows,
         BuildDatadogSearchQuery

LEMMA StutterPreserves == IInv /\ UNCHANGED vars => IInv'
  BY DEF vars, bindVars, pushdown, IInv, TypeOK, TermsFollow, LowerFollows, UpperFollows,
         CappedPushesNothing, Where, TermMatches, ResolveDatadogSearch, Narrows,
         BuildDatadogSearchQuery

\* The invariant holds for every clause, account, window and rounding of the
\* API's comparison.
THEOREM Invariance == Spec => []IInv
<1>1. IInv /\ [Next]_vars => IInv'
  BY PassPreserves, PushPreserves, ExecutePreserves, StutterPreserves DEF Next, Terminated
<1> QED
  BY Initially, <1>1, PTL DEF Spec

--------------------------------------------------------------------------------
(* The invariant implies that pushdown is exact.                           *)

\* A narrower window loses no event the clause holds of, and adds none.
LEMMA WindowIsExact ==
    ASSUME NEW time \in Int, NEW l \in Int, NEW u \in Int, NEW f \in Int, NEW t \in Int,
           l = f \/ (l >= f /\ time >= l * Scale),
           u = t \/ (u <= t /\ time <= u * Scale)
    PROVE  InWindow(time, l, u) <=> InWindow(time, f, t)
<1>1. /\ time \div Scale \in Int
      /\ time >= l * Scale => time \div Scale >= l
      /\ time <= u * Scale => time \div Scale <= u
  BY DivBounds, DivMonotone
<1>2. l >= f => l * Scale >= f * Scale
  BY PushdownAssumption
<1>3. u <= t => u * Scale <= t * Scale
  BY PushdownAssumption
<1>4. l * Scale \in Int /\ f * Scale \in Int /\ u * Scale \in Int /\ t * Scale \in Int
  BY PushdownAssumption
<1>5. CASE truncates
  BY <1>1, <1>5 DEF InWindow
<1>6. CASE ~truncates
  BY <1>2, <1>3, <1>4, <1>6 DEF InWindow
<1> QED
  BY <1>5, <1>6

LEMMA RequestWindow ==
    ASSUME IInv, NEW e \in Where(Events)
    PROVE  LET r == ResolveDatadogSearch IN
           /\ InWindow(e.time, r.lower, r.upper) <=> InWindow(e.time, from.ms, to.ms)
           /\ r.empty => ~InWindow(e.time, r.lower, r.upper)
<1> DEFINE lower == IF Narrows THEN Greater(lower_bound, from.ms) ELSE from.ms
           upper == IF Narrows THEN Lesser(upper_bound, to.ms) ELSE to.ms
<1>1. from.ms \in Int /\ to.ms \in Int /\ e.time \in Int
  BY PushdownAssumption DEF IInv, TypeOK, Where
<1>2. lower \in Int /\ (lower = from.ms \/ (lower >= from.ms /\ e.time >= lower * Scale))
  <2>1. CASE Narrows /\ lower_bound # None /\ lower_bound >= from.ms
    <3>1. lower = lower_bound /\ lower_bound \in Int
      BY <1>1, <2>1 DEF Greater, IInv, TypeOK
    <3>2. e.time >= lower_bound * Scale
      BY <2>1 DEF IInv, LowerFollows
    <3> QED
      BY <2>1, <3>1, <3>2
  <2>2. CASE ~(Narrows /\ lower_bound # None /\ lower_bound >= from.ms)
    BY <1>1, <2>2 DEF Greater, IInv, TypeOK
  <2> QED
    BY <2>1, <2>2
<1>3. upper \in Int /\ (upper = to.ms \/ (upper <= to.ms /\ e.time <= upper * Scale))
  <2>1. CASE Narrows /\ upper_bound # None /\ upper_bound <= to.ms
    <3>1. upper = upper_bound /\ upper_bound \in Int
      BY <1>1, <2>1 DEF Lesser, IInv, TypeOK
    <3>2. e.time <= upper_bound * Scale
      BY <2>1 DEF IInv, UpperFollows
    <3> QED
      BY <2>1, <3>1, <3>2
  <2>2. CASE ~(Narrows /\ upper_bound # None /\ upper_bound <= to.ms)
    BY <1>1, <2>2 DEF Lesser, IInv, TypeOK
  <2> QED
    BY <2>1, <2>2
<1>4. /\ ResolveDatadogSearch.lower = lower /\ ResolveDatadogSearch.upper = upper
      /\ ResolveDatadogSearch.empty => lower > upper
  BY DEF ResolveDatadogSearch
<1> HIDE DEF lower, upper
<1>5. InWindow(e.time, lower, upper) <=> InWindow(e.time, from.ms, to.ms)
  BY <1>1, <1>2, <1>3, WindowIsExact
<1>6. lower > upper => ~InWindow(e.time, lower, upper)
  <2>1. ASSUME lower > upper PROVE lower * Scale > upper * Scale
    BY <1>2, <1>3, <2>1, PushdownAssumption
  <2>2. lower * Scale \in Int /\ upper * Scale \in Int /\ e.time \div Scale \in Int
    BY <1>1, <1>2, <1>3, DivBounds, PushdownAssumption
  <2> QED
    BY <1>1, <1>2, <1>3, <2>1, <2>2 DEF InWindow
<1> QED
  BY <1>4, <1>5, <1>6

LEMMA RequestQuery ==
    ASSUME IInv, NEW e \in Where(Events)
    PROVE  LET r == ResolveDatadogSearch.query IN
           (\E i \in DOMAIN r : \A term \in r[i] : TermMatches(term, e))
             <=> (\E i \in DOMAIN query : \A term \in query[i] : TermMatches(term, e))
<1>1. /\ DOMAIN ResolveDatadogSearch.query = DOMAIN query
      /\ \A i \in DOMAIN query : ResolveDatadogSearch.query[i] = query[i] \cup query_terms
  BY DEF ResolveDatadogSearch, BuildDatadogSearchQuery
<1>2. \A term \in query_terms : TermMatches(term, e)
  BY DEF IInv, TermsFollow
<1> QED
  BY <1>1, <1>2

\* A query sees the same rows with pushdown as without.
THEOREM PushdownChangesNothing == Spec => []PushdownIsExact
<1>1. ASSUME IInv, stage = "executed"
      PROVE  Where(Scanned) = Where(Capped(Found(query, from.ms, to.ms)))
  <2> DEFINE r == ResolveDatadogSearch
  <2>1. request = r
    BY <1>1 DEF IInv
  <2>2. CASE max_rows = 0
    <3>1. \A S : Capped(S) = S
      BY <2>2 DEF Capped
    <3>2. ASSUME NEW e \in Where(Events)
          PROVE  e \in Found(query, from.ms, to.ms)
                   <=> e \in Found(r.query, r.lower, r.upper) /\ ~r.empty
      <4>1. e \in Events
        BY DEF Where
      <4> QED
        BY <1>1, <4>1, RequestWindow, RequestQuery DEF Found
    <3>3. /\ Found(query, from.ms, to.ms) \subseteq Events
          /\ Found(r.query, r.lower, r.upper) \subseteq Events
      BY DEF Found
    <3>4. Scanned = IF r.empty THEN {} ELSE Found(r.query, r.lower, r.upper)
      BY <2>1, <3>1 DEF Scanned
    <3> HIDE DEF r
    <3> QED
      BY <3>1, <3>2, <3>3, <3>4 DEF Where
  <2>3. CASE max_rows # 0
    <3>1. query_terms = {} /\ lower_bound = None /\ upper_bound = None
      <4>1. max_rows > 0
        BY <1>1, <2>3, PushdownAssumption DEF IInv, TypeOK
      <4> QED
        BY <1>1, <4>1 DEF IInv, CappedPushesNothing
    <3>2. query \in Seq(SUBSET (FacetColumns \X Strings))
      BY <1>1, PushdownAssumption DEF IInv, TypeOK
    <3>3. r.query = query
      <4>1. BuildDatadogSearchQuery = [i \in DOMAIN query |-> query[i]]
        BY <3>1 DEF BuildDatadogSearchQuery
      <4>2. query = [i \in DOMAIN query |-> query[i]]
        BY <3>2
      <4> QED
        BY <4>1, <4>2 DEF ResolveDatadogSearch
    <3>4. r.lower = from.ms /\ r.upper = to.ms /\ r.empty = FALSE
      BY <3>1 DEF ResolveDatadogSearch, Narrows
    <3> QED
      BY <2>1, <3>3, <3>4 DEF Scanned
  <2> QED
    BY <2>2, <2>3
<1>2. IInv => PushdownIsExact
  BY <1>1 DEF PushdownIsExact
<1> QED
  BY Invariance, <1>2, PTL
================================================================================
