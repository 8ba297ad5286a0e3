---------------------------- MODULE OperatorProofs ----------------------------
(***************************************************************************)
(* Lemmas about the operators that several components use: the range of    *)
(* the delays of RetryPolicy, for every attempt and every header; and what *)
(* is selected of a list, for every list.                                  *)
(***************************************************************************)
EXTENDS RetryPolicy, Selection, SequenceTheorems, WellFoundedInduction, TLAPS

\* The backoff is between one second and a minute, for every attempt.
LEMMA BackoffRange ==
  ASSUME NEW a \in Nat
  PROVE  Backoff(a) \in 1..60
<1>1. a % 64 \in 0..63
  OBVIOUS
<1>2. CASE a % 64 >= 6
  BY <1>2 DEF Backoff
<1>3. CASE a % 64 < 6
  <2>1. a % 64 \in {0, 1, 2, 3, 4, 5}
    BY <1>1, <1>3
  <2>2. Backoff(a) = <<1, 2, 4, 8, 16, 32>>[(a % 64) + 1]
    BY <1>1, <1>3 DEF Backoff
  <2>3. QED
    BY <2>1, <2>2
<1>4. QED
  BY <1>1, <1>2, <1>3

\* So is the delay after a 429, whatever the rate-limit headers say.
LEMMA RateLimitRange ==
  ASSUME NEW a \in Nat, NEW reset, NEW retryAfter,
         reset.seconds \in Int, retryAfter.seconds \in Int
  PROVE  RateLimitRetryDelaySeconds(reset, retryAfter, a) \in 1..60
<1>1. ASSUME NEW h, h.seconds \in Int PROVE Advised(h) \in 1..60
  BY <1>1 DEF Advised
<1>2. QED
  BY <1>1, BackoffRange DEF RateLimitRetryDelaySeconds

--------------------------------------------------------------------------------
(* Induction, for a property given as the set of what has it.              *)

\* A set of natural numbers has a least element.
LEMMA LeastElement ==
  ASSUME NEW T \in SUBSET Nat, T # {}
  PROVE  \E n \in T : \A m \in T : n <= m
<1>1. PICK n \in T : \A m \in T : ~(<<m, n>> \in OpToRel(<, Nat))
  BY WFMin, NatLessThanWellFounded
<1>2. ASSUME NEW m \in T PROVE n <= m
  <2>1. m \in Nat /\ n \in Nat
    OBVIOUS
  <2>2. m < n => <<m, n>> \in OpToRel(<, Nat)
    BY <2>1 DEF OpToRel
  <2>3. ~(m < n)
    BY <2>2, <1>1, Zenon
  <2> QED
    BY <2>1, <2>3
<1> QED
  BY <1>2

\* Induction over the natural numbers, for a set.
LEMMA NumberInduction ==
  ASSUME NEW A, 0 \in A, \A n \in Nat : n \in A => n + 1 \in A
  PROVE  Nat \subseteq A
<1> SUFFICES ASSUME Nat \ A # {} PROVE FALSE
  OBVIOUS
<1>1. PICK n \in Nat \ A : \A m \in Nat \ A : n <= m
  BY LeastElement
<1>2. n - 1 \in Nat
  BY <1>1
<1>3. n - 1 \notin Nat \ A
  BY <1>1
<1> QED
  BY <1>2, <1>3

\* Induction over the length of sequences, for a set of them.
LEMMA SequenceInduction ==
  ASSUME NEW T, NEW A, <<>> \in A,
         \A s \in Seq(T) : \A e \in T : s \in A => Append(s, e) \in A
  PROVE  Seq(T) \subseteq A
<1> DEFINE N == {n \in Nat : \A s \in Seq(T) : Len(s) = n => s \in A}
<1>1. 0 \in N
  BY EmptySeq
<1>2. ASSUME NEW n \in Nat, n \in N PROVE n + 1 \in N
  <2>1. ASSUME NEW s \in Seq(T), Len(s) = n + 1 PROVE s \in A
    <3>1. s # <<>>
      BY <2>1, EmptySeq
    <3>2. PICK r \in Seq(T), e \in T : s = Append(r, e)
      BY <3>1, SequenceEmptyOrAppend
    <3>3. Len(r) = n
      <4>1. Len(Append(r, e)) = Len(r) + 1 /\ Len(r) \in Nat
        BY AppendProperties, LenProperties
      <4> QED
        BY <4>1, <3>2, <2>1
    <3> QED
      BY <3>2, <3>3, <1>2
  <2> QED
    BY <2>1
<1>3. Nat \subseteq N
  <2> HIDE DEF N
  <2> QED
    BY <1>1, <1>2, NumberInduction
<1> QED
  BY <1>3, LenProperties

--------------------------------------------------------------------------------
(* What is selected.                                                       *)

\* A run of a selection: what was kept of each start of the list.
IsKept(kept, s, S, n) ==
    kept = [i \in 0..n |->
              IF i = 0 THEN <<>>
              ELSE IF s[i] \in S THEN Append(kept[i - 1], s[i]) ELSE kept[i - 1]]

\* Every list has such a run.
LEMMA KeptExists ==
  ASSUME NEW s, NEW S
  PROVE  \A n \in Nat : \E kept : IsKept(kept, s, S, n)
<1> DEFINE A == {n \in Nat : \E kept : IsKept(kept, s, S, n)}
<1>1. 0 \in A
  <2>1. IsKept([i \in 0..0 |-> <<>>], s, S, 0)
    BY DEF IsKept
  <2> QED
    BY <2>1
<1>2. ASSUME NEW n \in Nat, n \in A PROVE n + 1 \in A
  <2>1. PICK f : IsKept(f, s, S, n)
    BY <1>2
  <2> DEFINE e == IF s[n + 1] \in S THEN Append(f[n], s[n + 1]) ELSE f[n]
             g == [i \in 0..n + 1 |-> IF i = n + 1 THEN e ELSE f[i]]
  <2>2. ASSUME NEW i \in 0..n + 1
        PROVE  g[i] = IF i = 0 THEN <<>>
                      ELSE IF s[i] \in S THEN Append(g[i - 1], s[i]) ELSE g[i - 1]
    <3>1. CASE i = n + 1
      <4>1. g[i] = e /\ g[i - 1] = f[n] /\ i # 0
        BY <3>1
      <4> QED
        BY <4>1, <3>1
    <3>2. CASE i # n + 1
      <4>1. i \in 0..n /\ g[i] = f[i] /\ (i # 0 => g[i - 1] = f[i - 1])
        BY <3>2
      <4> QED
        BY <4>1, <2>1 DEF IsKept
    <3> QED
      BY <3>1, <3>2
  <2> HIDE DEF e
  <2>3. g = [i \in 0..n + 1 |-> g[i]]
    OBVIOUS
  <2> HIDE DEF g
  <2>4. IsKept(g, s, S, n + 1)
    BY <2>2, <2>3 DEF IsKept
  <2> QED
    BY <2>4
<1>3. Nat \subseteq A
  <2> HIDE DEF A
  <2> QED
    BY <1>1, <1>2, NumberInduction
<1> QED
  BY <1>3

\* The loop is run to its end.
LEMMA SelectedRuns ==
  ASSUME NEW s, NEW S, Len(s) \in Nat
  PROVE  \E kept : IsKept(kept, s, S, Len(s)) /\ Selected(s, S) = kept[Len(s)]
<1> DEFINE kept == CHOOSE kept : IsKept(kept, s, S, Len(s))
<1>1. IsKept(kept, s, S, Len(s))
  BY KeptExists
<1>2. Selected(s, S) = kept[Len(s)]
  BY DEF Selected, IsKept
<1> QED
  BY <1>1, <1>2

\* What a loop kept after n items depends on those only.
LEMMA KeptAgree ==
  ASSUME NEW s, NEW t, NEW S, NEW R, NEW f, NEW g, NEW m \in Nat, NEW n \in Nat,
         IsKept(f, s, S, m), IsKept(g, t, R, n), m <= n,
         \A i \in 1..m : s[i] = t[i] /\ (s[i] \in S <=> t[i] \in R)
  PROVE  f[m] = g[m]
<1> DEFINE A == {k \in Nat : k <= m => f[k] = g[k]}
<1>1. 0 \in A
  BY DEF IsKept
<1>2. ASSUME NEW k \in Nat, k \in A PROVE k + 1 \in A
  <2> SUFFICES ASSUME k + 1 <= m PROVE f[k + 1] = g[k + 1]
    OBVIOUS
  <2>1. f[k] = g[k]
    BY <1>2
  <2>2. /\ k + 1 \in 0..m /\ k + 1 \in 0..n /\ k + 1 # 0 /\ (k + 1) - 1 = k
        /\ k + 1 \in 1..m
    OBVIOUS
  <2>3. f[k + 1] = IF s[k + 1] \in S THEN Append(f[k], s[k + 1]) ELSE f[k]
    BY <2>2 DEF IsKept
  <2>4. g[k + 1] = IF t[k + 1] \in R THEN Append(g[k], t[k + 1]) ELSE g[k]
    BY <2>2 DEF IsKept
  <2> QED
    BY <2>1, <2>2, <2>3, <2>4
<1>3. Nat \subseteq A
  <2> HIDE DEF A
  <2> QED
    BY <1>1, <1>2, NumberInduction
<1> QED
  BY <1>3

\* Of nothing, nothing is selected.
LEMMA SelectedEmpty ==
  ASSUME NEW S
  PROVE  Selected(<<>>, S) = <<>>
<1>1. Len(<<>>) = 0
  OBVIOUS
<1>2. PICK kept : IsKept(kept, <<>>, S, 0) /\ Selected(<<>>, S) = kept[0]
  BY <1>1, SelectedRuns
<1> QED
  BY <1>2 DEF IsKept

\* One more item is kept at the end, or not at all.
LEMMA SelectedAppend ==
  ASSUME NEW T, NEW s \in Seq(T), NEW e \in T, NEW S
  PROVE  Selected(Append(s, e), S) =
            IF e \in S THEN Append(Selected(s, S), e) ELSE Selected(s, S)
<1> DEFINE t == Append(s, e)
           n == Len(s)
<1>1. /\ n \in Nat /\ Len(t) = n + 1 /\ t[n + 1] = e
      /\ \A i \in 1..n : t[i] = s[i]
  BY AppendProperties, LenProperties
<1> HIDE DEF t, n
<1>2. PICK f : IsKept(f, s, S, n) /\ Selected(s, S) = f[n]
  BY <1>1, SelectedRuns DEF n
<1>3. PICK g : IsKept(g, t, S, n + 1) /\ Selected(t, S) = g[n + 1]
  BY <1>1, SelectedRuns
<1>4. f[n] = g[n]
  <2>1. n <= n + 1 /\ n + 1 \in Nat /\ \A i \in 1..n : s[i] = t[i]
    BY <1>1
  <2> QED
    BY <1>1, <1>2, <1>3, <2>1, KeptAgree
<1>5. g[n + 1] = IF t[n + 1] \in S THEN Append(g[n], t[n + 1]) ELSE g[n]
  <2>1. n + 1 \in 0..n + 1 /\ n + 1 # 0 /\ (n + 1) - 1 = n
    BY <1>1
  <2> QED
    BY <2>1, <1>3 DEF IsKept
<1> QED
  BY <1>1, <1>2, <1>3, <1>4, <1>5 DEF t

\* What is selected is a sequence of the items that are in S.
LEMMA SelectedType ==
  ASSUME NEW T, NEW s \in Seq(T), NEW S
  PROVE  Selected(s, S) \in Seq(T \cap S)
<1> DEFINE A == {q \in Seq(T) : Selected(q, S) \in Seq(T \cap S)}
<1>1. <<>> \in A
  BY SelectedEmpty, EmptySeq
<1>2. ASSUME NEW q \in Seq(T), NEW e \in T, q \in A PROVE Append(q, e) \in A
  <2>1. Selected(q, S) \in Seq(T \cap S) /\ Append(q, e) \in Seq(T)
    BY <1>2, AppendProperties
  <2>2. e \in S => Append(Selected(q, S), e) \in Seq(T \cap S)
    BY <2>1, AppendProperties
  <2> QED
    BY <2>1, <2>2, SelectedAppend
<1>3. Seq(T) \subseteq A
  <2> HIDE DEF A
  <2> QED
    BY <1>1, <1>2, SequenceInduction
<1> QED
  BY <1>3

\* What is an item of a list and of the set is an item of what is selected.
LEMMA SelectedHolds ==
    ASSUME NEW T, NEW s \in Seq(T), NEW S
    PROVE  \A i \in DOMAIN s : s[i] \in S =>
               \E j \in DOMAIN Selected(s, S) : Selected(s, S)[j] = s[i]
<1> DEFINE Holds(q) == \A i \in DOMAIN q : q[i] \in S =>
                          \E j \in DOMAIN Selected(q, S) : Selected(q, S)[j] = q[i]
           A == {q \in Seq(T) : Holds(q)}
<1>1. <<>> \in A
  BY EmptySeq
<1>2. ASSUME NEW q \in Seq(T), NEW e \in T, q \in A PROVE Append(q, e) \in A
  <2> DEFINE k == Selected(q, S)
             p == Append(q, e)
             r == Selected(p, S)
  <2>1. /\ p \in Seq(T) /\ DOMAIN p = 1..Len(q) + 1 /\ Len(q) \in Nat /\ DOMAIN q = 1..Len(q)
        /\ p[Len(q) + 1] = e /\ \A i \in DOMAIN q : p[i] = q[i]
    BY AppendProperties, LenProperties
  <2>2. k \in Seq(T)
    <3>1. k \in Seq(T \cap S)
      BY SelectedType
    <3> QED
      BY <3>1, SeqMonotonic
  <2>3. r = IF e \in S THEN Append(k, e) ELSE k
    BY SelectedAppend
  <2>4. \A i \in DOMAIN q : q[i] \in S => \E j \in DOMAIN k : k[j] = q[i]
    BY <1>2
  <2> HIDE DEF k, p, r
  <2>5. /\ \A j \in DOMAIN k : j \in DOMAIN r /\ r[j] = k[j]
        /\ e \in S => \E j \in DOMAIN r : r[j] = e
    <3>1. /\ DOMAIN Append(k, e) = 1..Len(k) + 1 /\ Len(k) \in Nat /\ DOMAIN k = 1..Len(k)
          /\ Append(k, e)[Len(k) + 1] = e /\ \A j \in DOMAIN k : Append(k, e)[j] = k[j]
      BY <2>2, AppendProperties, LenProperties
    <3> QED
      BY <2>3, <3>1
  <2>6. ASSUME NEW i \in DOMAIN p, p[i] \in S PROVE \E j \in DOMAIN r : r[j] = p[i]
    <3>1. CASE i \in DOMAIN q
      BY <2>1, <2>4, <2>5, <2>6, <3>1
    <3>2. CASE i \notin DOMAIN q
      <4>1. i = Len(q) + 1
        BY <2>1, <3>2
      <4> QED
        BY <4>1, <2>1, <2>5, <2>6
    <3> QED
      BY <3>1, <3>2
  <2> QED
    BY <2>1, <2>6 DEF p, r
<1>3. Seq(T) \subseteq A
  <2> HIDE DEF A
  <2> QED
    BY <1>1, <1>2, SequenceInduction
<1> QED
  BY <1>3

\* What is selected of two lists is selected of one after the other.
LEMMA SelectedConcat ==
  ASSUME NEW T, NEW s \in Seq(T), NEW t \in Seq(T), NEW S
  PROVE  Selected(s \o t, S) = Selected(s, S) \o Selected(t, S)
<1> DEFINE A == {q \in Seq(T) : Selected(s \o q, S) = Selected(s, S) \o Selected(q, S)}
<1>0. Selected(s, S) \in Seq(T)
  <2>1. Selected(s, S) \in Seq(T \cap S)
    BY SelectedType
  <2> QED
    BY <2>1, SeqMonotonic
<1>1. <<>> \in A
  BY <1>0, SelectedEmpty, EmptySeq, ConcatEmptySeq
<1>2. ASSUME NEW q \in Seq(T), NEW e \in T, q \in A PROVE Append(q, e) \in A
  <2>1. /\ Append(q, e) \in Seq(T) /\ s \o q \in Seq(T) /\ <<e>> \in Seq(T)
        /\ Selected(s \o q, S) = Selected(s, S) \o Selected(q, S)
    BY <1>2, AppendProperties, ConcatProperties
  <2>2. Selected(q, S) \in Seq(T)
    <3>1. Selected(q, S) \in Seq(T \cap S)
      BY SelectedType
    <3> QED
      BY <3>1, SeqMonotonic
  <2>3. s \o Append(q, e) = Append(s \o q, e)
    BY <2>1, AppendIsConcat, ConcatAssociative
  <2>4. Selected(s \o Append(q, e), S) =
            IF e \in S THEN Append(Selected(s \o q, S), e) ELSE Selected(s \o q, S)
    <3> DEFINE sq == s \o q
    <3>1. sq \in Seq(T)
      BY <2>1
    <3> HIDE DEF sq
    <3>2. Selected(Append(sq, e), S) =
            IF e \in S THEN Append(Selected(sq, S), e) ELSE Selected(sq, S)
      BY <3>1, SelectedAppend
    <3> QED
      BY <2>3, <3>2 DEF sq
  <2>5. Append(Selected(s, S) \o Selected(q, S), e) = Selected(s, S) \o Append(Selected(q, S), e)
    <3> DEFINE a == Selected(s, S)
               b == Selected(q, S)
    <3>1. a \in Seq(T) /\ b \in Seq(T)
      BY <1>0, <2>2
    <3> HIDE DEF a, b
    <3>2. a \o b \in Seq(T)
      BY <3>1, ConcatProperties
    <3>3. Append(a \o b, e) = (a \o b) \o <<e>>
      BY <3>2, AppendIsConcat
    <3>4. Append(b, e) = b \o <<e>>
      BY <3>1, AppendIsConcat
    <3>5. (a \o b) \o <<e>> = a \o (b \o <<e>>)
      <4>1. <<e>> \in Seq(T)
        BY <2>1
      <4> QED
        BY <3>1, <4>1, ConcatAssociative
    <3>6. Append(a \o b, e) = a \o Append(b, e)
      BY <3>3, <3>4, <3>5
    <3> QED
      BY <3>6 DEF a, b
  <2>6. Selected(Append(q, e), S) = IF e \in S THEN Append(Selected(q, S), e) ELSE Selected(q, S)
    BY SelectedAppend
  <2> QED
    BY <2>1, <2>4, <2>5, <2>6
<1>3. Seq(T) \subseteq A
  <2> HIDE DEF A
  <2> QED
    BY <1>1, <1>2, SequenceInduction
<1> QED
  BY <1>3

\* Two sets that agree on the items of a list select the same.
LEMMA SelectedAgree ==
  ASSUME NEW s, NEW t, NEW S, NEW R, Len(s) \in Nat, Len(t) = Len(s),
         \A i \in 1..Len(s) : s[i] = t[i] /\ (s[i] \in S <=> s[i] \in R)
  PROVE  Selected(s, S) = Selected(t, R)
<1>1. PICK f : IsKept(f, s, S, Len(s)) /\ Selected(s, S) = f[Len(s)]
  BY SelectedRuns
<1>2. PICK g : IsKept(g, t, R, Len(s)) /\ Selected(t, R) = g[Len(s)]
  BY SelectedRuns
<1> QED
  BY <1>1, <1>2, KeptAgree

\* A list is what it starts with, and the rest.
LEMMA Halves ==
  ASSUME NEW T, NEW s \in Seq(T), NEW m \in 0..Len(s), NEW n \in m..Len(s)
  PROVE  /\ SubSeq(s, 1, m) \in Seq(T) /\ Len(SubSeq(s, 1, m)) = m
         /\ SubSeq(s, m + 1, n) \in Seq(T) /\ Len(SubSeq(s, m + 1, n)) = n - m
         /\ \A i \in 1..m : SubSeq(s, 1, m)[i] = s[i]
         /\ \A i \in 1..n - m : SubSeq(s, m + 1, n)[i] = s[m + i]
         /\ SubSeq(s, 1, m) \o SubSeq(s, m + 1, n) = SubSeq(s, 1, n)
<1>1. Len(s) \in Nat /\ m \in Nat /\ n \in Nat /\ m <= n /\ n <= Len(s)
  BY LenProperties
<1>2. \A i \in 1..Len(s) : s[i] \in T
  BY ElementOfSeq
<1>3. /\ SubSeq(s, 1, m) \in Seq(T)
      /\ Len(SubSeq(s, 1, m)) = IF 1 <= m THEN m - 1 + 1 ELSE 0
      /\ \A i \in 1..m - 1 + 1 : SubSeq(s, 1, m)[i] = s[1 + i - 1]
  BY <1>1, <1>2, SubSeqProperties
<1>4. /\ SubSeq(s, m + 1, n) \in Seq(T)
      /\ Len(SubSeq(s, m + 1, n)) = IF m + 1 <= n THEN n - (m + 1) + 1 ELSE 0
      /\ \A i \in 1..n - (m + 1) + 1 : SubSeq(s, m + 1, n)[i] = s[m + 1 + i - 1]
  <2>1. \A i \in m + 1..n : s[i] \in T
    BY <1>1, <1>2
  <2>2. m + 1 \in Int /\ n \in Int
    BY <1>1
  <2> DEFINE first == m + 1
  <2>3. \A i \in first..n : s[i] \in T
    BY <2>1
  <2>4. first \in Int
    BY <2>2
  <2> HIDE DEF first
  <2>5. /\ SubSeq(s, first, n) \in Seq(T)
        /\ Len(SubSeq(s, first, n)) = IF first <= n THEN n - first + 1 ELSE 0
        /\ \A i \in 1..n - first + 1 : SubSeq(s, first, n)[i] = s[first + i - 1]
    BY <2>2, <2>3, <2>4, SubSeqProperties
  <2> QED
    BY <2>5 DEF first
<1>5. /\ m - 1 + 1 = m /\ n - (m + 1) + 1 = n - m
      /\ \A i \in 1..m : 1 + i - 1 = i
      /\ \A i \in 1..n - m : m + 1 + i - 1 = m + i
  BY <1>1
<1>6. SubSeq(s, 1, m) \o SubSeq(s, m + 1, n) = SubSeq(s, 1, n)
  <2>1. 1 \in 1..Len(s) + 1 /\ m \in 1 - 1..Len(s) /\ n \in m..Len(s)
    BY <1>1
  <2> QED
    BY <2>1, ConcatAdjacentSubSeq
<1>7. Len(SubSeq(s, 1, m)) = m
  BY <1>1, <1>3
<1>8. Len(SubSeq(s, m + 1, n)) = n - m
  BY <1>1, <1>4
<1>9. \A i \in 1..m : SubSeq(s, 1, m)[i] = s[i]
  BY <1>3, <1>5
<1>10. \A i \in 1..n - m : SubSeq(s, m + 1, n)[i] = s[m + i]
  BY <1>4, <1>5
<1> QED
  BY <1>3, <1>4, <1>6, <1>7, <1>8, <1>9, <1>10

\* What is selected of the start of a list comes first.
LEMMA SelectedHalves ==
  ASSUME NEW T, NEW s \in Seq(T), NEW S, NEW m \in 0..Len(s), NEW n \in m..Len(s)
  PROVE  Selected(SubSeq(s, 1, n), S)
            = Selected(SubSeq(s, 1, m), S) \o Selected(SubSeq(s, m + 1, n), S)
<1> DEFINE a == SubSeq(s, 1, m)
           b == SubSeq(s, m + 1, n)
<1>1. a \in Seq(T) /\ b \in Seq(T) /\ a \o b = SubSeq(s, 1, n)
  BY Halves
<1> HIDE DEF a, b
<1>2. Selected(a \o b, S) = Selected(a, S) \o Selected(b, S)
  <2>1. a \in Seq(T) /\ b \in Seq(T)
    BY <1>1
  <2> QED
    BY <2>1, SelectedConcat
<1> QED
  BY <1>1, <1>2 DEF a, b

\* The items before position n are those of another list.
LEMMA SameStart ==
  ASSUME NEW T, NEW s \in Seq(T), NEW u \in Seq(T), NEW n \in 0..Len(s), n <= Len(u),
         \A i \in 1..n : s[i] = u[i]
  PROVE  SubSeq(s, 1, n) = SubSeq(u, 1, n)
<1>1. Len(s) \in Nat /\ Len(u) \in Nat /\ n \in Nat /\ n \in 0..Len(u)
      /\ n \in n..Len(s) /\ n \in n..Len(u)
  BY LenProperties
<1>2. /\ SubSeq(s, 1, n) \in Seq(T) /\ Len(SubSeq(s, 1, n)) = n
      /\ \A i \in 1..n : SubSeq(s, 1, n)[i] = s[i]
  BY <1>1, Halves
<1>3. /\ SubSeq(u, 1, n) \in Seq(T) /\ Len(SubSeq(u, 1, n)) = n
      /\ \A i \in 1..n : SubSeq(u, 1, n)[i] = u[i]
  BY <1>1, Halves
<1> DEFINE a == SubSeq(s, 1, n)
           b == SubSeq(u, 1, n)
<1>4. a \in Seq(T) /\ b \in Seq(T) /\ Len(a) = Len(b) /\ \A i \in 1..Len(a) : a[i] = b[i]
  BY <1>2, <1>3
<1> HIDE DEF a, b
<1>5. a = b
  BY <1>4, SeqEqual
<1> QED
  BY <1>5 DEF a, b

\* Two lists of known lengths, one after the other.
LEMMA ConcatLens ==
  ASSUME NEW T, NEW s \in Seq(T), NEW t \in Seq(T), NEW m, NEW n, Len(s) = m, Len(t) = n
  PROVE  /\ s \o t \in Seq(T) /\ Len(s \o t) = m + n
         /\ \A i \in 1..m + n : (s \o t)[i] = IF i <= m THEN s[i] ELSE t[i - m]
  BY ConcatProperties

\* One list starts another.
Starts(s, t) == Len(s) <= Len(t) /\ SubSeq(s, 1, Len(s)) = SubSeq(t, 1, Len(s))

\* A list starts itself with anything after it, ...
LEMMA ConcatStarts ==
  ASSUME NEW T, NEW s \in Seq(T), NEW u \in Seq(T)
  PROVE  Starts(s, s \o u)
<1> DEFINE t == s \o u
<1>1. t \in Seq(T) /\ Len(t) = Len(s) + Len(u) /\ Len(s) \in Nat /\ Len(u) \in Nat
      /\ \A i \in 1..Len(s) : t[i] = s[i]
  BY ConcatProperties, LenProperties
<1> HIDE DEF t
<1>2. Len(s) \in 0..Len(s) /\ Len(s) <= Len(t)
  BY <1>1
<1>3. SubSeq(s, 1, Len(s)) = SubSeq(t, 1, Len(s))
  BY <1>1, <1>2, SameStart
<1> QED
  BY <1>2, <1>3 DEF Starts, t

\* ... and whatever it starts is itself with something after it.
LEMMA StartsConcat ==
  ASSUME NEW T, NEW s \in Seq(T), NEW t \in Seq(T), Starts(s, t)
  PROVE  \E u \in Seq(T) : t = s \o u
<1> DEFINE n == Len(s)
           u == SubSeq(t, n + 1, Len(t))
<1>1. n \in 0..Len(t) /\ Len(t) \in n..Len(t) /\ n \in Nat /\ Len(t) \in Nat
  BY LenProperties DEF Starts
<1> HIDE DEF n
<1>2. u \in Seq(T) /\ SubSeq(t, 1, n) \o u = SubSeq(t, 1, Len(t))
  <2>1. u \in Seq(T)
    BY <1>1, Halves
  <2>2. 1 \in 1..Len(t) + 1 /\ n \in 1 - 1..Len(t) /\ Len(t) \in n..Len(t)
    BY <1>1
  <2>3. SubSeq(t, 1, n) \o SubSeq(t, n + 1, Len(t)) = SubSeq(t, 1, Len(t))
    BY <2>2, ConcatAdjacentSubSeq
  <2> QED
    BY <2>1, <2>3
<1>3. SubSeq(t, 1, Len(t)) = t /\ SubSeq(s, 1, n) = s
  BY SubSeqFull DEF n
<1>4. t = s \o u
  BY <1>2, <1>3 DEF Starts, n
<1> QED
  BY <1>2, <1>4

\* What starts a list starts any longer one.
LEMMA StartsLonger ==
  ASSUME NEW T, NEW s \in Seq(T), NEW t \in Seq(T), NEW v \in Seq(T), Starts(s, t)
  PROVE  Starts(s, t \o v)
<1>1. PICK u \in Seq(T) : t = s \o u
  BY StartsConcat
<1>2. t \o v = s \o (u \o v)
  BY <1>1, ConcatAssociative
<1>3. u \o v \in Seq(T)
  BY <1>1, ConcatProperties
<1> DEFINE w == u \o v
<1> HIDE DEF w
<1>4. Starts(s, s \o w)
  BY <1>3, ConcatStarts DEF w
<1> QED
  BY <1>2, <1>4 DEF w

\* What starts the start of a list starts the list.
LEMMA StartsTransitive ==
  ASSUME NEW T, NEW s \in Seq(T), NEW t \in Seq(T), NEW v \in Seq(T), Starts(s, t), Starts(t, v)
  PROVE  Starts(s, v)
<1>1. PICK u \in Seq(T) : v = t \o u
  BY StartsConcat
<1> QED
  BY <1>1, StartsLonger

\* What is selected of the start of a list starts what is selected of more of it.
LEMMA SelectedStarts ==
  ASSUME NEW T, NEW s \in Seq(T), NEW S, NEW m \in 0..Len(s), NEW n \in m..Len(s)
  PROVE  Starts(Selected(SubSeq(s, 1, m), S), Selected(SubSeq(s, 1, n), S))
<1> DEFINE a == Selected(SubSeq(s, 1, m), S)
           b == Selected(SubSeq(s, m + 1, n), S)
<1>1. a \in Seq(T \cap S)
  BY Halves, SelectedType
<1>2. b \in Seq(T \cap S)
  BY Halves, SelectedType
<1>3. Selected(SubSeq(s, 1, n), S) = a \o b
  BY SelectedHalves
<1> HIDE DEF a, b
<1>4. Starts(a, a \o b)
  BY <1>1, <1>2, ConcatStarts
<1> QED
  BY <1>3, <1>4 DEF a

\* A loop of N steps over values in D.
IsLoop(step, D, N) == N \in Nat /\ step \in [D \X (1..N) -> D]

\* The values of the loop, from the base on.
LoopRuns(f, base, step, D, N) ==
    /\ f \in [0..N -> D] /\ f[0] = base
    /\ \A i \in 1..N : f[i] = step[<<f[i - 1], i>>]

\* A loop that takes n steps from a value has a sequence of values.
LEMMA LoopExists ==
  ASSUME NEW D, NEW base \in D, NEW N, NEW step, IsLoop(step, D, N)
  PROVE  \E f : LoopRuns(f, base, step, D, N)
<1>0. N \in Nat /\ step \in [D \X (1..N) -> D]
  BY DEF IsLoop
<1> DEFINE Runs(n, f) == /\ f \in [0..n -> D] /\ f[0] = base
                         /\ \A i \in 1..n : f[i] = step[<<f[i - 1], i>>]
           A == {n \in Nat : n <= N => \E f : Runs(n, f)}
<1>1. 0 \in A
  <2>1. Runs(0, [i \in 0..0 |-> base])
    OBVIOUS
  <2> QED
    BY <2>1
<1>2. ASSUME NEW n \in Nat, n \in A PROVE n + 1 \in A
  <2> SUFFICES ASSUME n + 1 <= N PROVE \E f : Runs(n + 1, f)
    OBVIOUS
  <2>1. PICK f : Runs(n, f)
    <3>1. n <= N
      BY <1>0
    <3> QED
      BY <1>2, <3>1
  <2> DEFINE e == step[<<f[n], n + 1>>]
             g == [i \in 0..n + 1 |-> IF i = n + 1 THEN e ELSE f[i]]
  <2>2. e \in D
    <3>1. f[n] \in D /\ n + 1 \in 1..N
      BY <1>0, <2>1
    <3> QED
      BY <1>0, <3>1
  <2> HIDE DEF e
  <2>3. g \in [0..n + 1 -> D]
    BY <2>1, <2>2
  <2>4. g[0] = base
    BY <2>1
  <2>5. ASSUME NEW i \in 1..n + 1 PROVE g[i] = step[<<g[i - 1], i>>]
    <3>1. CASE i = n + 1
      <4>1. g[i] = e /\ g[i - 1] = f[n]
        BY <3>1
      <4> QED
        BY <4>1, <3>1 DEF e
    <3>2. CASE i # n + 1
      <4>1. i \in 1..n /\ g[i] = f[i] /\ g[i - 1] = f[i - 1]
        BY <3>2
      <4> QED
        BY <4>1, <2>1
    <3> QED
      BY <3>1, <3>2
  <2> HIDE DEF g
  <2> QED
    BY <2>3, <2>4, <2>5
<1>3. Nat \subseteq A
  <2> HIDE DEF A
  <2> QED
    BY <1>1, <1>2, NumberInduction
<1>4. N \in A
  <2> HIDE DEF A
  <2> QED
    BY <1>0, <1>3
<1> QED
  BY <1>0, <1>4 DEF LoopRuns
================================================================================
