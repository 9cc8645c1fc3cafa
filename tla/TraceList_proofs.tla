-------------------------- MODULE TraceList_proofs --------------------------
(***************************************************************************)
(* Proofs about SpanRollups and the trace list that reads it, for every    *)
(* number of traces, spans and timestamps: the types, the span identity,   *)
(* the exactness of trace_latest and of the token sums; then that the      *)
(* query only reads, so the writer beside it is exactly SpanRollups, that  *)
(* ingest alone never disturbs it, and that the seek over the rollup       *)
(* answers what the walk of the spans does.                                *)
(***************************************************************************)
EXTENDS TraceList, FiniteSetTheorems, TLAPS

\* A nonempty set of integers between 0 and n has a largest element, which is
\* what Max chooses: n minus the least distance to n.
LEMMA MaxOfBounded ==
    ASSUME NEW n \in Nat, NEW S \in SUBSET (0..n), S # {}
    PROVE  /\ Max(S) \in S
           /\ \A y \in S : y <= Max(S)
<1> DEFINE T == {n - y : y \in S}
<1>1. T \in SUBSET Nat
  OBVIOUS
<1>2. T # {}
  OBVIOUS
<1>3. PICK x \in T : \A y \in T : ~(<<y, x>> \in OpToRel(<, Nat))
  BY <1>1, <1>2, NatLessThanWellFounded, WFMin, Zenon
<1>4. ASSUME NEW y \in T PROVE x <= y
  <2>1. /\ <<y, x>> \in Nat \X Nat
        /\ <<y, x>>[1] = y /\ <<y, x>>[2] = x
    BY <1>1
  <2>2. ~(<<y, x>> \in OpToRel(<, Nat))
    BY <1>3
  <2>3. ~(y < x)
    BY <2>1, <2>2, Zenon DEF OpToRel
  <2> QED BY <1>1, <2>3
<1>5. PICK m \in S : x = n - m
  BY <1>3
<1>6. \A y \in S : m >= y
  BY <1>4, <1>5
<1> QED BY <1>5, <1>6 DEF Max

\* The newest start of a trace is a start time, and the recompute of the delete
\* trigger returns the row absence exactly for a trace without spans.
LEMMA NewestStartIsNewest ==
    ASSUME NEW rows \in SUBSET SpanRow, NEW t \in Traces
    PROVE  /\ NewestStart(rows, t) \in Times \cup {NoRow}
           /\ SpansOf(rows, t) = {} => NewestStart(rows, t) = NoRow
           /\ SpansOf(rows, t) # {} =>
                 /\ \E r \in SpansOf(rows, t) : NewestStart(rows, t) = r.start
                 /\ \A r \in SpansOf(rows, t) : r.start <= NewestStart(rows, t)
<1>1. CASE SpansOf(rows, t) = {}
  BY <1>1 DEF NewestStart
<1>2. CASE SpansOf(rows, t) # {}
  <2> DEFINE starts == {r.start : r \in SpansOf(rows, t)}
  <2>1. SpansOf(rows, t) \subseteq SpanRow
    BY DEF SpansOf
  <2>2. starts \in SUBSET (0..MaxTime) /\ starts # {}
    BY <1>2, <2>1 DEF SpanRow, Times
  <2>3. Max(starts) \in starts /\ \A y \in starts : y <= Max(starts)
    BY <2>2, MaxOfBounded, SpanRollupsAssumption
  <2>4. NewestStart(rows, t) = Max(starts)
    BY <1>2 DEF NewestStart
  <2> QED BY <1>2, <2>2, <2>3, <2>4 DEF Times
<1> QED BY <1>1, <1>2

\* The key of a counted span is a key of the table.
LEMMA LlmKeyType ==
    ASSUME NEW r \in SpanRow, r.label # NotLlm
    PROVE  LlmKey(r) \in Days \X Labels
BY DEF SpanRow, LlmKey, Days

\* Both token triggers keep the type of the table.
LEMMA LlmTriggerTypes ==
    ASSUME NEW r \in SpanRow,
           NEW table \in [Days \X Labels -> [TokenKinds -> Int] \cup {NoRow}]
    PROVE  /\ LlmInsert(table, r) \in [Days \X Labels -> [TokenKinds -> Int] \cup {NoRow}]
           /\ LlmDelete(table, r) \in [Days \X Labels -> [TokenKinds -> Int] \cup {NoRow}]
<1>1. CASE r.label = NotLlm
  BY <1>1 DEF LlmInsert, LlmDelete
<1>2. CASE r.label # NotLlm
  <2> DEFINE row == table[LlmKey(r)]
  <2>1. LlmKey(r) \in Days \X Labels
    BY <1>2, LlmKeyType
  <2>2. row \in [TokenKinds -> Int] \cup {NoRow}
    BY <2>1
  <2>3. r.tok \in [TokenKinds -> Int]
    <3>1. r.tok \in [TokenKinds -> Tokens]
      BY DEF SpanRow
    <3>2. \A n \in Tokens : n \in Int
      BY SpanRollupsAssumption
    <3> QED BY <3>1, <3>2
  <2>4. Sums(row) \in [TokenKinds -> Int]
    BY <2>2 DEF Sums
  <2>5. [k \in TokenKinds |-> Sums(row)[k] + r.tok[k]] \in [TokenKinds -> Int]
    BY <2>3, <2>4
  <2>6. LlmInsert(table, r) \in [Days \X Labels -> [TokenKinds -> Int] \cup {NoRow}]
    BY <1>2, <2>1, <2>5 DEF LlmInsert
  <2>7. CASE row = NoRow
    BY <2>6, <2>7 DEF LlmDelete
  <2>8. CASE row # NoRow
    <3>1. [k \in TokenKinds |-> row[k] - r.tok[k]] \in [TokenKinds -> Int]
      BY <2>2, <2>3, <2>8
    <3> QED BY <1>2, <2>1, <2>6, <2>8, <3>1 DEF LlmDelete
  <2> QED BY <2>7, <2>8
<1> QED BY <1>1, <1>2

-----------------------------------------------------------------------------
\* The tables keep their types (TypeOK): in particular no trigger writes a row
\* under a key outside the table, or a start time no span can have.
THEOREM TypeCorrect == Spec => []TypeOK
<1>1. Init => TypeOK
  BY SpanRollupsAssumption DEF Init, TypeOK
<1>2. TypeOK /\ [Next]_vars => TypeOK'
  <2> SUFFICES ASSUME TypeOK, [Next]_vars PROVE TypeOK'
    OBVIOUS
  <2>1. ASSUME NEW r \in SpanRow, InsertSpan(r) PROVE TypeOK'
    <3>1. spans' \subseteq SpanRow /\ purge_cutoff' \in 0..(MaxTime + 1)
      BY <2>1 DEF InsertSpan, TypeOK
    <3>2. trace_latest' \in [Traces -> Times \cup {NoRow}]
      BY <2>1 DEF InsertSpan, TypeOK, TraceLatestInsert, SpanRow
    <3>3. spans_daily_llm' \in [Days \X Labels -> [TokenKinds -> Int] \cup {NoRow}]
      BY <2>1, LlmTriggerTypes DEF InsertSpan, TypeOK
    <3> QED BY <3>1, <3>2, <3>3 DEF TypeOK
  <2>2. ASSUME NEW r \in SpanRow, InsertRetriedSpan(r) PROVE TypeOK'
    BY <2>2 DEF InsertRetriedSpan, TypeOK, vars
  <2>3. ASSUME NEW cutoff \in 1..(MaxTime + 1), StartPurge(cutoff) PROVE TypeOK'
    BY <2>3, SpanRollupsAssumption DEF StartPurge, TypeOK
  <2>4. ASSUME NEW r \in spans, DeleteSpan(r) PROVE TypeOK'
    <3>1. r \in SpanRow /\ spans \ {r} \in SUBSET SpanRow
      BY DEF TypeOK
    <3>2. NewestStart(spans \ {r}, r.trace) \in Times \cup {NoRow}
      BY <3>1, NewestStartIsNewest DEF SpanRow
    <3>3. trace_latest' \in [Traces -> Times \cup {NoRow}]
      BY <2>4, <3>1, <3>2 DEF DeleteSpan, TypeOK, TraceLatestDelete
    <3>4. spans_daily_llm' \in [Days \X Labels -> [TokenKinds -> Int] \cup {NoRow}]
      BY <2>4, <3>1, LlmTriggerTypes DEF DeleteSpan, TypeOK
    <3> QED BY <2>4, <3>1, <3>3, <3>4 DEF DeleteSpan, TypeOK
  <2>5. CASE EndPurge
    BY <2>5, SpanRollupsAssumption DEF EndPurge, TypeOK
  <2>6. CASE UNCHANGED vars
    BY <2>6 DEF TypeOK, vars
  <2> QED BY <2>1, <2>2, <2>3, <2>4, <2>5, <2>6 DEF Next
<1> QED BY <1>1, <1>2, PTL DEF Spec

\* The trace list's table is exact (TraceLatestIsNewest): after any order of
\* late inserts, retries and deletes it holds the newest start of every trace
\* that has spans, and nothing else.
THEOREM TraceLatestExact == Spec => []TraceLatestIsNewest
<1>1. Init => TraceLatestIsNewest
  BY DEF Init, TraceLatestIsNewest, SpansOf
<1>2. TypeOK /\ TraceLatestIsNewest /\ [Next]_vars => TraceLatestIsNewest'
  <2> SUFFICES ASSUME TypeOK, TraceLatestIsNewest, [Next]_vars,
                      NEW t \in Traces
               PROVE  IF SpansOf(spans, t)' = {} THEN trace_latest'[t] = NoRow
                      ELSE /\ \E r \in SpansOf(spans, t)' : trace_latest'[t] = r.start
                           /\ \A r \in SpansOf(spans, t)' : r.start <= trace_latest'[t]
    BY DEF TraceLatestIsNewest
  <2>a. IF SpansOf(spans, t) = {} THEN trace_latest[t] = NoRow
        ELSE /\ \E r \in SpansOf(spans, t) : trace_latest[t] = r.start
             /\ \A r \in SpansOf(spans, t) : r.start <= trace_latest[t]
    BY DEF TraceLatestIsNewest
  <2>b. \A r \in SpansOf(spans, t) : r.start \in Int
    BY DEF SpansOf, TypeOK, SpanRow, Times
  <2>1. ASSUME NEW r \in SpanRow, InsertSpan(r)
        PROVE  IF SpansOf(spans, t)' = {} THEN trace_latest'[t] = NoRow
               ELSE /\ \E s \in SpansOf(spans, t)' : trace_latest'[t] = s.start
                    /\ \A s \in SpansOf(spans, t)' : s.start <= trace_latest'[t]
    <3>0. r.start \in Int /\ r.trace \in Traces
      BY DEF SpanRow, Times
    <3>1. CASE r.trace # t
      <4>1. SpansOf(spans, t)' = SpansOf(spans, t) /\ trace_latest'[t] = trace_latest[t]
        BY <2>1, <3>1 DEF InsertSpan, SpansOf, TypeOK, TraceLatestInsert
      <4> QED BY <2>a, <4>1
    <3>2. CASE r.trace = t
      <4>1. SpansOf(spans, t)' = SpansOf(spans, t) \cup {r}
        BY <2>1, <3>2 DEF InsertSpan, SpansOf
      <4>2. trace_latest'[t] = IF trace_latest[t] = NoRow \/ r.start > trace_latest[t]
                               THEN r.start ELSE trace_latest[t]
        BY <2>1, <3>2 DEF InsertSpan, TypeOK, TraceLatestInsert
      <4>3. CASE SpansOf(spans, t) = {}
        BY <2>a, <3>0, <4>1, <4>2, <4>3
      <4>4. CASE SpansOf(spans, t) # {}
        <5>1. trace_latest[t] \in Int /\ trace_latest[t] # NoRow
          BY <2>a, <2>b, <4>4, SpanRollupsAssumption
        <5> QED BY <2>a, <2>b, <3>0, <4>1, <4>2, <4>4, <5>1
      <4> QED BY <4>3, <4>4
    <3> QED BY <3>1, <3>2
  <2>2. ASSUME NEW r \in spans, DeleteSpan(r)
        PROVE  IF SpansOf(spans, t)' = {} THEN trace_latest'[t] = NoRow
               ELSE /\ \E s \in SpansOf(spans, t)' : trace_latest'[t] = s.start
                    /\ \A s \in SpansOf(spans, t)' : s.start <= trace_latest'[t]
    <3>0. r \in SpanRow /\ r.trace \in Traces /\ spans \ {r} \in SUBSET SpanRow
      BY DEF TypeOK, SpanRow
    <3>1. SpansOf(spans, t)' = SpansOf(spans, t) \ {r}
      BY <2>2 DEF DeleteSpan, SpansOf
    <3>2. CASE trace_latest[r.trace] = r.start /\ r.trace = t
      <4>1. trace_latest'[t] = NewestStart(spans \ {r}, t)
        BY <2>2, <3>0, <3>2 DEF DeleteSpan, TypeOK, TraceLatestDelete
      <4>2. SpansOf(spans, t)' = SpansOf(spans \ {r}, t)
        BY <2>2 DEF DeleteSpan, SpansOf
      <4> QED BY <3>0, <4>1, <4>2, NewestStartIsNewest
    <3>3. CASE ~(trace_latest[r.trace] = r.start /\ r.trace = t)
      <4>1. trace_latest'[t] = trace_latest[t]
        BY <2>2, <3>0, <3>3 DEF DeleteSpan, TypeOK, TraceLatestDelete
      <4>2. \A s \in SpansOf(spans, t) : trace_latest[t] = s.start => s # r
        BY <3>3 DEF SpansOf
      <4> QED BY <2>a, <3>1, <4>1, <4>2
    <3> QED BY <3>2, <3>3
  <2>3. ASSUME UNCHANGED <<spans, trace_latest>>
        PROVE  IF SpansOf(spans, t)' = {} THEN trace_latest'[t] = NoRow
               ELSE /\ \E s \in SpansOf(spans, t)' : trace_latest'[t] = s.start
                    /\ \A s \in SpansOf(spans, t)' : s.start <= trace_latest'[t]
    BY <2>a, <2>3 DEF SpansOf
  <2> QED
    BY <2>1, <2>2, <2>3
       DEF Next, vars, InsertRetriedSpan, StartPurge, EndPurge
<1> QED BY <1>1, <1>2, TypeCorrect, PTL DEF Spec

-----------------------------------------------------------------------------
\* One row of n tokens has n units.
LEMMA RowUnits ==
    ASSUME NEW r, NEW n \in Nat
    PROVE  IsFiniteSet({r} \X (1..n)) /\ Cardinality({r} \X (1..n)) = n
<1>1. IsFiniteSet(1..n) /\ Cardinality(1..n) = n
  BY FS_Interval
<1> DEFINE f == [i \in 1..n |-> <<r, i>>]
<1>2. f \in Bijection(1..n, {r} \X (1..n))
  <2>1. f \in [1..n -> {r} \X (1..n)]
    OBVIOUS
  <2>2. \A i, j \in 1..n : f[i] = f[j] => i = j
    OBVIOUS
  <2>3. \A u \in {r} \X (1..n) : \E i \in 1..n : f[i] = u
    OBVIOUS
  <2> HIDE DEF f
  <2> QED BY <2>1, <2>2, <2>3 DEF Bijection, Injection, Surjection, IsInjective
<1>3. ExistsBijection(1..n, {r} \X (1..n))
  BY <1>2 DEF ExistsBijection
<1> QED BY <1>1, <1>3, FS_Bijection

\* A further row adds its own tokens to the sum, and a sum of stored rows is finite.
LEMMA SumAdds ==
    ASSUME NEW rows, NEW r, r \notin rows, NEW k, r.tok[k] \in Nat,
           IsFiniteSet(TokenUnits(rows, k))
    PROVE  /\ IsFiniteSet(TokenUnits(rows \cup {r}, k))
           /\ TokenSum(rows \cup {r}, k) = TokenSum(rows, k) + r.tok[k]
<1> DEFINE new == {r} \X (1..r.tok[k])
<1>1. TokenUnits(rows \cup {r}, k) = TokenUnits(rows, k) \cup new
  BY DEF TokenUnits
<1>2. IsFiniteSet(new) /\ Cardinality(new) = r.tok[k]
  BY RowUnits
<1>3. TokenUnits(rows, k) \cap new = {}
  BY DEF TokenUnits
<1>4. Cardinality(TokenUnits(rows, k)) \in Nat /\ Cardinality({}) = 0
  BY FS_CardinalityType, FS_EmptySet
<1> HIDE DEF new
<1>5. /\ IsFiniteSet(TokenUnits(rows, k) \cup new)
      /\ Cardinality(TokenUnits(rows, k) \cup new) =
           Cardinality(TokenUnits(rows, k)) + Cardinality(new) - Cardinality(TokenUnits(rows, k) \cap new)
  BY <1>2, FS_Union
<1>6. Cardinality(TokenUnits(rows, k) \cap new) = 0
  BY <1>3, <1>4
<1>7. Cardinality(TokenUnits(rows \cup {r}, k)) = Cardinality(TokenUnits(rows, k)) + r.tok[k]
  <2> DEFINE a == Cardinality(TokenUnits(rows, k))
             b == Cardinality(new)
             c == Cardinality(TokenUnits(rows, k) \cap new)
  <2>1. Cardinality(TokenUnits(rows \cup {r}, k)) = a + b - c
    BY Zenon, <1>1, <1>5
  <2>2. a \in Nat /\ b = r.tok[k] /\ c = 0
    BY Zenon, <1>2, <1>4, <1>6
  <2> HIDE DEF a, b, c
  <2>3. a + b - c = a + r.tok[k]
    BY <2>2
  <2> QED BY Zenon, <2>1, <2>3 DEF a
<1> QED BY <1>1, <1>5, <1>7 DEF TokenSum

\* The tokens a row carries are counted in naturals.
LEMMA TokensAreNat == ASSUME NEW r \in SpanRow, NEW k \in TokenKinds PROVE r.tok[k] \in Nat
<1>1. r.tok \in [TokenKinds -> Tokens]
  BY DEF SpanRow
<1> QED BY <1>1, SpanRollupsAssumption

\* The sums of every key are those of its spans, and finite.
SumsHold ==
    \A key \in Days \X Labels, k \in TokenKinds :
        /\ IsFiniteSet(TokenUnits(LlmSpansOf(spans, key), k))
        /\ Sums(spans_daily_llm[key])[k] = TokenSum(LlmSpansOf(spans, key), k)

\* The insert trigger adds what the inserted row adds to the sum of its key.
LEMMA InsertSums ==
    ASSUME TypeOK, SumsHold, NEW r \in SpanRow, InsertSpan(r)
    PROVE  SumsHold'
<1>1. r \notin spans /\ spans' = spans \cup {r} /\ spans_daily_llm' = LlmInsert(spans_daily_llm, r)
  BY DEF InsertSpan, Stored
<1> SUFFICES ASSUME NEW key \in Days \X Labels, NEW k \in TokenKinds
             PROVE  /\ IsFiniteSet(TokenUnits(LlmSpansOf(spans, key)', k))
                    /\ Sums(spans_daily_llm'[key])[k] = TokenSum(LlmSpansOf(spans, key)', k)
  BY DEF SumsHold, TokenUnits, TokenSum, LlmSpansOf
<1>a. /\ IsFiniteSet(TokenUnits(LlmSpansOf(spans, key), k))
      /\ Sums(spans_daily_llm[key])[k] = TokenSum(LlmSpansOf(spans, key), k)
  BY DEF SumsHold
<1>2. CASE r.label = NotLlm \/ LlmKey(r) # key
  <2>1. LlmSpansOf(spans, key)' = LlmSpansOf(spans, key)
    BY <1>1, <1>2 DEF LlmSpansOf
  <2>2. spans_daily_llm'[key] = spans_daily_llm[key]
    BY <1>1, <1>2 DEF LlmInsert, TypeOK
  <2> QED BY <1>a, <2>1, <2>2
<1>3. CASE r.label # NotLlm /\ LlmKey(r) = key
  <2>1. /\ LlmSpansOf(spans, key)' = LlmSpansOf(spans, key) \cup {r}
        /\ r \notin LlmSpansOf(spans, key)
    BY <1>1, <1>3 DEF LlmSpansOf
  <2>2. /\ IsFiniteSet(TokenUnits(LlmSpansOf(spans, key)', k))
        /\ TokenSum(LlmSpansOf(spans, key)', k) = TokenSum(LlmSpansOf(spans, key), k) + r.tok[k]
    <3>1. r.tok[k] \in Nat
      BY TokensAreNat
    <3> QED BY <1>a, <2>1, <3>1, SumAdds
  <2>3. spans_daily_llm'[key] = [j \in TokenKinds |-> Sums(spans_daily_llm[key])[j] + r.tok[j]]
    BY <1>1, <1>3 DEF LlmInsert, TypeOK
  <2>4. spans_daily_llm'[key] # NoRow
    <3>1. Sums(spans_daily_llm[key]) \in [TokenKinds -> Int]
      BY DEF Sums, TypeOK
    <3>2. spans_daily_llm'[key] \in [TokenKinds -> Int]
      BY <2>3, <3>1, TokensAreNat
    <3> QED BY <3>2, SpanRollupsAssumption
  <2>5. Sums(spans_daily_llm'[key])[k] = Sums(spans_daily_llm[key])[k] + r.tok[k]
    BY <2>3, <2>4 DEF Sums
  <2> QED BY <1>a, <2>2, <2>5
<1> QED BY <1>2, <1>3

\* The delete trigger takes away what the deleted row added; a row is dropped with nothing
\* left in it, and an absent row has nothing to take away.
LEMMA DeleteSums ==
    ASSUME TypeOK, SumsHold, NEW r \in spans, DeleteSpan(r)
    PROVE  SumsHold'
<1>1. r \in SpanRow /\ spans' = spans \ {r} /\ spans_daily_llm' = LlmDelete(spans_daily_llm, r)
  BY DEF DeleteSpan, TypeOK
<1> SUFFICES ASSUME NEW key \in Days \X Labels
             PROVE  \A k \in TokenKinds :
                       /\ IsFiniteSet(TokenUnits(LlmSpansOf(spans, key)', k))
                       /\ Sums(spans_daily_llm'[key])[k] = TokenSum(LlmSpansOf(spans, key)', k)
  BY DEF SumsHold, TokenUnits, TokenSum, LlmSpansOf
<1>a. \A k \in TokenKinds :
        /\ IsFiniteSet(TokenUnits(LlmSpansOf(spans, key), k))
        /\ Sums(spans_daily_llm[key])[k] = TokenSum(LlmSpansOf(spans, key), k)
  BY DEF SumsHold
<1>2. CASE r.label = NotLlm \/ LlmKey(r) # key
  <2>1. LlmSpansOf(spans, key)' = LlmSpansOf(spans, key)
    BY <1>1, <1>2 DEF LlmSpansOf
  <2>2. spans_daily_llm'[key] = spans_daily_llm[key]
    BY <1>1, <1>2 DEF LlmDelete, TypeOK
  <2> QED BY <1>a, <2>1, <2>2
<1>3. CASE r.label # NotLlm /\ LlmKey(r) = key
  <2> DEFINE row == spans_daily_llm[key]
             left == [k \in TokenKinds |-> row[k] - r.tok[k]]
  <2>1. /\ LlmSpansOf(spans, key) = LlmSpansOf(spans, key)' \cup {r}
        /\ r \notin LlmSpansOf(spans, key)'
    BY <1>1, <1>3 DEF LlmSpansOf
  <2>2. ASSUME NEW k \in TokenKinds
        PROVE  /\ IsFiniteSet(TokenUnits(LlmSpansOf(spans, key)', k))
               /\ TokenSum(LlmSpansOf(spans, key)', k) \in Nat
               /\ Sums(row)[k] = TokenSum(LlmSpansOf(spans, key)', k) + r.tok[k]
    <3>1. TokenUnits(LlmSpansOf(spans, key)', k) \subseteq TokenUnits(LlmSpansOf(spans, key), k)
      BY <2>1 DEF TokenUnits
    <3>2. IsFiniteSet(TokenUnits(LlmSpansOf(spans, key)', k))
      BY <1>a, <3>1, FS_Subset
    <3>3. TokenSum(LlmSpansOf(spans, key)', k) \in Nat
      BY <3>2, FS_CardinalityType DEF TokenSum
    <3>4. TokenSum(LlmSpansOf(spans, key), k) = TokenSum(LlmSpansOf(spans, key)', k) + r.tok[k]
      <4>1. r.tok[k] \in Nat
        BY <1>1, TokensAreNat
      <4>2. TokenSum(LlmSpansOf(spans, key)' \cup {r}, k) = TokenSum(LlmSpansOf(spans, key)', k) + r.tok[k]
        BY <2>1, <3>2, <4>1, SumAdds
      <4> QED BY <2>1, <4>2
    <3> QED BY <1>a, <3>2, <3>3, <3>4
  <2>3. CASE row = NoRow
    <3>1. spans_daily_llm'[key] = NoRow
      BY <1>1, <1>3, <2>3 DEF LlmDelete
    <3>2. ASSUME NEW k \in TokenKinds PROVE TokenSum(LlmSpansOf(spans, key)', k) = 0
      <4>1. r.tok[k] \in Nat /\ Sums(row)[k] = 0
        BY <1>1, <2>3, TokensAreNat DEF Sums
      <4> QED BY <2>2, <4>1
    <3> QED BY <2>2, <3>1, <3>2 DEF Sums
  <2>4. CASE row # NoRow
    <3>1. row \in [TokenKinds -> Int]
      BY <2>4 DEF TypeOK
    <3>2. ASSUME NEW k \in TokenKinds PROVE left[k] = TokenSum(LlmSpansOf(spans, key)', k)
      <4>1. r.tok[k] \in Nat /\ Sums(row)[k] = row[k]
        BY <1>1, <2>4, TokensAreNat DEF Sums
      <4> QED BY <2>2, <4>1
    <3>3. left \in [TokenKinds -> Int]
      BY <1>1, <3>1, TokensAreNat
    <3>4. left # NoRow
      BY <3>3, SpanRollupsAssumption
    <3>5. spans_daily_llm'[key] = IF \A k \in TokenKinds : left[k] <= 0 THEN NoRow ELSE left
      BY <1>1, <1>3, <2>4 DEF LlmDelete, TypeOK
    <3> HIDE DEF left
    <3>6. CASE \A k \in TokenKinds : left[k] <= 0
      BY <2>2, <3>2, <3>5, <3>6 DEF Sums
    <3>7. CASE ~ \A k \in TokenKinds : left[k] <= 0
      BY <2>2, <3>2, <3>4, <3>5, <3>7 DEF Sums
    <3> QED BY <3>6, <3>7
  <2> QED BY <2>3, <2>4
<1> QED BY <1>2, <1>3

\* The day/tool/model report reads the sums of the stored spans (DailyLlmIsSum), after any
\* order of inserts, retries and partial purges: no decrement undershoots, and no row that
\* still carries tokens is dropped.
THEOREM DailyLlmExact == Spec => []DailyLlmIsSum
<1>1. Init => SumsHold
  <2> SUFFICES ASSUME Init PROVE SumsHold
    OBVIOUS
  <2> SUFFICES ASSUME NEW key \in Days \X Labels, NEW k \in TokenKinds
               PROVE  /\ IsFiniteSet(TokenUnits(LlmSpansOf(spans, key), k))
                      /\ Sums(spans_daily_llm[key])[k] = TokenSum(LlmSpansOf(spans, key), k)
    BY DEF SumsHold
  <2>1. TokenUnits(LlmSpansOf(spans, key), k) = {}
    BY DEF Init, LlmSpansOf, TokenUnits
  <2>2. Sums(spans_daily_llm[key])[k] = 0
    BY DEF Init, Sums
  <2> QED BY <2>1, <2>2, FS_EmptySet DEF TokenSum
<1>2. TypeOK /\ SumsHold /\ [Next]_vars => SumsHold'
  <2> SUFFICES ASSUME TypeOK, SumsHold, [Next]_vars PROVE SumsHold'
    OBVIOUS
  <2>1. ASSUME UNCHANGED <<spans, spans_daily_llm>> PROVE SumsHold'
    BY <2>1 DEF SumsHold, LlmSpansOf, TokenUnits, TokenSum
  <2> QED
    BY <2>1, InsertSums, DeleteSums DEF Next, vars, InsertRetriedSpan, StartPurge, EndPurge
<1>3. SumsHold => DailyLlmIsSum
  BY DEF SumsHold, DailyLlmIsSum
<1> QED BY <1>1, <1>2, <1>3, TypeCorrect, PTL DEF Spec

-----------------------------------------------------------------------------
\* The trace list changes nothing the writer owns: with any number of queries
\* running, the tables behave as SpanRollups specifies.
THEOREM WriterUnaffected == TraceListSpec => Spec
<1>1. TraceListInit => Init
  BY DEF TraceListInit
<1>2. [TraceListNext]_allVars => [Next]_vars
  BY DEF TraceListNext, allVars, SelectIds, Aggregate, LookupRootName, Reply, WriterStep
<1> QED BY <1>1, <1>2, PTL DEF TraceListSpec, Spec

\* While no span was deleted since the ids were selected, every selected trace
\* still has spans, is in the answer and has its name.
Undisturbed ==
    /\ reader \in {"idle", "aggregate", "root_names"}
    /\ reader # "idle" /\ ~overlapped =>
          \A t \in ids : t \in Traces /\ SpansOf(spans, t) # {}
    /\ unknown = {} \/ reader = "idle" \/ overlapped
    /\ reader = "aggregate" => unknown = {}
    /\ reader = "root_names" /\ ~overlapped => entries = ids /\ unknown = {}

\* A selected trace has spans at the time it is selected, by the exactness of
\* trace_latest.
LEMMA SelectedHaveSpans ==
    ASSUME TraceLatestIsNewest, NEW req, NEW top \in TopByRollup(req), NEW t \in top
    PROVE  t \in Traces /\ SpansOf(spans, t) # {}
<1>1. t \in Traces /\ trace_latest[t] # NoRow
  BY DEF TopByRollup
<1> QED BY <1>1 DEF TraceLatestIsNewest

\* Undisturbed is inductive, given the exactness of trace_latest.
LEMMA UndisturbedStep ==
    TraceLatestIsNewest /\ Undisturbed /\ [TraceListNext]_allVars => Undisturbed'
<1> SUFFICES ASSUME TraceLatestIsNewest, Undisturbed, [TraceListNext]_allVars
             PROVE  Undisturbed'
  OBVIOUS
<1>1. CASE SelectIds
  <2>0. PICK req : \E top \in TopByRollup(req) :
            /\ ids' = top
            /\ reader' = IF top = {} THEN "idle" ELSE "aggregate"
    BY <1>1 DEF SelectIds
  <2>1. PICK top \in TopByRollup(req) :
            /\ ids' = top
            /\ reader' = IF top = {} THEN "idle" ELSE "aggregate"
    BY <2>0
  <2>2. spans' = spans /\ unknown' = {}
    BY <1>1 DEF SelectIds, vars
  <2>3. \A t \in ids' : t \in Traces /\ SpansOf(spans, t)' # {}
    BY <2>1, <2>2, SelectedHaveSpans DEF SpansOf
  <2> QED BY <2>1, <2>2, <2>3 DEF Undisturbed
<1>2. CASE Aggregate
  BY <1>2 DEF Aggregate, Undisturbed, SpansOf, vars
<1>3. ASSUME NEW t \in Traces, LookupRootName(t) PROVE Undisturbed'
  BY <1>3 DEF LookupRootName, Undisturbed, SpansOf, vars
<1>4. CASE Reply
  BY <1>4 DEF Reply, Undisturbed, SpansOf, vars
<1>5. CASE WriterStep
  <2>1. /\ UNCHANGED <<reader, ids, entries, unknown>>
        /\ overlapped' = (overlapped \/ ~(spans \subseteq spans'))
    BY <1>5 DEF WriterStep
  <2>2. ASSUME NEW t, spans \subseteq spans', SpansOf(spans, t) # {}
        PROVE  SpansOf(spans, t)' # {}
    BY <2>2 DEF SpansOf
  <2> QED BY <2>1, <2>2 DEF Undisturbed
<1>6. CASE UNCHANGED allVars
  BY <1>6 DEF allVars, vars, readVars, Undisturbed, SpansOf
<1> QED BY <1>1, <1>2, <1>3, <1>4, <1>5, <1>6 DEF TraceListNext

\* Ingest alone never disturbs a running trace list (IngestNeverDisturbs): a
\* missing trace or an "Unknown" root is always the work of a concurrent delete.
THEOREM IngestHarmless == TraceListSpec => []IngestNeverDisturbs
<1>1. TraceListInit => Undisturbed
  BY DEF TraceListInit, ReaderInit, Undisturbed
<1>2. Undisturbed => IngestNeverDisturbs
  BY DEF Undisturbed, IngestNeverDisturbs
<1>3. TraceListSpec => []TraceLatestIsNewest
  BY WriterUnaffected, TraceLatestExact, PTL
<1> QED BY <1>1, <1>2, <1>3, UndisturbedStep, PTL DEF TraceListSpec

-----------------------------------------------------------------------------
\* A finite set can be listed in any strict total order of its members: each at the place
\* that is the number of members up to it.
LEMMA Listed ==
    ASSUME NEW S, IsFiniteSet(S), NEW R,
           \A x \in S : <<x, x>> \notin R,
           \A x, y, z \in S : <<x, y>> \in R /\ <<y, z>> \in R => <<x, z>> \in R,
           \A x, y \in S : x = y \/ <<x, y>> \in R \/ <<y, x>> \in R
    PROVE  \E w \in [1..Cardinality(S) -> S] :
              /\ \A i, j \in 1..Cardinality(S) : i # j => w[i] # w[j]
              /\ \A i, j \in 1..Cardinality(S) : i < j => <<w[i], w[j]>> \in R
<1> DEFINE size == Cardinality(S)
           upto(x) == {y \in S : y = x \/ <<y, x>> \in R}
           rank == [x \in S |-> Cardinality(upto(x))]
<1>1. size \in Nat
  BY FS_CardinalityType
<1>2. ASSUME NEW x \in S
      PROVE  /\ IsFiniteSet(upto(x)) /\ Cardinality(upto(x)) \in Nat
             /\ Cardinality(upto(x)) <= size /\ Cardinality(upto(x)) >= 1
  <2>1. upto(x) \in SUBSET S /\ x \in upto(x)
    OBVIOUS
  <2> HIDE DEF upto
  <2>2. IsFiniteSet(upto(x)) /\ Cardinality(upto(x)) <= size
    BY <2>1, FS_Subset
  <2>3. Cardinality(upto(x)) \in Nat
    BY <2>2, FS_CardinalityType
  <2>4. Cardinality(upto(x)) # 0
    BY <2>1, <2>2, FS_EmptySet
  <2> QED BY <2>2, <2>3, <2>4
<1>3. ASSUME NEW x \in S, NEW y \in S, <<x, y>> \in R
      PROVE  Cardinality(upto(x)) < Cardinality(upto(y))
  <2>1. upto(x) \subseteq upto(y) /\ y \in upto(y) /\ y \notin upto(x)
    <3>1. x # y /\ <<y, x>> \notin R
      BY <1>3
    <3> QED BY <1>3, <3>1
  <2>2. IsFiniteSet(upto(y)) /\ Cardinality(upto(x)) \in Nat /\ Cardinality(upto(y)) \in Nat
    BY <1>2
  <2> HIDE DEF upto
  <2>3. /\ Cardinality(upto(x)) <= Cardinality(upto(y))
        /\ Cardinality(upto(y)) = Cardinality(upto(x)) => upto(y) = upto(x)
    BY <2>1, <2>2, FS_Subset
  <2> QED BY <2>1, <2>2, <2>3
<1> HIDE DEF upto
<1>4. rank \in Injection(S, 1..size)
  <2>1. rank \in [S -> 1..size]
    BY <1>1, <1>2
  <2>2. ASSUME NEW x \in S, NEW y \in S, rank[x] = rank[y] PROVE x = y
    <3>1. /\ ~(Cardinality(upto(x)) < Cardinality(upto(y)))
          /\ ~(Cardinality(upto(y)) < Cardinality(upto(x)))
      BY <1>2, <2>2
    <3> QED BY <1>3, <3>1
  <2> HIDE DEF rank
  <2> QED BY <2>1, <2>2 DEF Injection, IsInjective
<1>5. \A n \in 1..size : \E x \in S : rank[x] = n
  <2>1. IsFiniteSet(1..size) /\ Cardinality(1..size) = size
    BY <1>1, FS_Interval
  <2>2. rank \in Surjection(S, 1..size)
    BY <1>4, <2>1, FS_Injection
  <2> QED BY <2>2 DEF Surjection
<1> DEFINE w == [n \in 1..size |-> CHOOSE x \in S : rank[x] = n]
<1>6. \A n \in 1..size : w[n] \in S /\ rank[w[n]] = n
  BY <1>5
<1>7. w \in [1..size -> S]
  BY <1>6
<1>8. \A n \in 1..size : Cardinality(upto(w[n])) = n
  BY <1>6
<1> HIDE DEF w, rank
<1>9. ASSUME NEW i \in 1..size, NEW j \in 1..size, i < j PROVE <<w[i], w[j]>> \in R
  <2>1. w[i] \in S /\ w[j] \in S
    BY <1>7
  <2>2. w[i] # w[j]
    BY <1>8, <1>9
  <2>3. ~(Cardinality(upto(w[j])) < Cardinality(upto(w[i])))
    BY <1>1, <1>8, <1>9
  <2> QED BY <1>3, <2>1, <2>2, <2>3
<1>10. \A i, j \in 1..size : i # j => w[i] # w[j]
  BY <1>8
<1> QED BY <1>7, <1>9, <1>10

-----------------------------------------------------------------------------
\* The traces the seek may return, and the rows that select a trace in a walk.
InWindow(start) == {t \in Traces : trace_latest[t] # NoRow /\ trace_latest[t] >= start}
Counted(req, w) == {i \in DOMAIN w : Selected(req, w, i)}

\* What the two paths read: finitely many spans, and the table exact.
Readable == spans \subseteq SpanRow /\ IsFiniteSet(spans) /\ TraceLatestIsNewest

\* A walk meets every row once, the later started first, and meets the newest row of every
\* trace in the table.
LEMMA WalkRows ==
    ASSUME Readable, NEW w \in ScanOrders(spans)
    PROVE  /\ Cardinality(spans) \in Nat /\ DOMAIN w = 1..Cardinality(spans)
           /\ \A i, j \in DOMAIN w : i < j => w[i].start >= w[j].start
           /\ \A i \in DOMAIN w :
                 /\ w[i].trace \in Traces /\ w[i].start \in Int
                 /\ trace_latest[w[i].trace] \in Int /\ trace_latest[w[i].trace] # NoRow
                 /\ w[i].start <= trace_latest[w[i].trace]
           /\ \A t \in Traces : trace_latest[t] # NoRow =>
                 /\ trace_latest[t] \in Int
                 /\ \E i \in DOMAIN w : w[i].trace = t /\ w[i].start = trace_latest[t]
<1> DEFINE size == Cardinality(spans)
<1>1. size \in Nat
  BY FS_CardinalityType DEF Readable
<1>2. /\ w \in [1..size -> spans] /\ DOMAIN w = 1..size
      /\ \A i, j \in 1..size : i # j => w[i] # w[j]
      /\ \A i, j \in DOMAIN w : i < j => w[i].start >= w[j].start
  BY DEF ScanOrders, SetToSeqs
<1>3. ASSUME NEW r \in spans
      PROVE  r.trace \in Traces /\ r.start \in Int /\ r \in SpansOf(spans, r.trace)
  BY DEF Readable, SpanRow, Times, SpansOf
<1>4. ASSUME NEW r \in spans
      PROVE  /\ trace_latest[r.trace] \in Int /\ trace_latest[r.trace] # NoRow
             /\ r.start <= trace_latest[r.trace]
  <2>1. PICK s \in SpansOf(spans, r.trace) : trace_latest[r.trace] = s.start
    BY <1>3 DEF Readable, TraceLatestIsNewest
  <2>2. s \in spans
    BY DEF SpansOf
  <2>3. s.start \in Int /\ s.start # NoRow
    BY <1>3, <2>2, SpanRollupsAssumption
  <2> QED BY <1>3, <2>1, <2>3 DEF Readable, TraceLatestIsNewest
<1>5. \A r \in spans : \E i \in 1..size : w[i] = r
  <2>1. IsFiniteSet(1..size) /\ Cardinality(1..size) = size
    BY <1>1, FS_Interval
  <2>2. w \in Injection(1..size, spans)
    BY <1>2 DEF Injection, IsInjective
  <2>3. w \in Surjection(1..size, spans)
    BY <2>1, <2>2, FS_Injection DEF Readable
  <2> QED BY <2>3 DEF Surjection
<1>6. ASSUME NEW t \in Traces, trace_latest[t] # NoRow
      PROVE  /\ trace_latest[t] \in Int
             /\ \E i \in DOMAIN w : w[i].trace = t /\ w[i].start = trace_latest[t]
  <2>1. PICK r \in SpansOf(spans, t) : trace_latest[t] = r.start
    BY <1>6 DEF Readable, TraceLatestIsNewest
  <2>2. r \in spans /\ r.trace = t
    BY DEF SpansOf
  <2>3. PICK i \in 1..size : w[i] = r
    BY <1>5, <2>2
  <2> QED BY <1>2, <1>3, <2>1, <2>2, <2>3
<1>7. \A i \in DOMAIN w : w[i] \in spans
  BY <1>2
<1> QED BY <1>1, <1>2, <1>3, <1>4, <1>6, <1>7

\* The rows met are finitely many traces, one more at each step at most.
LEMMA MetCount ==
    ASSUME NEW w, NEW n \in Nat
    PROVE  /\ IsFiniteSet(Met(w, n)) /\ Cardinality(Met(w, n)) \in Nat
           /\ \A m \in 0..n : Cardinality(Met(w, m)) <= Cardinality(Met(w, n))
           /\ n > 0 => Cardinality(Met(w, n)) <= Cardinality(Met(w, n - 1)) + 1
<1>1. ASSUME NEW m \in Nat PROVE IsFiniteSet(Met(w, m)) /\ Cardinality(Met(w, m)) \in Nat
  <2> DEFINE f == [i \in 1..m |-> w[i].trace]
  <2>1. f \in [1..m -> Met(w, m)] /\ \A t \in Met(w, m) : \E i \in 1..m : f[i] = t
    BY DEF Met
  <2>2. IsFiniteSet(1..m)
    BY FS_Interval
  <2> HIDE DEF f
  <2>3. f \in Surjection(1..m, Met(w, m))
    BY <2>1 DEF Surjection
  <2>4. IsFiniteSet(Met(w, m))
    BY <2>2, <2>3, FS_Surjection
  <2> QED BY <2>4, FS_CardinalityType
<1>2. ASSUME NEW m \in 0..n PROVE Cardinality(Met(w, m)) <= Cardinality(Met(w, n))
  <2>1. Met(w, m) \subseteq Met(w, n)
    BY DEF Met
  <2> QED BY <1>1, <2>1, FS_Subset
<1>3. ASSUME n > 0 PROVE Cardinality(Met(w, n)) <= Cardinality(Met(w, n - 1)) + 1
  <2>1. Met(w, n) = Met(w, n - 1) \cup {w[n].trace}
    BY <1>3 DEF Met
  <2>2. IsFiniteSet(Met(w, n - 1)) /\ Cardinality(Met(w, n - 1)) \in Nat
    BY <1>1, <1>3
  <2>3. Cardinality(Met(w, n)) =
           IF w[n].trace \in Met(w, n - 1) THEN Cardinality(Met(w, n - 1))
           ELSE Cardinality(Met(w, n - 1)) + 1
    BY Zenon, <2>1, <2>2, FS_AddElement
  <2> QED BY <2>2, <2>3
<1> QED BY <1>1, <1>2, <1>3

\* The window holds finitely many traces.
LEMMA WindowFinite ==
    ASSUME Readable, NEW start
    PROVE  IsFiniteSet(InWindow(start)) /\ Cardinality(InWindow(start)) \in Nat
<1> DEFINE met == {r.trace : r \in spans}
           f   == [r \in spans |-> r.trace]
<1>1. InWindow(start) \subseteq met
  BY DEF InWindow, Readable, TraceLatestIsNewest, SpansOf
<1>2. f \in [spans -> met] /\ \A t \in met : \E r \in spans : f[r] = t
  OBVIOUS
<1> HIDE DEF f
<1>3. f \in Surjection(spans, met)
  BY <1>2 DEF Surjection
<1> HIDE DEF met
<1>4. IsFiniteSet(met)
  BY <1>3, FS_Surjection DEF Readable
<1>5. IsFiniteSet(InWindow(start))
  BY <1>1, <1>4, FS_Subset
<1> QED BY <1>5, FS_CardinalityType

\* The rows that select a trace come first, they are those up to the last of them, and the
\* rows before that one meet fewer traces than the limit.  When they end short of the limit,
\* they are every row of the window.
LEMMA CountedPrefix ==
    ASSUME Readable, NEW w \in ScanOrders(spans),
           NEW limit \in Nat \ {0}, NEW start \in Int, NEW req, req.limit = limit, req.start = start
    PROVE  \E m \in 0..Cardinality(spans) :
              /\ Counted(req, w) = 1..m
              /\ Walked(req, w) = Met(w, m)
              /\ Cardinality(Met(w, m)) <= limit
              /\ Cardinality(Met(w, m)) < limit =>
                    \A i \in DOMAIN w : w[i].start >= start => i <= m
<1> DEFINE size == Cardinality(spans)
           counted == Counted(req, w)
<1>1. /\ size \in Nat /\ DOMAIN w = 1..size
      /\ \A i, j \in 1..size : i < j => w[i].start >= w[j].start
      /\ \A i \in 1..size : w[i].start \in Int
  BY WalkRows
<1>2. counted \subseteq 1..size
  BY <1>1 DEF Counted
<1>3. \A i \in counted : \A j \in 1..(i - 1) : j \in counted
  BY <1>1 DEF Counted, Selected
<1>4. \A i \in counted : /\ w[i].start >= start
                         /\ \A j \in 1..(i - 1) : Cardinality(Met(w, j)) < limit
  BY DEF Counted, Selected
<1>5. \A i \in 1..size :
         /\ w[i].start >= start
         /\ \A j \in 1..(i - 1) : w[j].start >= start /\ Cardinality(Met(w, j)) < limit
         => i \in counted
  BY <1>1 DEF Counted, Selected
<1>6. PICK m \in 0..size : counted = 1..m
  <2>1. CASE counted = {}
    BY <1>1, <2>1
  <2>2. CASE counted # {}
    <3>1. counted \in SUBSET (0..size)
      BY <1>1, <1>2
    <3> HIDE DEF counted
    <3>2. PICK m \in counted : \A y \in counted : y <= m
      BY <1>1, <2>2, <3>1, MaxOfBounded
    <3>3. m \in 1..size /\ \A y \in counted : y \in 1..m
      BY <1>1, <1>2, <3>2
    <3>4. \A j \in 1..m : j \in 1..(m - 1) \/ j = m
      BY <3>3
    <3>5. counted = 1..m
      BY <1>3, <3>2, <3>3, <3>4
    <3> QED BY <1>1, <3>3, <3>5
  <2> QED BY <2>1, <2>2
<1>7. Walked(req, w) = Met(w, m)
  <2>1. Walked(req, w) = {w[i].trace : i \in counted}
    BY DEF Walked, Counted
  <2> QED BY <1>6, <2>1 DEF Met
<1> HIDE DEF counted
<1>8. Cardinality(Met(w, m)) <= limit
  <2>1. CASE m = 0
    <3>1. Met(w, m) = {}
      BY <2>1 DEF Met
    <3> QED BY <3>1, FS_EmptySet
  <2>2. CASE m = 1
    <3>1. Met(w, m) = {w[1].trace}
      BY <2>2 DEF Met
    <3>2. Cardinality({w[1].trace}) = 1
      BY FS_Singleton
    <3> QED BY <3>1, <3>2
  <2>3. CASE m > 1
    <3>1. m \in counted /\ m - 1 \in 1..(m - 1) /\ m \in Nat /\ m - 1 \in Nat
      BY <1>1, <1>6, <2>3
    <3>2. Cardinality(Met(w, m - 1)) < limit
      BY <1>4, <3>1
    <3>3. Cardinality(Met(w, m)) <= Cardinality(Met(w, m - 1)) + 1
      BY <2>3, <3>1, MetCount
    <3>4. Cardinality(Met(w, m)) \in Nat /\ Cardinality(Met(w, m - 1)) \in Nat
      BY <3>1, MetCount
    <3> QED BY <3>2, <3>3, <3>4
  <2> QED BY <1>1, <2>1, <2>2, <2>3
<1>9. ASSUME Cardinality(Met(w, m)) < limit, NEW i \in 1..size, w[i].start >= start
      PROVE  i <= m
  <2> SUFFICES ASSUME i > m PROVE FALSE
    BY <1>1
  <2>1. m + 1 \in 1..size /\ m \in Nat /\ m + 1 <= i
    BY <1>1
  <2>2. w[m + 1].start >= start
    BY <1>1, <1>9, <2>1
  <2>3. \A j \in 1..m : Cardinality(Met(w, j)) < limit
    <3> SUFFICES ASSUME NEW j \in 1..m PROVE Cardinality(Met(w, j)) < limit
      OBVIOUS
    <3>1. Cardinality(Met(w, j)) <= Cardinality(Met(w, m))
      BY <2>1, MetCount
    <3>2. Cardinality(Met(w, j)) \in Nat /\ Cardinality(Met(w, m)) \in Nat
      BY <2>1, MetCount
    <3> QED BY <1>9, <3>1, <3>2
  <2>4. \A j \in 1..m : w[j].start >= start
    BY <1>4, <1>6
  <2>5. (m + 1) - 1 = m
    BY <2>1
  <2>6. m + 1 \in counted
    BY <1>5, <2>1, <2>2, <2>3, <2>4, <2>5
  <2> QED BY <1>6, <2>1, <2>6
<1> QED BY <1>1, <1>6, <1>7, <1>8, <1>9 DEF counted

\* What a walk selects is a top of the table.
LEMMA WalkIsTop ==
    ASSUME Readable, NEW w \in ScanOrders(spans),
           NEW limit \in Nat \ {0}, NEW start \in Int, NEW req, req.limit = limit, req.start = start
    PROVE  Walked(req, w) \in TopByRollup(req)
<1> DEFINE seen == Walked(req, w)
           window == InWindow(start)
<1>1. PICK m \in 0..Cardinality(spans) :
         /\ Counted(req, w) = 1..m
         /\ seen = Met(w, m)
         /\ Cardinality(Met(w, m)) <= limit
         /\ Cardinality(Met(w, m)) < limit => \A i \in DOMAIN w : w[i].start >= start => i <= m
  BY CountedPrefix
<1>2. /\ Cardinality(spans) \in Nat /\ DOMAIN w = 1..Cardinality(spans)
      /\ \A i, j \in DOMAIN w : i < j => w[i].start >= w[j].start
      /\ \A i \in DOMAIN w :
            /\ w[i].trace \in Traces /\ w[i].start \in Int
            /\ trace_latest[w[i].trace] \in Int /\ trace_latest[w[i].trace] # NoRow
            /\ w[i].start <= trace_latest[w[i].trace]
      /\ \A t \in Traces : trace_latest[t] # NoRow =>
            /\ trace_latest[t] \in Int
            /\ \E i \in DOMAIN w : w[i].trace = t /\ w[i].start = trace_latest[t]
  BY WalkRows
<1>3. \A i \in 1..m : i \in DOMAIN w /\ w[i].start >= start
  BY <1>1 DEF Counted, Selected
<1>4. seen \subseteq window
  BY <1>1, <1>2, <1>3 DEF Met, InWindow
<1>5. IsFiniteSet(window) /\ Cardinality(window) \in Nat
  BY WindowFinite
<1>6. IsFiniteSet(seen) /\ Cardinality(seen) \in Nat /\ Cardinality(seen) <= Cardinality(window)
  <2> HIDE DEF seen, window
  <2>1. IsFiniteSet(seen) /\ Cardinality(seen) <= Cardinality(window)
    BY <1>4, <1>5, FS_Subset
  <2> QED BY <2>1, FS_CardinalityType
<1>7. ASSUME Cardinality(seen) < limit PROVE seen = window
  <2>1. \A i \in DOMAIN w : w[i].start >= start => i \in 1..m
    BY <1>1, <1>2, <1>7
  <2>2. window \subseteq seen
    BY <1>1, <1>2, <2>1 DEF InWindow, Met
  <2> QED BY <1>4, <2>2
<1>8. Cardinality(seen) = LeastOf(limit, Cardinality(window))
  <2>1. Cardinality(seen) <= limit
    BY <1>1
  <2> HIDE DEF seen, window
  <2> QED BY <1>5, <1>6, <1>7, <2>1 DEF LeastOf
<1>9. ASSUME NEW t \in seen, NEW u \in window \ seen PROVE trace_latest[t] >= trace_latest[u]
  <2>1. PICK i \in 1..m : w[i].trace = t
    BY <1>1 DEF Met
  <2>2. /\ u \in Traces /\ trace_latest[u] # NoRow
    BY DEF InWindow
  <2>3. PICK j \in DOMAIN w : w[j].trace = u /\ w[j].start = trace_latest[u]
    BY <1>2, <2>2
  <2>4. j \notin 1..m
    BY <1>1, <1>9, <2>3 DEF Met
  <2>5. i \in DOMAIN w /\ i < j
    BY <1>2, <1>3, <2>4
  <2> QED BY <1>2, <2>1, <2>3, <2>5
<1>10. TopByRollup(req) =
         {s \in SUBSET window :
            /\ Cardinality(s) = LeastOf(limit, Cardinality(window))
            /\ \A t \in s, u \in window \ s : trace_latest[t] >= trace_latest[u]}
  BY DEF TopByRollup, InWindow
<1>11. \A t \in seen, u \in window \ seen : trace_latest[t] >= trace_latest[u]
  BY <1>9
<1> HIDE DEF seen, window
<1> QED BY Zenon, <1>4, <1>8, <1>10, <1>11 DEF seen

\* A top of the table is what some walk selects: one that meets the rows of its traces
\* before the others of the same start.
LEMMA TopIsWalk ==
    ASSUME Readable, NEW limit \in Nat \ {0}, NEW start \in Int,
           NEW req, req.limit = limit, req.start = start, NEW top \in TopByRollup(req)
    PROVE  \E w \in ScanOrders(spans) : Walked(req, w) = top
<1>1. PICK place \in [spans -> Nat] : \A q, r \in spans : place[q] = place[r] => q = r
  <2>1. Cardinality(spans) \in Nat /\ IsFiniteSet(1..Cardinality(spans))
    BY FS_CardinalityType, FS_Interval DEF Readable
  <2>2. Cardinality(1..Cardinality(spans)) = Cardinality(spans)
    BY <2>1, FS_Interval
  <2>3. PICK f \in Bijection(spans, 1..Cardinality(spans)) : TRUE
    BY <2>1, <2>2, FS_SameCardinalityBij DEF Readable, ExistsBijection
  <2>4. f \in [spans -> 1..Cardinality(spans)] /\ \A q, r \in spans : f[q] = f[r] => q = r
    BY <2>3 DEF Bijection, Injection, IsInjective
  <2>5. f \in [spans -> Nat]
    BY <2>1, <2>4
  <2> QED BY <2>4, <2>5
<1> DEFINE before(q, r) ==
             \/ q.start > r.start
             \/ q.start = r.start /\ q.trace \in top /\ r.trace \notin top
             \/ q.start = r.start /\ (q.trace \in top <=> r.trace \in top) /\ place[q] < place[r]
           order == {p \in spans \X spans : before(p[1], p[2])}
<1>2. \A r \in spans : r.start \in Int
  BY DEF Readable, SpanRow, Times
<1>3. \A q, r \in spans : <<q, r>> \in order <=> before(q, r)
  OBVIOUS
<1>4. PICK w \in [1..Cardinality(spans) -> spans] :
         /\ \A i, j \in 1..Cardinality(spans) : i # j => w[i] # w[j]
         /\ \A i, j \in 1..Cardinality(spans) : i < j => <<w[i], w[j]>> \in order
  <2>1. \A r \in spans : <<r, r>> \notin order
    BY <1>1, <1>2, <1>3
  <2>2. \A q, r, s \in spans : <<q, r>> \in order /\ <<r, s>> \in order => <<q, s>> \in order
    <3> SUFFICES ASSUME NEW q \in spans, NEW r \in spans, NEW s \in spans, before(q, r), before(r, s)
                 PROVE  before(q, s)
      BY <1>3
    <3>1. place[q] \in Nat /\ place[r] \in Nat /\ place[s] \in Nat
      BY <1>1
    <3> QED BY <1>2, <3>1
  <2>3. \A q, r \in spans : q = r \/ <<q, r>> \in order \/ <<r, q>> \in order
    <3> SUFFICES ASSUME NEW q \in spans, NEW r \in spans, q # r PROVE before(q, r) \/ before(r, q)
      BY <1>3
    <3>1. place[q] \in Nat /\ place[r] \in Nat /\ place[q] # place[r]
      BY <1>1
    <3> QED BY <1>2, <3>1
  <2> HIDE DEF order
  <2> QED BY <2>1, <2>2, <2>3, Listed DEF Readable
<1>5. \A i, j \in 1..Cardinality(spans) : i < j => before(w[i], w[j])
  <2> SUFFICES ASSUME NEW i \in 1..Cardinality(spans), NEW j \in 1..Cardinality(spans), i < j
               PROVE  before(w[i], w[j])
    OBVIOUS
  <2>1. w[i] \in spans /\ w[j] \in spans /\ <<w[i], w[j]>> \in order
    BY <1>4
  <2> HIDE DEF before, order
  <2> QED BY <1>3, <2>1
<1>6. w \in ScanOrders(spans)
  <2>1. DOMAIN w = 1..Cardinality(spans)
    BY <1>4
  <2>2. \A i, j \in DOMAIN w : i < j => w[i].start >= w[j].start
    BY <1>2, <1>4, <1>5, <2>1
  <2> QED BY <1>4, <2>2 DEF ScanOrders, SetToSeqs
<1> DEFINE seen == Walked(req, w)
           window == InWindow(start)
<1>7. seen \in TopByRollup(req)
  BY <1>6, WalkIsTop
<1>8. ASSUME NEW s \in TopByRollup(req)
      PROVE  /\ s \subseteq window /\ IsFiniteSet(s)
             /\ Cardinality(s) = LeastOf(limit, Cardinality(window))
             /\ \A t \in s, u \in window \ s : trace_latest[t] >= trace_latest[u]
  <2>1. /\ s \subseteq window /\ Cardinality(s) = LeastOf(limit, Cardinality(window))
        /\ \A t \in s, u \in window \ s : trace_latest[t] >= trace_latest[u]
    BY DEF TopByRollup, InWindow
  <2>2. IsFiniteSet(window)
    BY WindowFinite
  <2> HIDE DEF window
  <2>3. IsFiniteSet(s)
    BY <2>1, <2>2, FS_Subset
  <2> QED BY <2>1, <2>3
<1>9. \A t \in seen : t \in top
  <2> SUFFICES ASSUME NEW t \in seen, t \notin top PROVE FALSE
    OBVIOUS
  <2>1. PICK u \in top : u \notin seen
    <3> SUFFICES ASSUME top \subseteq seen PROVE FALSE
      OBVIOUS
    <3>1. IsFiniteSet(seen) /\ Cardinality(seen) = Cardinality(top)
      BY <1>7, <1>8
    <3> HIDE DEF seen
    <3>2. seen = top
      BY <3>1, FS_Subset
    <3> QED BY <3>2
  <2>2. t \in window /\ u \in window
    BY <1>7, <1>8
  <2>3. trace_latest[u] >= trace_latest[t] /\ trace_latest[t] >= trace_latest[u]
    BY <1>7, <1>8, <2>1, <2>2
  <2>4. PICK m \in 0..Cardinality(spans) : Counted(req, w) = 1..m /\ seen = Met(w, m)
    BY <1>6, CountedPrefix
  <2>5. PICK i \in 1..m : w[i].trace = t
    BY <2>4 DEF Met
  <2>6. /\ Cardinality(spans) \in Nat /\ DOMAIN w = 1..Cardinality(spans)
        /\ w[i].start \in Int /\ w[i].start <= trace_latest[t] /\ trace_latest[t] \in Int
    <3>1. Cardinality(spans) \in Nat /\ DOMAIN w = 1..Cardinality(spans)
      BY <1>6, WalkRows
    <3>2. i \in DOMAIN w
      BY <3>1
    <3> QED BY <1>6, <2>5, <3>1, <3>2, WalkRows
  <2>7. PICK j \in DOMAIN w : w[j].trace = u /\ w[j].start = trace_latest[u]
    <3>1. u \in Traces /\ trace_latest[u] # NoRow
      BY <2>2 DEF InWindow
    <3> QED BY <1>6, <3>1, WalkRows
  <2>8. i < j /\ i \in 1..Cardinality(spans) /\ j \in 1..Cardinality(spans)
    <3>1. j \notin 1..m
      BY <2>1, <2>4, <2>7 DEF Met
    <3> QED BY <2>6, <3>1
  <2>9. w[i].start >= w[j].start
    BY <1>6, <2>6, <2>8, WalkRows
  <2>10. trace_latest[u] \in Int /\ w[i].start = w[j].start
    <3>1. trace_latest[u] \in Int
      BY <1>2, <1>4, <2>7, <2>8
    <3> QED BY <2>3, <2>6, <2>7, <2>9, <3>1
  <2>11. before(w[i], w[j])
    BY <1>5, <2>8
  <2> QED BY <2>1, <2>5, <2>6, <2>7, <2>10, <2>11
<1>10. seen = top
  <2>1. IsFiniteSet(top) /\ Cardinality(top) = Cardinality(seen)
    BY <1>7, <1>8
  <2> HIDE DEF seen
  <2> QED BY <1>9, <2>1, FS_Subset
<1> QED BY <1>6, <1>10

\* In every window and for every limit the seek over trace_latest may answer exactly what the
\* walk of the spans it replaced may answer (RollupAgreesWithWalk), whatever was ingested,
\* retried and purged before, ties included.
THEOREM SeekIsWalk == TraceListSpec => []RollupAgreesWithWalk
<1>1. Readable => RollupAgreesWithWalk
  <2> SUFFICES ASSUME Readable, NEW limit \in Limits, NEW start \in Times, NEW req,
                      req = [limit |-> limit, start |-> start]
               PROVE  TopByRollup(req) = TopByWalk(req)
    BY DEF RollupAgreesWithWalk
  <2>1. limit \in Nat /\ start \in Int /\ req.limit = limit /\ req.start = start
    BY TraceListAssumption DEF Times
  <2>2. CASE limit = 0
    <3>1. /\ TopByWalk(req) = {{}}
          /\ \A s \in TopByRollup(req) : s \subseteq InWindow(start)
                                         /\ Cardinality(s) = LeastOf(0, Cardinality(InWindow(start)))
      BY <2>1, <2>2 DEF TopByWalk, TopByRollup, InWindow
    <3>2. IsFiniteSet(InWindow(start)) /\ LeastOf(0, Cardinality(InWindow(start))) = 0
      BY WindowFinite DEF LeastOf
    <3>3. \A s \in TopByRollup(req) : s = {}
      <4> SUFFICES ASSUME NEW s \in TopByRollup(req) PROVE s = {}
        OBVIOUS
      <4>1. IsFiniteSet(s)
        BY <3>1, <3>2, FS_Subset
      <4> QED BY <3>1, <3>2, <4>1, FS_EmptySet
    <3>4. {} \in TopByRollup(req)
      <4>1. Cardinality({}) = LeastOf(req.limit, Cardinality(InWindow(start)))
        BY <2>1, <2>2, <3>2, FS_EmptySet
      <4> QED BY <2>1, <4>1 DEF TopByRollup, InWindow
    <3> QED BY <3>1, <3>3, <3>4
  <2>3. CASE limit # 0
    <3>1. limit \in Nat \ {0} /\ TopByWalk(req) = {Walked(req, w) : w \in ScanOrders(spans)}
      BY <2>1, <2>3 DEF TopByWalk
    <3>2. \A w \in ScanOrders(spans) : Walked(req, w) \in TopByRollup(req)
      BY <2>1, <3>1, WalkIsTop
    <3>3. \A top \in TopByRollup(req) : \E w \in ScanOrders(spans) : Walked(req, w) = top
      BY <2>1, <3>1, TopIsWalk
    <3> QED BY <3>1, <3>2, <3>3
  <2> QED BY <2>2, <2>3
<1>2. Spec => []IsFiniteSet(spans)
  <2>1. Init => IsFiniteSet(spans)
    BY FS_EmptySet DEF Init
  <2>2. IsFiniteSet(spans) /\ [Next]_vars => IsFiniteSet(spans)'
    BY FS_AddElement, FS_RemoveElement
       DEF Next, vars, InsertSpan, InsertRetriedSpan, StartPurge, DeleteSpan, EndPurge
  <2> QED BY <2>1, <2>2, PTL DEF Spec
<1>3. TypeOK => spans \subseteq SpanRow
  BY DEF TypeOK
<1> QED BY <1>1, <1>2, <1>3, TypeCorrect, TraceLatestExact, WriterUnaffected, PTL DEF Readable
=============================================================================
