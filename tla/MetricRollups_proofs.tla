------------------------ MODULE MetricRollups_proofs ------------------------
(***************************************************************************)
(* Proofs about MetricRollups, from a fresh and from an upgraded database: *)
(* the types, the cover of metric_latest, the fast path and the exactness  *)
(* of the tool rollup, for every number of names, tools, rows and          *)
(* timestamps.                                                             *)
(***************************************************************************)
EXTENDS MetricRollups, FiniteSetsExt, WellFoundedInduction, FiniteSetTheorems, TLAPS

\* A nonempty set of integers between 0 and n has a largest element, which is
\* what Max chooses: n minus the least distance to n.
LEMMA MaxOfBounded ==
    ASSUME NEW n \in Nat, NEW S \in SUBSET (0..n), S # {}
    PROVE  /\ Max(S) \in S
           /\ \A y \in S : y <= Max(S)
<1> DEFINE T == {n - y : y \in S}
<1>1. T \in SUBSET Nat
  OBVIOUS
<1>2. T # {}
  OBVIOUS
<1>3. PICK x \in T : \A y \in T : ~(<<y, x>> \in OpToRel(<, Nat))
  BY <1>1, <1>2, NatLessThanWellFounded, WFMin, Zenon
<1>4. ASSUME NEW y \in T PROVE x <= y
  <2>1. /\ <<y, x>> \in Nat \X Nat
        /\ <<y, x>>[1] = y /\ <<y, x>>[2] = x
    BY <1>1
  <2>2. ~(<<y, x>> \in OpToRel(<, Nat))
    BY <1>3
  <2>3. ~(y < x)
    BY <2>1, <2>2, Zenon DEF OpToRel
  <2> QED BY <1>1, <2>3
<1>5. PICK m \in S : x = n - m
  BY <1>3
<1>6. \A y \in S : m >= y
  BY <1>4, <1>5
<1> QED BY <1>5, <1>6 DEF Max

\* Ids are handed out in order: every stored row has one below next_id, so the
\* next insert is a new row; and only finitely many rows exist.
IdsIssued ==
    /\ IsFiniteSet(metrics)
    /\ \A r \in metrics : r.id < next_id

\* What the recompute of the delete trigger returns.
LEMMA RecomputeLatestCovers ==
    ASSUME NEW rows \in SUBSET MetricRow, NEW n \in Names
    PROVE  /\ RecomputeLatest(rows, n) \in Latest \cup {NoRow}
           /\ RowsOf(rows, n) = {} => RecomputeLatest(rows, n) = NoRow
           /\ RowsOf(rows, n) # {} =>
                 /\ RecomputeLatest(rows, n) \in Latest
                 /\ \E r \in RowsOf(rows, n) : r.id = RecomputeLatest(rows, n).id
                 /\ \A r \in RowsOf(rows, n) : r.timestamp <= RecomputeLatest(rows, n).timestamp
<1>1. CASE RowsOf(rows, n) = {}
  BY <1>1 DEF RecomputeLatest
<1>2. CASE RowsOf(rows, n) # {}
  <2> DEFINE stamps == {r.timestamp : r \in RowsOf(rows, n)}
             known  == {r.id : r \in RowsOf(rows, n)}
  <2>1. RowsOf(rows, n) \subseteq MetricRow
    BY DEF RowsOf
  <2>2. stamps \in SUBSET (0..MaxTime) /\ stamps # {}
    BY <1>2, <2>1 DEF MetricRow, Times
  <2>3. known \in SUBSET (0..MaxRows) /\ known \in SUBSET (1..MaxRows) /\ known # {}
    BY <1>2, <2>1, MetricRollupsAssumption DEF MetricRow
  <2>4. Max(stamps) \in stamps /\ \A y \in stamps : y <= Max(stamps)
    BY <2>2, MaxOfBounded, MetricRollupsAssumption
  <2>5. Max(known) \in known
    BY <2>3, MaxOfBounded, MetricRollupsAssumption
  <2>6. RecomputeLatest(rows, n) = [timestamp |-> Max(stamps), id |-> Max(known)]
    BY <1>2 DEF RecomputeLatest
  <2>7. RecomputeLatest(rows, n) \in Latest
    BY <2>2, <2>3, <2>4, <2>5, <2>6 DEF Latest, Times
  <2>8. \E r \in RowsOf(rows, n) : r.id = RecomputeLatest(rows, n).id
    BY <2>5, <2>6
  <2>9. \A r \in RowsOf(rows, n) : r.timestamp <= RecomputeLatest(rows, n).timestamp
    BY <2>4, <2>6
  <2> QED BY <1>2, <2>7, <2>8, <2>9
<1> QED BY <1>1, <1>2

\* NoRow is no row of metric_latest.
LEMMA NoRowIsNoLatest == NoRow \notin Latest
<1>1. ASSUME NEW l \in Latest PROVE l \in [timestamp : Int, id : Int]
  BY MetricRollupsAssumption DEF Latest, Times
<1> QED BY <1>1, MetricRollupsAssumption

\* The key of a counted datapoint is a key of the tool rollup.
LEMMA ToolKeyType ==
    ASSUME NEW r \in MetricRow, r.tool # NoTool
    PROVE  ToolKey(r) \in Days \X Tools
BY DEF MetricRow, ToolKey, Days

\* Both tool triggers keep the type of the rollup.
LEMMA ToolTriggerTypes ==
    ASSUME NEW r \in MetricRow, NEW table \in [Days \X Tools -> Nat \cup {NoRow}]
    PROVE  /\ DailyToolInsert(table, r) \in [Days \X Tools -> Nat \cup {NoRow}]
           /\ DailyToolDelete(table, r) \in [Days \X Tools -> Nat \cup {NoRow}]
<1>1. CASE r.tool = NoTool
  BY <1>1 DEF DailyToolInsert, DailyToolDelete
<1>2. CASE r.tool # NoTool
  BY <1>2, ToolKeyType DEF DailyToolInsert, DailyToolDelete
<1> QED BY <1>1, <1>2

-----------------------------------------------------------------------------
\* The rows of an upgraded database.
LEMMA HistoryRows ==
    ASSUME NEW n \in 0..MaxHistory, NEW left \in SUBSET (1..n),
           NEW h \in [left -> Datapoint]
    PROVE  /\ RowsFrom(h) \in SUBSET MetricRow
           /\ IsFiniteSet(RowsFrom(h))
           /\ \A r \in RowsFrom(h) : r.id < n + 1
<1> DEFINE row(i) == [id |-> i, name |-> h[i].name, timestamp |-> h[i].timestamp,
                      tool |-> h[i].tool]
           f == [i \in left |-> row(i)]
<1>1. \A i \in left : h[i] \in Datapoint /\ i \in 1..n /\ i \in 1..MaxRows
  BY MetricRollupsAssumption
<1>2. \A i \in left : row(i) \in MetricRow
  BY <1>1 DEF Datapoint, MetricRow
<1>3. RowsFrom(h) = {row(i) : i \in left}
  BY DEF RowsFrom
<1>4. IsFiniteSet(left)
  <2>1. IsFiniteSet(1..n)
    BY FS_Interval
  <2> QED BY <2>1, FS_Subset
<1>5. f \in Surjection(left, RowsFrom(h))
  BY <1>3 DEF Surjection
<1>6. IsFiniteSet(RowsFrom(h))
  BY <1>4, <1>5, FS_Surjection
<1> QED BY <1>1, <1>2, <1>3, <1>6

\* The backfills of an upgrade leave well-typed tables.
LEMMA UpgradedTypes ==
    ASSUME NEW rows \in SUBSET MetricRow, IsFiniteSet(rows), NEW n \in 0..MaxHistory,
           \A r \in rows : r.id < n + 1, Upgraded(rows, n)
    PROVE  TypeOK /\ IdsIssued
<1>1. metric_latest \in [Names -> Latest \cup {NoRow}]
  BY RecomputeLatestCovers DEF Upgraded, BackfillMetricLatest
<1>2. ASSUME NEW key \in Days \X Tools
      PROVE  BackfillDailyTool(rows)[key] \in Nat \cup {NoRow}
  <2>1. ToolRowsOf(rows, key) \in SUBSET rows
    BY DEF ToolRowsOf
  <2>2. IsFiniteSet(ToolRowsOf(rows, key))
    BY <2>1, FS_Subset
  <2>3. Cardinality(ToolRowsOf(rows, key)) \in Nat
    BY <2>2, FS_CardinalityType
  <2> QED BY <2>3 DEF BackfillDailyTool
<1>3. metrics_daily_tool \in [Days \X Tools -> Nat \cup {NoRow}]
  BY <1>2 DEF Upgraded, BackfillDailyTool
<1> QED BY <1>1, <1>3, MetricRollupsAssumption DEF Upgraded, TypeOK, IdsIssued

\* Every state an upgrade starts from.
LEMMA InitUpgradedTypes == InitUpgraded => TypeOK /\ IdsIssued
<1> SUFFICES ASSUME NEW n \in 0..MaxHistory, NEW left \in SUBSET (1..n),
                    NEW h \in [left -> Datapoint], Upgraded(RowsFrom(h), n)
             PROVE  TypeOK /\ IdsIssued
  BY DEF InitUpgraded
<1> QED BY HistoryRows, UpgradedTypes

-----------------------------------------------------------------------------
\* The tables keep their types (TypeOK), ids are never issued twice.
LEMMA TypesStep == TypeOK /\ IdsIssued /\ [Next]_vars => (TypeOK /\ IdsIssued)'
<1> SUFFICES ASSUME TypeOK, IdsIssued, [Next]_vars PROVE (TypeOK /\ IdsIssued)'
  OBVIOUS
<1>1. ASSUME NEW n \in Names, NEW t \in Times, NEW tool \in Tools \cup {NoTool},
             InsertMetric(n, t, tool)
      PROVE  (TypeOK /\ IdsIssued)'
  <2> DEFINE r == [id |-> next_id, name |-> n, timestamp |-> t, tool |-> tool]
  <2>1. next_id \in 1..MaxRows /\ r \in MetricRow /\ r.name = n
    BY <1>1, MetricRollupsAssumption DEF InsertMetric, TypeOK, MetricRow
  <2>2. metrics' = metrics \cup {r} /\ next_id' = next_id + 1
    BY <1>1 DEF InsertMetric
  <2>3. MergeLatest(metric_latest[n], [timestamp |-> t, id |-> next_id]) \in Latest \cup {NoRow}
    BY <2>1 DEF MergeLatest, TypeOK, Latest
  <2>4. metric_latest' \in [Names -> Latest \cup {NoRow}]
    BY <1>1, <2>3 DEF InsertMetric, TypeOK, MetricLatestInsert
  <2>5. metrics_daily_tool' \in [Days \X Tools -> Nat \cup {NoRow}]
    BY <1>1, <2>1, ToolTriggerTypes DEF InsertMetric, TypeOK
  <2>6. TypeOK'
    BY <1>1, <2>1, <2>2, <2>4, <2>5, MetricRollupsAssumption DEF InsertMetric, TypeOK
  <2>7. IsFiniteSet(metrics \cup {r})
    BY FS_AddElement DEF IdsIssued
  <2>8. \A s \in metrics : s.id \in Int
    BY DEF TypeOK, MetricRow
  <2> QED BY <2>1, <2>2, <2>6, <2>7, <2>8 DEF IdsIssued
<1>2. ASSUME NEW cutoff \in 1..(MaxTime + 1), StartPurge(cutoff)
      PROVE  (TypeOK /\ IdsIssued)'
  BY <1>2, MetricRollupsAssumption DEF StartPurge, TypeOK, IdsIssued
<1>3. ASSUME NEW r \in metrics, DeleteMetric(r) PROVE (TypeOK /\ IdsIssued)'
  <2>1. r \in MetricRow /\ metrics \ {r} \in SUBSET MetricRow /\ r.name \in Names
    BY DEF TypeOK, MetricRow
  <2>2. RecomputeLatest(metrics \ {r}, r.name) \in Latest \cup {NoRow}
    BY <2>1, RecomputeLatestCovers
  <2>3. metric_latest' \in [Names -> Latest \cup {NoRow}]
    BY <1>3, <2>2 DEF DeleteMetric, TypeOK, MetricLatestDelete
  <2>4. metrics_daily_tool' \in [Days \X Tools -> Nat \cup {NoRow}]
    BY <1>3, <2>1, ToolTriggerTypes DEF DeleteMetric, TypeOK
  <2>5. IsFiniteSet(metrics \ {r})
    BY FS_RemoveElement DEF IdsIssued
  <2> QED BY <1>3, <2>1, <2>3, <2>4, <2>5 DEF DeleteMetric, TypeOK, IdsIssued
<1>4. CASE EndPurge
  BY <1>4, MetricRollupsAssumption DEF EndPurge, TypeOK, IdsIssued
<1>5. CASE UNCHANGED vars
  BY <1>5 DEF vars, TypeOK, IdsIssued
<1> QED BY <1>1, <1>2, <1>3, <1>4, <1>5 DEF Next

\* The types of an upgraded database (TypeOK) hold ever after.
THEOREM TypeCorrect == SpecUpgraded => [](TypeOK /\ IdsIssued)
BY InitUpgradedTypes, TypesStep, PTL DEF SpecUpgraded

-----------------------------------------------------------------------------
\* What MetricLatestCovers says of one name.
Covers(table, rows, n) ==
    IF RowsOf(rows, n) = {} THEN table[n] = NoRow
    ELSE /\ table[n] # NoRow
         /\ \E r \in RowsOf(rows, n) : r.id = table[n].id
         /\ \A r \in RowsOf(rows, n) : r.timestamp <= table[n].timestamp

\* An insert merges its datapoint under its name and keeps the cover.
LEMMA CoversInsert ==
    ASSUME TypeOK, IdsIssued, NEW n \in Names, Covers(metric_latest, metrics, n),
           NEW m \in Names, NEW t \in Times, NEW tool \in Tools \cup {NoTool},
           InsertMetric(m, t, tool)
    PROVE  Covers(metric_latest', metrics', n)
<1> DEFINE r == [id |-> next_id, name |-> m, timestamp |-> t, tool |-> tool]
<1>1. /\ r \in MetricRow /\ r.name = m /\ r.timestamp = t /\ r.id = next_id
      /\ t \in Int /\ metrics' = metrics \cup {r}
  BY MetricRollupsAssumption DEF InsertMetric, TypeOK, MetricRow, Times
<1>2. metric_latest' = MetricLatestInsert(metric_latest, r)
  BY DEF InsertMetric
<1> HIDE DEF r
<1>3. CASE m # n
  <2>1. RowsOf(metrics', n) = RowsOf(metrics, n) /\ metric_latest'[n] = metric_latest[n]
    BY <1>1, <1>2, <1>3 DEF RowsOf, TypeOK, MetricLatestInsert
  <2> QED BY <2>1 DEF Covers
<1>4. CASE m = n
  <2> DEFINE new == [timestamp |-> t, id |-> next_id]
  <2>1. RowsOf(metrics', n) = RowsOf(metrics, n) \cup {r}
    BY <1>1, <1>4 DEF RowsOf
  <2>2. metric_latest'[n] = MergeLatest(metric_latest[n], new)
    BY <1>1, <1>2, <1>4 DEF TypeOK, MetricLatestInsert
  <2>3. new.timestamp = t /\ new.id = next_id /\ new # NoRow
    <3>1. new \in [timestamp : Int, id : Int]
      BY <1>1 DEF TypeOK
    <3> QED BY <3>1, MetricRollupsAssumption
  <2>4. \A s \in RowsOf(metrics, n) : s.timestamp \in Int
    BY DEF RowsOf, TypeOK, MetricRow, Times
  <2> HIDE DEF new
  <2>5. CASE RowsOf(metrics, n) = {}
    <3>1. metric_latest'[n] = new
      BY <2>2, <2>5 DEF Covers, MergeLatest
    <3> QED BY <1>1, <2>1, <2>3, <2>5, <3>1 DEF Covers
  <2>6. CASE RowsOf(metrics, n) # {}
    <3> DEFINE old == metric_latest[n]
    <3>1. /\ old # NoRow
          /\ \E s \in RowsOf(metrics, n) : s.id = old.id
          /\ \A s \in RowsOf(metrics, n) : s.timestamp <= old.timestamp
      BY <2>6 DEF Covers
    <3>2. old.timestamp \in Int
      BY <3>1 DEF TypeOK, Latest, Times
    <3> HIDE DEF old
    <3>3. CASE t > old.timestamp
      <4>1. metric_latest'[n] = new
        BY <2>2, <2>3, <3>3 DEF MergeLatest, old
      <4>2. \A s \in RowsOf(metrics', n) : s.timestamp <= t
        BY <1>1, <2>1, <2>4, <3>1, <3>2, <3>3
      <4> QED BY <1>1, <2>1, <2>3, <4>1, <4>2 DEF Covers
    <3>4. CASE ~(t > old.timestamp)
      <4>1. metric_latest'[n] = old
        BY <2>2, <2>3, <3>1, <3>4 DEF MergeLatest, old
      <4>2. \A s \in RowsOf(metrics', n) : s.timestamp <= old.timestamp
        BY <1>1, <2>1, <3>1, <3>2, <3>4
      <4> QED BY <2>1, <3>1, <4>1, <4>2 DEF Covers
    <3> QED BY <3>3, <3>4
  <2> QED BY <2>5, <2>6
<1> QED BY <1>3, <1>4

\* A delete keeps the cover: if the stored id goes, the entry is recomputed; if
\* it stays, the row that carries it stays, and fewer rows are no newer.
LEMMA CoversDelete ==
    ASSUME TypeOK, NEW n \in Names, Covers(metric_latest, metrics, n),
           NEW r \in metrics, DeleteMetric(r)
    PROVE  Covers(metric_latest', metrics', n)
<1>1. /\ r.name \in Names /\ metrics' = metrics \ {r}
      /\ metrics \ {r} \in SUBSET MetricRow
      /\ metric_latest' = MetricLatestDelete(metric_latest, metrics \ {r}, r)
  BY DEF DeleteMetric, TypeOK, MetricRow
<1>2. RowsOf(metrics', n) = RowsOf(metrics, n) \ {r}
  BY <1>1 DEF RowsOf
<1>3. CASE r.name = n /\ metric_latest[n] # NoRow /\ metric_latest[n].id = r.id
  <2>1. metric_latest'[n] = RecomputeLatest(metrics \ {r}, n)
    BY <1>1, <1>3 DEF TypeOK, MetricLatestDelete
  <2> QED BY <1>1, <2>1, RecomputeLatestCovers, NoRowIsNoLatest DEF Covers
<1>4. CASE ~(r.name = n /\ metric_latest[n] # NoRow /\ metric_latest[n].id = r.id)
  <2>1. metric_latest'[n] = metric_latest[n]
    BY <1>1, <1>4 DEF TypeOK, MetricLatestDelete
  <2>2. r \in RowsOf(metrics, n) => r.name = n
    BY DEF RowsOf
  <2> QED BY <1>2, <1>4, <2>1, <2>2 DEF Covers
<1> QED BY <1>3, <1>4

\* metric_latest covers the metrics table (MetricLatestCovers): no name is lost
\* or invented, the stored id is that of a stored datapoint, and no datapoint is
\* newer, whatever a database was upgraded from, inserted or purged.
THEOREM LatestCovers == SpecUpgraded => []MetricLatestCovers
<1>1. MetricLatestCovers <=> \A n \in Names : Covers(metric_latest, metrics, n)
  BY DEF MetricLatestCovers, Covers
<1>2. InitUpgraded => MetricLatestCovers
  <2> SUFFICES ASSUME NEW k \in 0..MaxHistory, NEW left \in SUBSET (1..k),
                      NEW h \in [left -> Datapoint], Upgraded(RowsFrom(h), k),
                      NEW n \in Names
               PROVE  Covers(metric_latest, metrics, n)
    BY <1>1 DEF InitUpgraded
  <2>1. metrics \in SUBSET MetricRow
    BY HistoryRows DEF Upgraded
  <2>2. metric_latest[n] = RecomputeLatest(metrics, n)
    BY DEF Upgraded, BackfillMetricLatest
  <2> QED BY <2>1, <2>2, RecomputeLatestCovers, NoRowIsNoLatest DEF Covers
<1>3. TypeOK /\ IdsIssued /\ MetricLatestCovers /\ [Next]_vars => MetricLatestCovers'
  <2> SUFFICES ASSUME TypeOK, IdsIssued, MetricLatestCovers, [Next]_vars,
                      NEW n \in Names
               PROVE  Covers(metric_latest', metrics', n)
    BY DEF MetricLatestCovers, Covers, RowsOf
  <2>1. Covers(metric_latest, metrics, n)
    BY <1>1
  <2>2. ASSUME NEW r \in metrics, DeleteMetric(r) PROVE Covers(metric_latest', metrics', n)
    BY <2>1, <2>2, CoversDelete
  <2>3. ASSUME NEW m \in Names, NEW t \in Times, NEW tool \in Tools \cup {NoTool},
               InsertMetric(m, t, tool)
        PROVE  Covers(metric_latest', metrics', n)
    BY <2>1, <2>3, CoversInsert
  <2>4. ASSUME UNCHANGED <<metrics, metric_latest>>
        PROVE  Covers(metric_latest', metrics', n)
    BY <2>1, <2>4
  <2> QED BY <2>2, <2>3, <2>4 DEF Next, vars, StartPurge, EndPurge
<1> QED BY <1>2, <1>3, TypeCorrect, PTL DEF SpecUpgraded

\* The fast path of the all-time metric list never serves a superseded
\* datapoint (FastPathNeverStale): an entry of metric_latest is no older than
\* any datapoint of its name.
THEOREM FastPathFresh == SpecUpgraded => []FastPathNeverStale
<1>1. TypeOK /\ MetricLatestCovers => FastPathNeverStale
  <2> SUFFICES ASSUME TypeOK, MetricLatestCovers,
                      NEW m \in metrics, metric_latest[m.name] # NoRow,
                      metric_latest[m.name].timestamp = m.timestamp,
                      NEW r \in RowsOf(metrics, m.name)
               PROVE  r.timestamp <= m.timestamp
    BY DEF FastPathNeverStale, LatestMetricsFast, LatestMetricsGroupBy
  <2>1. m.name \in Names
    BY DEF TypeOK, MetricRow
  <2> QED BY <2>1 DEF MetricLatestCovers
<1> QED BY <1>1, LatestCovers, TypeCorrect, PTL

-----------------------------------------------------------------------------
\* What DailyToolIsCount says of one key.
Counted(table, rows, key) ==
    table[key] = IF ToolRowsOf(rows, key) = {} THEN NoRow
                 ELSE Cardinality(ToolRowsOf(rows, key))

\* A new tool datapoint is counted under its key and no other.
LEMMA CountedInsert ==
    ASSUME NEW rows \in SUBSET MetricRow, IsFiniteSet(rows),
           NEW table \in [Days \X Tools -> Nat \cup {NoRow}],
           NEW key \in Days \X Tools, Counted(table, rows, key),
           NEW r \in MetricRow, r \notin rows
    PROVE  Counted(DailyToolInsert(table, r), rows \cup {r}, key)
<1>1. CASE r.tool = NoTool \/ ToolKey(r) # key
  <2>1. ToolRowsOf(rows \cup {r}, key) = ToolRowsOf(rows, key)
    BY <1>1 DEF ToolRowsOf
  <2>2. DailyToolInsert(table, r)[key] = table[key]
    BY <1>1, ToolKeyType DEF DailyToolInsert
  <2> QED BY <2>1, <2>2 DEF Counted
<1>2. CASE r.tool # NoTool /\ ToolKey(r) = key
  <2> DEFINE counted == ToolRowsOf(rows, key)
  <2>1. ToolRowsOf(rows \cup {r}, key) = counted \cup {r} /\ r \notin counted
    BY <1>2 DEF ToolRowsOf
  <2>2. IsFiniteSet(counted)
    <3>1. counted \in SUBSET rows
      BY DEF ToolRowsOf
    <3> QED BY <3>1, FS_Subset
  <2>3. DailyToolInsert(table, r)[key] = IF table[key] = NoRow THEN 1 ELSE table[key] + 1
    BY <1>2 DEF DailyToolInsert
  <2>4. table[key] = IF counted = {} THEN NoRow ELSE Cardinality(counted)
    BY DEF Counted
  <2> HIDE DEF counted
  <2>5. /\ Cardinality(counted \cup {r}) = Cardinality(counted) + 1
        /\ Cardinality(counted) \in Nat
        /\ counted = {} => Cardinality(counted) = 0
    BY <2>1, <2>2, FS_AddElement, FS_CardinalityType, FS_EmptySet
  <2>6. DailyToolInsert(table, r)[key] = Cardinality(counted \cup {r})
    BY <2>3, <2>4, <2>5, MetricRollupsAssumption
  <2> QED BY <2>1, <2>6 DEF Counted
<1> QED BY <1>1, <1>2

\* A deleted tool datapoint leaves the count of its key, and the last one takes
\* the row with it.
LEMMA CountedDelete ==
    ASSUME NEW rows \in SUBSET MetricRow, IsFiniteSet(rows),
           NEW table \in [Days \X Tools -> Nat \cup {NoRow}],
           NEW key \in Days \X Tools, Counted(table, rows, key),
           NEW r \in rows
    PROVE  Counted(DailyToolDelete(table, r), rows \ {r}, key)
<1>1. CASE r.tool = NoTool \/ ToolKey(r) # key
  <2>1. ToolRowsOf(rows \ {r}, key) = ToolRowsOf(rows, key)
    BY <1>1 DEF ToolRowsOf
  <2>2. DailyToolDelete(table, r)[key] = table[key]
    BY <1>1, ToolKeyType DEF DailyToolDelete
  <2> QED BY <2>1, <2>2 DEF Counted
<1>2. CASE r.tool # NoTool /\ ToolKey(r) = key
  <2> DEFINE counted == ToolRowsOf(rows, key)
  <2>1. ToolRowsOf(rows \ {r}, key) = counted \ {r} /\ r \in counted
    BY <1>2 DEF ToolRowsOf
  <2>2. IsFiniteSet(counted)
    <3>1. counted \in SUBSET rows
      BY DEF ToolRowsOf
    <3> QED BY <3>1, FS_Subset
  <2>3. table[key] = Cardinality(counted)
    BY <2>1 DEF Counted
  <2>4. /\ Cardinality(counted \ {r}) = Cardinality(counted) - 1
        /\ IsFiniteSet(counted \ {r})
    BY <2>1, <2>2, FS_RemoveElement
  <2>5. /\ Cardinality(counted) \in Nat /\ Cardinality(counted \ {r}) \in Nat
        /\ Cardinality(counted \ {r}) = 0 <=> counted \ {r} = {}
    BY <2>2, <2>4, FS_CardinalityType, FS_EmptySet
  <2>6. DailyToolDelete(table, r)[key] =
            IF table[key] - 1 <= 0 THEN NoRow ELSE table[key] - 1
    BY <1>2, <2>3, <2>5, MetricRollupsAssumption DEF DailyToolDelete
  <2>7. DailyToolDelete(table, r)[key] =
            IF counted \ {r} = {} THEN NoRow ELSE Cardinality(counted \ {r})
    BY <2>3, <2>4, <2>5, <2>6
  <2> QED BY <2>1, <2>7 DEF Counted
<1> QED BY <1>1, <1>2

\* The tool rollup is the number of stored datapoints per day and tool
\* (DailyToolIsCount): decrements never undershoot, and a row goes exactly with
\* its last datapoint.
THEOREM ToolRollupExact == SpecUpgraded => []DailyToolIsCount
<1>1. DailyToolIsCount <=> \A key \in Days \X Tools : Counted(metrics_daily_tool, metrics, key)
  BY DEF DailyToolIsCount, Counted
<1>2. InitUpgraded => DailyToolIsCount
  BY <1>1 DEF InitUpgraded, Upgraded, BackfillDailyTool, Counted
<1>3. TypeOK /\ IdsIssued /\ DailyToolIsCount /\ [Next]_vars => DailyToolIsCount'
  <2> SUFFICES ASSUME TypeOK, IdsIssued, DailyToolIsCount, [Next]_vars,
                      NEW key \in Days \X Tools
               PROVE  Counted(metrics_daily_tool', metrics', key)
    BY DEF DailyToolIsCount, Counted, ToolRowsOf
  <2>1. Counted(metrics_daily_tool, metrics, key)
    BY <1>1
  <2>2. /\ metrics \in SUBSET MetricRow /\ IsFiniteSet(metrics)
        /\ metrics_daily_tool \in [Days \X Tools -> Nat \cup {NoRow}]
    BY DEF TypeOK, IdsIssued
  <2>3. ASSUME NEW n \in Names, NEW t \in Times, NEW tool \in Tools \cup {NoTool},
               InsertMetric(n, t, tool)
        PROVE  Counted(metrics_daily_tool', metrics', key)
    <3> DEFINE r == [id |-> next_id, name |-> n, timestamp |-> t, tool |-> tool]
    <3>1. r \in MetricRow /\ r.id = next_id
      BY <2>3, MetricRollupsAssumption DEF InsertMetric, TypeOK, MetricRow
    <3>2. r \notin metrics
      BY <3>1 DEF IdsIssued, TypeOK
    <3>3. metrics' = metrics \cup {r} /\ metrics_daily_tool' = DailyToolInsert(metrics_daily_tool, r)
      BY <2>3 DEF InsertMetric
    <3> HIDE DEF r
    <3> QED BY <2>1, <2>2, <3>1, <3>2, <3>3, CountedInsert
  <2>4. ASSUME NEW r \in metrics, DeleteMetric(r)
        PROVE  Counted(metrics_daily_tool', metrics', key)
    BY <2>1, <2>2, <2>4, CountedDelete DEF DeleteMetric
  <2>5. ASSUME UNCHANGED <<metrics, metrics_daily_tool>>
        PROVE  Counted(metrics_daily_tool', metrics', key)
    BY <2>1, <2>5
  <2> QED BY <2>3, <2>4, <2>5 DEF Next, vars, StartPurge, EndPurge
<1> QED BY <1>2, <1>3, TypeCorrect, PTL DEF SpecUpgraded
=============================================================================
