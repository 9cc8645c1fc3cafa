---------------------------- MODULE MetricRollups ----------------------------
(***************************************************************************)
(* The metrics table of otelite-storage and the two tables SQLite triggers *)
(* keep beside it: metric_latest (timestamp and id of the latest row per   *)
(* metric name) and metrics_daily_tool (datapoints per day and tool).      *)
(*                                                                         *)
(* As in SpanRollups a step is one row event inside the writer's           *)
(* transaction.  The metrics table is append-only: a retried datapoint is  *)
(* one more row.                                                           *)
(***************************************************************************)
EXTENDS Integers, FiniteSets, FiniteSetsExt

CONSTANTS
    Names,       \* metric names
    Tools,       \* the three instrumentation scopes the tool rollup counts
    NoTool,      \* any other scope
    MaxTime,     \* timestamps are 0..MaxTime
    DayLength,   \* time units per calendar day
    MaxRows,     \* bound: rows ever inserted, history included
    MaxHistory,  \* bound: rows a database upgraded from a pre-v3 build holds
    NoRow        \* the table holds no row under this key

Times == 0..MaxTime

ASSUME MetricRollupsAssumption ==
    /\ MaxTime \in Nat
    /\ DayLength \in Nat \ {0}
    /\ MaxRows \in Nat
    /\ MaxHistory \in 0..MaxRows
    /\ NoTool \notin Tools
    /\ NoRow \notin Int
    /\ NoRow \notin [timestamp : Int, id : Int]

MetricRow == [id : 1..MaxRows, name : Names, timestamp : Times, tool : Tools \cup {NoTool}]

Latest == [timestamp : Times, id : 1..MaxRows]

Day(t) == t \div DayLength
Days   == {Day(t) : t \in Times}

VARIABLES
    metrics,             \* the metrics table: a set of rows
    next_id,             \* AUTOINCREMENT: ids grow and are never reused
    metric_latest,       \* name -> [timestamp, id], or NoRow
    metrics_daily_tool,  \* <<day, tool>> -> datapoints, or NoRow
    purge_cutoff         \* rows older than this are being purged; 0: no purge runs

vars == <<metrics, next_id, metric_latest, metrics_daily_tool, purge_cutoff>>

-----------------------------------------------------------------------------
\* The trigger bodies, as functions of the table they write.

RowsOf(rows, n) == {r \in rows : r.name = n}

\* SELECT name, MAX(timestamp), MAX(id) ... HAVING MAX(timestamp) IS NOT NULL:
\* the two maxima are taken independently of each other.
RecomputeLatest(rows, n) ==
    IF RowsOf(rows, n) = {} THEN NoRow
    ELSE [timestamp |-> Max({r.timestamp : r \in RowsOf(rows, n)}),
          id        |-> Max({r.id : r \in RowsOf(rows, n)})]

\* Mutant: the last arrival wins, whatever its timestamp.
LastArrivalWins(old, excluded) == excluded

\* INSERT INTO metric_latest ... ON CONFLICT(name) DO UPDATE, as the insert
\* trigger and the v3 backfill share it: a later timestamp brings its id along,
\* anything else leaves the stored id.
MergeLatest(old, excluded) ==
    IF old = NoRow \/ excluded.timestamp > old.timestamp THEN excluded ELSE old

\* trg_metric_latest_ai
MetricLatestInsert(table, r) ==
    [table EXCEPT ![r.name] = MergeLatest(@, [timestamp |-> r.timestamp, id |-> r.id])]

\* trg_metric_latest_ad: fires only when the deleted row carries the stored id.
MetricLatestDelete(table, rest, r) ==
    IF table[r.name] # NoRow /\ table[r.name].id = r.id
    THEN [table EXCEPT ![r.name] = RecomputeLatest(rest, r.name)]
    ELSE table

ToolKey(r) == <<Day(r.timestamp), r.tool>>

\* trg_metrics_daily_tool_ai
DailyToolInsert(table, r) ==
    IF r.tool = NoTool THEN table
    ELSE [table EXCEPT ![ToolKey(r)] = IF @ = NoRow THEN 1 ELSE @ + 1]

\* Mutant: a row with no datapoints is left behind.
DailyToolDeleteKeepsZero(table, r) ==
    IF r.tool = NoTool \/ table[ToolKey(r)] = NoRow THEN table
    ELSE [table EXCEPT ![ToolKey(r)] = IF @ - 1 < 0 THEN NoRow ELSE @ - 1]

\* trg_metrics_daily_tool_ad: decrement, then drop rows with no datapoints.
DailyToolDelete(table, r) ==
    IF r.tool = NoTool \/ table[ToolKey(r)] = NoRow THEN table
    ELSE [table EXCEPT ![ToolKey(r)] = IF @ - 1 <= 0 THEN NoRow ELSE @ - 1]

-----------------------------------------------------------------------------
\* What the migrations compute from the metrics table alone.

\* v3, on an empty metric_latest.
BackfillMetricLatest(rows) == [n \in Names |-> RecomputeLatest(rows, n)]

ToolRowsOf(rows, key) == {r \in rows : r.tool # NoTool /\ ToolKey(r) = key}

\* v4
BackfillDailyTool(rows) ==
    [key \in Days \X Tools |->
        IF ToolRowsOf(rows, key) = {} THEN NoRow ELSE Cardinality(ToolRowsOf(rows, key))]

-----------------------------------------------------------------------------
\* query_latest_metrics: the fast path joins metric_latest on name and
\* timestamp, the windowed path groups the metrics rows themselves.

LatestMetricsFast ==
    {m \in metrics : metric_latest[m.name] # NoRow
                        /\ metric_latest[m.name].timestamp = m.timestamp}

LatestMetricsGroupBy ==
    {m \in metrics : \A r \in RowsOf(metrics, m.name) : r.timestamp <= m.timestamp}

-----------------------------------------------------------------------------
\* A fresh database, or one upgraded from a build that predates the rollups:
\* any rows left of a history of MaxHistory datapoints, and the tables as the v3
\* and v4 backfills leave them.
Datapoint == [name : Names, timestamp : Times, tool : Tools \cup {NoTool}]

RowsFrom(h) ==
    {[id |-> i, name |-> h[i].name, timestamp |-> h[i].timestamp, tool |-> h[i].tool]
        : i \in DOMAIN h}

Upgraded(rows, n) ==
    /\ metrics = rows
    /\ next_id = n + 1
    /\ metric_latest = BackfillMetricLatest(rows)
    /\ metrics_daily_tool = BackfillDailyTool(rows)
    /\ purge_cutoff = 0

Init == Upgraded({}, 0)

InitUpgraded ==
    \E n \in 0..MaxHistory : \E left \in SUBSET (1..n) : \E h \in [left -> Datapoint] :
        Upgraded(RowsFrom(h), n)

\* write_metric: always a new row, with the next id; fires both insert triggers.
InsertMetric(n, t, tool) ==
    LET r == [id |-> next_id, name |-> n, timestamp |-> t, tool |-> tool]
    IN  /\ next_id <= MaxRows
        /\ metrics' = metrics \cup {r}
        /\ next_id' = next_id + 1
        /\ metric_latest' = MetricLatestInsert(metric_latest, r)
        /\ metrics_daily_tool' = DailyToolInsert(metrics_daily_tool, r)
        /\ UNCHANGED purge_cutoff

\* purge_table("metrics", cutoff); purge_all is the cutoff above every timestamp.
StartPurge(cutoff) ==
    /\ purge_cutoff = 0
    /\ purge_cutoff' = cutoff
    /\ UNCHANGED <<metrics, next_id, metric_latest, metrics_daily_tool>>

\* One row of a DELETE batch: LIMIT without ORDER BY, any row under the cutoff.
DeleteMetric(r) ==
    /\ r.timestamp < purge_cutoff
    /\ metrics' = metrics \ {r}
    /\ metric_latest' = MetricLatestDelete(metric_latest, metrics \ {r}, r)
    /\ metrics_daily_tool' = DailyToolDelete(metrics_daily_tool, r)
    /\ UNCHANGED <<next_id, purge_cutoff>>

\* The batch loop ends: nothing is left under the cutoff, or a batch failed.
EndPurge ==
    /\ purge_cutoff # 0
    /\ purge_cutoff' = 0
    /\ UNCHANGED <<metrics, next_id, metric_latest, metrics_daily_tool>>

Next ==
    \/ \E n \in Names, t \in Times, tool \in Tools \cup {NoTool} : InsertMetric(n, t, tool)
    \/ \E cutoff \in 1..(MaxTime + 1) : StartPurge(cutoff)
    \/ \E r \in metrics : DeleteMetric(r)
    \/ EndPurge

Spec         == Init /\ [][Next]_vars
SpecUpgraded == InitUpgraded /\ [][Next]_vars

-----------------------------------------------------------------------------
\* Types of the tables.
TypeOK ==
    /\ metrics \subseteq MetricRow
    /\ next_id \in 1..(MaxRows + 1)
    /\ metric_latest \in [Names -> Latest \cup {NoRow}]
    /\ metrics_daily_tool \in [Days \X Tools -> Nat \cup {NoRow}]
    /\ purge_cutoff \in 0..(MaxTime + 1)

\* metric_latest never loses or invents a name and never points below the
\* newest datapoint: it has a row exactly for the names that still have
\* datapoints, its id is the id of a stored datapoint of that name (so the next
\* delete that matters fires the trigger), and no datapoint is newer.
MetricLatestCovers ==
    \A n \in Names :
        IF RowsOf(metrics, n) = {} THEN metric_latest[n] = NoRow
        ELSE /\ metric_latest[n] # NoRow
             /\ \E r \in RowsOf(metrics, n) : r.id = metric_latest[n].id
             /\ \A r \in RowsOf(metrics, n) : r.timestamp <= metric_latest[n].timestamp

\* The all-time metric list never shows a superseded value: whatever the fast
\* path of query_latest_metrics returns, the GROUP BY path returns too.
FastPathNeverStale == LatestMetricsFast \subseteq LatestMetricsGroupBy

\* The tool rollup counts each stored tool datapoint once, and holds no row for
\* a day and tool without datapoints, after any partial purge.
DailyToolIsCount ==
    \A key \in Days \X Tools :
        metrics_daily_tool[key] =
            IF ToolRowsOf(metrics, key) = {} THEN NoRow
            ELSE Cardinality(ToolRowsOf(metrics, key))

\* "latest row per metric name ... Triggers keep it in sync" (schema.rs): the
\* stored pair is the timestamp and the id of one and the same datapoint, a
\* newest one of its name.
MetricLatestIsARow ==
    \A n \in Names : metric_latest[n] # NoRow =>
        \E r \in LatestMetricsGroupBy :
            r.name = n /\ r.timestamp = metric_latest[n].timestamp /\ r.id = metric_latest[n].id
=============================================================================
