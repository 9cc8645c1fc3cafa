# Verification of otelite

TLA+ models of [otelite](../src/README.md), a single-process collector and
dashboard for OpenTelemetry data: an OTLP receiver (gRPC and HTTP) writes logs,
spans and metrics into one SQLite database, and a dashboard, a terminal UI, a
command line and an MCP server read them back, most of it as reports on the use
of language models by coding agents.

TLC checks each module on small instances, and TLAPS proves the invariants
named under "Proofs" for every value of the constants. Paths in this file are
relative to `src/crates/`; `sqlite/` is `otelite-storage/src/sqlite/`.
PROJECT.json maps the definitions to the lines they model; a definition that only
names a part of another, or the inputs of a pure function, is mapped with it.

## The system

| Part | State | Operations | Interacts with | What makes it correct | Modules |
|---|---|---|---|---|---|
| Export write path (`sqlite/mod.rs`, `signals/*`, `grpc/*`, `http/*`) | the three tables, one writer connection behind a mutex, the maintenance flag | gate, spawn, begin, rows, commit, rollback, reply | exporters that retry; the blocking pool; ANALYZE | a batch is whole or absent; acknowledged means stored; refused means absent; spans are stored once | WritePath, BatchStore |
| Rollup tables (`sqlite/schema.rs`) | `trace_latest`, `spans_daily_llm`, `metric_latest`, `metrics_daily_tool` | insert and delete triggers, the v3 and v4 backfills | the writer and the purge fire the triggers, queries read only the rollup | a rollup equals the query it replaces, after late data, retries and partial purges | SpanRollups, MetricRollups |
| Trace list (`sqlite/reader.rs`) | none; several SELECTs, no read transaction | select ids, aggregate, name each root | the writer commits between its statements | what it reports belongs together | TraceList |
| Schema (`sqlite/schema.rs`) | user_version, triggers, the FTS index | DDL, FTS repair, v2 to v4 | every start, also of two processes, beside live writers | search and rollups survive a start cut off anywhere | Migration |
| Receiver servers and daemon (`otelite-receiver`, `otelite/src/main.rs`) | permits, ready flag, signals, the drain | start, admit, decode, write, answer, time out, shut down | exporters, SIGTERM, the blocking pool | bounded concurrency, ready only while serving, the daemon ends | Receiver |
| Write health (`otelite-receiver/src/health.rs`) | failure streak and degraded flag, two atomics | record success, record failure | all export handlers | the flag says what the streak says | Health |
| Read pool (`sqlite/pool.rs`) | idle connections, a capacity, a condvar | checkout, checkin with a probe, close_all | every query | one owner per connection, no leak, bounded | ReadPool |
| Purge and retention (`sqlite/purge.rs`, `mod.rs`) | purge lock, purge_history, the scheduler task | purge_all, nightly pass in batches | the lock's guard is in a future, the deletes on a thread | one purge at a time; the lock comes free; a pass deletes all it should | Purge |
| Planner statistics (`sqlite/stats.rs`, `mod.rs`) | the age of the statistics, the maintenance flag, what was logged | check every minute, ANALYZE, record | refuses writes while it runs | refreshed in time, once, and the flag comes off | PlannerStats, WritePath |
| Response cache (`otelite-api/src/cached.rs`, `cache.rs`) | LRU buckets, a map of requests in flight | hit, own, join, publish, evict, clear | purge_all clears it; clients disconnect | no waiter hangs, no entry is orphaned, stale answers only by overlap; size bounded | ResponseCache, LruCache, ExpiringMap |
| Service commands (`otelite/src/commands/service.rs`) | PID file, processes, the port | start, stop, restart, status | other commands, recycled PIDs | the right daemon is stopped, nobody else | Service |
| Terminal UI (`otelite-tui`) | views, selections, panels, details | keys, refreshes | the REST API | what is shown is what is selected | Tui |
| Counters (`sqlite/reader.rs`) | rows with running totals | window deltas, row-by-row deltas, rollups by agent, project, session | agents that restart, lose or delay reports | nothing counted twice; views over one number agree | Counters, CounterReports, ModelMix |
| Views over LLM calls, sessions, events (`reader.rs`, `otelite-core/src/telemetry`) | none | some ninety queries | retention | what several views show of one number agrees; parts sum to wholes | Usage, CallViews, SessionViews, SkillViews, EventViews, Assessment, CalendarDays |
| Prices (`otelite-core/src/pricing.rs`, `api/genai.rs`) | the price table | look-up, cost, savings | every cost report | parts cost together what the whole does | Pricing |
| Conversion (`otelite-receiver/src/conversion.rs`, `writer.rs`) | none | export to rows and back, metric endpoints | exporters | kept or answered as dropped | Conversion |
| Filters and queries (`otelite-core/src/filters.rs`, `query/*`) | none | filter bar, model patterns, structured queries | every endpoint | rows match the filter that is echoed | Filters |
| Endpoints, panels, client (`otelite-api/src/api/*`, `commands/usage.rs`, `otelite-client`) | none | requests to queries, shapes | storage | what is echoed is applied; panels ask what endpoints answer | Endpoints, Listing, Sessions, Evidence |

Concurrency: export handlers and dashboard handlers are tokio futures, which a
timeout or a disconnect drops at an await; SQLite work runs in
`spawn_blocking` tasks, which a dropped future leaves running. Most of the hard
behaviour comes from this difference: a guard, a permit or an answer belongs
to the future and the effect to the thread. The rest comes from statements
that commit one by one, from values read before an await, and from pairs of
atomics updated one after the other.

The reports are single SQL statements over committed rows. What is hard about
them is agreement: several dozen queries select "the same" calls with
conditions of their own, windows are half open in some and closed in others,
and a cumulative counter can be read by window or row by row.

## Modules

State machines, with the interleavings of the code:

- **SpanRollups** (`schema.rs` triggers, `writer.rs` span insert, `purge.rs`
  delete): `spans`, `trace_latest`, `spans_daily_llm` and the cutoff of a
  running purge. A step is one row event, which is when SQLite fires the
  triggers. Token columns are abstract, `NotLlm` is a span the LLM guard
  rejects. The v4 backfill is an operator.
- **MetricRollups**: the same for `metrics`, `metric_latest` and
  `metrics_daily_tool`. `SpecUpgraded` starts from any history a pre-v3
  database can hold; the two paths of `query_latest_metrics` are operators.
- **TraceList** composes with SpanRollups: the statements of
  `query_trace_summaries` interleave with the writer's row events.
- **Migration**: `initialize_schema` statement by statement, run by processes
  that start together, stop anywhere and start again, beside writers of this
  and of the previous build.
- **Receiver** composes with Health: two servers, permits, handlers from
  admission to the answer, timeouts and disconnects, the ready flag, the
  signal, the drain and the exit that waits for blocking tasks. **Health** has
  one atomic access per action.
- **ReadPool**: checkout, checkin and close_all run under the pool's mutex and
  are one action each; a query clones the handle first, so a close can come
  between.
- **WritePath** and **BatchStore**: one attempt is `Send`, the gate, the spawn,
  `Begin` (mutex and BEGIN), one action per row, commit and reply. `GiveUp` is
  the 30 s timeout or a disconnect: the handler is gone and the task stays.
  `RowFails` rolls back, also when ANALYZE holds the write lock for longer than
  the busy timeout. `Crash` loses the open transaction and every task.
  BatchStore is what an exporter can count on; `Store` maps the copies of a
  batch to those of its first row.
- **ResponseCache**: a request's `pc` follows `cache_handler`; entries in
  flight are named by their owner, which is what `Arc::ptr_eq` compares.
  `generation` counts committed purges, and an answer is the generation it was
  read from; `committed` and
  `confirmed` are history, the generation the handler's purge has committed and
  the one it has answered for. **LruCache** is the map with its access order, and implements
  **ExpiringMap**, a map that loses entries.
- **Purge**: a `future` holds the guard, a `task` does the deletes. One action
  is one committed transaction.
- **PlannerStats**: the loop of the statistics task, a tick a minute of its
  clock; the check, the decision, ANALYZE, its record, the message and their
  failures, beside ingest, purges and restarts.
- **Service**: commands that find the daemon by PID file or port, step by step,
  beside daemons that drain and die and processes that take over PIDs. A fatal
  signal only marks its process (`killed`), which ends, and frees the port, in a
  later step.
- **Tui**: one key, then one refresh, over lists that the refresh replaces. A
  filtered list is the set of places it leaves, a selection the number of rows
  above it; traces come back in any order at each refresh.
- **Counters**: what agents used, reported, lost and restarted, what is stored,
  and the queries over it as operators.
- **Usage**: the calls and the logs of replies as they are stored, and the views.

Pure functions. The input is a variable that `Init` chooses and nothing
changes, so that TLC enumerates every small input; the properties relate
several queries, or a query to a definition of its own:

- **CalendarDays** (days across a clock change; the monthly cost projection),
  **ModelMix** (provider mix, reasoning share, session costs, the
  largest-remainder split), **CallViews** (top lists, compositions,
  distributions, percentiles, buckets, outliers), **SessionViews** (depth,
  projects, cross-tab, active time, waits, rare tools, chains, switches),
  **CounterReports** (the reports over several counters), **SkillViews**,
  **Assessment** (model comparison), **Pricing**.
- **Conversion** (export to rows and back; aggregates, series, histograms),
  **Filters** (filter bar, model patterns, structured queries over the wire),
  **Listing** (logs and traces), **Endpoints** (handlers, panels, client),
  **Evidence** (capability report), **EventViews** (counts and durations),
  **Sessions**.

`*_proofs` hold the theorems of their module and of the modules it is composed
of (SpanRollups' are in TraceList_proofs, Health's in Receiver_proofs, those of
Counters and CalendarDays in Analytics_proofs;
Purges_proofs is about the parts of MCPurges, DashboardParts_proofs about
those of MCDashboardParts). MCDashboardParts, MCPurges, MCReceiver, MCAnalytics
and MCRequests put parts that share no state into one instance: the variable
`part` chooses which of them runs, so that their states add up and do not
multiply. MCAnalytics extends Counters and runs it within two bounds
(`OneSeries`, `TwoTicks`): one counter over more ticks, or agents, projects and
turns over two, the turns beside one marker at most. The other runs take their module as it is, `trace_list` with the bound
`Apart` on its steps (the queries read neither labels nor tokens) and the terminal
UI with `OneFiltered` (a filter of one view is not read by the other).

## Runs

Runs that pass. A property of several parts is a conjunction; the comments
above it in the MC module say what each conjunct means.

| Run | Instance | Shows |
|---|---|---|
| `trace_list` | 2 traces of 2 span ids, 3 times, days of 2, limits 0 to 2; labels and 2 token columns on at most 2 spans, apart from the queries (`Apart`) | trace_latest and token sums exact through every order of inserts, retries and partial purges; seek and walk agree in every window; only deletes disturb a running list |
| `migration` | the daemon and a command, 2 stops anywhere, 1 span, 2 logs | `SearchFollowsLogs`: stored logs are found, orphans only after a repair that was cut short; `MigratedOnce`: rollups count each row once and a process that is through has what it relies on; `EndsUpMigrated` |
| `receiver` | 2 gRPC handlers and 1 HTTP handler, 1 permit per service, threshold 3, 4 failures, 1 orphaned task | `ServersHold`: permits match handlers, ready means serving, a disk full in a statement degrades; the health flag differs from its streak only while updates overlap, and after it only until the next update that stores it alone; `ReceiverEnds`: gRPC exports and the signalled daemon end |
| `write_path` | a log and a span export of 2 rows, 2 attempts each, 1 crash | acknowledged batches stay; `FailuresLeaveNothing`: batches are whole and a refused attempt has no rows; every attempt ends, BatchStore is implemented |
| `purges` | cache: 3 requests for a key beside 1 purge, 2 beside 2; lock: 2 purge_all, 3 old rows, batches of 2; LRU: 4 keys, 2 values, size 2; statistics: days of 4 ticks with 1 of night, age of 4, 1 failure, 1 restart | ownership of entries, staleness only by overlap; the lock follows its guard and purges overlap only after a drop; `MaintenanceHolds`: a pass is complete, the maintenance flag ends with ANALYZE, ANALYZE runs once within its age, a deferral is logged once; the LRU is bounded, least recent first, and implements ExpiringMap; `WaitsAndPassesEnd`: waiters are released, passes end, a large database's statistics are refreshed by the next night |
| `dashboard_parts` | pool: 4 queries, 4 handles, capacity 2; TUI: 2 logs, 2 traces of 1 and 2 spans, filters in one view at a time (`OneFiltered`); service: 2 commands, 2 PIDs | one owner per connection, no leak; selections stay inside lists and panels; the PID file names the started daemon, and what is reported started is a daemon; a stop has seen its daemon's end or sent it SIGKILL, and signalled no stranger |
| `analytics` | one counter over 4 ticks with a restart, a late report and losses; agents, projects and turns over 2 ticks; every input of the pure functions up to the sizes in MCAnalytics | `CountersAgree`, `RollupsAgree`, `ViewsAgree`, `DaysTile`, `ProjectionsComplete`, `SumsKept` |
| `requests` | 2 metric names, 4 rows ever, 2 from before the upgrade; every input of the pure functions up to the sizes in MCRequests | the fast path never stale, the tool rollup exact; `ExportsAnswered`, `FiltersAgree`, `ListingsAgree` |

Why these bounds are enough to be interesting: two traces with two spans allow
a trace to lose its newest span and keep another. Four metric rows allow two
names with two out-of-order datapoints each. Three cache requests are an owner,
a waiter that evicts it and the fresh owner whose entry the evicted guard must
leave alone; keys do not interact, so one is enough, and requests that share
the key are alike, so they are named in the order they arrive (`InOrder`). A
third request beside a second purge is left out (`ThirdOrSecond`). Three old rows with
batches of two make a full and a short batch. Two attempts are a retry. Two
stops are one inside the repair and one inside the restart. Three handlers on
one permit are one at work, one queued at the same service and one at another.
A counter of four reports can rise, be late, restart and rise again inside a
window with neighbours on both sides. The pure functions need two rows to
disagree on one and three to be ordered; the sizes are the smallest at which
each property's mutant is found, and mostly one more. The invariants listed
under "Proofs" hold without bounds.

In the runs with CHECK_DEADLOCK FALSE a behaviour ends when the bounded
requests, attempts or restarts are used up, or when the input of a pure
function has been read; `trace_list` and `migration` are checked for deadlock.

Runs that TLC must find violated: each states what a comment or a test of the
repository says, and the code does otherwise. PROJECT.json quotes the lines.

| Run | What the counterexample is |
|---|---|
| `migration_repair` | a start that stops after DROP TRIGGER leaves orphaned search entries, and later starts skip the repair |
| `session_filter` | the session filter extracts `$.session.id` unquoted and selects nothing |
| `accepted_points` | a NaN gauge is accepted, stored as NULL, and then fails every query that reads its row |
| `sessions_merged` | two sessions of one model share a counter key, of which only the later counts |

### Known divergences

The modules state more of what the comments and documents say. TLC refutes each
of these definitions on the instance of its module (as a `PROPERTY` where it is
temporal); they are not runs of their own. The quotation is above each
definition.

State machines:

| Definition | Code | What happens |
|---|---|---|
| `Migration!VersionOnlyRises` | `schema.rs:702` | two processes read user_version before either migrates; the slower one stamps an older version over a newer one |
| `SpanRollups!DailyLlmMatchesBackfill` | `schema.rs:118` | the delete trigger drops a day's row though zero-token spans remain, which the backfill keeps |
| `MetricRollups!MetricLatestIsARow` | `schema.rs:450` | `MAX(timestamp)` and `MAX(id)` of different datapoints are stored as one row |
| `TraceList!UnknownRootUnreachable` | `reader.rs:437` | a purge batch between two statements yields the root name "Unknown" |
| `Health!DegradedWhenSustained` | `health.rs:103` | the store of a success lands after the streak reached the threshold; only the exact threshold sets the flag again |
| `Health!RearmedWhenQuiet` | `health.rs:103` | a success between the add and the store of a failure: degraded with no streak |
| `Health!FullDiskDegrades` | `mod.rs:173` | a disk found full at COMMIT is wrapped into a WriteError and never counted |
| `Receiver!OccupancyWithinLimit` | `grpc/logs.rs:49` | a timed-out handler gives its permit back while its write goes on |
| `WritePath!StoredOnce` | `mod.rs:162` | a log batch whose request timed out still commits, and its retry stores it again |
| `WritePath!NeverWaitsForAnalyze` | `mod.rs:159` | a write passes the gate before the flag is set and waits for ANALYZE |
| `ReadPool!OpenWithinCapacity` | `pool.rs:122` | the capacity is compared with the idle connections, so it never limits |
| `ResponseCache!PurgedNotServed` | `cached.rs:390` | an owner that read before the purge caches its answer after the clear |
| `ResponseCache!ClearedAfterPurge` | `admin.rs:32` | the purge commits but its handler ends before the clear: a failed checkpoint or a disconnect |
| `Purge!OnePurge` | `mod.rs:426` | a disconnect frees the lock while the deletes go on |
| `Purge!QuietMeansNoPurge` | `stats.rs:107` | the quiet check sees only finished retention passes |
| `PlannerStats!OncePerStalePeriod` | `mod.rs:1659` | a failed check counts as fresh, and the deferral is logged again |
| `PlannerStats!QuickOutsideNight` | `stats.rs:125` | a database is small by its spans alone, however many logs and metrics ANALYZE reads |
| `PlannerStats!BusyOnesToo` | `stats.rs:149` | a small database that is never quiet, metrics only for one, is never refreshed |
| `Service!RefusedOnlyByDaemon` | `service.rs`, cli-reference.md:75 | a recycled PID makes a stale file look alive and the start is refused |
| `Service!FileSurvivesOverlap` | `service.rs:394`, cli-reference.md:68 | of two starts the loser removes the file of the winner |
| `Service!RestartFindsNoneDying` | `service.rs:519` | a stop does not wait after SIGKILL, so the start of a restart still finds the daemon on its port and is refused |
| `Tui!SomethingSelected`, `PanelIsSelection`, `EscShowsAll` | `app.rs:166`, `394`, `state/logs.rs` | a refresh leaves nothing selected; the panel keeps another log of the same timestamp; Esc leaves a filter in force |

Counters, costs and mixes:

| Definition | Code | What happens |
|---|---|---|
| `Counters!ReasoningCountedOnce` | `reader.rs:5433`, `5559` | reasoning of one harness is read from two sources |
| `CounterReports!LinesAgree` | `reader.rs:14737` | lines are read with other labels than the output report |
| `CalendarDays!EveryMidnightMapped`, `CallsCannotMiss` | `reader.rs:3659`, `3781` | a midnight that does not exist fails the query; a call at the closed end of the window misses every bucket |
| `CalendarDays!MonthToDateComplete` | `genai.rs:268` | on a 31st the series starts after the first of the month |
| `ModelMix!CostAndProjectAreOfOneRow`, `EverySessionIsInTheMix` | `reader.rs`, session costs | cost and project come from different rows; a span without a model is in one view only |
| `Pricing!FreeModelIsKnownZero`, `OnePrice`, `IdentityResolves` | `pricing.rs:327`, `usage.rs:532` | a zero price is unknown; the substring search follows a HashMap's order; `provider/model` is not found where the name is |
| `Pricing!UnpricedLast`, `UnpricedLeavesNull`, `EstimateHasCost` | `api.rs:1551`, `sessions.rs:732` | an unpriced model ranks beside a free one; a partly priced session is priced; an estimate can lack a cost |

Views over calls, sessions and events:

| Definition | Code | What happens |
|---|---|---|
| `Usage!ArrayReasonsCounted`, `TruncationSeesMany` | `reader.rs`, finish reasons | reasons stored as debug text of an array are not JSON |
| `Usage!IdentityIsRequested` | `semconv.rs:63` against `84` | the response model precedes the aliases of the request model |
| `SessionViews!ModelsOfSessionsAgree` | `reader.rs:9930`, `15859` | the crosstab reads five keys for the model of a call, depth and projects two, so a call is named in one and '(unknown)' in the others, or named differently |
| `SessionViews!ReachIsEnough`, `NoWaitWhileRunning` | `reader.rs:15152` | a gap longer than the reach is missed; overlapping calls count as a wait |
| `CallViews!WorstCachedFirst`, `StopsAreTruncations` | `api.rs:575` | NULL efficiency sorts before zero; a truncation named elsewhere is not a stop |
| `SkillViews!ModelsAreApart`, `FiltersAnswered`, `MixTiles` | `reader.rs:16290` | a path escaped twice reads no model; any filter makes the retrieval statistics fail; both windows count the day they meet in |
| `EventViews!UsageIsExecutions`, `RolesBySpawns`, `StartsAreEvents` | `api.rs:1142`, `2666`, `semconv.rs:433` | approvals count as uses; the order is another; rows are counted, not their values |
| `EventViews!CohortsMatch`, `SubMillisecondSurvives`, `OneEstimator`, `BusyWithinTurn` | `reader.rs:3700`, `genai.rs:450`, `reader.rs:3428` | negative durations, integer milliseconds, two percentile formulas, a ratio of averages |
| `Assessment!CoversMostRecent`, `DisagreementIsMixed`, `WorseTailsRankNoLower`, `RatesAreJudgedInPoints` | `otelite-core/src/telemetry` | the cut drops the newest row; better beside worse is not "mixed"; a mixed median hides a worse tail; rates change class below five points |
| `Evidence!MatchedIsOneToOne`, `UnidentifiedAreLlm`, `UsageIsNoRequest`, `ZeroIsNoTtft` | `telemetry/genai.rs:570`, `299`, `api.rs:878`, `reader.rs:1392` | the window ends between two candidates; any span of those shapes is counted; usage spans are compared as requests; a zero is shown |
| `Sessions!TraceTokensAreAllCalls`, `IndexesAreConsecutive`, `StartsInOrder`, `ProjectIsFound` | `sessions.rs:78`, `95` | a root with tokens hides its siblings'; traces without a root are numbered and left out; the order is that of the first span, not of the root shown; only the first group of metrics is asked for the project |

Requests:

| Definition | Code | What happens |
|---|---|---|
| `Conversion!AcceptedReadsAsSent` | `conversion.rs:343`, `431`, `writer.rs:127`, `reader.rs:980` | an integer gauge past 2^53 is rounded, a histogram without a sum reads back with 0, and one (or a summary) whose sum is not finite becomes JSON with a null and reads back empty; none is counted |
| `Conversion!TailIsNoFabricatedZero`, `RecentErrorsAreErrors` | `reader.rs:4111`, `16545` | a tail beyond the last bound; `>= 9` is INFO, ERROR is 17 |
| `Filters!EchoIsApplied`, `PatternsAgreeInAnyCase`, `DurationIsMilliseconds` | `filters.rs:51`, `query.rs:51`, `reader.rs:716` | a dimension echoed where it selects nothing; LIKE folds case and the client does not; durations are nanoseconds |
| `Listing!GetLogReturnsAsked`, `ExportMatchesList`, `PagesReachEveryLog` | `logs.rs:222`, `traces.rs:430` | the window [t, t+1] can return the next nanosecond's log; an end bound selects other spans; LIMIT before offset |
| `Endpoints!EveryPanelIsFiltered`, `WhatAppliesIsEchoed`, `EveryBucketPositive` | `usage.rs:47`, `genai.rs:21` | panels that ignore --model; filters applied and not echoed; seconds multiplied into 64 bits unchecked |

Read beside the models, in code whose data they abstract, and not refuted by a
run: `export_logs` takes fewer parameters than help.rs says; invalid attrs JSON
is ignored by `list_traces` and refused by `list_metrics`; the heatmap and the
skill outcomes escape quotes twice; `query_cache_economics` fails without start
and end; top sessions and conversations never have a cost; the cross-tab prices
no cache tokens; `agent_project_rollup` asks for `$.project.id` unquoted;
`query_mcp_health` reads `$.mcp_server` where semconv says `$.server`;
`query_hour_of_day` knows only the names of Claude Code; a rejection by
configuration counts as the user's; `severity = "ERROR"` compares an INTEGER
column with text; `contains` leaves `%` and `_` unescaped and folds case; `&&`
inside a quoted value is split; `traces list` drops `--since`, `logs list`
sends one the server ignores; `usage --by-session` sums only the 200 largest
spans; `context_composition` takes its prefix from a first call that may read
nothing from cache; a clock set back leaves the statistics "fresh" until it has
caught up.

## Fairness

Fairness is stated only where a liveness property needs it, and only for what
the runtime owes.

- WritePath: the runtime polls a handler that can go on, the blocking pool runs
  its tasks, the mutex goes to a waiting task, and a statement ends, at the
  busy timeout at the latest. An exporter need not retry, ANALYZE and crashes
  need not happen.
- Receiver: as above, and the drain ends (it has a deadline); an admitted gRPC
  request is decoded, while an HTTP client may never finish its body.
- Migration: a process that runs reaches its next statement, and the service
  manager starts the daemon again; a stop is owed only by a statement that
  cannot succeed.
- ResponseCache: queries end, and a waiter is polled again after the one-second
  timeout of its loop. The two-minute deadline is not needed for
  `WaiterReleased`, and no client need disconnect.
- Purge: the blocking pool runs the pass, and the scheduler joins it. Nothing
  obliges a manual purge, so `PassEnds` holds beside one that never ends.
- PlannerStats: the clock goes on, and a round that was begun ends. Failures,
  restarts, ingest and purges need not happen, and are bounded or unbounded as
  the instance says.

## Proofs

| Theorem | Module | Argument |
|---|---|---|
| `TypeCorrect`, `TraceLatestExact` | TraceList_proofs | SpanRollups: `TraceLatestIsNewest` is inductive with the types. `NewestStartIsNewest`: the recompute takes the maximum of a finite set of naturals |
| `DailyLlmExact` | TraceList_proofs | SpanRollups: a token sum is the number of units of its spans, so a row adds its count to a finite cardinality and a delete takes it away. `SumsHold` adds that the units are finite; a dropped row had nothing left since every sum is a natural |
| `SeekIsWalk` | TraceList_proofs | the rows of a walk that select a trace are a prefix (`CountedPrefix`), and what a prefix meets is a top of trace_latest, which is exact (`WalkIsTop`). Conversely a top is what the walk selects that meets its traces' rows first among equal starts (`TopIsWalk`); that walk exists since a finite set can be listed in any strict total order (`Listed`, by rank, without induction) |
| `WriterUnaffected`, `IngestHarmless` | TraceList_proofs | every reader step leaves the writer's state, so SpanRollups' theorems carry over; `Undisturbed` says that the selected traces keep their spans without deletes |
| `TypeCorrect`, `LatestCovers`, `FastPathFresh`, `ToolRollupExact` | MetricRollups_proofs | needs `IdsIssued`, that stored ids are below the next one and name one row; the tool rollup is a cardinality, so one row changes it by one |
| `SearchSafe`, `MigrationSafe` | Migration_proofs | `Schema`: a version, stored or still held by a process that read it long ago, promises what its block did, and nothing takes that away. `Counts` fixes the rollups, armed or not. `Repair`: while no repair was cut short, orphans need a pre-fix trigger nobody dropped yet or a repair that still owes its rebuild, and the delete trigger is missing only between the DROP and the CREATE of such a repair. The last is what makes two repairs beside each other safe, since the second drops the trigger the first has just created |
| `TypeCorrect`, `FlagAgrees` | Receiver_proofs | Health: strengthened by `OneStoreAtATime`, what the pending stores can be while nothing overlapped, and that with no store pending and no overlap remembered the flag is the streak's |
| `ServersSafe` | Receiver_proofs | the lemma `UsesHealth` carries Health's invariants over: every handler step is a step of Health or leaves its variables. The permits out are counted as a set of handlers, of which a step moves one |
| `Ownership`, `WarmBounded`, `NothingLeaks` | DashboardParts_proofs | `Owned` is types and ownership together; the open handles are the idle ones and those in the hands of a running query |
| `FileNamed`, `StopsSafe` | DashboardParts_proofs | `ServiceInv`. `Machine`: a child keeps its PID until its start has reaped it, so no two starts wait for one PID and no stranger gets it. `Chosen`: what a stop chose is an otelite process until it has ended (so a wait that finds none has seen the end, and one that goes on to SIGKILL marks it, until it ends), and between check and signal only a change of hands makes it a stranger. `Alone`: without overlap one command works at a time, and none that is about to start a daemon or to remove the PID file leaves one a start has reported |
| `TypeCorrect`, `FailuresClean`, `AcknowledgedStored` | WritePath_proofs | strengthened by `TaskTold`, which relates a request's task to the rows stored by its attempt and to what the exporter was told |
| `ImplementsStore` | WritePath_proofs | a commit is BatchStore's step, every other step stutters under the same invariant |
| `EntriesOwned`, `OwnersKeepEntries` | Purges_proofs | strengthened by the types of the entries a waiter or an owner holds |
| `StaleOnlyOverlapped` | Purges_proofs | `FreshInv`: what is cached for a key, and what an owner still carries, is no older than what the key is clear of (`ClearOf`: the last confirmed purge, or the one under way once its clear has reached the key), unless the key is in `overlapped`; who waits does so on an owner whose answer is new enough. `TypeCorrect` counts the purges that the generations stand for |
| `LockSafe` | Purges_proofs | `Joined`: while no future was dropped over its running task, every running task has a future that joins it, and that future has the guard |
| `MaintenanceSafe` | Purges_proofs | `TablesDone`: below the pass's table no old row of its start is left, and ids are issued once. For the statistics task `RecordFollows` (the record is no older than the last ANALYZE unless it was lost) and `LoggedOnce` |
| `SelectionsSafe` | DashboardParts_proofs | `TuiInv`, per view: a refresh clamps the selection to its list, and what it opens, moves or renews agrees with the row selected under the filters of that moment. For the selected span the bound is strengthened: it holds whether or not the details are cached, since nothing moves the span while they have expired and it must be inside when they come back |
| `LruSafe` | Purges_proofs | `LruInv`: the access order lists each cached key once (`Ordered`), and whatever stands before a key in it was used after it (`LruUses`). So the key an insert evicts has `MaxSize` others used since. `RetainOrdered`: a filter by rank keeps the order, since the rank is an injection of a finite set into as many numbers |
| `PurgesSafe`, `DashboardSafe` | Purges_proofs, DashboardParts_proofs | `PartsRun`: a step of the run is a step of one part and leaves the others alone, so its specification implies each part's |
| `CacheIsMap` | Purges_proofs | `Insert` is the map's `Put`, expiry, clear and cleanup lose entries, a hit stutters |
| `CounterInvariant`, `CounterReadingsAlways`, `CountersAgreeAlways` | Analytics_proofs | `CounterInv` relates the reports of a series, stored or late (one that stays late is lost), to what was used. `Steady`: a total is at most the use up to its tick, and a later one grew by all that was used between or, after a restart, holds no more than that. `Whole`: without a restart a total is all that was used. `Kept`: while nothing is purged, every tick with use has a report. A sum is the number of units of a function (`Mass`), which splits where its domain does; `FoldIsMass` brings the community fold to it, by the least counterexample in the well-founded order of the naturals |
| `RollupsAlways`, `RollupsAgreeAlways` | Analytics_proofs | `HistoryInv`: CounterInv, the rows are finitely many, and a source reports only its categories. Each rollup's sum is brought to the units of its rows; buckets, agents and projects divide the same units (`MassShares`), and a session is listed by each project that its markers name |
| `DaysTileAlways` | Analytics_proofs | CalendarDays: a midnight is the first instant of its date, so midnights rise with the dates, the days divide the window and a call is in the newest day begun |
| `ProjectionsCompleteAlways` | Analytics_proofs | CalendarDays: the series starts no later than the first day that is summed, except on a 31st; the calls of the models divide the calls |

The assumptions are the named ASSUMEs of the modules (non-empty bounds,
naturals, sentinels outside their sets), which TLC evaluates in the runs.

Model-checked only:

- the liveness properties, and what is violated;
- `ViewsAgree`, `SumsKept`, `ExportsAnswered`, `FiltersAgree` and
  `ListingsAgree`. Each bundles properties of several pure functions, some over
  lists that `SortSeq` orders and `SelectSeq` filters; the prover knows no
  definition of these two operators, so nothing can be proved of what they
  return. Patterns, the wire form of a predicate and chains recurse over data
  besides. The runs enumerate every input of these functions up to their
  bounds. The views of Usage are in the same bundle.

## Plan

Done: the rollups and the trace list; health, read pool, write path; response
cache and purge; Migration; Receiver with Health; LruCache as a map that loses
entries; Service; the analytic queries and the requests; Tui; PlannerStats.

The safety properties of the state machines are theorems, those of Counters
included and those of Usage excepted, and so are the refinements of BatchStore, ExpiringMap and
SpanRollups and, of the pure functions, those of the calendar. What is left
would be lemmas on the views that compare selections of rows and sum nothing.

## Not modelled

- Rendering: tables and wording of the command line, widgets of the terminal
  UI, the static dashboard, MCP replies. The metrics and usage views of the
  terminal UI are lists like the traces.
- The API's types, argument parsing, configuration and the two wire formats of
  OTLP: data the properties do not tell apart.
- Queries that are single SELECTs with floating-point sums and no second view
  of the same number.
- SQLite itself: a transaction is atomic and durable (`synchronous=FULL`), one
  writer at a time, triggers fire per row; statements outside a transaction
  commit one by one and see the newest commit.
- Wall-clock arithmetic of the retention scheduler (the next 02:00): when a pass
  starts is a free choice. Two daemons on one database meet only in Migration.
- launchd and systemd units; the price table's download.
- What an exporter retries: any attempt may be its last.
