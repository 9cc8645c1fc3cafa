------------------------------ MODULE Migration ------------------------------
(***************************************************************************)
(* initialize_schema of otelite-storage: what every process that opens the *)
(* database runs first.  The repair of the full-text triggers is a series  *)
(* of statements that commit one by one; each versioned block (v2, v3, v4) *)
(* is one transaction, under a user_version read before the first of them. *)
(* Processes start together, stop between any two statements, and start    *)
(* again; meanwhile a process of the previous build, or one that is        *)
(* through, inserts and deletes rows.                                      *)
(***************************************************************************)
EXTENDS Integers, FiniteSets

CONSTANTS
    Processes,   \* processes that open the database: the daemon, a CLI command
    Daemon,      \* the one the service manager starts again
    Spans,       \* span identities (trace_id, span_id)
    MaxLogs,     \* bound on the log rows ever inserted (AUTOINCREMENT ids)
    MaxStops     \* bound on crashes, failing statements and exits

ASSUME MigrationAssumption ==
    /\ Daemon \in Processes
    /\ MaxLogs \in Nat \ {0} /\ MaxStops \in Nat

Copies  == 1..2              \* a retried export inserts a span again
SpanRow == Spans \X Copies
Absent  == "absent"

VARIABLES
    logs, next_log,      \* ids of the stored logs, the next id
    fts,                 \* ids the full-text index holds an entry of
    trigger,             \* logs_fts trigger -> "absent", "broken" (pre-fix) or "ok"
    spans,               \* stored span rows
    unique_identity,     \* idx_spans_trace_span exists
    armed,               \* the v4 triggers exist
    counted,             \* span row -> times the additive rollups count it
    user_version,
    legacy,              \* a process of the previous build is still writing
    pc,                  \* process -> its next statement
    broken,              \* process -> broken_fts_triggers
    seen_version,        \* process -> version
    stops,
    cut                  \* history: a repair stopped half way

data  == <<logs, next_log, fts, spans, counted>>
ddl   == <<trigger, unique_identity, armed, user_version>>
local == <<pc, broken, seen_version>>
vars  == <<data, ddl, local, legacy, stops, cut>>

DropAt   == [delete |-> "drop_delete", update |-> "drop_update"]
CreateAt == [insert |-> "create_insert", delete |-> "create_delete", update |-> "create_update"]

Repairing == {"drop_delete", "drop_update", "create_insert", "create_delete",
              "create_update", "rebuild"}
Blocks    == {"read_version", "v2", "v3", "v4"}
Starting  == {"look"} \cup Repairing \cup Blocks

Goto(p, label) == pc' = [pc EXCEPT ![p] = label]
Ready(p)       == pc[p] = "ready"
Writing        == legacy \/ \E p \in Processes : Ready(p)

FirstOf(s)      == <<s, 1>>
Duplicates(rows) == {row \in rows : row[2] > 1 /\ FirstOf(row[1]) \in rows}

-----------------------------------------------------------------------------
\* What builds before this one leave behind.  Pre-fix triggers come with orphaned
\* entries, a version below 2 with retried spans, one below 4 without triggers.
Fresh ==
    /\ trigger = [t \in {"insert", "delete", "update"} |-> Absent]
    /\ user_version = 0 /\ unique_identity = FALSE /\ armed = FALSE /\ legacy = FALSE
    /\ logs = {} /\ fts = {} /\ next_log = 1 /\ spans = {}
    /\ counted = [row \in SpanRow |-> 0]

Upgraded ==
    /\ \E hygiene \in {"broken", "ok"} :
          /\ trigger = [t \in {"insert", "delete", "update"} |->
                          IF t = "insert" THEN "ok" ELSE hygiene]
          /\ fts = IF hygiene = "broken" THEN {1} ELSE {}   \* log 1 was purged
    /\ logs = {} /\ next_log = 2
    /\ user_version \in {0, 2, 3, 4}
    /\ unique_identity = (user_version >= 2)
    /\ armed = (user_version = 4)
    /\ legacy \in BOOLEAN
    /\ spans \in {{}} \cup {{FirstOf(s)} : s \in Spans}
              \cup {{s} \X Copies : s \in IF user_version < 2 THEN Spans ELSE {}}
    /\ counted = [row \in SpanRow |-> IF armed /\ row \in spans THEN 1 ELSE 0]

Init ==
    /\ Fresh \/ Upgraded
    /\ pc = [p \in Processes |-> "down"]
    /\ broken = [p \in Processes |-> FALSE]
    /\ seen_version = [p \in Processes |-> 0]
    /\ stops = 0
    /\ cut = FALSE

-----------------------------------------------------------------------------
\* initialize_schema, statement by statement.

\* The idempotent DDL; what it creates is empty or already there.
Start(p) ==
    /\ pc[p] = "down"
    /\ Goto(p, "look")
    /\ UNCHANGED <<data, ddl, broken, seen_version, legacy, stops, cut>>

\* Only the text of logs_fts_delete is looked at; no such trigger counts as not broken.
Look(p) ==
    /\ pc[p] = "look"
    /\ broken' = [broken EXCEPT ![p] = (trigger["delete"] = "broken")]
    /\ Goto(p, IF trigger["delete"] = "broken" THEN "drop_delete" ELSE "create_insert")
    /\ UNCHANGED <<data, ddl, seen_version, legacy, stops, cut>>

\* Mutant: the repair drops the insert trigger too.
DropAlsoInsert(p, t, next) ==
    /\ pc[p] = DropAt[t]
    /\ trigger[t] # Absent
    /\ trigger' = [trigger EXCEPT ![t] = Absent, !["insert"] = Absent]
    /\ Goto(p, next)
    /\ UNCHANGED <<data, unique_identity, armed, user_version, broken, seen_version, legacy, stops, cut>>

\* DROP TRIGGER fails, and with it the start, when another process was first (Stop).
Drop(p, t, next) ==
    /\ pc[p] = DropAt[t]
    /\ trigger[t] # Absent
    /\ trigger' = [trigger EXCEPT ![t] = Absent]
    /\ Goto(p, next)
    /\ UNCHANGED <<data, unique_identity, armed, user_version, broken, seen_version, legacy, stops, cut>>

\* CREATE TRIGGER IF NOT EXISTS.
Create(p, t, next) ==
    /\ pc[p] = CreateAt[t]
    /\ trigger' = [trigger EXCEPT ![t] = IF @ = Absent THEN "ok" ELSE @]
    /\ Goto(p, next)
    /\ UNCHANGED <<data, unique_identity, armed, user_version, broken, seen_version, legacy, stops, cut>>

AfterCreate(p) == IF broken[p] THEN "rebuild" ELSE "read_version"

\* INSERT INTO logs_fts(logs_fts) VALUES ('rebuild').
Rebuild(p) ==
    /\ pc[p] = "rebuild"
    /\ fts' = logs
    /\ Goto(p, "read_version")
    /\ UNCHANGED <<logs, next_log, spans, counted, ddl, broken, seen_version, legacy, stops, cut>>

\* PRAGMA user_version, outside the transactions it decides about.
ReadVersion(p) ==
    /\ pc[p] = "read_version"
    /\ seen_version' = [seen_version EXCEPT ![p] = user_version]
    /\ Goto(p, "v2")
    /\ UNCHANGED <<data, ddl, broken, legacy, stops, cut>>

\* What the span delete triggers do when they exist.
CountedWithout(gone) ==
    [row \in SpanRow |-> IF armed /\ row \in gone THEN counted[row] - 1 ELSE counted[row]]

\* v2: drop the retry copies, add the unique index.
V2(p) ==
    /\ pc[p] = "v2"
    /\ IF seen_version[p] < 2
       THEN /\ spans' = spans \ Duplicates(spans)
            /\ counted' = CountedWithout(Duplicates(spans))
            /\ unique_identity' = TRUE
            /\ user_version' = 2
       ELSE UNCHANGED <<spans, counted, unique_identity, user_version>>
    /\ Goto(p, "v3")
    /\ UNCHANGED <<logs, next_log, fts, trigger, armed, broken, seen_version, legacy, stops, cut>>

\* v3: merge metric_latest (what the merge computes is MetricRollups').
V3(p) ==
    /\ pc[p] = "v3"
    /\ user_version' = IF seen_version[p] < 3 THEN 3 ELSE user_version
    /\ Goto(p, "v4")
    /\ UNCHANGED <<data, trigger, unique_identity, armed, broken, seen_version, legacy, stops, cut>>

\* Mutant: a group that conflicts is added to.
BackfillAdding ==
    [row \in SpanRow |-> IF row \in spans THEN counted[row] + 1 ELSE counted[row]]

\* The backfill: a group that has rows is counted from them, a conflict is overwritten.
Backfill ==
    [row \in SpanRow |->
        IF row \in spans THEN 1
        ELSE IF \E other \in spans : other[1] = row[1] THEN 0
        ELSE counted[row]]

\* Mutant: a database at version 3 is taken for migrated.
V4SkipsThree(p) ==
    /\ pc[p] = "v4"
    /\ IF seen_version[p] < 3
       THEN counted' = Backfill /\ armed' = TRUE /\ user_version' = 4
       ELSE UNCHANGED <<counted, armed, user_version>>
    /\ Goto(p, "ready")
    /\ UNCHANGED <<logs, next_log, fts, spans, trigger, unique_identity, broken, seen_version, legacy, stops, cut>>

\* v4: backfill the rollups, then arm their triggers.
V4(p) ==
    /\ pc[p] = "v4"
    /\ IF seen_version[p] < 4
       THEN counted' = Backfill /\ armed' = TRUE /\ user_version' = 4
       ELSE UNCHANGED <<counted, armed, user_version>>
    /\ Goto(p, "ready")
    /\ UNCHANGED <<logs, next_log, fts, spans, trigger, unique_identity, broken, seen_version, legacy, stops, cut>>

Initialize(p) ==
    \/ Look(p)
    \/ Drop(p, "delete", "drop_update")
    \/ Drop(p, "update", "create_insert")
    \/ Create(p, "insert", "create_delete")
    \/ Create(p, "delete", "create_update")
    \/ Create(p, "update", AfterCreate(p))
    \/ Rebuild(p)
    \/ ReadVersion(p)
    \/ V2(p) \/ V3(p) \/ V4(p)

\* A crash, a statement that fails (busy, no such trigger) or a command that ends:
\* the open transaction is gone and every committed statement stays.
Stop(p) ==
    /\ pc[p] # "down"
    /\ \/ stops < MaxStops /\ stops' = stops + 1
       \/ \E t \in {"delete", "update"} :   \* the DROP that cannot succeed
             pc[p] = DropAt[t] /\ trigger[t] = Absent /\ stops' = stops
    /\ Goto(p, "down")
    /\ cut' = (cut \/ pc[p] \in Repairing)
    /\ UNCHANGED <<data, ddl, broken, seen_version, legacy>>

LegacyExits ==
    /\ legacy
    /\ legacy' = FALSE
    /\ UNCHANGED <<data, ddl, local, stops, cut>>

-----------------------------------------------------------------------------
\* Rows written meanwhile, each with the triggers that exist when it commits.

WriteLog ==
    /\ Writing
    /\ next_log <= MaxLogs
    /\ logs' = logs \cup {next_log}
    /\ fts' = IF trigger["insert"] = "ok" THEN fts \cup {next_log} ELSE fts
    /\ next_log' = next_log + 1
    /\ UNCHANGED <<spans, counted, ddl, local, legacy, stops, cut>>

PurgeLog(id) ==
    /\ Writing
    /\ id \in logs
    /\ logs' = logs \ {id}
    /\ fts' = IF trigger["delete"] = "ok" THEN fts \ {id} ELSE fts
    /\ UNCHANGED <<next_log, spans, counted, ddl, local, legacy, stops, cut>>

\* With the index a span that is stored already is not inserted again.
WriteSpan(row) ==
    /\ Writing
    /\ row \notin spans
    /\ row[2] > 1 => FirstOf(row[1]) \in spans
    /\ unique_identity => \A other \in spans : other[1] # row[1]
    /\ spans' = spans \cup {row}
    /\ counted' = [counted EXCEPT ![row] = IF armed THEN @ + 1 ELSE @]
    /\ UNCHANGED <<logs, next_log, fts, ddl, local, legacy, stops, cut>>

PurgeSpan(row) ==
    /\ Writing
    /\ row \in spans
    /\ spans' = spans \ {row}
    /\ counted' = CountedWithout({row})
    /\ UNCHANGED <<logs, next_log, fts, ddl, local, legacy, stops, cut>>

Next ==
    \/ \E p \in Processes : Start(p) \/ Initialize(p) \/ Stop(p)
    \/ LegacyExits
    \/ WriteLog
    \/ \E id \in 1..MaxLogs : PurgeLog(id)
    \/ \E row \in SpanRow : WriteSpan(row) \/ PurgeSpan(row)

Spec == Init /\ [][Next]_vars

\* A process that runs reaches its next statement, and a statement ends at the
\* busy timeout at the latest; the service manager starts the daemon again.
FairSpec ==
    /\ Spec
    /\ \A p \in Processes : WF_vars(Initialize(p))
    /\ \A p \in Processes : WF_vars(Stop(p) /\ stops' = stops)
    /\ WF_vars(Start(Daemon))

-----------------------------------------------------------------------------
\* Types.
TypeOK ==
    /\ logs \subseteq 1..MaxLogs
    /\ fts \subseteq 1..MaxLogs
    /\ next_log \in 1..(MaxLogs + 1)
    /\ trigger \in [{"insert", "delete", "update"} -> {Absent, "broken", "ok"}]
    /\ spans \subseteq SpanRow
    /\ counted \in [SpanRow -> 0..1]
    /\ user_version \in {0, 2, 3, 4}
    /\ pc \in [Processes -> {"down", "ready"} \cup Starting]
    /\ stops \in 0..MaxStops
    /\ unique_identity \in BOOLEAN /\ armed \in BOOLEAN /\ legacy \in BOOLEAN /\ cut \in BOOLEAN

\* Whatever processes start, stop and write in whatever order, a stored log is in
\* the full-text index: query_logs finds it by its text.
SearchFindsEveryLog == logs \subseteq fts

\* As long as no repair was cut short, once some process is through and none is
\* repairing the index holds no entry of a purged log.
OrphansOnlyFromACutRepair ==
    ~cut /\ (\E p \in Processes : Ready(p)) /\ (\A p \in Processes : pc[p] \notin Repairing)
        => fts \subseteq logs

\* A second process that comes with a stale user_version, or a crash between the
\* blocks, never makes a rollup count a span twice or miss one.
RollupsCountEachRowOnce ==
    armed => \A row \in SpanRow : counted[row] = IF row \in spans THEN 1 ELSE 0

\* A process that is through relies on the unique index (a retried span is ignored)
\* and on the v4 triggers, whatever version another process has stamped since.
ReadyMeansMigrated ==
    \A p \in Processes :
        Ready(p) => unique_identity /\ armed /\ Duplicates(spans) = {}

\* Search answers from an index that holds the stored logs, and others only after a
\* repair that was cut short.
SearchFollowsLogs == SearchFindsEveryLog /\ OrphansOnlyFromACutRepair

\* Rollups stay exact, and what a process that is through relies on is there.
MigratedOnce == TypeOK /\ RollupsCountEachRowOnce /\ ReadyMeansMigrated

\* Whatever stops, the database ends up migrated for good.
EndsUpMigrated == <>[](unique_identity /\ armed)

\* "Migration must rebuild the index and drop orphans" (fts5_search_test.rs): once a
\* process is through and none repairs, no entry of a purged log is left.
RepairedOnceStarted ==
    (\E p \in Processes : Ready(p)) /\ (\A p \in Processes : pc[p] \notin Repairing)
        => fts \subseteq logs

\* "Each block below runs exactly once per database" (schema.rs): the version never
\* goes back.
VersionOnlyRises == [][user_version' >= user_version]_vars
=============================================================================
