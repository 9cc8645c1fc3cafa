------------------------------- MODULE Purge -------------------------------
(***************************************************************************)
(* Deleting telemetry: purge_all requests of the dashboard, the scheduler's *)
(* nightly retention pass, the lock between them, and the statistics task  *)
(* that asks the database whether it is quiet before it runs ANALYZE.  The *)
(* lock's guard lives in the future that started the purge, the deletes    *)
(* run on a blocking thread that a dropped future leaves running.          *)
(***************************************************************************)
EXTENDS Integers, FiniteSets, Sequences

CONSTANTS
    Handlers,   \* purge_all requests, each made once
    Rows,       \* rows that can be stored
    TableOf,    \* row -> its table
    OldRows,    \* rows older than the retention cutoff; they can still arrive late
    BatchSize   \* rows a delete batch takes at most

Tables == <<"logs", "spans", "metrics">>
Scheduler == "scheduler"
Owners == Handlers \cup {Scheduler}

VARIABLES
    stored,     \* rows of the three tables
    arrived,    \* rows that have been ingested
    fresh,      \* stored rows that came in within the last minute
    noted,      \* purge_history has a pass that started within the last minute
    locked,     \* PurgeLock
    future,     \* owner -> "idle", "guarded" (it has the guard) or "ended"
    task,       \* owner -> its blocking task: "none", "running" or "ended"
    table,      \* the table the retention pass is in, 4 after the last
    targets,    \* history: old rows stored when the pass started
    dropped,    \* history: a handler was dropped while its task ran
    analyze     \* the statistics task: "idle", "decided" or "running"

vars == <<stored, arrived, fresh, noted, locked, future, task, table, targets, dropped, analyze>>
data == <<stored, arrived, fresh, noted>>
pass == <<table, targets>>

Purging == {o \in Owners : task[o] = "running"}

-----------------------------------------------------------------------------
Init ==
    /\ stored = {} /\ arrived = {}
    /\ fresh = {} /\ noted = FALSE
    /\ locked = FALSE
    /\ future = [o \in Owners |-> "idle"]
    /\ task = [o \in Owners |-> "none"]
    /\ table = 1 /\ targets = {}
    /\ dropped = FALSE
    /\ analyze = "idle"

\* An export stores a row, an old one perhaps, beside any purge.
Ingest(row) ==
    /\ row \notin arrived
    /\ stored' = stored \cup {row}
    /\ arrived' = arrived \cup {row}
    /\ fresh' = fresh \cup {row}
    /\ UNCHANGED <<noted, locked, future, task, pass, dropped, analyze>>

\* A minute without ingest; a retention pass can be older than that while it runs.
Minute ==
    /\ fresh # {} \/ noted
    /\ fresh' = {} /\ noted' = FALSE
    /\ UNCHANGED <<stored, arrived, locked, future, task, pass, dropped, analyze>>

\* try_lock succeeds and the blocking task is spawned.
LockTaken(o) ==
    /\ ~locked
    /\ locked' = TRUE
    /\ future' = [future EXCEPT ![o] = "guarded"]
    /\ task' = [task EXCEPT ![o] = "running"]

\* purge_all.
StartPurgeAll(h) ==
    /\ future[h] = "idle"
    /\ LockTaken(h)
    /\ UNCHANGED <<data, pass, dropped, analyze>>

\* purge_all while the lock is held: an error.
RefusePurgeAll(h) ==
    /\ future[h] = "idle"
    /\ locked
    /\ future' = [future EXCEPT ![h] = "ended"]
    /\ UNCHANGED <<data, locked, task, pass, dropped, analyze>>

\* A committed delete; created_at goes with the row.
Keep(rows) == stored' = rows /\ fresh' = fresh \cap rows

\* The three deletes of purge_all commit together; it writes no purge_history.
DeleteAll(h) ==
    /\ h # Scheduler
    /\ task[h] = "running"
    /\ Keep({})
    /\ task' = [task EXCEPT ![h] = "ended"]
    /\ UNCHANGED <<arrived, noted, locked, future, pass, dropped, analyze>>

\* The blocking task of a purge ends early with an error.
TaskFails(o) ==
    /\ task[o] = "running"
    /\ task' = [task EXCEPT ![o] = "ended"]
    /\ UNCHANGED <<data, locked, future, pass, dropped, analyze>>

\* The future joins its task, answers and drops the guard.
EndPurgeAll(h) ==
    /\ h # Scheduler
    /\ future[h] = "guarded" /\ task[h] = "ended"
    /\ future' = [future EXCEPT ![h] = "ended"]
    /\ locked' = FALSE
    /\ UNCHANGED <<data, task, pass, dropped, analyze>>

\* The future is dropped by a disconnect, the guard with it; the task goes on.
DropPurgeAll(h) ==
    /\ h # Scheduler
    /\ future[h] = "guarded"
    /\ future' = [future EXCEPT ![h] = "ended"]
    /\ locked' = FALSE
    /\ dropped' = (dropped \/ task[h] = "running")
    /\ UNCHANGED <<data, task, pass, analyze>>

-----------------------------------------------------------------------------
\* 02:00 with the lock free: a retention pass starts.
StartPass ==
    /\ future[Scheduler] = "idle"
    /\ LockTaken(Scheduler)
    /\ table' = 1
    /\ targets' = stored \cap OldRows
    /\ UNCHANGED <<data, dropped, analyze>>

\* The old rows of the table the pass is in.
Expired == {row \in stored \cap OldRows : TableOf[row] = Tables[table]}

\* One batch: a transaction that deletes any BatchSize of them.
DeleteBatch ==
    /\ task[Scheduler] = "running"
    /\ table <= Len(Tables)
    /\ Cardinality(Expired) >= BatchSize
    /\ \E batch \in SUBSET Expired :
          /\ Cardinality(batch) = BatchSize
          /\ Keep(stored \ batch)
    /\ UNCHANGED <<arrived, noted, locked, future, task, pass, dropped, analyze>>

\* Mutant: one batch per table.
LastBatchAfterOne ==
    /\ task[Scheduler] = "running"
    /\ table <= Len(Tables)
    /\ \E batch \in SUBSET Expired :
          /\ Cardinality(batch) <= BatchSize
          /\ Keep(stored \ batch)
    /\ table' = table + 1
    /\ UNCHANGED <<arrived, noted, locked, future, task, targets, dropped, analyze>>

\* A batch with fewer rows is the last of its table.
LastBatch ==
    /\ task[Scheduler] = "running"
    /\ table <= Len(Tables)
    /\ Cardinality(Expired) < BatchSize
    /\ Keep(stored \ Expired)
    /\ table' = table + 1
    /\ UNCHANGED <<arrived, noted, locked, future, task, targets, dropped, analyze>>

\* The pass is recorded with the time it started at, and checkpointed.
RecordPass ==
    /\ task[Scheduler] = "running"
    /\ table > Len(Tables)
    /\ noted' \in {noted, TRUE}
    /\ task' = [task EXCEPT ![Scheduler] = "ended"]
    /\ UNCHANGED <<stored, arrived, fresh, locked, future, pass, dropped, analyze>>

\* Mutant: the guard is forgotten when the loop goes round.
EndPassLocked ==
    /\ future[Scheduler] = "guarded" /\ task[Scheduler] = "ended"
    /\ future' = [future EXCEPT ![Scheduler] = "idle"]
    /\ task' = [task EXCEPT ![Scheduler] = "none"]
    /\ UNCHANGED <<data, locked, pass, dropped, analyze>>

\* The scheduler joins its task, drops the guard and sleeps until the next night.
EndPass ==
    /\ future[Scheduler] = "guarded" /\ task[Scheduler] = "ended"
    /\ future' = [future EXCEPT ![Scheduler] = "idle"]
    /\ task' = [task EXCEPT ![Scheduler] = "none"]
    /\ locked' = FALSE
    /\ UNCHANGED <<data, pass, dropped, analyze>>

\* The task panicked: its connection is gone with it and the scheduler ends.
SchedulerEnds ==
    /\ future[Scheduler] = "guarded" /\ task[Scheduler] = "ended"
    /\ table <= Len(Tables)
    /\ future' = [future EXCEPT ![Scheduler] = "ended"]
    /\ locked' = FALSE
    /\ UNCHANGED <<data, task, pass, dropped, analyze>>

-----------------------------------------------------------------------------
\* Every minute the statistics task looks whether a small database is quiet.
DecideAnalyze ==
    /\ analyze = "idle"
    /\ fresh = {} /\ ~noted
    /\ analyze' = "decided"
    /\ UNCHANGED <<data, locked, future, task, pass, dropped>>

StartAnalyze ==
    /\ analyze = "decided"
    /\ analyze' = "running"
    /\ UNCHANGED <<data, locked, future, task, pass, dropped>>

EndAnalyze ==
    /\ analyze # "idle"
    /\ analyze' = "idle"
    /\ UNCHANGED <<data, locked, future, task, pass, dropped>>

Next ==
    \/ \E row \in Rows : Ingest(row)
    \/ Minute
    \/ \E h \in Handlers :
          StartPurgeAll(h) \/ RefusePurgeAll(h) \/ DeleteAll(h) \/ EndPurgeAll(h) \/ DropPurgeAll(h)
    \/ \E o \in Owners : TaskFails(o)
    \/ StartPass \/ DeleteBatch \/ LastBatch \/ RecordPass \/ EndPass \/ SchedulerEnds
    \/ DecideAnalyze \/ StartAnalyze \/ EndAnalyze

Spec == Init /\ [][Next]_vars

\* The blocking pool runs the pass, and the scheduler joins it.
Fairness ==
    /\ WF_vars(DeleteBatch \/ LastBatch \/ RecordPass)
    /\ WF_vars(EndPass \/ SchedulerEnds)

FairSpec == Spec /\ Fairness

-----------------------------------------------------------------------------
\* Types.
TypeOK ==
    /\ stored \subseteq arrived /\ arrived \subseteq Rows
    /\ fresh \subseteq stored /\ noted \in BOOLEAN /\ locked \in BOOLEAN /\ dropped \in BOOLEAN
    /\ future \in [Owners -> {"idle", "guarded", "ended"}]
    /\ task \in [Owners -> {"none", "running", "ended"}]
    /\ table \in 1..4
    /\ targets \subseteq OldRows
    /\ analyze \in {"idle", "decided", "running"}

\* The lock is held exactly while one future has the guard: no outcome of a purge,
\* an error, a panic or a disconnect, leaves it locked, and none unlocks another's.
LockFollowsGuard ==
    /\ locked <=> \E o \in Owners : future[o] = "guarded"
    /\ \A o, p \in Owners : future[o] = "guarded" /\ future[p] = "guarded" => o = p

\* Purges overlap only when a future was dropped over its running task.
OverlapOnlyByDrop == ~dropped => \A o, p \in Purging : o = p

\* A pass that gets to its record has deleted every old row that was stored when
\* it started, in whatever batches, beside any ingest and any other purge.
PassIsComplete ==
    table > Len(Tables) => stored \cap targets = {}

\* A pass comes to an end and gives its guard up, whatever of a bounded number of
\* rows arrives meanwhile, in batches that may or may not fill.
PassEnds == future[Scheduler] = "guarded" ~> future[Scheduler] # "guarded"

\* "Purge lock to prevent concurrent purge operations" (purge.rs).
OnePurge == Cardinality(Purging) <= 1

\* "it must never run while ingest or a purge can still be active" (stats.rs, of
\* ANALYZE at a quiet moment): it is not decided on while a purge is running.
QuietMeansNoPurge == [][analyze = "idle" /\ analyze' = "decided" => Purging = {}]_vars
=============================================================================
