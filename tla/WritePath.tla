----------------------------- MODULE WritePath -----------------------------
(***************************************************************************)
(* One export from the exporter to the database.  A handler passes the     *)
(* maintenance gate and hands the batch to a blocking task; the task takes *)
(* the writer connection's mutex and writes the batch in one transaction.  *)
(* The handler ends with its request (a timeout, a disconnect), the task   *)
(* does not: it runs to its end, or to the crash of the process.  Beside   *)
(* them the statistics task holds the write lock while ANALYZE runs.       *)
(***************************************************************************)
EXTENDS Integers, FiniteSets

CONSTANTS
    Exports,      \* export batches, each of its own exporter request
    SpanExports,  \* those that carry spans; the others carry logs or metrics
    Rows,         \* rows of a batch; an empty batch is answered without a write
    MaxAttempts,  \* bound on the attempts an exporter makes for a batch
    MaxCrashes,   \* bound on the crashes of the process
    None          \* nobody

Attempts == 1..MaxAttempts
Requests == Exports \X Attempts

ASSUME WritePathAssumption ==
    /\ SpanExports \subseteq Exports
    /\ Rows \in Nat \ {0}
    /\ MaxAttempts \in Nat
    /\ MaxCrashes \in Nat
    /\ None \notin Requests

VARIABLES
    rows,      \* export -> row -> the attempts whose copy of it is stored
    client,    \* export -> "ready", "waiting" or "acked"
    sent,      \* export -> attempts made
    refused,   \* export -> attempts the exporter got an error reply for
    task,      \* request -> its state in the server
    writer,    \* the request whose task owns the writer connection, or None
    inserted,  \* rows its open transaction has written
    analyze,   \* the statistics task: "idle", "flagged", "running" or "ended"
    crashes

vars == <<rows, client, sent, refused, task, writer, inserted, analyze, crashes>>

Awaited(r) == client[r[1]] = "waiting" /\ sent[r[1]] = r[2]

\* check_maintenance_gate: the flag is set before ANALYZE and cleared after it.
maintenance_active == analyze # "idle"

\* INSERT OR IGNORE on (trace_id, span_id); logs and metrics are append-only.
StoredRow(e, a, copies) == IF e \in SpanExports /\ copies # {} THEN copies ELSE copies \cup {a}

-----------------------------------------------------------------------------
Init ==
    /\ rows = [e \in Exports |-> [i \in 1..Rows |-> {}]]
    /\ client = [e \in Exports |-> "ready"]
    /\ sent = [e \in Exports |-> 0]
    /\ refused = [e \in Exports |-> {}]
    /\ task = [r \in Requests |-> "none"]
    /\ writer = None
    /\ inserted = 0
    /\ analyze = "idle"
    /\ crashes = 0

\* The exporter sends the batch, for the first time or again.
Send(e) ==
    /\ client[e] = "ready"
    /\ sent[e] < MaxAttempts
    /\ client' = [client EXCEPT ![e] = "waiting"]
    /\ sent' = [sent EXCEPT ![e] = @ + 1]
    /\ task' = [task EXCEPT ![<<e, sent[e] + 1>>] = "received"]
    /\ UNCHANGED <<rows, refused, writer, inserted, analyze, crashes>>

\* write_in_transaction refuses at the gate.
GateRefuses(r) ==
    /\ task[r] = "received"
    /\ maintenance_active
    /\ task' = [task EXCEPT ![r] = "failed"]
    /\ UNCHANGED <<rows, client, sent, refused, writer, inserted, analyze, crashes>>

\* write_in_transaction passes the gate and spawns the blocking task.
Spawn(r) ==
    /\ task[r] = "received"
    /\ ~maintenance_active
    /\ task' = [task EXCEPT ![r] = "spawned"]
    /\ UNCHANGED <<rows, client, sent, refused, writer, inserted, analyze, crashes>>

\* The task locks the connection's mutex and begins; BEGIN takes no write lock.
Begin(r) ==
    /\ task[r] = "spawned"
    /\ writer = None
    /\ writer' = r
    /\ inserted' = 0
    /\ task' = [task EXCEPT ![r] = "writing"]
    /\ UNCHANGED <<rows, client, sent, refused, analyze, crashes>>

\* Mutant: the rows are written outside a transaction.
InsertRowAutocommit(r) ==
    /\ writer = r
    /\ inserted < Rows
    /\ analyze # "running"
    /\ inserted' = inserted + 1
    /\ rows' = [rows EXCEPT ![r[1]][inserted'] = StoredRow(r[1], r[2], @)]
    /\ UNCHANGED <<client, sent, refused, task, writer, analyze, crashes>>

\* One row; the first takes the write lock, which ANALYZE may hold.
InsertRow(r) ==
    /\ writer = r
    /\ inserted < Rows
    /\ analyze # "running"
    /\ inserted' = inserted + 1
    /\ UNCHANGED <<rows, client, sent, refused, task, writer, analyze, crashes>>

\* The transaction ends and the mutex is released.
EndTransaction(r, outcome) ==
    /\ writer' = None
    /\ inserted' = 0
    /\ task' = [task EXCEPT ![r] = outcome]
    /\ UNCHANGED <<client, sent, refused, analyze, crashes>>

\* Mutant: the mutex stays locked after a failed row.
RowFailsHoldingMutex(r) ==
    /\ writer = r
    /\ inserted < Rows
    /\ inserted' = 0
    /\ task' = [task EXCEPT ![r] = "failed"]
    /\ UNCHANGED <<rows, client, sent, refused, writer, analyze, crashes>>

\* A row fails (a full disk, the busy timeout against ANALYZE or a purge): the
\* whole transaction is rolled back.
RowFails(r) ==
    /\ writer = r
    /\ inserted < Rows
    /\ UNCHANGED rows
    /\ EndTransaction(r, "failed")

\* The rows of export e as a commit of attempt a leaves them.
Committed(e, a) ==
    [rows EXCEPT ![e] = [i \in 1..Rows |-> StoredRow(e, a, rows[e][i])]]

Commit(r) ==
    /\ writer = r
    /\ inserted = Rows
    /\ rows' = Committed(r[1], r[2])
    /\ EndTransaction(r, "committed")

\* COMMIT fails; the transaction is rolled back when it is dropped.
CommitFails(r) ==
    /\ writer = r
    /\ inserted = Rows
    /\ UNCHANGED rows
    /\ EndTransaction(r, "failed")

\* Mutant: the reply does not wait for the task.
ReplySuccessEarly(r) ==
    /\ Awaited(r)
    /\ task[r] \in {"spawned", "writing", "committed"}
    /\ client' = [client EXCEPT ![r[1]] = "acked"]
    /\ UNCHANGED <<rows, sent, refused, task, writer, inserted, analyze, crashes>>

\* The task is joined and the export answered.
ReplySuccess(r) ==
    /\ Awaited(r)
    /\ task[r] = "committed"
    /\ client' = [client EXCEPT ![r[1]] = "acked"]
    /\ UNCHANGED <<rows, sent, refused, task, writer, inserted, analyze, crashes>>

ReplyError(r) ==
    /\ Awaited(r)
    /\ task[r] = "failed"
    /\ client' = [client EXCEPT ![r[1]] = "ready"]
    /\ refused' = [refused EXCEPT ![r[1]] = @ \cup {r[2]}]
    /\ UNCHANGED <<rows, sent, task, writer, inserted, analyze, crashes>>

\* No answer reaches the exporter: its own timeout, the 30 s timeout of the gRPC
\* server, a lost connection.  The handler is dropped, possibly before its gate;
\* a spawned task goes on.
GiveUp(r) ==
    /\ Awaited(r)
    /\ client' = [client EXCEPT ![r[1]] = "ready"]
    /\ \/ UNCHANGED task
       \/ /\ task[r] = "received"
          /\ task' = [task EXCEPT ![r] = "gone"]
    /\ UNCHANGED <<rows, sent, refused, writer, inserted, analyze, crashes>>

\* start_stats_maintenance: the flag is set, ANALYZE takes the write lock if no
\* writing transaction holds it, runs, and the flag is cleared.
SetFlag ==
    /\ analyze = "idle"
    /\ analyze' = "flagged"
    /\ UNCHANGED <<rows, client, sent, refused, task, writer, inserted, crashes>>

StartAnalyze ==
    /\ analyze = "flagged"
    /\ inserted = 0
    /\ analyze' = "running"
    /\ UNCHANGED <<rows, client, sent, refused, task, writer, inserted, crashes>>

EndAnalyze ==
    /\ analyze = "running"
    /\ analyze' = "ended"
    /\ UNCHANGED <<rows, client, sent, refused, task, writer, inserted, crashes>>

\* Also when the statistics were fresh after all, or ANALYZE timed out.
ClearFlag ==
    /\ analyze \in {"flagged", "ended"}
    /\ analyze' = "idle"
    /\ UNCHANGED <<rows, client, sent, refused, task, writer, inserted, crashes>>

\* What a crash leaves: no task, no open transaction, no waiting exporter.
ProcessLost ==
    /\ crashes < MaxCrashes
    /\ crashes' = crashes + 1
    /\ client' = [e \in Exports |-> IF client[e] = "waiting" THEN "ready" ELSE client[e]]
    /\ task' = [r \in Requests |->
                  IF task[r] \in {"received", "spawned", "writing"} THEN "gone" ELSE task[r]]
    /\ writer' = None /\ inserted' = 0 /\ analyze' = "idle"
    /\ UNCHANGED <<sent, refused>>

\* Mutant: commits that were not checkpointed are lost.
CrashLosesCommits ==
    /\ rows' = [e \in Exports |-> [i \in 1..Rows |-> {}]]
    /\ ProcessLost

\* The process or the host dies and is started again; WAL with synchronous=FULL
\* keeps what was committed.
Crash ==
    /\ UNCHANGED rows
    /\ ProcessLost

WriteStep(r) == InsertRow(r) \/ RowFails(r) \/ Commit(r) \/ CommitFails(r)

Next ==
    \/ \E e \in Exports : Send(e)
    \/ \E r \in Requests :
          \/ GateRefuses(r) \/ Spawn(r) \/ Begin(r)
          \/ InsertRow(r) \/ RowFails(r) \/ Commit(r) \/ CommitFails(r)
          \/ ReplySuccess(r) \/ ReplyError(r) \/ GiveUp(r)
    \/ SetFlag \/ StartAnalyze \/ EndAnalyze \/ ClearFlag
    \/ Crash

Spec == Init /\ [][Next]_vars

\* The runtime polls a handler that can go on, the blocking pool runs its tasks,
\* a statement ends (it fails at its busy timeout at the latest), and the mutex
\* goes to a waiting task.  Nothing obliges an exporter, ANALYZE or a crash.
Fairness ==
    \A r \in Requests :
        /\ WF_vars(GateRefuses(r) \/ Spawn(r))
        /\ WF_vars(Begin(r))
        /\ WF_vars(WriteStep(r))
        /\ WF_vars(ReplySuccess(r) \/ ReplyError(r))

FairSpec == Spec /\ Fairness

-----------------------------------------------------------------------------
\* Types.
TypeOK ==
    /\ rows \in [Exports -> [1..Rows -> SUBSET Attempts]]
    /\ client \in [Exports -> {"ready", "waiting", "acked"}]
    /\ sent \in [Exports -> 0..MaxAttempts]
    /\ refused \in [Exports -> SUBSET Attempts]
    /\ task \in [Requests -> {"none", "received", "spawned", "writing",
                              "committed", "failed", "gone"}]
    /\ writer \in Requests \cup {None}
    /\ inserted \in 0..Rows
    /\ analyze \in {"idle", "flagged", "running", "ended"}
    /\ crashes \in 0..MaxCrashes
    /\ writer = None => inserted = 0

\* A reader never sees, and a crash never leaves, part of a batch: the copies of
\* every row of a batch come from the same attempts.
WholeBatches ==
    \A e \in Exports : \A i, j \in 1..Rows : rows[e][i] = rows[e][j]

\* An acknowledged batch is stored, also after timeouts, retries and crashes.
AckedStored ==
    \A e \in Exports : client[e] = "acked" => \A i \in 1..Rows : rows[e][i] # {}

\* "a failure rolls back every record, so the exporter's retry of the rejected
\* export cannot duplicate the records" (signals): an attempt answered with an
\* error has left nothing and will leave nothing, whatever stage refused it.
RefusedLeavesNothing ==
    \A e \in Exports, a \in Attempts, i \in 1..Rows :
        a \in refused[e] => a \notin rows[e][i]

\* Whatever fails, a row, a commit, the gate, the process, leaves no part of a batch, and
\* nothing at all of an attempt the exporter was told has failed.
FailuresLeaveNothing == WholeBatches /\ RefusedLeavesNothing

\* Every attempt comes to an end on the exporter's side: no failure of a row, a
\* commit or the gate leaves a later write waiting for the connection.
EveryAttemptAnswered ==
    \A e \in Exports : client[e] = "waiting" ~> client[e] # "waiting"

\* The write path implements the abstract store.
Store == INSTANCE BatchStore WITH
    copies <- [e \in Exports |-> rows[e][1]],
    acked <- {e \in Exports : client[e] = "acked"}

StoreSpec == Store!Spec

\* "a failure rolls back every record, so the exporter's retry of the rejected
\* export cannot duplicate the records that already committed" (signals/logs.rs),
\* for an export that fails by the server's timeout as well: a batch is stored once.
StoredOnce ==
    \A e \in Exports, i \in 1..Rows : \A a, b \in rows[e][i] : a = b

\* "The write path fails fast against it instead of waiting out the 10 s busy
\* timeout" (sqlite/mod.rs): no write is at its first row while ANALYZE runs.
NeverWaitsForAnalyze == analyze = "running" => writer = None
=============================================================================
