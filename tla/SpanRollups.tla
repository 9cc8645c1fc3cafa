----------------------------- MODULE SpanRollups -----------------------------
(***************************************************************************)
(* The spans table of otelite-storage and the two rollup tables SQLite     *)
(* triggers keep beside it: trace_latest (newest start per trace) and      *)
(* spans_daily_llm (token sums per day, tool and model).                   *)
(*                                                                         *)
(* A step is one row event, the granularity at which SQLite fires the      *)
(* triggers.  All row events happen inside the single writer's             *)
(* transaction, so every committed state is one of the states here, and    *)
(* a rolled-back transaction returns to an earlier one.                    *)
(***************************************************************************)
EXTENDS Integers, FiniteSets, FiniteSetsExt

CONSTANTS
    Traces,      \* trace ids
    SpanIds,     \* span ids; a span is identified by (trace, span)
    Labels,      \* (tool, model) labels an LLM span is counted under
    NotLlm,      \* label of a span the LLM guard or the JSON validity check rejects
    TokenKinds,  \* the token columns of spans_daily_llm
    Tokens,      \* token counts a span may carry
    MaxTime,     \* start times are 0..MaxTime
    DayLength,   \* time units per calendar day
    NoRow        \* the table holds no row under this key

Times == 0..MaxTime

ASSUME SpanRollupsAssumption ==
    /\ MaxTime \in Nat
    /\ DayLength \in Nat \ {0}
    /\ Tokens \subseteq Nat
    /\ NotLlm \notin Labels
    /\ NoRow \notin Int
    /\ NoRow \notin [TokenKinds -> Int]

SpanRow == [trace : Traces, span : SpanIds, start : Times,
            label : Labels \cup {NotLlm}, tok : [TokenKinds -> Tokens]]

\* strftime('%Y-%m-%d', start_time): the UTC day of a timestamp.
Day(t) == t \div DayLength
Days   == {Day(t) : t \in Times}

VARIABLES
    spans,            \* the spans table: a set of rows
    trace_latest,     \* trace -> newest start time, or NoRow
    spans_daily_llm,  \* <<day, label>> -> token sums, or NoRow
    purge_cutoff      \* rows older than this are being purged; 0: no purge runs

vars == <<spans, trace_latest, spans_daily_llm, purge_cutoff>>

-----------------------------------------------------------------------------
\* The trigger bodies, as functions of the table they write.

SpansOf(rows, t) == {r \in rows : r.trace = t}

NewestStart(rows, t) ==
    IF SpansOf(rows, t) = {} THEN NoRow ELSE Max({r.start : r \in SpansOf(rows, t)})

\* Mutant: the conflict clause overwrites instead of taking the maximum.
TraceLatestOverwrite(table, r) == [table EXCEPT ![r.trace] = r.start]

\* trg_trace_latest_ai: MAX-merge on conflict.
TraceLatestInsert(table, r) ==
    [table EXCEPT ![r.trace] = IF @ = NoRow \/ r.start > @ THEN r.start ELSE @]

\* Mutant: no delete trigger.
TraceLatestKept(table, rest, r) == table

\* trg_trace_latest_ad: recompute only when the deleted row was the newest.
TraceLatestDelete(table, rest, r) ==
    IF table[r.trace] = r.start
    THEN [table EXCEPT ![r.trace] = NewestStart(rest, r.trace)]
    ELSE table

LlmKey(r) == <<Day(r.start), r.label>>

Sums(row) == IF row = NoRow THEN [k \in TokenKinds |-> 0] ELSE row

\* trg_spans_daily_llm_ai: insert, or add to the existing sums.
LlmInsert(table, r) ==
    IF r.label = NotLlm THEN table
    ELSE [table EXCEPT ![LlmKey(r)] = [k \in TokenKinds |-> Sums(@)[k] + r.tok[k]]]

\* Mutant: the row goes with the first token column that reaches zero.
LlmDeleteEager(table, r) ==
    IF r.label = NotLlm \/ table[LlmKey(r)] = NoRow THEN table
    ELSE LET left == [k \in TokenKinds |-> table[LlmKey(r)][k] - r.tok[k]]
         IN  [table EXCEPT ![LlmKey(r)] =
                 IF \E k \in TokenKinds : left[k] <= 0 THEN NoRow ELSE left]

\* trg_spans_daily_llm_ad: subtract, then drop the row once nothing is left.
LlmDelete(table, r) ==
    IF r.label = NotLlm \/ table[LlmKey(r)] = NoRow THEN table
    ELSE LET left == [k \in TokenKinds |-> table[LlmKey(r)][k] - r.tok[k]]
         IN  [table EXCEPT ![LlmKey(r)] =
                 IF \A k \in TokenKinds : left[k] <= 0 THEN NoRow ELSE left]

-----------------------------------------------------------------------------
\* What the v4 migration computes from the spans table alone.

BackfillTraceLatest(rows) == [t \in Traces |-> NewestStart(rows, t)]

LlmSpansOf(rows, key) == {r \in rows : r.label # NotLlm /\ LlmKey(r) = key}

\* SUM(tokens), counted: a row has a unit for every token of its count.
TokenUnits(rows, k) == UNION {{r} \X (1..r.tok[k]) : r \in rows}
TokenSum(rows, k)   == Cardinality(TokenUnits(rows, k))

BackfillDailyLlm(rows) ==
    [key \in Days \X Labels |->
        IF LlmSpansOf(rows, key) = {} THEN NoRow
        ELSE [k \in TokenKinds |-> TokenSum(LlmSpansOf(rows, key), k)]]

-----------------------------------------------------------------------------
Init ==
    /\ spans = {}
    /\ trace_latest = [t \in Traces |-> NoRow]
    /\ spans_daily_llm = [key \in Days \X Labels |-> NoRow]
    /\ purge_cutoff = 0

Stored(r) == \E s \in spans : s.trace = r.trace /\ s.span = r.span

\* write_span: a new identity is inserted and fires both insert triggers.
InsertSpan(r) ==
    /\ ~Stored(r)
    /\ spans' = spans \cup {r}
    /\ trace_latest' = TraceLatestInsert(trace_latest, r)
    /\ spans_daily_llm' = LlmInsert(spans_daily_llm, r)
    /\ UNCHANGED purge_cutoff

\* write_span: ON CONFLICT(trace_id, span_id) DO NOTHING, no trigger fires.
InsertRetriedSpan(r) ==
    /\ Stored(r)
    /\ UNCHANGED vars

\* purge_table("spans", cutoff); purge_all deletes with no cutoff, which is
\* the cutoff above every timestamp.
StartPurge(cutoff) ==
    /\ purge_cutoff = 0
    /\ purge_cutoff' = cutoff
    /\ UNCHANGED <<spans, trace_latest, spans_daily_llm>>

\* One row of a DELETE batch.  The batch's SELECT has a LIMIT and no ORDER BY:
\* any row under the cutoff may go first.
DeleteSpan(r) ==
    /\ r.start < purge_cutoff
    /\ spans' = spans \ {r}
    /\ trace_latest' = TraceLatestDelete(trace_latest, spans \ {r}, r)
    /\ spans_daily_llm' = LlmDelete(spans_daily_llm, r)
    /\ UNCHANGED purge_cutoff

\* The batch loop ends: nothing is left under the cutoff, or a batch failed.
EndPurge ==
    /\ purge_cutoff # 0
    /\ purge_cutoff' = 0
    /\ UNCHANGED <<spans, trace_latest, spans_daily_llm>>

Next ==
    \/ \E r \in SpanRow : InsertSpan(r)
    \/ \E r \in SpanRow : InsertRetriedSpan(r)
    \/ \E cutoff \in 1..(MaxTime + 1) : StartPurge(cutoff)
    \/ \E r \in spans : DeleteSpan(r)
    \/ EndPurge

Spec == Init /\ [][Next]_vars

-----------------------------------------------------------------------------
\* Types of the tables.
TypeOK ==
    /\ spans \subseteq SpanRow
    /\ trace_latest \in [Traces -> Times \cup {NoRow}]
    /\ spans_daily_llm \in [Days \X Labels -> [TokenKinds -> Int] \cup {NoRow}]
    /\ purge_cutoff \in 0..(MaxTime + 1)

\* trace_latest never drifts from the spans table: it has a row exactly for the
\* traces that still have spans, and that row is the newest start, after any
\* order of late inserts, retries and partial purges.  The trace list reads
\* only this table.
TraceLatestIsNewest ==
    \A t \in Traces :
        IF SpansOf(spans, t) = {} THEN trace_latest[t] = NoRow
        ELSE /\ \E r \in SpansOf(spans, t) : trace_latest[t] = r.start
             /\ \A r \in SpansOf(spans, t) : r.start <= trace_latest[t]

\* The token sums of the day/tool/model report are those of the stored spans;
\* an absent row stands for zero.  In particular the decrements of a partial
\* purge never undershoot and never drop a row that still carries tokens.
DailyLlmIsSum ==
    \A key \in Days \X Labels, k \in TokenKinds :
        Sums(spans_daily_llm[key])[k] = TokenSum(LlmSpansOf(spans, key), k)

\* "so trigger and backfill cannot drift apart" (schema.rs): the maintained
\* table is the one the v4 backfill would compute from the same spans.
DailyLlmMatchesBackfill == spans_daily_llm = BackfillDailyLlm(spans)
=============================================================================
