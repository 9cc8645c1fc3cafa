------------------------------ MODULE TraceList ------------------------------
(***************************************************************************)
(* The trace list of otelite-storage (query_trace_summaries) running on a  *)
(* pooled read connection while the writer ingests and purges spans.  The  *)
(* query is several SELECT statements and opens no read transaction, so    *)
(* each statement sees its own snapshot: a commit of SpanRollups may fall  *)
(* between any two of them.                                                *)
(***************************************************************************)
EXTENDS SpanRollups, SequencesExt

CONSTANTS
    Limits,          \* values of trace_limit a client asks for
    LabelledSpans    \* bound of the run, see Apart

ASSUME TraceListAssumption == Limits \subseteq Nat

VARIABLES
    reader,     \* "idle", or the statement the query runs next
    request,    \* [limit, start] of the running query
    ids,        \* trace ids selected by select_recent_trace_ids
    entries,    \* traces the aggregate statement returned a row for
    unnamed,    \* traces whose root span name is still to be looked up
    unknown,    \* traces reported with the root name "Unknown"
    overlapped  \* history: a span was deleted while the query ran

readVars == <<reader, request, ids, entries, unnamed, unknown, overlapped>>
allVars  == <<vars, readVars>>

-----------------------------------------------------------------------------
\* select_recent_trace_ids, without end bound or predicates: the sets of ids
\* it may return.  Traces of equal newest start are in no particular order.

LeastOf(a, b) == IF a <= b THEN a ELSE b

TopByRollup(req) ==
    LET inWindow == {t \in Traces : trace_latest[t] # NoRow /\ trace_latest[t] >= req.start}
    IN  {s \in SUBSET inWindow :
            /\ Cardinality(s) = LeastOf(req.limit, Cardinality(inWindow))
            /\ \A t \in s, u \in inWindow \ s : trace_latest[t] >= trace_latest[u]}

\* The reverse walk of spans by start_time that predicates force, and the traces of its
\* first n rows.  Rows of equal start are in no particular order.
ScanOrders(rows) ==
    {w \in SetToSeqs(rows) : \A i, j \in DOMAIN w : i < j => w[i].start >= w[j].start}

Met(w, n) == {w[i].trace : i \in 1..n}

\* Mutant: the walk stops one distinct trace late.
SelectedLate(req, w, i) ==
    /\ w[i].start >= req.start
    /\ \A j \in 1..(i - 1) : w[j].start >= req.start /\ Cardinality(Met(w, j)) <= req.limit

\* Row i selects its trace when it lies in the window and the loop did not break at a row
\* before it: one below the window, or the one with the limit-th distinct trace.
Selected(req, w, i) ==
    /\ w[i].start >= req.start
    /\ \A j \in 1..(i - 1) : w[j].start >= req.start /\ Cardinality(Met(w, j)) < req.limit

Walked(req, w) == {w[i].trace : i \in {j \in DOMAIN w : Selected(req, w, j)}}

TopByWalk(req) == IF req.limit = 0 THEN {{}} ELSE {Walked(req, w) : w \in ScanOrders(spans)}

-----------------------------------------------------------------------------
ReaderInit ==
    /\ reader = "idle"
    /\ request = [limit |-> 0, start |-> 0]
    /\ ids = {} /\ entries = {} /\ unnamed = {} /\ unknown = {}
    /\ overlapped = FALSE

\* Statement 1: the trace ids.  An empty answer ends the query.
SelectIds ==
    /\ reader = "idle"
    /\ \E limit \in Limits, start \in Times :
          LET req == [limit |-> limit, start |-> start]
          IN  \E top \in TopByRollup(req) :
                 /\ request' = req
                 /\ ids' = top
                 /\ reader' = IF top = {} THEN "idle" ELSE "aggregate"
    /\ entries' = {} /\ unnamed' = {} /\ unknown' = {}
    /\ overlapped' = FALSE
    /\ UNCHANGED vars

\* Statement 2: GROUP BY over the selected traces; one that lost its spans
\* meanwhile yields no row.
Aggregate ==
    /\ reader = "aggregate"
    /\ entries' = {t \in ids : SpansOf(spans, t) # {}}
    /\ unnamed' = ids
    /\ reader' = "root_names"
    /\ UNCHANGED <<vars, request, ids, unknown, overlapped>>

\* One statement per selected trace: the root span's name.  The COALESCE is
\* NULL when the trace has no span left, which is reported as "Unknown".
LookupRootName(t) ==
    /\ reader = "root_names"
    /\ t \in unnamed
    /\ unnamed' = unnamed \ {t}
    /\ unknown' = IF t \in entries /\ SpansOf(spans, t) = {} THEN unknown \cup {t} ELSE unknown
    /\ UNCHANGED <<vars, reader, request, ids, entries, overlapped>>

\* The sampled service names change no field above; the entries are returned.
Reply ==
    /\ reader = "root_names"
    /\ unnamed = {}
    /\ reader' = "idle"
    /\ UNCHANGED <<vars, request, ids, entries, unnamed, unknown, overlapped>>

\* A commit of the writer while the query is anywhere.
WriterStep ==
    /\ Next
    /\ overlapped' = (overlapped \/ ~(spans \subseteq spans'))
    /\ UNCHANGED <<reader, request, ids, entries, unnamed, unknown>>

TraceListInit == Init /\ ReaderInit

TraceListNext ==
    \/ SelectIds
    \/ Aggregate
    \/ \E t \in Traces : LookupRootName(t)
    \/ Reply
    \/ WriterStep

TraceListSpec == TraceListInit /\ [][TraceListNext]_allVars

\* The instance of the run: spans with a label or tokens, at most LabelledSpans of them, are
\* explored apart from the queries, which read neither.
Apart(rows) ==
    (\E r \in rows : r.label # NotLlm \/ \E k \in TokenKinds : r.tok[k] # 0) =>
        /\ Cardinality(rows) <= LabelledSpans
        /\ reader = "idle" /\ ids = {} /\ request = [limit |-> 0, start |-> 0]

ApartSpec == TraceListInit /\ [][TraceListNext /\ Apart(spans)']_allVars

-----------------------------------------------------------------------------
\* Types of the reader's state; only selected traces are reported.
ReaderTypeOK ==
    /\ reader \in {"idle", "aggregate", "root_names"}
    /\ request \in [limit : Limits \cup {0}, start : Times]
    /\ ids \subseteq Traces /\ entries \subseteq ids
    /\ unnamed \subseteq ids /\ unknown \subseteq entries
    /\ overlapped \in BOOLEAN

\* The rollup seek answers what the spans walk it replaced answers: the first
\* encounter of a trace in the reverse walk is its newest start, so the first
\* limit distinct traces are the top of trace_latest, in every window.
RollupAgreesWithWalk ==
    \A limit \in Limits, start \in Times :
        LET req == [limit |-> limit, start |-> start]
        IN  TopByRollup(req) = TopByWalk(req)

\* Ingest alone never disturbs a running query: a selected trace is missing
\* from the answer, or listed as "Unknown", only when a delete committed
\* between the query's statements.
IngestNeverDisturbs ==
    reader = "root_names" /\ ~overlapped => entries = ids /\ unknown = {}

\* "'Unknown' if the trace has no spans (not reachable via
\* select_recent_trace_ids ...)" (reader.rs).
UnknownRootUnreachable == unknown = {}
=============================================================================
