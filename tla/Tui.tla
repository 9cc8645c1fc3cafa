-------------------------------- MODULE Tui --------------------------------
(***************************************************************************)
(* The event loop of the terminal UI: one key, then one refresh, for the   *)
(* logs and the traces view (the metrics view is a traces list without     *)
(* detail, the usage view keeps what it fetched).  A selection is an index *)
(* into what the filters leave of a list that the next refresh replaces; a *)
(* detail panel shows an item that was cached for it.                      *)
(***************************************************************************)
EXTENDS Integers, FiniteSets, Sequences

CONSTANTS
    Logs, Stamp,          \* log entries, the timestamp of each
    TraceOf,              \* log -> its trace, or None
    Traces, SpanCount,    \* traces, the number of spans of each
    Passing,              \* the items a filter lets through
    Found,                \* the logs and traces a typed search finds
    Page,                 \* ten rows
    None

VARIABLES
    phase,                \* "key" or "refresh": where the loop is
    view,
    prompt,               \* the filter prompt is open
    logs, log_index, log_detail, cached, auto_scroll, log_filter, log_search,
    traces, trace_index, trace_detail, span_detail, span_index,
    trace_filter, trace_search,
    details,              \* traces whose details are cached and not expired
    pending,              \* pending_detail_load
    followed,             \* history: logs, filters and search as at the last move or Enter
    settled               \* history: the same for the traces view and its details

logVars   == <<logs, log_index, log_detail, cached, auto_scroll, log_filter, log_search, followed>>
traceVars == <<traces, trace_index, trace_detail, span_detail, span_index, trace_filter,
               trace_search, pending, settled>>
vars      == <<phase, view, prompt, logVars, traceVars, details>>

\* The metrics and the usage view are "other".
Views == {"logs", "traces", "other", "help"}

\* filtered_logs and filtered_traces, as the places they leave of the list; a search for a
\* trace id finds that trace.
FilteredLogs ==
    {i \in DOMAIN logs : (log_filter => logs[i] \in Passing) /\ (log_search => logs[i] \in Found)}
FilteredTraces ==
    {i \in DOMAIN traces :
        /\ trace_filter => traces[i] \in Passing
        /\ trace_search = "typed" => traces[i] \in Found
        /\ trace_search \in Traces => traces[i] = trace_search}

\* A selection is the number of rows above the selected one.
Row(list, shown, i) ==
    LET at == {p \in shown : Cardinality({q \in shown : q < p}) = i}
    IN  IF at = {} THEN None ELSE list[CHOOSE p \in at : TRUE]
SelectedLog    == Row(logs, FilteredLogs, log_index)
SelectedTrace  == Row(traces, FilteredTraces, trace_index)
Loaded         == SelectedTrace \in details
StampOf(l)     == IF l = None THEN None ELSE Stamp[l]

\* refresh_detail_cache clones the selected log when its timestamp is another one.
CacheFor(l)    == IF StampOf(l) = StampOf(cached) THEN cached ELSE l

Clamp(i, list) == IF i >= Len(list) /\ list # <<>> THEN Len(list) - 1 ELSE i
Least(a, b)    == IF a < b THEN a ELSE b
Down(i, n, len) == IF len > 0 THEN Least(i + n, len - 1) ELSE i
Up(i, n)        == IF i < n THEN 0 ELSE i - n

Init ==
    /\ phase = "refresh" /\ view \in {"logs", "traces", "other"} /\ prompt = FALSE
    /\ logs = <<>> /\ log_index = 0 /\ log_detail = FALSE /\ cached = None
    /\ auto_scroll = FALSE /\ log_filter = FALSE /\ log_search = FALSE
    /\ traces = <<>> /\ trace_index = 0 /\ trace_detail = FALSE /\ span_detail = FALSE
    /\ span_index = 0 /\ trace_filter = FALSE /\ trace_search = None
    /\ details = {} /\ pending = None
    /\ followed = TRUE /\ settled = TRUE

-----------------------------------------------------------------------------
\* The filter prompt takes every key while it is open.

OpenPrompt ==
    /\ ~prompt /\ view \in {"logs", "traces"}
    /\ prompt' = TRUE
    /\ UNCHANGED <<view, logVars, traceVars, details>>

Type ==
    /\ prompt
    /\ UNCHANGED <<view, prompt, logVars, traceVars, details>>

\* Enter applies what was typed since, Esc or an empty prompt changes nothing.
ClosePrompt ==
    /\ prompt /\ prompt' = FALSE
    /\ \/ UNCHANGED <<logVars, traceVars>>
       \/ \E filter, search \in BOOLEAN :
             /\ view = "logs" /\ filter # search
             /\ log_filter' = (log_filter \/ filter) /\ log_search' = (log_search \/ search)
             /\ log_index' = 0 /\ followed' = FALSE
             /\ UNCHANGED <<logs, log_detail, cached, auto_scroll, traceVars>>
       \/ \E filter, search \in BOOLEAN :
             /\ view = "traces" /\ filter # search
             /\ trace_filter' = (trace_filter \/ filter)
             /\ trace_search' = IF search THEN "typed" ELSE trace_search
             /\ trace_index' = 0 /\ settled' = FALSE
             /\ UNCHANGED <<traces, trace_detail, span_detail, span_index, pending, logVars>>
    /\ UNCHANGED <<view, details>>

SwitchView ==
    /\ ~prompt
    /\ view' \in Views
    /\ UNCHANGED <<prompt, logVars, traceVars, details>>

-----------------------------------------------------------------------------
\* The logs view.

SelectLog(i) ==
    /\ log_index' = i
    /\ auto_scroll' = FALSE
    /\ cached' = IF log_detail THEN CacheFor(Row(logs, FilteredLogs, i)) ELSE cached
    /\ followed' = TRUE
    /\ UNCHANGED <<logs, log_detail, log_filter, log_search>>

\* select_previous and select_next, or a page while no detail is open (an open one scrolls).
MoveLog ==
    \/ log_index > 0 /\ SelectLog(log_index - 1)
    \/ log_index + 1 < Cardinality(FilteredLogs) /\ SelectLog(log_index + 1)
    \/ ~log_detail /\ FilteredLogs # {} /\ SelectLog(Down(log_index, Page, Cardinality(FilteredLogs)))
    \/ ~log_detail /\ SelectLog(Up(log_index, Page))

ToggleAutoScroll ==
    /\ auto_scroll' = ~auto_scroll
    /\ log_index' = IF ~auto_scroll /\ logs # <<>> THEN Len(logs) - 1 ELSE log_index
    /\ followed' = FALSE
    /\ UNCHANGED <<logs, log_detail, cached, log_filter, log_search>>

OpenLog ==
    /\ ~log_detail
    /\ log_detail' = TRUE
    /\ cached' = CacheFor(SelectedLog)
    /\ followed' = TRUE
    /\ UNCHANGED <<logs, log_index, auto_scroll, log_filter, log_search>>

LogKey ==
    /\ view = "logs" /\ ~prompt
    /\ MoveLog \/ ToggleAutoScroll \/ OpenLog
    /\ UNCHANGED <<view, prompt, traceVars, details>>

\* Enter on an open log jumps to its trace.
JumpToTrace ==
    /\ view = "logs" /\ ~prompt /\ log_detail
    /\ cached # None /\ TraceOf[cached] # None
    /\ view' = "traces"
    /\ trace_search' = TraceOf[cached]
    /\ trace_index' = 0 /\ settled' = FALSE
    /\ UNCHANGED <<prompt, logVars, traces, trace_detail, span_detail, span_index, trace_filter,
                   pending, details>>

-----------------------------------------------------------------------------
\* The traces view.

SelectTrace(i) ==
    /\ trace_index' = i
    /\ UNCHANGED <<traces, trace_detail, span_detail, span_index, trace_filter, trace_search,
                   pending, settled>>

MoveTrace ==
    /\ ~trace_detail
    /\ \/ SelectTrace(Up(trace_index, 1))
       \/ trace_index + 1 < Cardinality(FilteredTraces) /\ SelectTrace(trace_index + 1)
       \/ SelectTrace(Down(trace_index, Page, Cardinality(FilteredTraces)))
       \/ SelectTrace(Up(trace_index, Page))

\* Mutant: the last row is one too far.
MoveSpanTooFar ==
    /\ trace_detail /\ ~span_detail /\ Loaded
    /\ span_index' = Least(span_index + Page, SpanCount[SelectedTrace])
    /\ UNCHANGED <<traces, trace_index, trace_detail, span_detail, trace_filter, trace_search,
                   pending, settled>>

\* Moves through the spans of a loaded trace; PageUp works without one, too.
MoveSpan ==
    /\ trace_detail /\ ~span_detail
    /\ \/ Loaded /\ span_index' = Up(span_index, 1)
       \/ Loaded /\ span_index + 1 < SpanCount[SelectedTrace] /\ span_index' = span_index + 1
       \/ Loaded /\ span_index' = Down(span_index, Page, SpanCount[SelectedTrace])
       \/ span_index' = Up(span_index, Page)
    /\ UNCHANGED <<traces, trace_index, trace_detail, span_detail, trace_filter, trace_search,
                   pending, settled>>

OpenTrace ==
    /\ ~trace_detail
    /\ trace_detail' = TRUE
    /\ pending' = IF SelectedTrace # None /\ ~Loaded THEN SelectedTrace ELSE pending
    /\ span_index' = 0 /\ span_detail' = FALSE
    /\ settled' = TRUE
    /\ UNCHANGED <<traces, trace_index, trace_filter, trace_search>>

OpenSpan ==
    /\ trace_detail /\ ~span_detail
    /\ span_detail' = TRUE
    /\ UNCHANGED <<traces, trace_index, trace_detail, span_index, trace_filter, trace_search,
                   pending, settled>>

TraceKey ==
    /\ view = "traces" /\ ~prompt
    /\ MoveTrace \/ MoveSpan \/ OpenTrace \/ OpenSpan
    /\ UNCHANGED <<view, prompt, logVars, details>>

-----------------------------------------------------------------------------
\* Esc: the filters of the view, then its innermost panel, one at a time.
BackTrace ==
    \/ /\ trace_filter
       /\ trace_filter' = FALSE /\ trace_index' = 0 /\ settled' = FALSE
       /\ UNCHANGED <<traces, trace_detail, span_detail, span_index, trace_search, pending>>
    \/ /\ ~trace_filter /\ span_detail
       /\ span_detail' = FALSE
       /\ UNCHANGED <<traces, trace_index, trace_detail, span_index, trace_filter, trace_search,
                      pending, settled>>
    \/ /\ ~trace_filter /\ ~span_detail /\ trace_detail
       /\ trace_detail' = FALSE /\ span_index' = 0
       /\ UNCHANGED <<traces, trace_index, span_detail, trace_filter, trace_search, pending, settled>>

BackLog ==
    \/ /\ log_filter
       /\ log_filter' = FALSE /\ log_index' = 0 /\ followed' = FALSE
       /\ UNCHANGED <<logs, log_detail, cached, auto_scroll, log_search>>
    \/ /\ ~log_filter /\ log_detail
       /\ log_detail' = FALSE
       /\ UNCHANGED <<logs, log_index, cached, auto_scroll, log_filter, log_search, followed>>

Back ==
    /\ ~prompt
    /\ \/ view = "help" /\ view' = "logs" /\ UNCHANGED <<logVars, traceVars>>
       \/ view = "logs" /\ BackLog /\ UNCHANGED <<view, traceVars>>
       \/ view = "traces" /\ BackTrace /\ UNCHANGED <<view, logVars>>
    /\ UNCHANGED <<prompt, details>>

Key ==
    /\ phase = "key" /\ phase' = "refresh"
    /\ \/ OpenPrompt \/ Type \/ ClosePrompt \/ SwitchView
       \/ LogKey \/ JumpToTrace \/ TraceKey \/ Back

-----------------------------------------------------------------------------
\* update_logs and update_traces with what the server holds, newest first; the newest
\* span of a trace can be another one at every refresh.

Listings(S) == {list \in UNION {[1..n -> S] : n \in 0..Cardinality(S)} :
                   \A i, j \in DOMAIN list : list[i] = list[j] => i = j}
NewestFirst(list) == \A i, j \in DOMAIN list : i < j => Stamp[list[i]] >= Stamp[list[j]]

UpdateLogs ==
    /\ view = "logs"
    /\ logs' \in {list \in Listings(Logs) : NewestFirst(list)}
    /\ log_index' = Clamp(IF auto_scroll /\ logs' # <<>> THEN Len(logs') - 1 ELSE log_index, logs')
    /\ followed' = FALSE
    /\ UNCHANGED <<log_detail, cached, auto_scroll, log_filter, log_search>>
    /\ UNCHANGED <<traces, trace_index, trace_detail, span_detail, span_index, trace_filter,
                   trace_search, settled>>

UpdateTraces ==
    /\ view = "traces"
    /\ traces' \in Listings(Traces)
    /\ trace_index' = Clamp(trace_index, traces')
    /\ settled' = FALSE
    /\ UNCHANGED <<logVars, trace_detail, span_detail, span_index, trace_filter, trace_search>>

\* refresh_if_needed: the pending detail, which can fail, then the list of the view
\* when its interval is over.
Refresh ==
    /\ phase = "refresh" /\ phase' = "key"
    /\ pending' = None
    /\ details' \in {details} \cup (IF pending = None THEN {} ELSE {details \cup {pending}})
    /\ \/ UpdateLogs \/ UpdateTraces
       \/ UNCHANGED <<logVars, traces, trace_index, trace_detail, span_detail, span_index,
                      trace_filter, trace_search, settled>>
    /\ UNCHANGED <<view, prompt>>

\* The five minutes of a cached detail are over.
Expire(t) ==
    /\ t \in details
    /\ details' = details \ {t}
    /\ UNCHANGED <<phase, view, prompt, logVars, traceVars>>

Next == Key \/ Refresh \/ \E t \in Traces : Expire(t)

Spec == Init /\ [][Next]_vars

-----------------------------------------------------------------------------
\* Types; a selection stays inside the list it was made in, however that shrinks.
TypeOK ==
    /\ phase \in {"key", "refresh"} /\ view \in Views
    /\ logs # <<>> => log_index \in 0..(Len(logs) - 1)
    /\ traces # <<>> => trace_index \in 0..(Len(traces) - 1)
    /\ cached \in Logs \cup {None} /\ trace_search \in Traces \cup {None, "typed"}
    /\ {prompt, log_detail, auto_scroll, log_filter, log_search, trace_detail, span_detail,
        trace_filter, followed, settled} \subseteq BOOLEAN
    /\ pending \in Traces \cup {None} /\ details \subseteq Traces

\* The span panel is inside the trace panel: Esc never leaves it behind.
SpanPanelInTracePanel == span_detail => trace_detail

\* While the list, the filters and the search are as they were at the last move, an
\* open log panel shows the selected log, or one of the same timestamp.
PanelShowsSelection ==
    log_detail /\ followed => StampOf(cached) = StampOf(SelectedLog)

\* The same for spans: the selected span is one of the open trace.
SpanInTrace ==
    trace_detail /\ settled /\ Loaded => span_index < SpanCount[SelectedTrace]

\* The comment of refresh_detail_cache, "when the timestamp has changed", takes a
\* timestamp for an identity: the panel shows the selected log.
PanelIsSelection == log_detail /\ followed => cached = SelectedLog

\* "type severity=ERROR or service=myapp or just text / Esc -> clears active filter"
\* (docs/tui-quickstart.md, logs view): when Esc has nothing left to clear or to close,
\* the view shows every log.
EscShowsAll ==
    view = "logs" /\ ~log_filter /\ ~log_detail => FilteredLogs = DOMAIN logs

\* "Ensure selected index is valid" (state/logs.rs): something is selected when
\* something is shown.
SomethingSelected == FilteredLogs # {} => SelectedLog # None
=============================================================================
