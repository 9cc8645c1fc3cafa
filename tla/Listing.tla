------------------------------ MODULE Listing ------------------------------
(***************************************************************************)
(* The list, detail and export endpoints of logs and traces, and what the  *)
(* command line makes of their answers.  The storage applies some filters  *)
(* and the limit, the handler the others and the offset.  The input is a   *)
(* store and a request; nothing changes it.  TraceList has the selection   *)
(* of traces at the limit; here every trace that qualifies is selected.    *)
(***************************************************************************)
EXTENDS Integers, Sequences, FiniteSets, FiniteSetsExt, SequencesExt

CONSTANTS
    LastTime,            \* logs have distinct times 1..LastTime
    Levels, Asked,       \* of logs, and of requests, Absent for none
    Limits, Offsets,
    Cap, ExportCap,      \* 1000 and 10000
    DefaultLimit,        \* 100 metrics
    SpanTimes, MaxSpans, SpanCap, Sampled,   \* 1000 spans of a trace, 5 rows at either end
    Absent

VARIABLE input

\* A log carries what the filter by resource asks for, or by session, or neither.
Carried == {"nothing", "resource", "session"}
Stores  == UNION {[T -> [level : Levels, carries : Carried]] : T \in SUBSET (1..LastTime)}
LogsInit ==
    \E store \in Stores, level \in Asked, filter \in {Absent, "resource", "session"},
       limit \in Limits, offset \in Offsets :
        input = [logs |-> store, level |-> level, filter |-> filter, limit |-> limit, offset |-> offset]

\* Spans by row number; a predicate holds on the marked ones.
Spans == {s \in [trace : {"t", "u"}, start : SpanTimes, end : SpanTimes,
                 service : {"a", "b"}, marked : BOOLEAN] : s.start <= s.end}
Tables(S) == UNION {[1..n -> S] : n \in 0..MaxSpans}
DetailInit ==
    \E spans \in Tables({s \in Spans : ~s.marked /\ (s.trace = "u" => s.start = 0 /\ s.service = "a")}) :
        input = [spans |-> spans]
TracesInit ==
    \E spans \in Tables({s \in Spans : s.service = "a"}),
       from, to \in SpanTimes \cup {Absent}, trace \in {"t", Absent}, marked \in BOOLEAN :
        /\ from # Absent /\ to # Absent => from < to      \* validate_time_range
        /\ input = [spans |-> spans, from |-> from, to |-> to, trace |-> trace, marked |-> marked]

-----------------------------------------------------------------------------
Rank   == [TRACE |-> 1, DEBUG |-> 5, INFO |-> 9, WARN |-> 13, ERROR |-> 17, FATAL |-> 21]
First(s, n) == SubSeq(s, 1, Min({n, Len(s)}))
Skip(s, n)  == SubSeq(s, n + 1, Len(s))

\* Mutant: without the DESC.
Oldest(times, n) == First(SetToSortSeq(times, <), n)

\* query_logs: the newest n of a set of times.
Newest(times, n) == First(SetToSortSeq(times, >), n)

Logs       == DOMAIN input.logs
Carries(t) == input.logs[t].carries

\* parse_severity: a level that is not known is no filter.
AtLevel(t) == input.level \in DOMAIN Rank => Rank[input.logs[t].level] >= Rank[input.level]

\* list_logs: the session is a predicate of the query, the resource is looked at afterwards.
Limit   == Min({input.limit, Cap})
Fetched == Newest({t \in Logs : AtLevel(t) /\ (input.filter = "session" => Carries(t) = "session")}, Limit)
ByResource(s) == IF input.filter = "resource" THEN SelectSeq(s, LAMBDA t : Carries(t) = "resource") ELSE s
Page(offset)  == First(Skip(ByResource(Fetched), offset), Limit)
ListLogs      == [logs |-> Page(input.offset), total |-> Len(ByResource(Fetched))]

\* export_logs has no predicates; get_log takes a window that includes both its ends.
ExportLogs == ByResource(Newest({t \in Logs : AtLevel(t)}, ExportCap))
GetLog(t)  == LET found == Newest({u \in Logs : t <= u /\ u <= t + 1}, 1)
              IN  IF found = <<>> THEN Absent ELSE found[1]

\* list_metrics, of metrics whose latest points are those times: without a limit all are
\* fetched, and the resource, as well as a part of the name, is looked for afterwards.
ListMetrics(limit, offset) ==
    LET fetched == Newest({t \in Logs : input.filter = "session" => Carries(t) = "session"},
                          IF limit = Absent THEN Cardinality(Logs) ELSE Min({limit, Cap}))
    IN  First(Skip(ByResource(fetched), offset), IF limit = Absent THEN DefaultLimit ELSE Min({limit, Cap}))

\* list_traces, of traces that started at those times: every filter is a predicate.
TracePage(offset) ==
    First(Skip(Newest({t \in Logs : input.filter = Absent \/ Carries(t) = input.filter}, Limit), offset), Limit)

\* filter_by_severity, on what the server has filtered: FATAL has no rank and stays.
ClientRank(level) == IF level \in DOMAIN Rank \ {"FATAL"} THEN Rank[level] ELSE 0
ClientKeeps(level) ==
    \/ input.level = Absent
    \/ ClientRank(level) >= ClientRank(input.level)
    \/ ClientRank(level) = 0

-----------------------------------------------------------------------------
Rows(trace)   == {i \in DOMAIN input.spans : input.spans[i].trace = trace}
Earliest(rows) == Min({input.spans[i].start : i \in rows})
LastEnd(rows)  == Max({input.spans[i].end : i \in rows})
Services(rows) == {input.spans[i].service : i \in rows}

\* query_trace_summaries: exact aggregates, the services from the first and last rows.
SampledRows(rows) == {i \in rows : i < Min(rows) + Sampled \/ i > Max(rows) - Sampled}
Summary(trace) ==
    LET rows == Rows(trace)
    IN  [start |-> Earliest(rows), duration |-> LastEnd(rows) - Earliest(rows), count |-> Cardinality(rows),
         services |-> Services(SampledRows(rows))]

\* get_trace: the newest SpanCap spans; rows with one start are in no particular order.
Details(trace) ==
    LET starts(rows) == {input.spans[i].start : i \in rows}
        newest == {rows \in SUBSET Rows(trace) :
                      /\ Cardinality(rows) = Min({SpanCap, Cardinality(Rows(trace))})
                      /\ \A i \in rows, j \in Rows(trace) \ rows : input.spans[i].start >= input.spans[j].start}
    IN  {[start |-> Earliest(rows), duration |-> LastEnd(rows) - Earliest(rows),
          count |-> Cardinality(rows), services |-> Services(rows)] : rows \in newest}

\* select_recent_trace_ids: by a span in the window, by the newest start of the trace, or
\* by a walk of the spans.
From(i) == input.from = Absent \/ input.spans[i].start >= input.from
To(i)   == input.to = Absent   \/ input.spans[i].end <= input.to
Marked(i) == input.marked => input.spans[i].marked
LastStart(trace) == Max({input.spans[i].start : i \in Rows(trace)})
ListedTraces ==
    LET stored == {t \in {"t", "u"} : Rows(t) # {}}
        qualifies(t) == \E i \in Rows(t) : From(i) /\ To(i) /\ Marked(i)
    IN  IF input.trace # Absent THEN {t \in stored \cap {input.trace} : qualifies(t)}
        ELSE IF input.marked    THEN {t \in stored : qualifies(t)}
        ELSE {t \in stored : /\ input.to = Absent   \/ LastStart(t) <= input.to
                             /\ input.from = Absent \/ LastStart(t) >= input.from}

\* export_traces: query_spans, with the same predicates.
Exported ==
    {i \in DOMAIN input.spans :
        From(i) /\ To(i) /\ Marked(i) /\ (input.trace # Absent => input.spans[i].trace = input.trace)}

-----------------------------------------------------------------------------
\* A page of logs is the newest matching logs after the offset, as far as the limit
\* reaches, and the total counts them; a resource is looked for among the newest only.
\* What is listed is exported too unless the export was cut; the command line drops
\* nothing the server sent; and every log that is listed opens.
LogListsAgree ==
    LET page     == ToSet(ListLogs.logs)
        matching == {t \in Logs : AtLevel(t) /\ (input.filter # Absent => Carries(t) = input.filter)}
        newer(S, t) == Cardinality({u \in S : u > t})
        reach    == IF input.filter = "resource" THEN {t \in Logs : AtLevel(t)} ELSE matching
    IN  /\ page = {t \in matching : newer(reach, t) < Limit /\ newer(matching, t) >= input.offset}
        /\ \A i \in 1..(Len(ListLogs.logs) - 1) : ListLogs.logs[i] > ListLogs.logs[i + 1]
        /\ ListLogs.total = Cardinality({t \in matching : newer(reach, t) < Limit})
        /\ Cardinality(Logs) <= ExportCap => page \subseteq ToSet(ExportLogs)
        /\ \A t \in page : ClientKeeps(input.logs[t].level) /\ GetLog(t) # Absent

\* A page of metrics without a limit starts where the one before it ends, so all that
\* match are reached, each once; with a limit, a page is of the newest fetched, and a page
\* of traces is what is left of the first.
PagesContinue ==
    LET matching == {t \in Logs : input.filter # Absent => Carries(t) = input.filter}
        n == Cardinality(matching)
        pages == [k \in 0..n |-> ToSet(ListMetrics(Absent, k * DefaultLimit))]
    IN  /\ matching = UNION {pages[k] : k \in 0..n}
        /\ \A j, k \in 0..n : j # k => pages[j] \cap pages[k] = {}
        /\ \A offset \in 0..n :
            /\ ToSet(ListMetrics(input.limit, offset)) \subseteq matching
            /\ ToSet(TracePage(offset)) \subseteq matching
            /\ TracePage(offset) = Skip(TracePage(0), offset)

\* The row of a trace in the list and its page agree up to SpanCap spans, the services
\* that the sample left out aside; above, the page shows less, never more.
TraceMatchesItsRow ==
    \A trace \in {"t", "u"} : Rows(trace) # {} =>
        \A detail \in Details(trace) :
            LET row == Summary(trace)
            IN  /\ detail.start >= row.start /\ detail.duration <= row.duration /\ detail.count <= row.count
                /\ row.count <= SpanCap =>
                       /\ detail.start = row.start /\ detail.duration = row.duration
                       /\ detail.count = row.count /\ row.services \subseteq detail.services
                /\ row.count <= 2 * Sampled /\ Rows(trace) = DOMAIN input.spans /\ row.count <= SpanCap =>
                       row.services = detail.services

\* The traces that are listed are those whose spans are exported, whichever of its three
\* ways the selection takes, if the window has no end.
ExportMatchesList ==
    ListedTraces = {input.spans[i].trace : i \in Exported}
TraceExportsAgree == input.to = Absent \/ input.trace # Absent \/ input.marked => ExportMatchesList

\* What help.rs says of the offset, "Pagination offset": every log that matches is on
\* some page.  Fails, and of traces as well.
PagesReachEveryLog ==
    input.filter = Absent /\ Limit > 0 =>
        \A t \in Logs : AtLevel(t) => \E offset \in 0..LastTime : t \in ToSet(Page(offset))

\* What the route table says of /api/logs/:timestamp, "get single log by timestamp": the
\* log of that time.
GetLogReturnsAsked == \A t \in Logs : GetLog(t) = t
=============================================================================
