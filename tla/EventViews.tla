---------------------------- MODULE EventViews ----------------------------
(***************************************************************************)
(* The views that count events and those that say how long things took.    *)
(* The first: tool spans of Claude Code (usage, approvals, errors, the     *)
(* hours of the day) and metric rows of Codex and opencode (MCP calls,     *)
(* Guardian reviews, sub-agents, skills, failures), which are counted      *)
(* differently: rows, the events a row stands for, or spans of one name.   *)
(* The second: the latency statistics per model and the percentiles per    *)
(* bucket, the comparison of first tokens between tools, the first tokens  *)
(* and sampling turns of Codex, and the hooks.  Each is a query of its     *)
(* own.                                                                    *)
(***************************************************************************)
EXTENDS Integers, Sequences, FiniteSets, FiniteSetsExt

CONSTANTS
    Labels,         \* tools, roles, servers, threads, risk levels, actions, skills
    Absent,         \* an attribute that a row does not carry
    Tops,           \* rejected tools that are listed: 10 in the code
    Models, BucketLength,
    MinSamples,     \* values before a 90th percentile is given: 10
    DayLength, MaxTime, MaxRows

VARIABLE input      \* the rows of one query

Label == Labels \cup {Absent}
Spans ==
    [name : {"execution"}, tool : Label, failed : BOOLEAN,
     success : {Absent, "false"}, error : {Absent, "message"}, decision : {Absent}, source : {Absent}]
    \cup [name : {"approval", "tool", "other"}, tool : Label, failed : {FALSE},
          success : {Absent}, error : {Absent}, decision : {Absent}, source : {Absent}]
Approvals == [name : {"approval"}, tool : Label, failed : {FALSE}, success : {Absent}, error : {Absent},
              decision : {Absent, "accept", "reject"}, source : {Absent, "config"}]

\* Rows: when they came, how many events they stand for (not every row says), two labels and
\* whether the event went wrong.
Metrics(names) ==
    [name : names, at : 0..MaxTime, value : {Absent, 1, 2}, label : Label, other : {Absent}, bad : {FALSE}]
Marked(names) ==
    [name : names, at : {0}, value : {Absent, 2}, label : Label, other : Label, bad : BOOLEAN]

Init ==
    \E shapes \in {Spans, Approvals, Metrics({"spawn", "resume", "start"}), Marked({"mcp"}),
                   Marked({"review"}), Marked({"skill"}), Marked({"duration"})} :
        input \in [1..MaxRows -> shapes]

-----------------------------------------------------------------------------
Row(i)       == input[i]
Named(n)     == {i \in DOMAIN input : Row(i).name = n}
N(S)         == Cardinality(S)
Sum(S, F(_)) == MapThenSumSet(F, S)
Values(S, f) == {Row(i)[f] : i \in S}
Having(S, f, v) == {i \in S : Row(i)[f] = v}

\* query_tool_usage: spans that name a tool, or that have a name below claude_code.tool.
Below          == {"execution", "approval"}
ToolOf(i)      == IF Row(i).tool # Absent THEN Row(i).tool ELSE IF Row(i).name \in Below THEN Row(i).name ELSE Absent
ToolSpans      == {i \in DOMAIN input : ToolOf(i) # Absent}
Usage          == [t \in {ToolOf(i) : i \in ToolSpans} |-> {i \in ToolSpans : ToolOf(i) = t}]
Failures(S)    == {i \in S : Row(i).failed}

\* query_tool_approvals.
Kind(i) == IF Row(i).decision = "accept" THEN IF Row(i).source = "config" THEN "auto" ELSE "user"
           ELSE IF Row(i).decision = "reject" THEN "rejected" ELSE "unknown"
Decided(k)  == {i \in Named("approval") : Kind(i) = k}
\* Those listed with their tool: the tools with the most rejections, up to the limit.
RejectedOf(t) == Having(Decided("rejected"), "tool", t)
TopRejected ==
    LET named == Values(Decided("rejected"), "tool") \ {Absent}
    IN  {T \in SUBSET named : N(T) = Min({Tops, N(named)}) /\ \A t \in named \ T, u \in T : N(RejectedOf(t)) <= N(RejectedOf(u))}

\* query_tool_errors, query_hour_of_day.
ToolErrors == {i \in Named("execution") : Row(i).success = "false" /\ Row(i).error # Absent}
HourlyTools == Named("execution")

-----------------------------------------------------------------------------
\* SUM(COALESCE(value_int, 1)): the events that a row stands for.
Events(i) == IF Row(i).value = Absent THEN 1 ELSE Row(i).value

\* query_mcp_health: calls by server and tool; a status that names an error or a failure is one.
McpPairs    == {<<Row(i).label, Row(i).other>> : i \in Named("mcp")}
McpRows(p)  == Having(Having(Named("mcp"), "label", p[1]), "other", p[2])
McpCalls(p, wrong) == Sum(Having(McpRows(p), "bad", wrong), Events)

\* query_guardian_stats: reviews by level of risk and by action.
ByRisk   == {Having(Named("review"), "label", r) : r \in Values(Named("review"), "label")}
ByAction == {Having(Named("review"), "other", a) : a \in Values(Named("review"), "other")}
Denied(S) == Having(S, "bad", TRUE)

\* query_skill_activity skips rows that name no skill.
Injections == {i \in Named("skill") : Row(i).label # Absent}
SkillRows  == {Having(Having(Injections, "label", s), "other", o) :
                 s \in Values(Injections, "label"), o \in Values(Injections, "other")} \ {{}}

\* query_tool_failure_rates: tools with a failed row, out of all rows of the tool.
FailureRates == {S \in {Having(Named("duration"), "label", t) : t \in Label} : \E i \in S : Row(i).bad}

\* query_multi_agent_stats: events of a role, most of both kinds first.
RoleEvents(n, r) == Sum(Having(Named(n), "label", r), Events)
Roles         == Values(Named("spawn") \cup Named("resume"), "label")
InRoleOrder(r, u) == RoleEvents("spawn", r) + RoleEvents("resume", r) >= RoleEvents("spawn", u) + RoleEvents("resume", u)
Total(n)      == Sum(Roles, LAMBDA r : RoleEvents(n, r))

\* Mutant: a thread counts again on every day it starts sub-agents.
StartsOfAll(t) == Named("start")

\* query_codex_subagents: rows of each thread, role and day.
StartsOf(t)   == Having(Named("start"), "label", t)
Threads       == Values(Named("start"), "label") \ {Absent}
DayOf(i)      == Row(i).at \div DayLength
Days          == {DayOf(i) : i \in UNION {Named("spawn"), Named("resume"), UNION {StartsOf(t) : t \in Threads}}}
Daily(d)      ==
    LET on(S) == {i \in S : DayOf(i) = d}
    IN  [sessions  |-> {t \in Threads : on(StartsOf(t)) # {}},
         subagents |-> Sum(Threads, LAMBDA t : N(on(StartsOf(t)))),
         spawns    |-> N(on(Named("spawn"))),
         resumes   |-> N(on(Named("resume")))]

-----------------------------------------------------------------------------
\* The tool spans are each counted under one tool, as a failure or not; every execution
\* counted by the hour is in the usage, and an error listed is one of those executions.
ToolUseIsCounted ==
    input[1] \in Spans \cup Approvals =>
        /\ Sum(DOMAIN Usage, LAMBDA t : N(Usage[t])) = N(ToolSpans)
        /\ HourlyTools \cup Named("approval") \subseteq ToolSpans
        /\ N(ToolErrors) <= N(HourlyTools)
        /\ \A t \in Labels : N(Having(ToolErrors, "tool", t)) <= IF t \in DOMAIN Usage THEN N(Usage[t]) ELSE 0

\* Every approval is one of four kinds; the tools listed as rejected never account for more
\* rejections than there were, and for all of them when each names a tool and all fit.
ApprovalsAddUp ==
    input[1] \in Spans \cup Approvals =>
        /\ Sum({"auto", "user", "rejected", "unknown"}, LAMBDA k : N(Decided(k))) = N(Named("approval"))
        /\ \A T \in TopRejected :
             LET listed == Sum(T, LAMBDA t : N(RejectedOf(t)))
                 unnamed == N(Having(Decided("rejected"), "tool", Absent))
             IN  /\ listed + unnamed <= N(Decided("rejected"))
                 /\ N(T) < Tops => listed + unnamed = N(Decided("rejected"))

\* The Guardian's reviews and denials are the same by risk and by action; a row of skills or
\* of MCP calls is counted once, and a tool is listed as failing at least once.
EventSidesAgree ==
    /\ Sum(ByRisk, N) = Sum(ByAction, N)
    /\ Sum(ByRisk, LAMBDA S : N(Denied(S))) = Sum(ByAction, LAMBDA S : N(Denied(S)))
    /\ Sum(SkillRows, N) = N(Injections)
    /\ Sum(McpPairs, LAMBDA p : McpCalls(p, TRUE) + McpCalls(p, FALSE)) = Sum(Named("mcp"), Events)
    /\ \A S \in FailureRates : N(Having(S, "bad", TRUE)) \in 1..N(S)

\* Sub-agents: the days sum to the threads, a thread that works on several days is in each;
\* and the events of the roles are at least the rows of the days, as many if each is one event.
SubagentsAgree ==
    input[1] \in Metrics({"spawn", "resume", "start"}) =>
        /\ Sum(Days, LAMBDA d : Daily(d).subagents) = Sum(Threads, LAMBDA t : N(StartsOf(t)))
        /\ Sum(Days, LAMBDA d : N(Daily(d).sessions)) >= N(Threads)
        /\ UNION {Daily(d).sessions : d \in Days} = Threads
        /\ \A n \in {"spawn", "resume"} :
             LET rows == Sum(Days, LAMBDA d : IF n = "spawn" THEN Daily(d).spawns ELSE Daily(d).resumes)
             IN  /\ rows <= Total(n)
                 /\ rows = Total(n) <=> \A i \in Named(n) : Events(i) = 1

\* What ToolUsage says of itself: it is the usage of tool-execution spans.  The prompt for
\* approval before each execution counts as a use of the tool, too.
UsageIsExecutions ==
    input[1] \in Spans => \A t \in DOMAIN Usage \cap Labels : \A i \in Usage[t] : Row(i).name # "approval"

\* What the response of the multi-agent view says: roles are sorted by spawns.
RolesBySpawns ==
    input[1] \in Metrics({"spawn", "resume", "start"}) =>
        \A r, u \in Roles : InRoleOrder(r, u) /\ ~InRoleOrder(u, r) => RoleEvents("spawn", r) >= RoleEvents("spawn", u)

\* What the metric's name says: the value of a thread's row is the number of threads started.
StartsAreEvents ==
    input[1] \in Metrics({"spawn", "resume", "start"}) =>
        \A t \in Threads : N(StartsOf(t)) = Sum(StartsOf(t), Events)

-----------------------------------------------------------------------------
\* How long things took.  Times are counted in half milliseconds, because some of the
\* queries divide by whole ones.

Model == Models \cup {Absent}

Span(m, t, d, f, out, g) ==
    [kind |-> "span", model |-> m, at |-> t, length |-> d, ttft |-> f, out |-> out, guarded |-> g]
\* Spans with a clock that went back, shorter than a millisecond, and longer; first tokens
\* that are no positive number; spans that carry one and are no request.
TimedSpans   == {Span(m, t, d, Absent, out, TRUE) : m \in Model, t \in 0..MaxTime, d \in {-3, -1, 1, 4}, out \in {0, 5}}
Firsts  == {Span(m, 0, d, f, 0, g) : m \in Model, d \in {-3, 1, 4}, f \in {-1, 1, 3}, g \in BOOLEAN}
           \cup [kind : {"codex"}, model : Model, at : {0}, value : {2, 6}]
Turns   == [kind : {"turn"}, model : {Absent}, day : 0..1, length : {0, 4}, busy : {Absent, 0, 4}, idle : {Absent, 0, 4}]
Hooks   == [kind : {"hook"}, event : Model, count : 0..2, total : {0, 3}]

TimingInit == \E shapes \in {TimedSpans, Firsts, Turns, Hooks} : input \in [1..MaxRows -> shapes]

-----------------------------------------------------------------------------
Of(kind)     == {i \in DOMAIN input : Row(i).kind = kind}

\* (end_time - start_time) / 1000000 of SQLite: towards zero.
Millis(d) == IF d >= 0 THEN d \div 2 ELSE -((-d) \div 2)

Requests  == {i \in Of("span") : Row(i).guarded}
\* classify_ttft_value against a duration.
Valid(i, d)   == Row(i).ttft # Absent /\ Row(i).ttft \in 1..d
Ttfts(S)      == {i \in S : Valid(i, 2 * Millis(Row(i).length))}
Invalid(S)    == {i \in S : Row(i).ttft # Absent} \ Ttfts(S)
\* throughput_rate_tok_s divides by the raw duration.
Rates(S)      == {i \in S : Row(i).length > 0 /\ Row(i).out > 0}

\* query_latency_stats, one row per model: its calls, first tokens and rates.
Stats(m) == LET S == {i \in Requests : Row(i).model = m}
            IN  [count |-> N(S), ttft |-> N(Ttfts(S)), invalid |-> N(Invalid(S)), rates |-> N(Rates(S))]

\* Mutant: a span counts whatever its duration.
AnyLength(metric) ==
    IF metric = "duration" THEN Requests ELSE Ttfts(Requests) \cup Of("codex")

\* query_latency_percentiles: the values that a metric collects, in buckets of each model
\* and of all.  A span that ends before it starts has no duration and no first token.
Forwards == {i \in Requests : Millis(Row(i).length) >= 0}
Collected(metric) ==
    IF metric = "duration" THEN Forwards ELSE Ttfts(Forwards) \cup Of("codex")
Bucket(t)   == t \div BucketLength
Buckets(S)  == {Bucket(Row(i).at) : i \in S}
InBucket(S, b) == {i \in S : Bucket(Row(i).at) = b}
Points(metric, scope) ==
    LET of == {i \in Collected(metric) : scope \in {"all", Row(i).model}}
        rated == {i \in Rates(Requests) : scope \in {"all", Row(i).model}}
    IN  [b \in Buckets(of) |-> [count |-> N(InBucket(of, b)), rates |-> N(InBucket(rated, b))]]
PointSum(metric, scope, f) ==
    LET p == Points(metric, scope) IN Sum(DOMAIN p, LAMBDA b : p[b][f])

\* query_cross_tool_ttft: every span that carries a first token, with or without the marks of a request.
CrossTool == {g \in {[model |-> m, values |-> Ttfts({i \in Of("span") : Row(i).model = m}),
                      invalid |-> Invalid({i \in Of("span") : Row(i).model = m})] : m \in Model} : g.values # {}}

\* The percentile of n sorted values, as an index: percentile_f64 and percentile round,
\* query_codex_ttft takes the floor, query_cross_tool_ttft a share of n.
Rounded(n, p) == ((n - 1) * p + 50) \div 100
Floored(n, p) == ((n - 1) * p) \div 100
Shared(n, p)  == Min({(n * p) \div 100, n - 1})

\* query_codex_turn_breakdown averages over the turns that carry a value, query_codex_idle_ratio_series
\* takes those that carry both.
Carrying(S, f) == {i \in S : Row(i)[f] # Absent}
Average(S, f)  == LET C == Carrying(S, f) IN [of |-> Sum(C, LAMBDA i : Row(i)[f]), over |-> N(C)]
Both           == Carrying(Carrying(Of("turn"), "busy"), "idle")
Day(d)         == {i \in Both : Row(i).day = d}
IdleDays           == {Row(i).day : i \in Both}
\* The turns of a day that have a ratio, and the sum of their ratios in eighths.
Timed(d)       == {i \in Day(d) : Row(i).busy + Row(i).idle > 0}
IdleEighths(d) == Sum(Timed(d), LAMBDA i : (8 * Row(i).idle) \div (Row(i).busy + Row(i).idle))

\* hook_overhead_for.
HookRows    == {{i \in Of("hook") : Row(i).event = e} : e \in {Row(i).event : i \in Of("hook")}}
Runs(S)     == Sum(S, LAMBDA i : Row(i).count)
Overhead(S) == Sum(S, LAMBDA i : Row(i).total)

-----------------------------------------------------------------------------
\* The statistics and the percentiles count the same first tokens and rates, and the same
\* durations but for the spans that end before they start; the models sum to all.
LatencyViewsAgree ==
    /\ PointSum("duration", "all", "count") + N(Requests \ Forwards) = Sum(Model, LAMBDA m : Stats(m).count)
    /\ PointSum("duration", "all", "rates") = Sum(Model, LAMBDA m : Stats(m).rates)
    /\ \A m \in Models : PointSum("duration", m, "rates") = Stats(m).rates
    /\ PointSum("ttft", "all", "count") = Sum(Model, LAMBDA m : Stats(m).ttft) + N(Of("codex"))
    /\ \A m \in Models : PointSum("ttft", m, "count") >= Stats(m).ttft
    /\ PointSum("ttft", "all", "rates") <= Sum(Model, LAMBDA m : Stats(m).rates)

\* The comparison of tools has at least the first tokens of the statistics: those of
\* requests, and of any other span that carries one; it leaves out only what has none.
ComparisonCoversRequests ==
    Of("turn") \cup Of("hook") = {} =>
        /\ Sum(CrossTool, LAMBDA g : N(g.values)) = N(Ttfts(Of("span")))
        /\ \A m \in Model : Stats(m).ttft > 0 =>
             \E g \in CrossTool : g.model = m /\ N(g.values) >= Stats(m).ttft /\ N(g.invalid) >= Stats(m).invalid

\* The percentiles never differ by more than one value: the floor takes the same or the one
\* below, and the share of n the same or the one above.
RanksAreNeighbours ==
    \A n \in 1..(3 * MinSamples), p \in {10, 50, 90, 95, 99} :
        /\ Rounded(n, p) - Floored(n, p) \in 0..1
        /\ p >= 90 => Shared(n, p) - Rounded(n, p) \in 0..1

\* The days of the idle series are turns of the breakdown, all of them if each carries both
\* times; a ratio is never above one, nor is the mean of a day.
IdleWithinTurns ==
    /\ Sum(IdleDays, LAMBDA d : N(Day(d))) = N(Both)
    /\ N(Both) <= N(Of("turn"))
    /\ N(Both) = N(Of("turn")) =>
         Average(Of("turn"), "idle").of = Sum(IdleDays, LAMBDA d : Average(Day(d), "idle").of)
    /\ \A d \in IdleDays : IdleEighths(d) \in 0..(8 * N(Timed(d)))

\* What a hook costs is shared out by event to the last run.
HooksAddUp ==
    Sum(HookRows, Runs) = Runs(Of("hook")) /\ Sum(HookRows, Overhead) = Overhead(Of("hook"))

\* What query_latency_percentiles says: its cohorts match those of the latency statistics.  A
\* span that ends before it starts is in the one and not in the other.
CohortsMatch == PointSum("duration", "all", "count") = N(Requests)

\* What classify_ttft_value says: a first token below a millisecond survives.  In a span below
\* a millisecond its duration is zero by then.
SubMillisecondSurvives ==
    \A i \in Requests : Valid(i, Row(i).length) => i \in Ttfts(Requests)

\* What percentile_f64 says of itself: every latency endpoint uses it.
OneEstimator ==
    \A n \in 1..(3 * MinSamples), p \in {50, 90, 95} : Floored(n, p) = Rounded(n, p)

\* The busy ratio, of two averages, is above one although every turn was busy within its time.
BusyWithinTurn ==
    LET busy == Average(Of("turn"), "busy")
        all  == Average(Of("turn"), "length")
    IN  (\A i \in Carrying(Of("turn"), "busy") : Row(i).busy <= Row(i).length) =>
            busy.of * all.over <= all.of * busy.over
=============================================================================
