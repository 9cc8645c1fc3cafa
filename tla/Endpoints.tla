------------------------------ MODULE Endpoints -----------------------------
(***************************************************************************)
(* The usage endpoints and who asks them.  The handlers: which queries a   *)
(* request is turned into, over which window, with which filters, and which *)
(* filters the answer says were applied.  The front ends: the panels of    *)
(* `otelite usage`, which query the storage themselves, the client library *)
(* with the shapes it decodes, and the terminal dashboard, which asks      *)
(* through the client.  A query is named after its endpoint.  The input is a *)
(* request to an endpoint or a command line; nothing changes it.           *)
(***************************************************************************)
EXTENDS Integers, FiniteSets, FiniteSetsExt

CONSTANTS
    Absent,
    Second,                               \* in nanoseconds
    MaxInt,                               \* of 64 bits
    DefaultBucket, MinBucket, MaxBucket,  \* seconds: an hour, a minute and a day
    Month,                                \* the window of the projection, in nanoseconds
    Now, OneDay,                          \* the clock and 24 hours
    Counts, Buckets                       \* what a request names of them, or Absent

VARIABLE input

Dimensions == {"agent", "model", "provider", "project", "session"}

\* A request: window, the filters it names, its count (a limit, a number of buckets, a
\* gap or a threshold), its bucket in seconds, and its switches.
Request(path, start, end, filters, count, bucket, flags) ==
    [path |-> path, start |-> start, end |-> end, filters |-> filters, count |-> count,
     bucket |-> bucket, flags |-> flags]

Or(value, default)     == IF value = Absent THEN default ELSE value
Clamp(low, high, n)    == IF n < low THEN low ELSE IF n > high THEN high ELSE n
Wrapped(n)             == ((n + MaxInt + 1) % (2 * (MaxInt + 1))) - (MaxInt + 1)
Nanoseconds(seconds)   == Wrapped(seconds * Second)
Saturated(seconds)     == Min({seconds * Second, MaxInt})

Read(query, r) == [query |-> query, start |-> r.start, end |-> r.end, filters |-> {},
                   limit |-> Absent, bucket |-> Absent]
Filtered(query, r)         == [Read(query, r) EXCEPT !.filters = r.filters]
Top(query, r, default, most) == [Filtered(query, r) EXCEPT !.limit = Clamp(1, most, Or(r.count, default))]

Answer(reads, applied, shape) == [status |-> 200, reads |-> reads, applied |-> applied, shape |-> shape]
Refused == [status |-> 400, reads |-> {}, applied |-> {}, shape |-> "error"]

\* An endpoint that applies the whole filter bar and says so; one that applies none.
Bar(read, r, shape) == Answer({read}, r.filters, shape)
Plain(query, r)     == Answer({Read(query, r)}, {}, "object")

-----------------------------------------------------------------------------
get_token_usage(r) == Bar(Filtered("usage", r), r, "object")

get_cost_series(r) ==
    LET seconds == Or(r.bucket, DefaultBucket)
    IN  IF seconds <= 0 THEN Refused
        ELSE Bar([Filtered("cost_series", r) EXCEPT !.bucket = Saturated(seconds)], r, "items")

get_cost_projection(r, now) ==
    LET asOf == Or(r.end, now)
    IN  Answer({[query |-> "cost_series", start |-> asOf - Month, end |-> asOf, filters |-> {},
                 limit |-> Absent, bucket |-> Saturated(MaxBucket)]}, {}, "object")

get_cost_by_project(r)    == Plain("cost_by_project", r)
get_session_depth_cost(r) == Plain("session_depth_cost", r)

get_top_spans(r)         == Bar(Top("top_spans", r, 20, 100), r, "items")
get_top_sessions(r)      == Bar(Top("top_sessions", r, 20, 100), r, "items")
get_top_conversations(r) == Bar(Top("top_conversations", r, 20, 100), r, "items")

\* It cuts the answer of its query, and applies the filters without saying so.
get_context_composition(r) == Answer({Top("context_composition", r, 20, 100)}, {}, "object")

get_finish_reasons(r) == Bar(Filtered("finish_reasons", r), r, "items")
get_latency_stats(r)  == Bar(Filtered("latency_stats", r), r, "items")

\* Calendar days need both ends of the window, and only they have a timezone.
get_latency_percentiles(r) ==
    LET seconds == Or(r.bucket, DefaultBucket)
    IN  IF \/ seconds = 0
           \/ "timezone" \in r.flags /\ "calendar_day" \notin r.flags
           \/ "calendar_day" \in r.flags /\ Absent \in {r.start, r.end}
        THEN Refused
        ELSE Bar([Filtered("latency_percentiles", r) EXCEPT !.bucket = Nanoseconds(seconds)], r, "object")

\* The costs of sessions come from counters and take no filter; no distribution says which
\* filters it applied.
get_distributions(r) ==
    IF r.count = 0 THEN Refused
    ELSE Answer({IF "session_cost" \in r.flags THEN Read("session_costs", r)
                 ELSE Filtered("distributions", r)}, {}, "object")

get_genai_capabilities(r) == Bar(Filtered("capabilities", r), r, "object")

\* Both windows are required; the capabilities are read for the current one, to judge how
\* far the other numbers can be trusted.
get_model_performance(r) ==
    LET asked == r.filters \cap {"model", "provider"}
    IN  IF Absent \in {r.start, r.end} \/ r.end <= r.start THEN Refused
        ELSE Answer({[Read(q, r) EXCEPT !.filters = asked] : q \in {"model_performance", "capabilities"}},
                    {}, "object")

get_error_rate(r)      == Bar(Filtered("error_rate", r), r, "items")
get_tool_usage(r)      == Bar(Top("tool_usage", r, 20, 100), r, "items")
get_recent_retries(r)  == Bar(Top("retries", r, 20, 100), r, "items")
get_retry_stats(r)     == Bar(Filtered("retry_stats", r), r, "object")
get_retrieval_stats(r) == Bar(Top("retrieval_stats", r, 5, 20), r, "object")
get_truncation_rate(r) == Bar(Filtered("truncation_rate", r), r, "items")

\* by_model=1 answers another question, of counters, and applies no filter.
get_cache_hit_rate(r) ==
    LET seconds == Or(r.bucket, DefaultBucket)
    IN  IF "by_model" \notin r.flags THEN Bar(Filtered("cache_hit_rate", r), r, "items")
        ELSE IF seconds = 0 THEN Refused
        ELSE Answer({[Read("cache_economics", r) EXCEPT !.bucket = Nanoseconds(seconds)]}, {}, "object")

get_agents(r) ==
    LET seconds == Or(r.bucket, DefaultBucket)
    IN  IF seconds = 0 THEN Refused
        ELSE Answer({[Read("agents", r) EXCEPT !.bucket = Nanoseconds(seconds)]}, {}, "object")

\* The rollups mix metrics and spans, and apply no filter.
get_reasoning_share(r) == Plain("reasoning_share", r)
get_projects(r)        == Plain("projects", r)
get_agent_roles(r)     == Plain("agent_roles", r)
get_provider_mix(r)    == Plain("provider_mix", r)

get_request_param_profile(r) == Bar(Filtered("request_param_profile", r), r, "object")
get_conversation_depth(r)    == Bar(Filtered("conversation_depth", r), r, "object")

\* A series clamps its bucket.
Bucketed(query, r) ==
    Bar([Filtered(query, r) EXCEPT
            !.bucket = Nanoseconds(Clamp(MinBucket, MaxBucket, Or(r.bucket, DefaultBucket)))], r, "items")
get_latency_series(r) == Bucketed("latency_series", r)
get_calls_series(r)   == Bucketed("calls_series", r)

get_latency_by_context(r) == Bar(Filtered("latency_by_context", r), r, "items")
get_error_types(r)        == Bar(Filtered("error_types", r), r, "items")
get_model_drift(r)        == Bar(Filtered("model_drift", r), r, "items")
get_tool_approvals(r)     == Bar(Filtered("tool_approvals", r), r, "object")
get_stop_reasons(r)       == Bar(Filtered("stop_reasons", r), r, "items")
get_context_type_split(r) == Bar(Filtered("context_type_split", r), r, "items")
get_tool_errors(r)        == Bar(Top("tool_errors", r, 30, 100), r, "items")
get_hour_of_day(r)        == Bar(Filtered("hour_of_day", r), r, "items")

get_effort_breakdown(r)        == Plain("effort_breakdown", r)
get_efficiency_stats(r)        == Plain("efficiency_stats", r)
get_codex_ttft(r)              == Plain("codex_ttft", r)
get_agent_project_rollup(r)    == Plain("project_rollup", r)
get_mcp_health(r)              == Plain("mcp_health", r)
get_guardian_stats(r)          == Plain("guardian_stats", r)
get_multi_agent_stats(r)       == Plain("multi_agent_stats", r)
get_codex_turn_breakdown(r)    == Plain("codex_turn_breakdown", r)
get_codex_idle_ratio(r)        == Plain("codex_idle_ratio", r)
get_session_duration(r)        == Plain("session_duration", r)
get_loc_efficiency(r)          == Plain("loc_efficiency", r)
get_session_model_breakdown(r) == Plain("session_model_breakdown", r)
get_speed_distribution(r)      == Plain("speed_distribution", r)
get_cross_tool_ttft(r)         == Plain("cross_tool_ttft", r)
get_hook_overhead(r)           == Plain("hook_overhead", r)
get_bob_hook_overhead(r)       == Plain("bob_hook_overhead", r)
get_tool_switch_overhead(r)    == Plain("tool_switch_overhead", r)
get_tool_failure_rates(r)      == Plain("tool_failure_rates", r)
get_daily_tool_mix(r)          == Plain("daily_tool_mix", r)
get_skill_activity(r)          == Plain("skill_activity", r)
get_session_quality_summary(r) == Plain("session_quality_summary", r)
get_skill_outcomes(r)          == Plain("skill_outcomes", r)
get_model_selection_heatmap(r) == Plain("model_selection_heatmap", r)

\* A report with a threshold refuses one that is zero or too large.
Bounded(query, r, default, most) ==
    LET n == Or(r.count, default)
    IN  IF n = 0 \/ n > most THEN Refused
        ELSE Answer({[Read(query, r) EXCEPT !.limit = n]}, {}, "object")
get_time_in_tool(r)           == Bounded("time_in_tool", r, 300, 86400)
get_human_response_latency(r) == Bounded("human_response_latency", r, 1800, 86400)
\* The threshold of rare tools is applied to the answer of the query.
get_rare_tool_sessions(r) ==
    IF Bounded("rare_tool_sessions", r, 10, 1000) = Refused THEN Refused ELSE Plain("rare_tool_sessions", r)

\* Commits joined with the costs of the daily mix.
get_productivity(r) == Answer({Read(q, r) : q \in {"productivity", "daily_tool_mix"}}, {}, "object")

\* It caps its limit in the query, at zero too.
get_recent_errors(r) ==
    Answer({[Read("recent_errors", r) EXCEPT !.limit = Min({Or(r.count, 50), 200})]}, {}, "object")

\* build_router.
Paths ==
    {"usage", "cost_series", "cost_projection", "cost_by_project", "session_depth_cost",
     "time_in_tool", "top_spans", "retries", "top_sessions", "context_composition",
     "top_conversations", "finish_reasons", "latency_stats", "latency_percentiles",
     "distributions", "capabilities", "model_performance", "error_rate", "tool_usage",
     "retry_stats", "retrieval_stats", "truncation_rate", "cache_hit_rate", "agent_roles",
     "reasoning_share", "agents", "projects", "provider_mix", "request_param_profile",
     "conversation_depth", "latency_series", "calls_series", "latency_by_context", "error_types",
     "model_drift", "tool_approvals", "stop_reasons", "context_type_split", "tool_errors",
     "hour_of_day", "effort_breakdown", "efficiency_stats", "codex_ttft", "project_rollup",
     "mcp_health", "guardian_stats", "multi_agent_stats", "codex_turn_breakdown",
     "codex_idle_ratio", "session_duration", "loc_efficiency", "rare_tool_sessions",
     "human_response_latency", "session_model_breakdown", "speed_distribution", "cross_tool_ttft",
     "hook_overhead", "bob_hook_overhead", "tool_switch_overhead", "tool_failure_rates",
     "daily_tool_mix", "productivity", "skill_activity", "skill_outcomes",
     "model_selection_heatmap", "session_quality_summary", "recent_errors"}

Reply(r, now) ==
    CASE r.path = "usage"                   -> get_token_usage(r)
      [] r.path = "cost_series"             -> get_cost_series(r)
      [] r.path = "cost_projection"         -> get_cost_projection(r, now)
      [] r.path = "cost_by_project"         -> get_cost_by_project(r)
      [] r.path = "session_depth_cost"      -> get_session_depth_cost(r)
      [] r.path = "time_in_tool"            -> get_time_in_tool(r)
      [] r.path = "top_spans"               -> get_top_spans(r)
      [] r.path = "retries"                 -> get_recent_retries(r)
      [] r.path = "top_sessions"            -> get_top_sessions(r)
      [] r.path = "context_composition"     -> get_context_composition(r)
      [] r.path = "top_conversations"       -> get_top_conversations(r)
      [] r.path = "finish_reasons"          -> get_finish_reasons(r)
      [] r.path = "latency_stats"           -> get_latency_stats(r)
      [] r.path = "latency_percentiles"     -> get_latency_percentiles(r)
      [] r.path = "distributions"           -> get_distributions(r)
      [] r.path = "capabilities"            -> get_genai_capabilities(r)
      [] r.path = "model_performance"       -> get_model_performance(r)
      [] r.path = "error_rate"              -> get_error_rate(r)
      [] r.path = "tool_usage"              -> get_tool_usage(r)
      [] r.path = "retry_stats"             -> get_retry_stats(r)
      [] r.path = "retrieval_stats"         -> get_retrieval_stats(r)
      [] r.path = "truncation_rate"         -> get_truncation_rate(r)
      [] r.path = "cache_hit_rate"          -> get_cache_hit_rate(r)
      [] r.path = "agent_roles"             -> get_agent_roles(r)
      [] r.path = "reasoning_share"         -> get_reasoning_share(r)
      [] r.path = "agents"                  -> get_agents(r)
      [] r.path = "projects"                -> get_projects(r)
      [] r.path = "provider_mix"            -> get_provider_mix(r)
      [] r.path = "request_param_profile"   -> get_request_param_profile(r)
      [] r.path = "conversation_depth"      -> get_conversation_depth(r)
      [] r.path = "latency_series"          -> get_latency_series(r)
      [] r.path = "calls_series"            -> get_calls_series(r)
      [] r.path = "latency_by_context"      -> get_latency_by_context(r)
      [] r.path = "error_types"             -> get_error_types(r)
      [] r.path = "model_drift"             -> get_model_drift(r)
      [] r.path = "tool_approvals"          -> get_tool_approvals(r)
      [] r.path = "stop_reasons"            -> get_stop_reasons(r)
      [] r.path = "context_type_split"      -> get_context_type_split(r)
      [] r.path = "tool_errors"             -> get_tool_errors(r)
      [] r.path = "hour_of_day"             -> get_hour_of_day(r)
      [] r.path = "effort_breakdown"        -> get_effort_breakdown(r)
      [] r.path = "efficiency_stats"        -> get_efficiency_stats(r)
      [] r.path = "codex_ttft"              -> get_codex_ttft(r)
      [] r.path = "project_rollup"          -> get_agent_project_rollup(r)
      [] r.path = "mcp_health"              -> get_mcp_health(r)
      [] r.path = "guardian_stats"          -> get_guardian_stats(r)
      [] r.path = "multi_agent_stats"       -> get_multi_agent_stats(r)
      [] r.path = "codex_turn_breakdown"    -> get_codex_turn_breakdown(r)
      [] r.path = "codex_idle_ratio"        -> get_codex_idle_ratio(r)
      [] r.path = "session_duration"        -> get_session_duration(r)
      [] r.path = "loc_efficiency"          -> get_loc_efficiency(r)
      [] r.path = "rare_tool_sessions"      -> get_rare_tool_sessions(r)
      [] r.path = "human_response_latency"  -> get_human_response_latency(r)
      [] r.path = "session_model_breakdown" -> get_session_model_breakdown(r)
      [] r.path = "speed_distribution"      -> get_speed_distribution(r)
      [] r.path = "cross_tool_ttft"         -> get_cross_tool_ttft(r)
      [] r.path = "hook_overhead"           -> get_hook_overhead(r)
      [] r.path = "bob_hook_overhead"       -> get_bob_hook_overhead(r)
      [] r.path = "tool_switch_overhead"    -> get_tool_switch_overhead(r)
      [] r.path = "tool_failure_rates"      -> get_tool_failure_rates(r)
      [] r.path = "daily_tool_mix"          -> get_daily_tool_mix(r)
      [] r.path = "productivity"            -> get_productivity(r)
      [] r.path = "skill_activity"          -> get_skill_activity(r)
      [] r.path = "skill_outcomes"          -> get_skill_outcomes(r)
      [] r.path = "model_selection_heatmap" -> get_model_selection_heatmap(r)
      [] r.path = "session_quality_summary" -> get_session_quality_summary(r)
      [] r.path = "recent_errors"           -> get_recent_errors(r)

-----------------------------------------------------------------------------
Windows == {<<Absent, Absent>>, <<1, Absent>>, <<1, Now>>, <<Now, 1>>}
Flags   == {{}, {"calendar_day", "timezone"}, {"timezone"}, {"session_cost"}, {"by_model"}}

RequestInit ==
    \E path \in Paths, w \in Windows, f \in {{}, {"model"}, Dimensions}, n \in Counts, b \in Buckets, s \in Flags :
        input = Request(path, w[1], w[2], f, n, b, s)

\* execute, its window: an exact start wins over the rolling one, an end needs a start.
Window(start, end, since) ==
    IF start # Absent
    THEN IF start >= Or(end, Now) THEN Refused ELSE [start |-> start, end |-> Or(end, Now)]
    ELSE IF end # Absent THEN Refused ELSE [start |-> Now - since, end |-> Now]

\* build_model_filters: a plain name is exact, anything else is a list of patterns; both
\* are the same dimension.
Cohort(models) == IF models = {} THEN {} ELSE {"model"}

CommandInit ==
    \E start \in {Absent, 0, 1, Now}, end \in {Absent, 1, Now}, since \in {1, OneDay}, models \in {{}, {"m"}, {"m*"}},
       n \in Counts \ {Absent} :
        input = [start |-> start, end |-> end, since |-> since, models |-> models, n |-> n]

-----------------------------------------------------------------------------
\* execute: the panels on the cohort of models, each named after the endpoint of its query.
CallPanels    == {"usage", "top_spans", "latency_stats", "latency_series"}
ModelPanels   == {"truncation_rate", "cache_hit_rate", "request_param_profile", "conversation_depth", "tool_usage",
                  "error_types", "model_drift", "latency_by_context", "latency_percentiles", "tool_approvals"}
ContentPanels == {"stop_reasons", "context_type_split", "context_composition", "tool_errors", "hour_of_day",
                  "calls_series"}
FilteredPanels == CallPanels \cup ModelPanels \cup ContentPanels
\* The panels on every span of the window, whatever --model says.
AgentPanels   == {"agent_roles", "session_model_breakdown", "speed_distribution", "effort_breakdown",
                  "efficiency_stats", "reasoning_share", "guardian_stats", "multi_agent_stats", "codex_ttft",
                  "codex_turn_breakdown"}
SessionPanels == {"codex_idle_ratio", "session_duration", "loc_efficiency", "rare_tool_sessions",
                  "human_response_latency", "cross_tool_ttft", "hook_overhead", "bob_hook_overhead"}
ToolPanels    == {"tool_switch_overhead", "tool_failure_rates", "daily_tool_mix", "productivity", "cost_by_project"}
ReportPanels  == {"session_depth_cost", "time_in_tool", "skill_activity", "session_quality_summary",
                  "skill_outcomes", "model_selection_heatmap", "recent_errors"}
WholePanels   == AgentPanels \cup SessionPanels \cup ToolPanels \cup ReportPanels

\* The panels that pass a number: what --top and --tool-errors say, and two that nothing
\* changes.  The sum by session is one over the 200 spans with the most tokens.
Limit(panel, n) ==
    CASE panel \in {"top_spans", "tool_errors"} -> n
      [] panel = "tool_usage"                   -> 50
      [] panel = "time_in_tool"                 -> 300
      [] panel = "human_response_latency"       -> 1800
      [] OTHER                                  -> Absent

PanelRead(panel, w, models, n) ==
    [query |-> panel, start |-> w.start, end |-> w.end,
     filters |-> IF panel \in FilteredPanels THEN Cohort(models) ELSE {}, limit |-> Limit(panel, n)]

\* The projection looks back from the clock, whatever the window is.
ProjectionPanel == [query |-> "cost_series", start |-> Now - Month, end |-> Now, filters |-> {}]

-----------------------------------------------------------------------------
\* read_items: the functions of the client that take the answer out of its envelope.
ItemsClients ==
    {"latency_series", "calls_series", "latency_by_context", "latency_stats", "truncation_rate",
     "cache_hit_rate", "tool_usage", "error_types", "model_drift", "stop_reasons", "context_type_split",
     "tool_errors", "hour_of_day", "top_spans", "retries"}
\* The functions that decode the answer as it is.
EarlyClients   == {"usage", "distributions", "latency_percentiles", "capabilities", "model_performance",
                   "context_composition"}
RollupClients  == {"agent_roles", "provider_mix", "reasoning_share", "agents", "projects", "conversation_depth"}
ReportClients  == {"tool_approvals", "tool_failure_rates", "daily_tool_mix", "skill_activity",
                   "session_quality_summary", "skill_outcomes", "model_selection_heatmap", "recent_errors"}
ObjectClients  == EarlyClients \cup RollupClients \cup ReportClients
\* fetch_cache_economics asks the path of the hit rate; its caller must set by_model.
Decodes(r) ==
    CASE r.path = "cache_hit_rate" -> IF "by_model" \in r.flags THEN "object" ELSE "items"
      [] r.path \in ItemsClients   -> "items"
      [] r.path \in ObjectClients  -> "object"
      [] OTHER                     -> Absent

\* refresh, the usage view: most panels over all time, four over a window that ends now.
AllTime   == {"usage", "latency_stats", "truncation_rate", "cache_hit_rate", "conversation_depth", "tool_usage",
              "error_types", "model_drift", "tool_approvals", "stop_reasons", "context_type_split", "tool_errors",
              "hour_of_day", "calls_series", "tool_failure_rates", "daily_tool_mix", "skill_activity"}
TuiRequests ==
    {Request(path, Absent, Absent, {}, Absent, Absent, {}) : path \in AllTime}
    \cup {Request(path, Now - 7 * OneDay, Now, {}, Absent, Absent,
                  IF path = "latency_percentiles" THEN {"calendar_day", "timezone"} ELSE {}) :
              path \in {"latency_percentiles", "capabilities", "context_composition"}}
    \cup {Request("model_performance", Now - OneDay, Now, {}, Absent, Absent, {})}

-----------------------------------------------------------------------------
\* Several queries behind one answer share its window, and what the answer says was
\* applied was applied by each of them; an answer that is not a refusal comes from a query.
RepliesHoldWhatTheyEcho ==
    LET reply == Reply(input, Now)
    IN  /\ reply.status = 200 => reply.reads # {}
        /\ \A read \in reply.reads : reply.applied \subseteq read.filters /\ read.filters \subseteq input.filters
        /\ \A read, other \in reply.reads : read.start = other.start /\ read.end = other.end
        /\ \A read \in reply.reads :
               input.path # "cost_projection" => read.start = input.start /\ read.end = input.end

\* A query that divides by its bucket never divides by zero or by a wrapped number, as
\* long as the bucket is one whose nanoseconds are a number of 64 bits; the series and the
\* cost series guard against the others too.
BucketsPositive ==
    \A read \in Reply(input, Now).reads :
        read.bucket # Absent /\ (\/ Or(input.bucket, DefaultBucket) * Second <= MaxInt
                                 \/ read.query \in {"cost_series", "latency_series", "calls_series"})
            => read.bucket > 0

\* What the client decodes is the shape of what it gets.
ShapesMatch ==
    LET reply == Reply(input, Now)
    IN  reply.status = 200 /\ Decodes(input) # Absent => reply.shape = Decodes(input)

\* A panel of the command line reads what its endpoint reads: the same query, over the
\* same window, with the same filters.  The two that pass a number nothing changes pass
\* the one an endpoint takes when asked for none, the tools and their limit apart.
PanelsMatchEndpoints ==
    LET w == Window(input.start, input.end, input.since)
        Asked(panel) == Request(panel, w.start, w.end, Cohort(input.models), Absent, Absent, {})
        Of(panel)    == PanelRead(panel, w, input.models, input.n)
    IN  w # Refused =>
          /\ w.start < w.end
          /\ \A panel \in FilteredPanels \cup WholePanels :
                 \E read \in Reply(Asked(panel), Now).reads :
                     /\ read.query = Of(panel).query /\ read.filters = Of(panel).filters
                     /\ read.start = Of(panel).start /\ read.end = Of(panel).end
                     /\ panel \in {"time_in_tool", "human_response_latency"} => read.limit = Of(panel).limit
          /\ w.end = Now => \E read \in Reply(Asked("cost_projection"), Now).reads :
                 read.query = ProjectionPanel.query /\ read.start = ProjectionPanel.start /\ read.end = Now

\* No request of the dashboard is one its endpoint refuses.
TuiNeverRefused == \A r \in TuiRequests : Reply(r, Now).status = 200 /\ Decodes(r) = Reply(r, Now).shape

\* What usage.rs:47 says of --model, "Applied to every panel": false of WholePanels.
EveryPanelIsFiltered ==
    LET w == Window(input.start, input.end, input.since)
    IN  w # Refused => \A panel \in FilteredPanels \cup WholePanels :
                           PanelRead(panel, w, input.models, input.n).filters = Cohort(input.models)

\* What genai.rs:21 says of an endpoint, that it "echoes that set back": false of the
\* distributions and the context composition.
WhatAppliesIsEchoed ==
    LET reply == Reply(input, Now)
    IN  \A read \in reply.reads : read.filters \subseteq reply.applied

\* Every bucket that an endpoint accepts is one it can divide by: false of three, whose
\* seconds are multiplied into 64 bits unchecked.
EveryBucketPositive ==
    \A read \in Reply(input, Now).reads : read.bucket # Absent => read.bucket > 0
=============================================================================
