---------------------------- MODULE SessionViews ----------------------------
(***************************************************************************)
(* The reports that fold the LLM calls into sessions and tools: depth, cost *)
(* by project, the crosstab with models, active time, the waits for a human, *)
(* durations, and the sessions of rare tools; each is a query over a window, *)
(* some with a fold behind it, and the input is a set of calls, a window   *)
(* split in two, a ceiling for gaps and a threshold.  And what is made of  *)
(* the calls of a session in the order they started: the chains of a resumed *)
(* session, and the switches from one tool to another.                     *)
(***************************************************************************)
EXTENDS Integers, Sequences, FiniteSets, FiniteSetsExt, SequencesExt

CONSTANTS
    Sessions,                \* numbers, in the order of the session ids
    Tools, MainTools, Projects, Models, Priced,
    Namings,                 \* what the attributes of a call say of its model, [request, alias, flat]
    MaxTime, MaxLength,      \* of a call
    MaxCalls, Caps, Thresholds, DayLength, MinTurns, Tops,
    MaxRun, Gaps,            \* calls in the order they started, idle times
    Absent

VARIABLE input    \* [calls, split, cap, threshold], or
                  \* [calls : {[session, tool, start]}, window]

Call(session, tool, project, naming, start, length) ==
    [session |-> session, tool |-> tool, project |-> project, naming |-> naming,
     start |-> start, end |-> start + length]

\* The model of a call: gen_ai.request.model, then model, or nothing, '(unknown)'. The
\* crosstab reads three more keys (gen_ai.response.model, llm.request.model,
\* llm.model_name) between the two.
Model(c)   == IF c.naming.request # Absent THEN c.naming.request ELSE c.naming.flat
AnyName(c) ==
    IF c.naming.request # Absent THEN c.naming.request
    ELSE IF c.naming.alias # Absent THEN c.naming.alias ELSE c.naming.flat
Labels     == Models \cup {Absent}

\* Calls that differ in time, or in what they are labelled with.
Timed ==
    {Call(s, t, Absent, n, at, l) : s \in Sessions, t \in Tools, n \in {x \in Namings : x.request \in Priced},
                                    at \in 0..MaxTime, l \in 0..MaxLength}
Labelled ==
    {Call(s, t, p, n, at, 1) : s \in Sessions \cup {Absent}, t \in Tools,
                               p \in Projects \cup {Absent}, n \in Namings, at \in 0..1}

\* The calls of a session start at different nanoseconds.
Apart(S) == \A c, d \in S : c # d /\ c.session = d.session => c.start # d.start
InOrder(call) == \A n \in 2..MaxCalls : call[n - 1].start <= call[n].start

Init ==
    \/ \E call \in [1..MaxCalls -> Timed] :
          /\ InOrder(call) /\ Apart(ToSet(call))
          /\ \E m \in 1..MaxTime, g \in Caps :
               input = [calls |-> ToSet(call), split |-> m, cap |-> g, threshold |-> 1]
    \/ \E call \in [1..MaxCalls -> Labelled] :
          /\ InOrder(call) /\ Apart(ToSet(call))
          /\ \E h \in Thresholds :
               input = [calls |-> ToSet(call), split |-> 1, cap |-> 1, threshold |-> h]

-----------------------------------------------------------------------------
Whole  == 0..MaxTime
Before == 0..(input.split - 1)
After  == input.split..MaxTime

In(w)        == {c \in input.calls : c.start \in w}
InSession(w) == {c \in In(w) : c.session # Absent}
Of(S, s, t)  == {c \in S : c.session = s /\ c.tool = t}
Keys(S)      == {<<c.session, c.tool>> : c \in S}
N(S)         == Cardinality(S)
Sum(S, F(_)) == MapThenSumSet(F, S)
Length(S)    == Max({c.end : c \in S}) - Min({c.start : c \in S})

\* query_cost_by_project_model_tool, query_session_model_breakdown: counts of calls.
ByProject(w) == [k \in (Projects \cup {Absent}) \X Tools \X Labels |->
    N({c \in In(w) : <<c.project, c.tool, Model(c)>> = k})]

BySession(w) == [k \in (Sessions \cup {Absent}) \X Labels |->
    N({c \in In(w) : <<c.session, AnyName(c)>> = k})]

\* query_session_depth_storage, and the fold of get_session_depth_cost: a session has a
\* cost if one of its models has a price.
DepthRows(w) == [k \in Sessions \X Tools \X Labels |->
    N({c \in InSession(w) : <<c.session, c.tool, Model(c)>> = k})]

Depth(w) ==
    LET rows  == DepthRows(w)
        found == {k \in DOMAIN rows : rows[k] > 0}
    IN  {[session |-> k[1], tool |-> k[2],
          turns   |-> Sum({j \in found : j[1] = k[1] /\ j[2] = k[2]}, LAMBDA j : rows[j]),
          priced  |-> \E j \in found : j[1] = k[1] /\ j[2] = k[2] /\ j[3] \in Priced] : k \in found}

\* bucket_stats: sessions of too few turns are dropped, the rest fall into the first
\* bucket whose top they do not exceed; the last has none.
Bucket(turns) == LET fits == {b \in Tops : turns <= b} IN IF fits = {} THEN Absent ELSE Min(fits)
DepthBuckets(w) ==
    LET sessions == {d \in Depth(w) : d.turns >= MinTurns}
    IN  {LET held == {e \in sessions : e.tool = d.tool /\ Bucket(e.turns) = Bucket(d.turns)}
         IN  [tool |-> d.tool, bucket |-> Bucket(d.turns), sessions |-> N(held),
              turns |-> Sum(held, LAMBDA e : e.turns), cost |-> \E e \in held : e.priced] : d \in sessions}

\* query_time_in_tool: the gap to the call before it in its session, whatever its tool,
\* if it is not longer than the ceiling, on the day and for the tool of the later call.
Preceding(S, c)  == {p \in S : p.start < c.start /\ \A q \in S : q.start < c.start => q.start <= p.start}
Day(t)      == t \div DayLength
Engaged(w, c) ==
    Sum(Preceding({p \in InSession(w) : p.session = c.session}, c),
        LAMBDA p : IF c.start - p.start <= input.cap THEN c.start - p.start ELSE 0)

TimeInTool(w) ==
    {LET held == {d \in InSession(w) : d.tool = c.tool /\ Day(d.start) = Day(c.start)}
     IN  [tool |-> c.tool, day |-> Day(c.start), sessions |-> N({d.session : d \in held}),
          active |-> Sum(held, LAMBDA d : Engaged(w, d))] : c \in InSession(w)}

\* query_human_response_latency: the time from the end of the last call of the same
\* session and tool, sought as far back as the ceiling reaches before the window.
Reach(w) == IF w = {} THEN {} ELSE (Min(w) - input.cap)..Max(w)
Waits(w) ==
    {g \in UNION {{[call |-> c, gap |-> c.start - p.end] :
                      p \in Preceding(Of(InSession(Reach(w)), c.session, c.tool), c)} : c \in InSession(w)} :
        g.gap > 0 /\ g.gap <= input.cap}

\* query_session_durations: from calls for every tool but opencode, which reports them.
Durations(w) ==
    {[session |-> k[1], tool |-> k[2], length |-> Length(Of(InSession(w), k[1], k[2]))] :
        k \in {j \in Keys(InSession(w)) : j[2] # "opencode"}}

\* distribution puts a session into the last bucket it is long enough for, summarize a
\* wait into its tool and hour.
DurationCells(w) ==
    {LET bucket == Max({b \in {0} \cup Tops : b <= d.length})
         held   == {e \in Durations(w) : e.tool = d.tool /\ Max({b \in {0} \cup Tops : b <= e.length}) = bucket}
     IN  [tool |-> d.tool, bucket |-> bucket, count |-> N(held)] : d \in Durations(w)}
WaitCells(w) ==
    {LET held == {h \in Waits(w) : h.call.tool = g.call.tool /\ Day(h.call.start) = Day(g.call.start)}
     IN  [tool |-> g.call.tool, hour |-> Day(g.call.start), n |-> N(held)] : g \in Waits(w)}

\* query_rare_tool_sessions leaves out the main tools; build_sessions keeps the tools
\* with fewer sessions than the threshold.
RareRows(w) == {c \in InSession(w) : c.tool \notin MainTools}

RareSessions(w, threshold) ==
    LET rows == RareRows(w)
    IN  {[session |-> k[1], tool |-> k[2], calls |-> N(Of(rows, k[1], k[2])),
          length |-> Length(Of(rows, k[1], k[2]))] :
            k \in {j \in Keys(rows) : N({i \in Keys(rows) : i[2] = j[2]}) < threshold}}

-----------------------------------------------------------------------------
\* Depth, projects and the crosstab count the same calls by session and tool, and depth
\* and projects by model, too; the crosstab names every call those name, and agrees on the
\* models of a session whose calls have the same name by either list of keys; the depth
\* buckets hold each session of enough turns on a tool once; a bucket has a cost only
\* where a call in it has a price.
SessionCountsAgree ==
    LET rows    == DepthRows(Whole)
        depth   == Depth(Whole)
        buckets == DepthBuckets(Whole)
        turns(s, m) == Sum(Tools, LAMBDA t : rows[s, t, m])
        tab(s, m)   == BySession(Whole)[s, m]
    IN  /\ \A s \in Sessions :
               /\ Sum(Labels, LAMBDA m : tab(s, m)) = Sum(Labels, LAMBDA m : turns(s, m))
               /\ tab(s, Absent) <= turns(s, Absent)
               /\ (\A c \in input.calls : c.session = s => Model(c) = AnyName(c)) =>
                     \A m \in Labels : tab(s, m) = turns(s, m)
        /\ \A t \in Tools, m \in Labels :
               Sum(Projects \cup {Absent}, LAMBDA p : ByProject(Whole)[p, t, m])
                 - Sum(Sessions, LAMBDA s : rows[s, t, m])
               = N({c \in input.calls : <<c.session, c.tool, Model(c)>> = <<Absent, t, m>>})
        /\ N(depth) = N(Keys(InSession(Whole)))
        /\ \A t \in Tools :
               LET held == {d \in depth : d.tool = t /\ d.turns >= MinTurns}
               IN  /\ Sum({b \in buckets : b.tool = t}, LAMBDA b : b.sessions) = N(held)
                   /\ Sum({b \in buckets : b.tool = t}, LAMBDA b : b.turns) = Sum(held, LAMBDA d : d.turns)
        /\ \A b \in buckets : b.cost => \E c \in InSession(Whole) : c.tool = b.tool /\ Model(c) \in Priced

\* A session is active for as long as no gap between its calls exceeds the ceiling, and
\* that time is shared out to tools and days without rest; two windows that meet lose at
\* most one gap of each session.
ActiveTimeAddsUp ==
    LET total(w)   == Sum(TimeInTool(w), LAMBDA r : r.active)
        running(s) == {t \in 0..(MaxTime - 1) :
            \E c, d \in {e \in input.calls : e.session = s} :
                /\ c.start <= t /\ t < d.start /\ d.start - c.start <= input.cap
                /\ ~\E e \in input.calls : e.session = s /\ c.start < e.start /\ e.start < d.start}
        lost       == total(Whole) - (total(Before) + total(After))
    IN  /\ total(Whole) = Sum(Sessions, LAMBDA s : N(running(s)))
        /\ 0 <= lost /\ lost <= input.cap * N(Sessions)
        /\ \A r \in TimeInTool(Whole) : r.active <= r.sessions * (DayLength - 1 + input.cap)

\* The waits of two windows that meet are those of the whole, as long as no call before
\* the reach of the second window ends within it; the cells hold every wait and every
\* duration once.
WaitsTile ==
    /\ Sum(WaitCells(Whole), LAMBDA c : c.n) = N(Waits(Whole))
    /\ Sum(DurationCells(Whole), LAMBDA c : c.count) = N(Durations(Whole))
    /\ (\A c \in input.calls : c.start < input.split - input.cap => c.end < input.split - input.cap) =>
        Waits(Whole) = Waits(Before) \cup Waits(After)

\* A rare session is as long as the durations say and has the calls that depth counts; a
\* tool is rare as a whole, stays so under a higher threshold, and is no main tool.
RareSessionsAgree ==
    LET rare == RareSessions(Whole, input.threshold)
    IN  /\ \A r \in rare :
               /\ r.tool \notin MainTools
               /\ [session |-> r.session, tool |-> r.tool, length |-> r.length] \in Durations(Whole)
               /\ \E d \in Depth(Whole) : <<d.session, d.tool, d.turns>> = <<r.session, r.tool, r.calls>>
        /\ \A k \in Keys(RareRows(Whole)), r \in rare : k[2] = r.tool =>
               \E q \in rare : <<q.session, q.tool>> = k
        /\ rare \subseteq RareSessions(Whole, input.threshold + 1)

\* What a reader of the two reports expects of them: the turns of a session on a model are
\* the requests the crosstab shows for the two.
ModelsOfSessionsAgree ==
    \A s \in Sessions, m \in Labels :
        BySession(Whole)[s, m] = Sum(Tools, LAMBDA t : DepthRows(Whole)[s, t, m])

\* What query_human_response_latency says of its reach: no gap of the window is missed.
ReachIsEnough == Waits(Whole) = Waits(Before) \cup Waits(After)

\* What it says of overlapping calls: while a call of the session and tool runs, nobody
\* waits for a human.
NoWaitWhileRunning ==
    \A g \in Waits(Whole) :
        ~\E c \in Of(input.calls, g.call.session, g.call.tool) :
            c.start < g.call.start /\ c.end > g.call.start - g.gap

-----------------------------------------------------------------------------
Started == [session : Sessions, tool : Tools, start : 0..MaxTime]

RunInit == \E call \in [1..MaxCalls -> Started], gap \in Gaps :
    input = [calls |-> {call[n] : n \in 1..MaxCalls}, window |-> gap]

\* query_session_chain_storage, query_tool_switch_storage: ORDER BY session, start.
Rows == SetToSortSeq(input.calls, LAMBDA a, b :
    a.session < b.session \/ (a.session = b.session /\ a.start < b.start))

\* session_runs: a run ends where the next row is of another session.
FirstOfRun(i) == i = 1 \/ Rows[i - 1].session # Rows[i].session
Within        == {i \in DOMAIN Rows : ~FirstOfRun(i)}
Chains        == DOMAIN Rows \ Within
Gap(i)        == Rows[i].start - Rows[i - 1].start

\* build_chains: only a gap longer than the window begins a new segment.
BeginsSegment(i) == FirstOfRun(i) \/ Gap(i) > input.window
Segment(i)       == Max({j \in 1..i : BeginsSegment(j)})
\* analyze: a call on another tool than the one before it in its session is cold.
Switches == {i \in Within : Rows[i].tool # Rows[i - 1].tool}
Warm     == Within \ Switches
Count(from, to) == Cardinality({i \in Switches : Rows[i - 1].tool = from /\ Rows[i].tool = to})
GapSum   == MapThenSumSet(Gap, Switches)

-----------------------------------------------------------------------------
CallsOf(s)   == {c \in input.calls : c.session = s}
Present == {c.session : c \in input.calls}
Span(s) == Max({c.start : c \in CallsOf(s)}) - Min({c.start : c \in CallsOf(s)})

\* A session is one chain, however its calls and those of others interleave in time,
\* and two calls share a segment exactly when the session was never idle between
\* them for longer than the window.
ChainsFollowIdleTime ==
    /\ Cardinality(Chains) = Cardinality(Present)
    /\ \A i, j \in DOMAIN Rows :
           i < j /\ Rows[i].session = Rows[j].session =>
               (Segment(i) = Segment(j)
                  <=> \A t \in Rows[i].start..(Rows[j].start - 1) :
                          \E c \in CallsOf(Rows[i].session) :
                              c.start <= t /\ t < c.start + input.window)

\* The time spent switching is part of the sessions' own time, and no session enters a
\* tool twice without leaving it in between.
SwitchesBalance ==
    /\ GapSum <= MapThenSumSet(Span, Present)
    /\ \A tool \in Tools :
           LET entered == MapThenSumSet(LAMBDA t : Count(t, tool), Tools)
               left    == MapThenSumSet(LAMBDA t : Count(tool, t), Tools)
           IN  entered - left <= Cardinality(Present) /\ left - entered <= Cardinality(Present)
=============================================================================
