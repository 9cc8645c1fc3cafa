------------------------------ MODULE Counters ------------------------------
(***************************************************************************)
(* The usage queries of otelite-storage over what the coding agents        *)
(* report: opencode's cumulative counters (a row carries the running total *)
(* of its session), and the per-turn rows of codex and Claude.             *)
(*                                                                         *)
(* The state is the history: what was really used, what was reported, and  *)
(* which rows are in the store.  Reports are stored late, out of order or  *)
(* never; a restarted agent counts from zero; retention deletes old rows.  *)
(* A query is an operator over the stored rows and a window of time.       *)
(***************************************************************************)
EXTENDS Integers, FiniteSets, FiniteSetsExt

CONSTANTS
    Sessions,      \* opencode session ids
    Subagents,     \* the sessions started by another session
    Kinds,         \* token types and per-session cumulative metrics in use
    Projects, NoProject,
    Spends,        \* amounts used between two reports; 0: nothing new
    Sources,       \* who reports per turn: "codex", "claude", "request" (Claude's spans)
    MaxTime,       \* ticks are 0..MaxTime, one report per series and tick
    BucketLength,  \* ticks per bucket of a time series
    MaxReports, MaxLate, MaxRestarts, MaxMarkers, MaxTurns,   \* bounds
    NoRow

Times       == 0..MaxTime
Series      == Sessions \X Kinds
CacheKinds  == {"input", "cacheRead", "cacheCreation"}
TokenKinds  == CacheKinds \cup {"output", "reasoning"}
SessionKind == "cost"     \* session.cost.total; tool and retry counters are read alike
Agents      == {"opencode", "codex", "claude"}
Windows     == {w \in [from : Times, to : Times] : w.from <= w.to}

ASSUME CountersAssumption ==
    /\ MaxTime \in Nat /\ MaxRestarts \in Nat /\ BucketLength \in Nat \ {0}
    /\ Spends \subseteq Nat
    /\ IsFiniteSet(Sessions) /\ IsFiniteSet(Projects)
    /\ Sessions \cap (Agents \cup {"request"}) = {}   \* a row tells who reported it
    /\ NoRow \notin Nat

Point  == [session : Sessions, kind : Kinds, ts : Times, value : Nat]
Marker == [session : Sessions, project : Projects \cup {NoProject}, ts : Times]
Turn   == [by : Sources \cup Sessions, kind : TokenKinds \cup {"total"}, ts : Times,
           tokens : Nat, labelled : BOOLEAN]

VARIABLES
    now,       \* the current tick
    used,      \* what each series really used at each tick
    counter,   \* the running totals the agents hold
    restarts,  \* how often each session's agent restarted
    late,      \* reports on their way, or lost
    metrics,   \* the stored opencode counter rows
    markers,   \* the stored session.count rows
    turns,     \* the stored per-turn rows and spans
    cutoff     \* retention has deleted what is older

vars == <<now, used, counter, restarts, late, metrics, markers, turns, cutoff>>

TypeOK ==
    /\ now \in Times /\ cutoff \in Times
    /\ used \in [Series -> [Times -> Nat]]
    /\ counter \in [Series -> Nat]
    /\ restarts \in [Sessions -> 0..MaxRestarts]
    /\ late \subseteq Point /\ metrics \subseteq Point
    /\ markers \subseteq Marker /\ turns \subseteq Turn

-----------------------------------------------------------------------------
\* Cumulative counters.

In(w, t)        == w.from <= t /\ t <= w.to
Rows(s, k)      == {r \in metrics : r.session = s /\ r.kind = k}
RowsIn(w, s, k) == {r \in Rows(s, k) : In(w, r.ts)}
Latest(rows)    == CHOOSE r \in rows : \A q \in rows : q.ts <= r.ts
LastValue(rows) == IF rows = {} THEN NoRow ELSE Latest(rows).value
Total(deltas)   == MapThenSumSet(LAMBDA d : d.tokens, deltas)

\* The newest value before the window.
Baseline(s, k, start) == LastValue({r \in Rows(s, k) : r.ts < start})

\* A value below the one before it means that the counter started over.
Growth(value, prev) == IF prev = NoRow \/ value < prev THEN value ELSE value - prev

\* Mutant: the rows before the window are forgotten.
RowGrowthNoBaseline(w, r) ==
    Growth(r.value, LastValue({q \in RowsIn(w, r.session, r.kind) : q.ts < r.ts}))

\* opencode_counter_deltas: each row against the one before it in the window,
\* the first against the baseline.
RowGrowth(w, r) ==
    LET earlier == {q \in RowsIn(w, r.session, r.kind) : q.ts < r.ts}
    IN  Growth(r.value, IF earlier = {} THEN Baseline(r.session, r.kind, w.from)
                                        ELSE LastValue(earlier))

SeriesDeltas(w, s, k) ==
    {[by |-> s, kind |-> k, ts |-> r.ts, tokens |-> RowGrowth(w, r), labelled |-> TRUE] :
        r \in RowsIn(w, s, k)}
OpencodeDeltas(w) == UNION {SeriesDeltas(w, s, k) : s \in Sessions, k \in Kinds \cap TokenKinds}

\* counter_window_deltas: the last value in the window against the baseline.
WindowDelta(w, s, k) ==
    IF RowsIn(w, s, k) = {} THEN 0
    ELSE Growth(LastValue(RowsIn(w, s, k)), Baseline(s, k, w.from))

\* last_hist_sum_per_session: the last value in the window as it stands.
SessionCost(w, s) ==
    IF RowsIn(w, s, SessionKind) = {} THEN 0 ELSE LastValue(RowsIn(w, s, SessionKind))

-----------------------------------------------------------------------------
\* Per-turn rows, and the agent rollup.

TurnsIn(w, source) == {t \in turns : t.by = source /\ In(w, t.ts)}

\* add_turn_tokens: the "total" category of codex is skipped.
TurnTokens(w, source) == {t \in TurnsIn(w, source) : t.kind \in TokenKinds}

AgentTokens(w, agent) == IF agent = "opencode" THEN OpencodeDeltas(w) ELSE TurnTokens(w, agent)
AgentTotal(w, agent)  == Total(AgentTokens(w, agent))

\* Mutant: the bucket after the one a row falls in.
BucketLate(t) == ((t + BucketLength - 1) \div BucketLength) * BucketLength

Bucket(t)     == (t \div BucketLength) * BucketLength
BucketStarts  == {Bucket(t) : t \in Times}
AgentSeries(w, agent) == [b \in BucketStarts |->
    Total({d \in AgentTokens(w, agent) : Bucket(d.ts) = b})]

MarkersIn(w) == {m \in markers : In(w, m.ts)}

\* distinct_session_ids: sessions other than sub-agents with a marker in the window.
OpencodeSessions(w) == {m.session : m \in MarkersIn(w)} \ Subagents

SumOverSessions(Of(_)) == MapThenSumSet(Of, Sessions)
OpencodeCost(w) == SumOverSessions(LAMBDA s : WindowDelta(w, s, SessionKind))

\* push_agent: opencode is left out when it has neither sessions nor tokens.
OpencodeListed(w) == OpencodeSessions(w) # {} \/ AgentTotal(w, "opencode") > 0

-----------------------------------------------------------------------------
\* The project rollup.

ProjectOf(m) == IF m.project = NoProject THEN "unattributed" ELSE m.project
AllProjects  == Projects \cup {"unattributed"}

\* session -> project, from the markers in the window.  A session whose markers
\* name two projects keeps the one whose row SQLite happens to return last.
Attributions(w) ==
    LET marked == {m.session : m \in MarkersIn(w)}
    IN  {f \in [marked -> AllProjects] :
            \A s \in marked : \E m \in MarkersIn(w) : m.session = s /\ f[s] = ProjectOf(m)}

Attributed(f, s) == IF s \in DOMAIN f THEN f[s] ELSE "unattributed"

\* Codex and Claude name no project: their tokens are folded into "unattributed".
ProjectTokens(w, f, p) ==
    Total({d \in OpencodeDeltas(w) : Attributed(f, d.by) = p})
      + (IF p = "unattributed" THEN AgentTotal(w, "codex") + AgentTotal(w, "claude") ELSE 0)

ProjectCost(w, f, p) ==
    SumOverSessions(LAMBDA s : IF Attributed(f, s) = p THEN WindowDelta(w, s, SessionKind) ELSE 0)

ProjectSessions(w, p) == {m.session : m \in {n \in MarkersIn(w) : ProjectOf(n) = p}} \ Subagents

SumOverProjects(Of(_)) == MapThenSumSet(Of, AllProjects)

-----------------------------------------------------------------------------
\* Cache economics and the reasoning share.

\* query_cache_economics reads codex rows that name a model, and Claude's spans.
EconomicsRows(w) ==
    {d \in OpencodeDeltas(w) : d.kind \in CacheKinds}
      \cup {t \in TurnsIn(w, "codex") : t.labelled /\ t.kind \in CacheKinds}
      \cup {t \in TurnsIn(w, "request") : t.kind \in CacheKinds}
EconomicsSeries(w) == [b \in BucketStarts |-> Total({d \in EconomicsRows(w) : Bucket(d.ts) = b})]

\* query_reasoning_share: the counters, codex, and every span that carries reasoning
\* tokens; the last are the rows reported by a session.
ReasoningRows(w) ==
    {d \in OpencodeDeltas(w) : d.kind = "reasoning"}
      \cup {t \in TurnsIn(w, "codex") : t.labelled /\ t.kind = "reasoning"}
      \cup {[t EXCEPT !.labelled = FALSE] : t \in {u \in turns : u.by \in Sessions /\ In(w, u.ts)}}

-----------------------------------------------------------------------------
\* The agents, the transport and retention.

Init ==
    /\ now = 0 /\ cutoff = 0
    /\ used = [x \in Series |-> [t \in Times |-> 0]]
    /\ counter = [x \in Series |-> 0]
    /\ restarts = [s \in Sessions |-> 0]
    /\ late = {} /\ metrics = {} /\ markers = {} /\ turns = {}

Reported(s, k) == {r \in metrics \cup late : r.session = s /\ r.kind = k}

\* A session uses n and reports its new total; the report is stored, or on its way.
\* Thinking is also reported on the span of the request.
Report(s, k, n, arrives) ==
    LET total == counter[<<s, k>>] + n
        point == [session |-> s, kind |-> k, ts |-> now, value |-> total]
        span  == [by |-> s, kind |-> k, ts |-> now, tokens |-> n, labelled |-> TRUE]
    IN  /\ \A r \in Reported(s, k) : r.ts # now
        /\ Cardinality(metrics \cup late) < MaxReports
        /\ arrives \/ Cardinality(late) < MaxLate
        /\ counter' = [counter EXCEPT ![<<s, k>>] = total]
        /\ used' = [used EXCEPT ![<<s, k>>][now] = @ + n]
        /\ metrics' = IF arrives THEN metrics \cup {point} ELSE metrics
        /\ late' = IF arrives THEN late ELSE late \cup {point}
        /\ turns' = IF k = "reasoning" /\ n > 0 THEN turns \cup {span} ELSE turns
        /\ UNCHANGED <<now, restarts, markers, cutoff>>

Deliver(r) ==
    /\ r \in late
    /\ late' = late \ {r} /\ metrics' = metrics \cup {r}
    /\ UNCHANGED <<now, used, counter, restarts, markers, turns, cutoff>>

Restart(s) ==
    /\ restarts[s] < MaxRestarts
    /\ \E k \in Kinds : counter[<<s, k>>] > 0
    /\ counter' = [x \in Series |-> IF x[1] = s THEN 0 ELSE counter[x]]
    /\ restarts' = [restarts EXCEPT ![s] = @ + 1]
    /\ UNCHANGED <<now, used, late, metrics, markers, turns, cutoff>>

Mark(s, p) ==
    /\ Cardinality(markers) < MaxMarkers
    /\ markers' = markers \cup {[session |-> s, project |-> p, ts |-> now]}
    /\ UNCHANGED <<now, used, counter, restarts, late, metrics, turns, cutoff>>

\* One turn of codex writes its parts and their sum.
TakeTurn(source, n, labelled) ==
    LET row(k) == [by |-> source, kind |-> k, ts |-> now, tokens |-> n, labelled |-> labelled]
    IN  /\ Cardinality({t \in turns : t.kind # "total"}) < MaxTurns
        /\ \A t \in turns : t.by # source \/ t.ts # now
        /\ turns' = turns \cup {row(k) : k \in {"input"} \cup (IF source = "codex" THEN {"total"} ELSE {})}
        /\ UNCHANGED <<now, used, counter, restarts, late, metrics, markers, cutoff>>

Tick ==
    /\ now < MaxTime /\ now' = now + 1
    /\ UNCHANGED <<used, counter, restarts, late, metrics, markers, turns, cutoff>>

\* The nightly pass deletes the rows older than the cutoff, whatever they count.
Retain(c) ==
    /\ cutoff < c /\ c <= now
    /\ cutoff' = c
    /\ metrics' = {r \in metrics : r.ts >= c}
    /\ markers' = {m \in markers : m.ts >= c}
    /\ turns' = {t \in turns : t.ts >= c}
    /\ UNCHANGED <<now, used, counter, restarts, late>>

Next ==
    \/ \E s \in Sessions, k \in Kinds, n \in Spends, arrives \in BOOLEAN : Report(s, k, n, arrives)
    \/ \E r \in late : Deliver(r)
    \/ \E s \in Sessions : Restart(s)
    \/ \E s \in Sessions, p \in Projects \cup {NoProject} : Mark(s, p)
    \/ \E source \in Sources, n \in Spends \ {0}, labelled \in BOOLEAN : TakeTurn(source, n, labelled)
    \/ Tick
    \/ \E c \in Times : Retain(c)

Spec == Init /\ [][Next]_vars

-----------------------------------------------------------------------------
\* Properties.

UsedBetween(s, k, a, b) == MapThenSumSet(LAMBDA t : used[<<s, k>>][t], a..b)
RowTotal(w, s, k)       == Total(SeriesDeltas(w, s, k))
Stored(s, k)            == cutoff = 0 /\ \A r \in late : r.session # s \/ r.kind # k

\* opencode_counter_deltas never counts more than was used since the last stored
\* row before the window, however rows were lost or delayed and agents restarted.
\* Once retention has deleted a baseline this no longer holds.
RowsNeverOvercount ==
    cutoff = 0 =>
        \A w \in Windows, s \in Sessions, k \in Kinds :
            LET older == {r \in Rows(s, k) : r.ts < w.from}
                since == IF older = {} THEN 0 ELSE Latest(older).ts + 1
            IN  RowTotal(w, s, k) <= UsedBetween(s, k, since, w.to)

\* The row by row deltas and the window deltas are what was used in the window,
\* when the session's agent did not restart and every report was stored and kept.
ExactWhenComplete ==
    \A w \in Windows, s \in Sessions, k \in Kinds :
        Stored(s, k) /\ restarts[s] = 0 =>
            /\ RowTotal(w, s, k) = UsedBetween(s, k, w.from, w.to)
            /\ WindowDelta(w, s, k) = UsedBetween(s, k, w.from, w.to)

\* The two readings of a counter: the window delta (roles, providers, costs) never
\* exceeds the row by row sum (agents, projects, economics), and it falls short of
\* it only when the counter went down inside the window.
ReadingsAgree ==
    \A w \in Windows, s \in Sessions, k \in Kinds :
        /\ WindowDelta(w, s, k) <= RowTotal(w, s, k)
        /\ WindowDelta(w, s, k) < RowTotal(w, s, k) =>
               \E q, r \in Rows(s, k) : q.ts < r.ts /\ In(w, r.ts) /\ r.value < q.value

\* Neighbouring windows add up to the window they make, whatever is stored: the
\* last row of the first is the baseline of the second.
WindowsAddUp ==
    \A w \in Windows, s \in Sessions, k \in Kinds, m \in Times :
        w.from <= m /\ m < w.to =>
            RowTotal(w, s, k) = RowTotal([w EXCEPT !.to = m], s, k)
                                  + RowTotal([w EXCEPT !.from = m + 1], s, k)

\* The time series of the agent rollup: a bucket inside the window is the rollup
\* of that bucket alone, and the buckets sum to the totals.
BucketsAgree ==
    \A w \in Windows, agent \in Agents :
        LET series == AgentSeries(w, agent) IN
        /\ MapThenSumSet(LAMBDA b : series[b], BucketStarts) = AgentTotal(w, agent)
        /\ \A b \in BucketStarts :
               w.from <= b /\ b + BucketLength - 1 <= w.to =>
                   series[b] = AgentTotal([from |-> b, to |-> b + BucketLength - 1], agent)

\* A turn of codex counts once, though it also reports the sum of its parts.
TurnsCountOnce ==
    \A w \in Windows :
        AgentTotal(w, "codex") = Total({t \in TurnsIn(w, "codex") : t.kind = "input"})

\* However SQLite orders the markers, the projects share out exactly the tokens and
\* the cost of the agents.  The agent rollup hides opencode's cost when the window
\* holds none of its sessions and tokens; the projects still show it.
ProjectsShareOut ==
    \A w \in Windows : \A f \in Attributions(w) :
        /\ SumOverProjects(LAMBDA p : ProjectTokens(w, f, p))
             = MapThenSumSet(LAMBDA agent : AgentTotal(w, agent), Agents)
        /\ SumOverProjects(LAMBDA p : ProjectCost(w, f, p)) = OpencodeCost(w)

\* The projects list every session of the agent rollup, and one more only for a
\* session whose markers in the window name two projects.
SessionsListedOnce ==
    \A w \in Windows :
        LET listed == SumOverProjects(LAMBDA p : Cardinality(ProjectSessions(w, p)))
        IN  /\ listed >= Cardinality(OpencodeSessions(w))
            /\ listed > Cardinality(OpencodeSessions(w)) =>
                   \E m, n \in MarkersIn(w) : m.session = n.session /\ m.project # n.project

\* The cost of opencode in a window is at most what the session list shows for it:
\* the list reads the running totals, the rollup what was added in the window.
SessionCostsCoverAgent ==
    \A w \in Windows : OpencodeCost(w) <= SumOverSessions(LAMBDA s : SessionCost(w, s))

\* Cache economics and the agent rollup agree on opencode and codex, but for the codex
\* rows that name no model; and the economics' buckets sum to its models.
EconomicsMatchRollup ==
    \A w \in Windows :
        LET series    == EconomicsSeries(w)
            unlabeled == {t \in TurnTokens(w, "codex") : ~t.labelled}
            input(S)  == Total({d \in S : d.kind = "input"})
        IN  /\ input(EconomicsRows(w)) + input(unlabeled)
                 = input(AgentTokens(w, "opencode")) + input(AgentTokens(w, "codex"))
                     + Total(TurnsIn(w, "request"))
            /\ MapThenSumSet(LAMBDA b : series[b], BucketStarts) = Total(EconomicsRows(w))

\* What query_reasoning_share promises: one source per harness, nothing counted twice.
ReasoningCountedOnce ==
    cutoff = 0 => \A w \in Windows :
        Total(ReasoningRows(w)) <=
            SumOverSessions(LAMBDA s : UsedBetween(s, "reasoning", 0, w.to))
              + Total({t \in TurnsIn(w, "codex") : t.kind = "reasoning"})
=============================================================================
