------------------------------ MODULE CallViews -----------------------------
(***************************************************************************)
(* The remaining views over the LLM calls of a window: the top spans,      *)
(* sessions and conversations, the composition of contexts, latency by     *)
(* context, and the distributions of depth, parameters, stop reasons, kinds *)
(* of context, speed and cache hits.  Each is a query of its own; the input *)
(* is the calls and a limit for the lists.  And the distribution views:    *)
(* percentiles by rounded rank, values counted in linear or logarithmic    *)
(* buckets, and the outlier rule for session costs; the input is a list of *)
(* values and how it is binned.                                            *)
(***************************************************************************)
EXTENDS Integers, Sequences, FiniteSets, FiniteSetsExt, SequencesExt

CONSTANTS
    Sessions, Conversations, Models, Absent,
    Bounds,         \* of the context bins: 1000, 10000, 50000 and 100000 tokens
    MinSamples,     \* valid values before TTFT may be degenerate: 10
    MaxCalls,
    MaxValue, MaxValues, MaxBuckets

VARIABLE input      \* [calls, limit], or [values : Seq(Nat), n, scale : "linear" or "log"]

Amounts == {Absent, 0, 1, 3}
Reasons == {"stop", "length"}

Plain ==
    [session |-> Absent, conversation |-> Absent, model |-> Absent, in |-> 1, out |-> 1,
     read |-> Absent, length |-> 10, ttft |-> Absent, stop |-> Absent, one |-> Absent,
     context |-> Absent, temperature |-> Absent, speed |-> Absent, guarded |-> TRUE]

\* Calls that differ in where they belong and what they used, in how they timed, in how they
\* ended, or in their labels; request spans of Claude Code are there without the marks of a call, too.
Shapes ==
    {{[Plain EXCEPT !.session = s, !.read = r] : s \in Sessions \cup {Absent}, r \in Amounts},
     {[Plain EXCEPT !.conversation = c, !.in = i] : c \in Conversations \cup {Absent}, i \in Amounts},
     {[Plain EXCEPT !.model = m, !.in = i, !.read = r] :
        m \in Models \cup {Absent}, i \in {0, 1}, r \in {Absent, 0, 3}},
     {[Plain EXCEPT !.in = i, !.ttft = t] : i \in Amounts, t \in {Absent, 0, 5, 9, 11}},
     {[Plain EXCEPT !.stop = s, !.one = o] : s, o \in Reasons \cup {Absent}},
     {[Plain EXCEPT !.model = m, !.context = c, !.temperature = c, !.speed = c, !.guarded = g] :
        m \in Models \cup {Absent}, c \in {Absent, 1}, g \in BOOLEAN}}

Init == \E shapes \in Shapes, l \in 1..MaxCalls :
            \E calls \in [1..MaxCalls -> shapes] : input = [calls |-> calls, limit |-> l]

-----------------------------------------------------------------------------
Rows    == DOMAIN input.calls
Row(i)  == input.calls[i]
Calls   == {i \in Rows : Row(i).guarded}
N(S)    == Cardinality(S)
Or0(x)  == IF x = Absent THEN 0 ELSE x
Total(i)      == Or0(Row(i).in) + Or0(Row(i).out) + Or0(Row(i).read)
Sum(S, F(_))  == MapThenSumSet(F, S)
Cells(S, f)   == {{i \in S : Row(i)[f] = v} : v \in {Row(i)[f] : i \in S}}    \* GROUP BY f

\* ORDER BY key LIMIT n: any n whose keys no other row's exceeds.
Tops(S, n, Above(_, _)) ==
    {T \in SUBSET S : N(T) = Min({n, N(S)}) /\ \A i \in S \ T, j \in T : ~Above(i, j)}

\* query_top_spans.  A share of tokens is a pair; of nothing it is NULL, which sorts below.
Share(part, whole)  == IF whole = 0 THEN Absent ELSE <<part, whole>>
Less(x, y)          == IF y = Absent THEN FALSE ELSE x = Absent \/ x[1] * y[2] < y[1] * x[2]
Verbosity(i)        == Share(Or0(Row(i).out), Or0(Row(i).in) + Or0(Row(i).read))
CacheEfficiency(i)  == Share(Or0(Row(i).read), Or0(Row(i).in) + Or0(Row(i).read))
MoreTokens(i, j)    == Total(i) > Total(j)
Slower(i, j)        == Row(i).length > Row(j).length
MoreVerbose(i, j)   == Less(Verbosity(j), Verbosity(i))
WorseCached(i, j)   == Less(CacheEfficiency(i), CacheEfficiency(j))

\* query_top_sessions, query_top_conversations: groups of calls.
InSession      == {i \in Calls : Row(i).session # Absent}
InConversation == {i \in Calls : Row(i).conversation # Absent}
Heavier(S, T)  == Sum(S, Total) > Sum(T, Total)
TopGroups(G, n)  == {T \in SUBSET G : N(T) = Min({n, N(G)}) /\ \A s \in G \ T, t \in T : ~Heavier(s, t)}
TopSessions      == TopGroups(Cells(InSession, "session"), input.limit)
TopConversations == TopGroups(Cells(InConversation, "conversation"), input.limit)

\* query_conversation_depth: the turns in order; percentile takes the rounded rank.
Turns == LET G == Cells(InConversation, "conversation")
         IN  CHOOSE s \in [1..N(G) -> 1..MaxCalls] :
                 /\ \A k \in 1..N(G) - 1 : s[k] <= s[k + 1]
                 /\ \A v \in 1..MaxCalls : N({k \in 1..N(G) : s[k] = v}) = N({g \in G : N(g) = v})
Percentile(s, p) == s[((Len(s) - 1) * p + 50) \div 100 + 1]

\* query_context_composition: the calls of each session, those that say what they read
\* from the cache, the least and the most of it.
Cached(S) == {i \in S : Row(i).read # Absent}

\* Mutant: a call that says nothing of the cache has read nothing from it.
PrefixOfAll(S) == Min({Or0(Row(i).read) : i \in S})

FixedPrefix(S) == Min({Row(i).read : i \in Cached(S)})
Peak(S)        == Max({Or0(Row(i).read) : i \in S})
Composition    == {S \in Cells(InSession, "session") : Cached(S) # {}}

\* query_latency_by_context, with TtftAccum.
BinOf(t) == N({b \in Bounds : b <= t})
WithInput == {i \in Calls : Row(i).in # Absent /\ Row(i).in # 0}
Bins      == {{i \in WithInput : BinOf(Row(i).in) = b} : b \in 0..N(Bounds)} \ {{}}
Valid(i)  == Row(i).ttft \notin {Absent, 0} /\ Row(i).ttft <= Row(i).length
Ttfts(S)      == {i \in S : Valid(i)}
Invalid(S)    == {i \in S : Row(i).ttft # Absent /\ ~Valid(i)}
Buffered(S)   == {i \in Ttfts(S) : Row(i).length > 0 /\ 10 * Row(i).ttft >= 9 * Row(i).length}
Degenerate(S) == N(Ttfts(S)) >= MinSamples /\ 10 * N(Buffered(S)) >= 9 * N(Ttfts(S))

\* query_stop_reasons reads stop_reason, then the single finish reason.
Stop(i)     == IF Row(i).stop # Absent THEN Row(i).stop ELSE Row(i).one
StopReasons == [r \in Reasons \cup {Absent} |-> N({i \in Calls : Stop(i) = r})]
\* query_truncation_rate, which does not read stop_reason.
Truncated   == {i \in Calls : Row(i).one = "length"}

\* query_context_type_split, query_request_param_profile, query_cache_hit_rate.
ByContext     == Cells(Calls, "context")
ByTemperature == Cells(Calls, "temperature")
ByModel       == Cells(Calls, "model")
HitRate(S)    == Share(Sum(S, LAMBDA i : Or0(Row(i).read)), Sum(S, LAMBDA i : Or0(Row(i).in) + Or0(Row(i).read)))

\* query_speed_distribution counts every request span of Claude Code.
BySpeed == {{i \in g : Row(i).model = m} : g \in Cells(Rows, "speed"), m \in {Row(i).model : i \in Rows}} \ {{}}

-----------------------------------------------------------------------------
Covered(G) == Sum(G, N)

\* Each distribution is of all calls: its parts sum to the same number.  Speed also counts
\* the request spans that no guard recognises; the bins leave out calls without input.
DistributionsShareTotal ==
    /\ \A G \in {ByContext, ByTemperature, ByModel} : Covered(G) = N(Calls)
    /\ Sum(DOMAIN StopReasons, LAMBDA r : StopReasons[r]) = N(Calls)
    /\ Covered(BySpeed) - N(Calls) = N(Rows \ Calls)
    /\ N(Calls) - Covered(Bins) = N({i \in Calls : Or0(Row(i).in) = 0})

\* The spans in the top list of tokens never weigh more than their session in the list of
\* sessions, and weigh the same once the list is long enough for all.
TopSpansWithinSessions ==
    \A T \in Tops(Calls, input.limit, MoreTokens), s \in Sessions :
        LET all == {i \in Calls : Row(i).session = s}
        IN  /\ Sum(T \cap all, Total) <= Sum(all, Total)
            /\ input.limit >= N(Calls) => T \cap all = all

\* The list of conversations and the depth of conversations count the same turns; the list
\* cut to its limit shows the rest as no heavier than what it has.
TurnsAgree ==
    /\ \A T \in TopConversations : Covered(T) <= N(InConversation)
    /\ Len(Turns) = N(Cells(InConversation, "conversation"))
    /\ Sum(DOMAIN Turns, LAMBDA k : Turns[k]) = N(InConversation)
    /\ Turns # <<>> =>
         Percentile(Turns, 50) <= Percentile(Turns, 95) /\ Percentile(Turns, 95) <= Percentile(Turns, 99)
           /\ N(InConversation) <= Len(Turns) * Turns[Len(Turns)]

\* The fixed prefix of a session is what every one of its cached calls has read, so the
\* growth is never negative and the prefix counted once for each is within what was read.
PrefixIsShared ==
    \A S \in Composition :
        /\ \A i \in Cached(S) : FixedPrefix(S) <= Row(i).read
        /\ FixedPrefix(S) * N(Cached(S)) <= Sum(S, LAMBDA i : Or0(Row(i).read))
        /\ FixedPrefix(S) <= Peak(S)
        /\ (N(Cached(S)) = 1 \/ FixedPrefix(S) = Peak(S)) <=> \A i, j \in Cached(S) : Row(i).read = Row(j).read

\* A bin is degenerate only if nearly all of its valid values are, so two bins that are
\* stay degenerate when they are one, as in the statistics of the model.
DegenerateBinsMerge ==
    \A S, T \in Bins : S # T /\ Degenerate(S) /\ Degenerate(T) => Degenerate(S \cup T)

\* The whole hit rate lies between the rates of the models.
HitRatesBound ==
    LET rates == {HitRate(S) : S \in ByModel} \ {Absent}
    IN  rates # {} => /\ \E r \in rates : ~Less(HitRate(Calls), r)
                      /\ \E r \in rates : ~Less(r, HitRate(Calls))

\* What the order by cache efficiency says: the worst come first.  A call without any
\* input comes before every call that read nothing.
WorstCachedFirst ==
    \A T \in Tops(Calls, input.limit, WorseCached) :
        (\E i \in Calls : CacheEfficiency(i) # Absent) => \E i \in T : CacheEfficiency(i) # Absent

\* A truncated call is one whose stop reason says so: it may say so only there.
StopsAreTruncations == StopReasons["length"] = N(Truncated)

-----------------------------------------------------------------------------
BinInit ==
    \E k \in 1..MaxValues, n \in 1..MaxBuckets, scale \in {"linear", "log"} :
        \E values \in [1..k -> 0..MaxValue] :
            input = [values |-> values, n |-> n, scale |-> scale]

Values == input.values
Sorted(s) == SortSeq(s, <)

\* idx = round((n - 1) * p), half away from zero, clamped.
Rank(count, pct) == Min({((count - 1) * pct + 50) \div 100, count - 1})

SortedPercentile(s, pct) == Sorted(s)[Rank(Len(s), pct) + 1]

Highest == Max({Values[i] : i \in DOMAIN Values})
Lowest  == Min({Values[i] : i \in DOMAIN Values})

\* bin_values and log_cost_buckets, by what bounds are compared with: a value v is
\* below the upper bound of bucket i (from 0).  Linear bounds are lowest + (i+1)*step
\* with n*step = highest - lowest; logarithmic ones highest * 10^-((n-i-1)/(n-1)).
BucketCount ==
    IF input.scale = "log" THEN (IF Highest = 0 \/ input.n < 2 THEN 1 ELSE input.n)
    ELSE IF Highest = Lowest THEN 1 ELSE input.n
Below(v, i) ==
    IF input.scale = "log"
    THEN v ^ (input.n - 1) * 10 ^ (input.n - i - 1) < Highest ^ (input.n - 1)
    ELSE (v - Lowest) * input.n < (i + 1) * (Highest - Lowest)

\* cost_bucket_index: the first bucket whose upper bound is above the value; the last
\* bucket takes the rest, its own bound included.
BucketIndex(v) ==
    CHOOSE i \in 0..(BucketCount - 1) :
        /\ i + 1 = BucketCount \/ Below(v, i)
        /\ \A j \in 0..(i - 1) : ~Below(v, j)

Counts == [i \in 0..(BucketCount - 1) |->
    Cardinality({k \in DOMAIN Values : BucketIndex(Values[k]) = i})]

\* apply_anomaly_flags: free sessions are left out of the median.
Costs == SelectSeq(Values, LAMBDA v : v > 0)

\* cost_median_threshold, times 2: the mean of the two middle values.
TwiceMedian(s) == Sorted(s)[(Len(s) + 1) \div 2] + Sorted(s)[Len(s) \div 2 + 1]

Anomalous == {k \in DOMAIN Values : Len(Costs) >= 2 /\ 2 * Values[k] > 3 * TwiceMedian(Costs)}

-----------------------------------------------------------------------------
\* Percentiles are values that occurred, they are in order, and at least half of the
\* values, but for one, are at most the median and half at least it.
PercentilesOrdered ==
    LET p50   == SortedPercentile(Values, 50)
        count(Holds(_)) == Cardinality({k \in DOMAIN Values : Holds(Values[k])})
    IN  /\ Lowest <= p50 /\ p50 <= SortedPercentile(Values, 95)
        /\ SortedPercentile(Values, 95) <= SortedPercentile(Values, 99)
        /\ 2 * count(LAMBDA v : v <= p50) >= Len(Values)
        /\ 2 * count(LAMBDA v : v >= p50) >= Len(Values)

\* Every value is counted once, in a bucket whose bounds hold it: below its upper
\* bound, unless it is the highest value, and not below the one before.
CountedInItsBucket ==
    /\ MapThenSumSet(LAMBDA i : Counts[i], DOMAIN Counts) = Len(Values)
    /\ \A k \in DOMAIN Values :
           LET v == Values[k]
               i == BucketIndex(v)
           IN  BucketCount > 1 =>
                   /\ Below(v, i) \/ v = Highest
                   /\ i > 0 => ~Below(v, i - 1)

\* Outliers are rare: fewer than half of the sessions that cost something are flagged,
\* so never one of two, and every session that cost more than a flagged one is flagged.
OutliersAreFew ==
    /\ Anomalous # {} =>
           2 * Cardinality(Anomalous) < Cardinality({k \in DOMAIN Values : Values[k] > 0})
    /\ \A k \in Anomalous, j \in DOMAIN Values \ Anomalous : Values[j] < Values[k]
=============================================================================
