----------------------------- MODULE MCAnalytics -----------------------------
(***************************************************************************)
(* The analytic queries, each alone.  Counters runs twice, within two      *)
(* bounds: one counter of one session over four ticks, and sessions,       *)
(* sub-agents, projects and per-turn rows over two.  The pure functions    *)
(* read one input that nothing changes.                                    *)
(***************************************************************************)
EXTENDS Counters

CONSTANTS
    s1, s2, m1, m2, NoInstant, NoModel, Unknown, Absent, NoInput,
    DayLength, LastDay, Offsets,              \* of the buckets by calendar day
    DayTicks, MonthLengths, SeriesDays, RateDays, Models, MaxCalls   \* of the projection

ASSUME AnalyticsAssumption ==
    /\ DayLength \in Nat \ {0} /\ LastDay \in Nat /\ Offsets \subseteq Int /\ NoInstant \notin Int
    /\ DayTicks \in Nat \ {0} /\ MonthLengths \subseteq Nat \ {0} /\ IsFiniteSet(Models)
    /\ SeriesDays \in Nat /\ RateDays \in 0..SeriesDays /\ MaxCalls \in Nat

VARIABLES part, calls, input

AnalyticsVars == <<part, vars, calls, input>>

U == INSTANCE Usage WITH
        Models <- {m1, m2}, Sessions <- {s1}, Reasons <- {"stop", "length"}, CutOff <- "length",
        MaxTime <- 1, BucketLength <- 1, MaxCalls <- 2
D == INSTANCE CalendarDays WITH
        MonthLengths <- {}, SeriesDays <- 0, RateDays <- 0, Models <- {}, MaxCalls <- 0
J == INSTANCE CalendarDays WITH
        DayLength <- DayTicks, LastDay <- 0, Offsets <- {}
Named(request, alias, flat) == [request |-> request, alias |-> alias, flat |-> flat]
V == INSTANCE SessionViews WITH
        Namings <- {Named(m1, Absent, Absent), Named(Absent, m2, Absent), Named(Absent, m2, m1)},
        Sessions <- 1..2, Tools <- {"claude_code", "pi"}, MainTools <- {"claude_code"},
        Projects <- {m1}, Models <- {m1, m2}, Priced <- {m1}, MaxTime <- 3, MaxLength <- 2,
        MaxCalls <- 3, Caps <- {1}, Thresholds <- 1..2, DayLength <- 2, MinTurns <- 2, Tops <- {2},
        MaxRun <- 4, Gaps <- 0..1
M == INSTANCE Assessment WITH
        MaxTime <- 6, MaxRequests <- 3, Limits <- 1..3, MinEligible <- 2,
        Medians <- {0, 8, 10, 11, 12}, Tails <- {12, 15}, Percents <- {0, 5, 6, 10}
Q == INSTANCE CallViews WITH
        Models <- {m1}, Sessions <- {"a"}, Conversations <- {"b", "c"}, Bounds <- 1..2,
        MinSamples <- 1, MaxCalls <- 3, MaxValue <- 10, MaxValues <- 3, MaxBuckets <- 4
T == INSTANCE CounterReports WITH
        Sessions <- {"s", "t"}, Kinds <- {"in", "read"}, Groups <- {"g", "h"}, Counted <- {"in"},
        DayLength <- 1, MaxTime <- 2, MaxSeries <- 2
P == INSTANCE Pricing WITH
        MaxEntries <- 3, Models <- {m1, m2}, MaxRows <- 2, TopModels <- 1
K == INSTANCE SkillViews WITH
        Sessions <- {"s", "t"}, Skills <- {"x", "y"}, Labels <- {"a", "b"}, DayLength <- 2,
        MaxTime <- 1, MaxRows <- 3, TopQueries <- 2
X == INSTANCE ModelMix WITH
        Models <- {m1}, Sessions <- {"s"}, Providers <- {"p", "q"}, MaxTime <- 1, MaxRows <- 3,
        MaxTokens <- 0, MaxWeight <- 0
S == INSTANCE ModelMix WITH
        Models <- {m1}, Sessions <- {}, Providers <- {"a", "b", "c"}, MaxTime <- 0, MaxRows <- 0,
        MaxTokens <- 7, MaxWeight <- 3

AnalyticsInit ==
    /\ \/ part \in {"counters", "attribution", "usage"} /\ input = NoInput
       \/ part = "days"          /\ D!Init
       \/ part = "projection"    /\ J!ProjectionInit
       \/ part = "apportion"     /\ S!SplitInit
       \/ part = "distributions" /\ Q!BinInit
       \/ part = "runs"          /\ V!RunInit
       \/ part = "sessions"      /\ V!Init
       \/ part = "comparison"    /\ M!Init
       \/ part = "calls"         /\ Q!Init
       \/ part = "reports"       /\ T!Init
       \/ part = "prices"        /\ P!LookupInit
       \/ part = "costs"         /\ P!RollupInit
       \/ part = "skills"        /\ K!Init
       \/ part = "mix"           /\ X!Init
    /\ Init
    /\ U!Init

\* The bounds of the two: one counter of one session; two ticks with every report stored,
\* every amount 1, and turns beside one marker at most.
OneSeries ==
    /\ markers = {} /\ turns = {}
    /\ \A r \in metrics \cup late : r.session = s1 /\ r.kind = "input"
TwoTicks ==
    /\ now <= 1 /\ late = {} /\ Cardinality(metrics) <= 2
    /\ \A r \in metrics : used[<<r.session, r.kind>>][r.ts] = 1
    /\ \A t \in turns : t.tokens = 1
    /\ turns = {} \/ Cardinality(markers) <= 1

AnalyticsNext ==
    \/ part = "counters"    /\ Next /\ OneSeries' /\ UNCHANGED <<part, calls, input>>
    \/ part = "attribution" /\ Next /\ TwoTicks' /\ UNCHANGED <<part, calls, input>>
    \/ part = "usage"       /\ U!Next /\ UNCHANGED <<part, vars, input>>
AnalyticsSpec == AnalyticsInit /\ [][AnalyticsNext]_AnalyticsVars

\* One counter: opencode_counter_deltas never counts more than was used since the
\* last stored row before the window; it and the window delta are exact when nothing
\* restarted and nothing is missing; the window delta falls short of the row by row sum
\* only when the counter went down; neighbouring windows add up to the window they make.
CountersAgree ==
    part = "counters" =>
        /\ TypeOK
        /\ RowsNeverOvercount /\ ExactWhenComplete
        /\ ReadingsAgree      /\ WindowsAddUp

\* The buckets of the agent rollup sum to its totals; a turn of codex counts once, though
\* it reports the sum of its parts too; the projects share out exactly what the agents
\* used and list a session once unless its markers name two; the cost of opencode is at
\* most what the session list shows; cache economics agrees on opencode and codex.
RollupsAgree ==
    /\ part = "counters" => BucketsAgree
    /\ part = "attribution" =>
        /\ TypeOK
        /\ BucketsAgree     /\ TurnsCountOnce
        /\ ProjectsShareOut /\ SessionsListedOnce
        /\ SessionCostsCoverAgent /\ EconomicsMatchRollup

\* The views over the LLM spans count the same calls, requests, failures, retries,
\* reroutes and truncated calls wherever two of them show the same number.  The reports
\* by session count each call once, share a session's active time out to tools and days,
\* and find the same waits in a window as in its halves.  Every distribution over the
\* calls is of all of them, the top lists fit into their sums, and what one session or bin
\* says of its calls holds of them together.  The comparison of models counts each request
\* in one window, and names a regression only where something is materially worse.  The
\* sides of a skill are all the sessions, a session is graded by its worst call, and the
\* daily mix of two windows that meet at midnight is the mix of both.  The provider mix,
\* the session costs and the reasoning share count the same tokens.  Reports over the
\* counters of several sessions are exact while their labels keep the series apart, and
\* the days of one add up to the window of another.
ViewsAgree ==
    /\ part = "usage" =>
        /\ U!ViewsShareOneTotal /\ U!RequestViewsAgree
        /\ U!ErrorViewsAgree    /\ U!RetryViewsAgree
        /\ U!RerouteViewsAgree  /\ U!TruncationViewsAgree
    /\ part = "sessions" =>
        /\ V!SessionCountsAgree /\ V!ActiveTimeAddsUp
        /\ V!WaitsTile          /\ V!RareSessionsAgree
    /\ part = "calls" =>
        /\ Q!DistributionsShareTotal /\ Q!TopSpansWithinSessions
        /\ Q!TurnsAgree              /\ Q!PrefixIsShared
        /\ Q!DegenerateBinsMerge     /\ Q!HitRatesBound
    /\ part = "comparison" =>
        /\ M!CountsAreTrue     /\ M!RegressionsAreWorse
        /\ M!WorseRanksNoLower /\ M!BaselinesExchange
    /\ part = "skills" =>
        /\ K!OutcomesCoverSessions /\ K!HeatmapCountsRequests
        /\ K!QualityIsWorst        /\ K!MixTilesAtMidnight
        /\ K!TopQueriesWithinTotal
    /\ part = "mix" => X!MixMatchesSessions /\ X!ReasoningMatchesMix
    /\ part = "reports" => T!OwnSeriesExact /\ T!DaysCoverWindow /\ T!FewerLabelsAgree

\* The day buckets tile the window across a change of the clock, and the two latency
\* endpoints put every call before its end into the same day.
DaysTile == part = "days" => D!DaysTile /\ D!EndpointsAgree

\* The projection sums complete days: the series reaches back far enough for the
\* trailing sums and, except on a 31st, for the month; the models sum to the total; on
\* the last day of a month nothing is added.
ProjectionsComplete ==
    part = "projection" =>
        /\ J!TrailingSumsComplete /\ J!MonthCompleteUntilDay31
        /\ J!ModelsSumToTotal     /\ J!LastDayAddsNothing

\* Nothing is invented or lost: a model's tokens are shared out to its providers to the
\* last one, near the exact shares and in the order of the calls; every value is counted
\* once, in a bucket that holds it, percentiles are in order and fewer than half of the
\* costly sessions are outliers; a session is one chain whose segments follow its idle
\* time, and switches into and out of a tool balance.  Cached tokens save what they do not
\* cost, and buckets cost together what their whole does.  The providers of the mix sum to
\* its total, and the costs of two windows that meet carry over to both.
SumsKept ==
    /\ part = "apportion" =>
        S!ProvidersAddUp /\ S!WithinOneToken /\ S!MoreCallsNoFewerTokens
    /\ part = "distributions" =>
        Q!PercentilesOrdered /\ Q!CountedInItsBucket /\ Q!OutliersAreFew
    /\ part = "runs" => V!ChainsFollowIdleTime /\ V!SwitchesBalance
    /\ part = "prices" => P!FoundWhateverTheSystem /\ P!SavingsAreTheDifference
    /\ part = "costs" =>
        P!SeriesSumsToEstimate /\ P!ViewsPriceInOrder /\ P!ProjectCostCovers
    /\ part = "mix" => X!MixAddsUp /\ X!CostsCarryOver

\* What query_effort_breakdown says of its counters: they are cumulative for each effort,
\* model, type and session.
SessionsAddUp == part = "reports" => T!SessionsAddUp
=============================================================================
