------------------------------- MODULE Usage -------------------------------
(***************************************************************************)
(* The usage views over the spans of LLM calls, and over the logs of their *)
(* replies.  Each view is a query of its own, with its own conditions and  *)
(* grouping; the properties say how what they show for one window fits     *)
(* together.  Calls are stored in any order.                               *)
(***************************************************************************)
EXTENDS Integers, Sequences, FiniteSets, FiniteSetsExt

CONSTANTS
    Models, Sessions, Absent,
    Reasons, CutOff,          \* CutOff \in Reasons: "length"
    MaxTime, BucketLength, MaxCalls

VARIABLE calls    \* the stored spans, and the logs of replies

Times   == 0..MaxTime
Windows == {w \in [from : Times, to : Times] : w.from <= w.to}

\* Model names under gen_ai.request.model, one of its aliases, and gen_ai.response.model.
Names    == {Absent} \cup Models
Identity == [request : Names, alias : Names, response : Names]
NoNames  == [request |-> Absent, alias |-> Absent, response |-> Absent]

\* Finish reasons: one as a string, and many, sent as an OTLP array or as JSON text.
Lists  == {<<r>> : r \in Reasons} \cup {<<q, r>> : q, r \in Reasons}
Many   == {[sent |-> "none", reasons |-> <<>>]} \cup [sent : {"array", "json"}, reasons : Lists]
NoMany == [sent |-> "none", reasons |-> <<>>]

\* A span of an LLM call, a sampling span of Codex, or the log of a reply of Claude Code,
\* which has the reason it stopped and nothing else that these views read.
Call(at, session, names, failed, attempt, one, many, kind) ==
    [at |-> at, session |-> session, names |-> names, failed |-> failed,
     attempt |-> attempt, one |-> one, many |-> many, kind |-> kind]

\* Calls that differ in who made them, in how they went, and in how they finished.
Calls ==
    UNION {
      {Call(t, s, n, FALSE, 1, Absent, NoMany, "llm") :
          t \in Times, s \in {Absent} \cup Sessions, n \in Identity},
      {Call(t, Absent, [NoNames EXCEPT !.request = m], f, a, Absent, NoMany, "llm") :
          t \in Times, m \in Names, f \in BOOLEAN, a \in 0..2},
      {Call(t, Absent, NoNames, FALSE, 1, r, l, "llm") :
          t \in Times, r \in {Absent} \cup Reasons, l \in Many},
      {Call(t, Absent, [NoNames EXCEPT !.alias = m], f, 1, Absent, NoMany, "sampling") :
          t \in Times, m \in Models, f \in BOOLEAN},
      {Call(t, Absent, NoNames, FALSE, 1, r, NoMany, k) :
          t \in Times, r \in Reasons, k \in {"sampling", "log"}}}

-----------------------------------------------------------------------------
In(w)             == {c \in calls : w.from <= c.at /\ c.at <= w.to}
Coalesce(names)   == IF \A i \in DOMAIN names : names[i] = Absent THEN Absent
                     ELSE names[Min({i \in DOMAIN names : names[i] # Absent})]

\* semconv: the response model comes before the aliases of the request model.
Model(c)        == Coalesce(<<c.names.request, c.names.response, c.names.alias>>)
RequestModel(c) == Coalesce(<<c.names.request, c.names.alias>>)

\* llm_span_guard and request_span_guard: Codex's sampling spans carry no tokens and
\* count only where requests and durations do.
LlmCalls(w)     == {c \in In(w) : c.kind = "llm"}
RequestCalls(w) == {c \in In(w) : c.kind # "log"}

Of(S, m)      == {c \in S : Model(c) = m}
Named(S)      == {c \in S : Model(c) # Absent}
N(S)          == Cardinality(S)
Bucket(t)     == (t \div BucketLength) * BucketLength
BucketStarts  == {Bucket(t) : t \in Times}
PerModel(S)   == [m \in Names |-> N(Of(S, m))]
PerBucket(S)  == [b \in BucketStarts |-> PerModel({c \in S : Bucket(c.at) = b})]
Sum(f)        == MapThenSumSet(LAMBDA x : f[x], DOMAIN f)
SumSeries(f)  == MapThenSumSet(LAMBDA b : Sum(f[b]), DOMAIN f)

\* query_token_usage: the totals count every call, by_model those with a model.
TotalRequests(w) == N(LlmCalls(w))
ByModel(w)       == PerModel(Named(LlmCalls(w)))

\* Mutant: a call whose response names no model is rerouted, too.
DiffersAnyhow(c) == RequestModel(c) # Absent /\ RequestModel(c) # c.names.response

Differs(c)   == RequestModel(c) # Absent /\ c.names.response # Absent
                  /\ RequestModel(c) # c.names.response
Rerouted(w)  == PerModel({c \in Named(LlmCalls(w)) : Differs(c)})

\* query_model_drift: the pairs of request and response model, with their counts.
Drift(w) == [p \in Names \X Names |->
    N({c \in LlmCalls(w) : <<RequestModel(c), c.names.response>> = p})]

\* query_cost_series keeps the calls without a model.
CostSeries(w) == PerBucket(LlmCalls(w))

\* query_top_sessions, without its limit.
TopSessions(w) == [s \in Sessions |-> N({c \in LlmCalls(w) : c.session = s})]

\* query_calls_series and query_latency_series; query_latency_stats.
CallsSeries(w)   == PerBucket(RequestCalls(w))

LatencySeries(w) == PerBucket(RequestCalls(w))
LatencyStats(w)  == PerModel(RequestCalls(w))

\* query_error_rate leaves out calls without a model, query_error_types does not.
ErrorRate(w) == [m \in Models |-> N({c \in Of(LlmCalls(w), m) : c.failed})]

ErrorTypes(w) == PerModel({c \in LlmCalls(w) : c.failed})

\* query_retry_stats raises an attempt below 1 to 1; query_recent_retries selects.
RetriedCalls(w) == N({c \in LlmCalls(w) : Max({c.attempt, 1}) > 1})

RecentRetries(w) == {c \in LlmCalls(w) : c.attempt > 1}

-----------------------------------------------------------------------------
\* Finish reasons.

\* convert_attributes: every stored attribute is a string; an OTLP array becomes
\* "[a, b]", without quotes, which is not JSON.
StoredType   == "text"
IsJson(many) == many.sent = "json"

\* The first of many reasons, where the type of the attribute is array.
FirstOfMany(c) ==
    IF StoredType = "array" /\ c.many.reasons # <<>> THEN c.many.reasons[1] ELSE Absent

\* query_truncation_rate, and query_top_spans with truncated_only.
Truncated(w) == {c \in LlmCalls(w) : Coalesce(<<c.one, FirstOfMany(c)>>) = CutOff}

TopTruncated(w) == {c \in LlmCalls(w) : c.one = CutOff \/ FirstOfMany(c) = CutOff}

\* query_finish_reasons: each one reason, of whatever span or log of a reply carries it
\* (finish_reason_guard asks for no LLM call), and each of many where the text is JSON.
FinishReasons(w, r) ==
    N({c \in In(w) : c.one = r})
      + MapThenSumSet(LAMBDA c : N({i \in DOMAIN c.many.reasons : c.many.reasons[i] = r}),
                      {c \in In(w) : IsJson(c.many)})

-----------------------------------------------------------------------------
Init == calls = {}

Store(c) ==
    /\ c \notin calls /\ Cardinality(calls) < MaxCalls
    /\ calls' = calls \cup {c}

Next == \E c \in Calls : Store(c)
Spec == Init /\ [][Next]_calls

-----------------------------------------------------------------------------
\* The totals, the cost series, the models and the sessions of a window count the same
\* calls; what a view leaves out is what has no model or no session.
ViewsShareOneTotal ==
    \A w \in Windows :
        LET total == TotalRequests(w)
            lost(Missing(_)) == N({c \in LlmCalls(w) : Missing(c)})
        IN  /\ SumSeries(CostSeries(w)) = total
            /\ Sum(ByModel(w)) = total - lost(LAMBDA c : Model(c) = Absent)
            /\ Sum(TopSessions(w)) = total - lost(LAMBDA c : c.session = Absent)

\* The series and the latency views count the same requests, by bucket and by model,
\* and exceed the totals by exactly Codex's sampling spans.
RequestViewsAgree ==
    \A w \in Windows :
        /\ CallsSeries(w) = LatencySeries(w)
        /\ \A m \in Names :
               LatencyStats(w)[m] = MapThenSumSet(LAMBDA b : CallsSeries(w)[b][m], BucketStarts)
        /\ Sum(LatencyStats(w)) - TotalRequests(w) = N({c \in In(w) : c.kind = "sampling"})

\* The error rates and the error types count the same failures, but for those of calls
\* without a model, which only the types show.
ErrorViewsAgree ==
    \A w \in Windows :
        /\ \A m \in Models : ErrorTypes(w)[m] = ErrorRate(w)[m]
        /\ Sum(ErrorTypes(w)) = N({c \in LlmCalls(w) : c.failed})

\* query_recent_retries: the aggregate and the listing always agree.
RetryViewsAgree == \A w \in Windows : RetriedCalls(w) = N(RecentRetries(w))

\* A call counts as rerouted in the usage of its model exactly when the drift view
\* shows its pair as differing.
RerouteViewsAgree ==
    \A w \in Windows :
        Sum(Rerouted(w)) = MapThenSumSet(LAMBDA p : Drift(w)[p],
            {p \in Names \X Names : p[1] # Absent /\ p[2] # Absent /\ p[1] # p[2]})

\* The listing of truncated calls shows those the rate counts, and the finish reasons
\* count at least as many.
TruncationViewsAgree ==
    \A w \in Windows :
        /\ Truncated(w) = TopTruncated(w)
        /\ N(Truncated(w)) <= FinishReasons(w, CutOff)

\* What query_finish_reasons says of itself: the reasons of an OTLP array are counted.
ArrayReasonsCounted ==
    \A w \in Windows : \A r \in Reasons :
        FinishReasons(w, r) >= N({c \in LlmCalls(w) : \E i \in DOMAIN c.many.reasons : c.many.reasons[i] = r})

\* What the documentation says of the truncation rate: it counts the calls that ended
\* with that reason.
TruncationSeesMany ==
    \A w \in Windows : \A c \in LlmCalls(w) :
        c.one = Absent /\ c.many.reasons # <<>> /\ c.many.reasons[1] = CutOff => c \in Truncated(w)

\* What semconv says of model identity: a response model never replaces a request model.
IdentityIsRequested ==
    \A c \in calls : RequestModel(c) # Absent => Model(c) = RequestModel(c)
=============================================================================
