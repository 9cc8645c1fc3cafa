------------------------------ MODULE Sessions ------------------------------
(***************************************************************************)
(* What the session endpoints show: the list of sessions, the diagnosis of *)
(* one, both made in memory of the spans they fetch, and its context, made *)
(* of rows of three tables.  The input is a store and a request; nothing   *)
(* changes it.  A span is written at the time of its place in the store.   *)
(***************************************************************************)
EXTENDS Integers, Sequences, FiniteSets, FiniteSetsExt, SequencesExt

CONSTANTS
    MaxSpans, Limits,
    ListCap, SessionCap,    \* spans fetched by the list, 20000, and by a diagnosis, 10000
    MaxRows,                \* rows of a session in the spans and in the logs
    Absent

VARIABLE input

\* An interaction of Claude Code, its requests with and without gen_ai attributes, an
\* LLM span of another tool, a call of a tool.
Kinds == {"interaction", "request", "old request", "chat", "tool"}
Span(k, root, tokens, f) == [kind |-> k, root |-> root, tokens |-> tokens, failed |-> f]
Shapes ==
    {Span("interaction", TRUE, Absent, FALSE), Span("old request", FALSE, 3, FALSE), Span("tool", FALSE, Absent, TRUE)}
    \cup {Span("request", FALSE, n, FALSE) : n \in {Absent, 1}}
    \cup {Span("chat", root, n, TRUE) : root \in BOOLEAN, n \in {Absent, 1}}
Placed(s, session, trace) == s @@ [session |-> session, trace |-> trace]
ListInit ==
    \E first \in Shapes, rest \in [2..MaxSpans -> Shapes \X {"s", "t"} \X {"x", "y"}],
       from \in 1..2, agent \in {Absent, "claude"}, limit \in Limits :
        input = [spans |-> [i \in 1..MaxSpans |->
                               IF i = 1 THEN Placed(first, "s", "x")
                               ELSE Placed(rest[i][1], rest[i][2], rest[i][3])],
                 from |-> from, agent |-> agent, limit |-> limit]

\* Rows of one session in two tables, in the order of their times; the groups of its
\* metrics by name and unit, with the project they carry.
Agents  == {"claude", "opencode", "other"}
Ordered(s) == \A i, j \in DOMAIN s : i < j => s[i].at <= s[j].at
Rows    == {s \in UNION {[1..n -> [at : 0..1, agent : Agents]] : n \in 0..MaxRows} : Ordered(s)}
Groups  == {<<>>, <<[agent |-> "opencode", project |-> "p"]>>,
            <<[agent |-> "opencode", project |-> Absent], [agent |-> "opencode", project |-> "p"]>>,
            <<[agent |-> "codex", project |-> "q"]>>}
ContextInit ==
    \E s, l \in Rows, metrics \in Groups, limit \in Limits :
        input = [shown |-> s, logs |-> l, metrics |-> metrics, limit |-> limit]

-----------------------------------------------------------------------------
At(i)    == input.spans[i]
GenAi(i) == At(i).kind \in {"request", "chat"}
Llm(i)   == GenAi(i) \/ At(i).kind = "old request"

\* query_spans: the n that started last.
FetchSpans(S, n) == {i \in S : Cardinality({j \in S : j > i}) < n}

\* root_llm_span of a trace, the newest span first: one with gen_ai attributes, without a
\* parent if there is one.
Root(S) ==
    LET gen == {i \in S : GenAi(i)}
        top == {i \in gen : At(i).root}
    IN  IF top # {} THEN Max(top) ELSE IF gen # {} THEN Max(gen) ELSE Absent

\* GenAiSpanInfo::from_attributes reads tokens only beside a gen_ai attribute.
Tokens(i) == IF GenAi(i) THEN At(i).tokens ELSE Absent
Known(i)  == IF Tokens(i) = Absent THEN 0 ELSE Tokens(i)
TokensOf(S) == MapThenSumSet(Known, {i \in S : Llm(i)})

\* One interaction: the tokens of its root, or else of all its LLM spans together.
Interaction(S) ==
    LET r == Root(S)
    IN  [start |-> r, failed |-> At(r).failed,
         tokens |-> IF Tokens(r) # Absent THEN Tokens(r)
                    ELSE IF TokensOf(S) > 0 THEN TokensOf(S) ELSE Absent]

TraceIds(S)     == {At(i).trace : i \in S}
InTrace(S, t)   == {i \in S : At(i).trace = t}
InSession(S, s) == {i \in S : At(i).session = s}
Interactions(S) == {t \in TraceIds(S) : Root(InTrace(S, t)) # Absent}

\* list_sessions.
Families(S) == {IF At(i).kind = "chat" THEN "opencode" ELSE "claude" : i \in {j \in S : At(j).kind # "tool"}}
Summary(S) ==
    LET all == {Interaction(InTrace(S, t)) : t \in Interactions(S)}
        Sum(P(_)) == MapThenSumSet(LAMBDA a : IF P(a) THEN a.tokens ELSE 0, all)
    IN  [count |-> Cardinality(all), failed |-> Cardinality({a \in all : a.failed}),
         tokens |-> Sum(LAMBDA a : a.tokens # Absent),
         first |-> Min({a.start : a \in all}), last |-> Max({a.start : a \in all})]
Listable ==
    LET fetched == FetchSpans({i \in DOMAIN input.spans : i >= input.from}, ListCap)
    IN  [s \in {t \in {"s", "t"} : Interactions(InSession(fetched, t)) # {}} |-> InSession(fetched, s)]
Matching == {s \in DOMAIN Listable : input.agent = Absent \/ input.agent \in Families(Listable[s])}
ListSessions ==
    LET newestFirst == SetToSortSeq(Matching, LAMBDA s, t : Summary(Listable[s]).last > Summary(Listable[t]).last)
    IN  [sessions |-> SubSeq(newestFirst, 1, Min({input.limit, Len(newestFirst)})),
         total |-> Cardinality(Matching)]

\* get_session_diagnose: the traces in the order of their earliest spans; an interaction
\* is numbered by its place among all traces.
Diagnosis(s) ==
    LET fetched == FetchSpans(InSession(DOMAIN input.spans, s), SessionCap)
        ordered == SetToSortSeq(TraceIds(fetched), LAMBDA t, u : Min(InTrace(fetched, t)) < Min(InTrace(fetched, u)))
        shown   == SetToSortSeq({k \in DOMAIN ordered : ordered[k] \in Interactions(fetched)}, <)
    IN  [n \in DOMAIN shown |-> Interaction(InTrace(fetched, ordered[shown[n]])) @@ [index |-> shown[n]]]

-----------------------------------------------------------------------------
\* query_session_context fetches one row more than the limit and shows the limit.
Fetch(s, n)  == SubSeq(s, 1, Min({n, Len(s)}))
Shown(s, n)  == Fetch(s, n)
Marked(s, table) == [i \in DOMAIN s |-> [at |-> s[i].at, row |-> <<table, i>>]]
Merge(s, l) ==
    LET all == s \o l
        order == SetToSortSeq(DOMAIN all, LAMBDA i, j : all[i].at < all[j].at \/ (all[i].at = all[j].at /\ i < j))
    IN  [k \in DOMAIN order |-> all[order[k]]]
Timeline(n) == Fetch(Merge(Marked(Shown(input.shown, n), "span"), Marked(Shown(input.logs, n), "log")), n)

Has(s, agent)  == \E i \in DOMAIN s : s[i].agent = agent
DetectedAgent(n) ==
    LET s == Fetch(input.shown, n + 1)
        l == Fetch(input.logs, n + 1)
    IN  IF Has(s, "claude") \/ Has(l, "claude") THEN "claude"
        ELSE IF Has(s, "opencode") \/ Has(input.metrics, "opencode") THEN "opencode"
        ELSE IF Has(input.metrics, "codex") THEN "codex"
        ELSE Absent
ContextFound(n) == Fetch(input.shown, n + 1) # <<>> \/ Fetch(input.logs, n + 1) # <<>> \/ input.metrics # <<>>
ProjectId ==
    LET own == {i \in DOMAIN input.metrics : input.metrics[i].agent = "opencode"}
    IN  IF own = {} THEN Absent ELSE input.metrics[Min(own)].project

-----------------------------------------------------------------------------
\* The list and the diagnosis show the same of a session while neither meets its cap: a
\* session is listed when it can be diagnosed, with as many interactions, failures and
\* tokens, over the same time.
ListMatchesDiagnosis ==
    \A s \in {"s", "t"} :
        LET d == Diagnosis(s)
            Sum(f(_)) == MapThenSumSet(LAMBDA n : f(d[n]), DOMAIN d)
            starts == {d[n].start : n \in DOMAIN d}
        IN  /\ input.from = 1
            /\ Len(input.spans) <= ListCap
            /\ Cardinality(InSession(DOMAIN input.spans, s)) <= SessionCap
            => /\ s \in DOMAIN Listable <=> d # <<>>
               /\ d # <<>> =>
                    Summary(Listable[s]) =
                        [count |-> Len(d), first |-> Min(starts), last |-> Max(starts),
                         failed |-> Sum(LAMBDA a : IF a.failed THEN 1 ELSE 0),
                         tokens |-> Sum(LAMBDA a : IF a.tokens = Absent THEN 0 ELSE a.tokens)]

\* A cut list has the sessions that were active last, and its total still counts all that
\* the filter keeps.
CutListIsNewest ==
    LET shown == ToSet(ListSessions.sessions)
    IN  /\ Cardinality(shown) = Min({input.limit, ListSessions.total})
        /\ \A s \in shown, t \in Matching \ shown : Summary(Listable[s]).last > Summary(Listable[t]).last

\* The timeline of a session is the earliest of all its spans and logs, not only of those
\* shown, and a larger limit continues it.
TimelineIsEarliest ==
    LET all == Merge(Marked(input.shown, "span"), Marked(input.logs, "log"))
    IN  Timeline(input.limit) = Fetch(all, input.limit)

\* Whether a session is found does not depend on the limit.
FoundWhateverTheLimit ==
    ContextFound(input.limit) <=> (input.shown # <<>> \/ input.logs # <<>> \/ input.metrics # <<>>)

\* Fails: "aggregate across all LLM child spans" (sessions.rs:95), for a trace of Claude
\* Code; its interaction has no gen_ai attribute, so the newest request is its root.
TraceTokensAreAllCalls ==
    \A s \in {"s", "t"} : \A t \in Interactions(InSession(DOMAIN input.spans, s)) :
        LET S == InTrace(InSession(DOMAIN input.spans, s), t)
        IN  (/\ \E i \in S : At(i).kind = "interaction"
             /\ \A i \in S : At(i).kind \notin {"chat", "old request"}
             /\ TokensOf(S) > 0) => Interaction(S).tokens = TokensOf(S)

\* Fails: the interactions are numbered without gaps.
IndexesAreConsecutive == \A s \in {"s", "t"} : \A n \in DOMAIN Diagnosis(s) : Diagnosis(s)[n].index = n

\* Fails: "chronological order" (sessions.rs:78), of the starts that are shown.
StartsInOrder == \A s \in {"s", "t"} : LET d == Diagnosis(s) IN \A n \in 2..Len(d) : d[n - 1].start < d[n].start

\* Fails: a session whose metrics name a project shows one.
ProjectIsFound == (\E i \in DOMAIN input.metrics : input.metrics[i].agent = "opencode" /\ input.metrics[i].project # Absent)
                      => ProjectId # Absent
=============================================================================
