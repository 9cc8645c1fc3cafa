----------------------------- MODULE SkillViews -----------------------------
(***************************************************************************)
(* What skills go with, which models do which work, how sessions went, how *)
(* retrievals were answered and what the daily tool mix reads from the two *)
(* rollups.  Each is a query of its own over the rows of a window.  The    *)
(* input is the rows and the request; nothing changes it.                  *)
(***************************************************************************)
EXTENDS Integers, FiniteSets, FiniteSetsExt

CONSTANTS
    Sessions, Skills, Labels,
    DayLength, MaxTime, MaxRows,
    TopQueries,     \* 5 unless the request says otherwise
    Absent

VARIABLE input

\* LLM spans, with a session or only a trace; injections of a skill.
Span(s, t, reason, failed) == [kind |-> "span", session |-> s, at |-> t, reason |-> reason, failed |-> failed]
Spans ==
    {Span(s, t, reason, FALSE) : s \in Sessions \cup {Absent}, t \in 0..MaxTime,
                                 reason \in {"stop", "max_tokens", "content_filter"}}
    \cup {Span(s, t, "stop", TRUE) : s \in Sessions, t \in 0..MaxTime}
Injections == [kind : {"skill"}, skill : Skills, session : Sessions \cup {Absent}]
ModelRows  == [kind : {"model"}, role : Labels \cup {Absent}, tool : Labels, model : Labels]
Retrievals == [kind : {"retrieval"}, query : Labels \cup {Absent}, scope : Labels]
\* Rows of the rollups: data points of a tool on a day, tokens of a tool and model on a day.
Points  == [kind : {"points"}, day : 0..MaxTime, tool : Labels, n : 1..2]
Tokens  == [kind : {"tokens"}, day : 0..MaxTime, tool : Labels, model : Labels, n : 0..1]
Distinct(rows) ==
    \A i, j \in DOMAIN rows : i # j /\ rows[i].kind = rows[j].kind /\ rows[i].kind \in {"points", "tokens"} =>
        [rows[i] EXCEPT !.n = 0] # [rows[j] EXCEPT !.n = 0]

Init ==
    \E shapes \in {Spans, Injections \cup {Span(s, 0, "stop", FALSE) : s \in Sessions \cup {Absent}},
                   ModelRows, Retrievals, Points \cup Tokens}, n \in 1..MaxRows :
        \E rows \in [1..n -> shapes], filter \in Labels \cup {Absent} :
            /\ Distinct(rows)
            /\ filter # Absent => shapes = Retrievals
            /\ input = [rows |-> rows, filter |-> filter]

-----------------------------------------------------------------------------
Row(i)      == input.rows[i]
Of(kind)    == {i \in DOMAIN input.rows : Row(i).kind = kind}
N(S)        == Cardinality(S)
Sum(S, F(_)) == MapThenSumSet(F, S)

\* What json_extract finds when a raw string carries a backslash before each quote of the
\* path: no attribute has such a name.
EscapedPath(i) == Absent
OrZero(n)      == IF n = Absent THEN 0 ELSE n

\* query_skill_outcomes: LLM spans by session, or by trace, one here for each span.
SessionOf(i)   == IF Row(i).session # Absent THEN <<"session", Row(i).session>> ELSE <<"trace", i>>
SpanSessions   == {SessionOf(i) : i \in Of("span")}
TokensOf(s)    == Sum({i \in Of("span") : SessionOf(i) = s}, LAMBDA i : OrZero(EscapedPath(i)))
With(skill)    == {SessionOf(i) : i \in {j \in Of("skill") : Row(j).skill = skill /\ Row(j).session # Absent}}
                      \cap SpanSessions
Outcomes ==
    {[skill |-> k, with |-> N(With(k)), without |-> N(SpanSessions) - N(With(k)),
      tokens |-> Sum(With(k), TokensOf), rest |-> Sum(SpanSessions \ With(k), TokensOf)]
        : k \in {j \in Skills : With(j) # {}}}

\* query_model_selection_heatmap: the path of the model and of the first role is escaped.
RoleOf(i)   == IF EscapedPath(i) # Absent THEN EscapedPath(i) ELSE IF Row(i).role = Absent THEN "(all)" ELSE Row(i).role
ModelOf(i)  == IF EscapedPath(i) # Absent THEN EscapedPath(i) ELSE "unknown"
Cell(i)     == <<RoleOf(i), Row(i).tool, ModelOf(i)>>
Heatmap     == {[cell |-> c, requests |-> N({i \in Of("model") : Cell(i) = c}),
                 output |-> Sum({i \in Of("model") : Cell(i) = c}, LAMBDA i : OrZero(EscapedPath(i)))]
                    : c \in {Cell(i) : i \in Of("model")}}

\* query_session_quality_map over the spans that started in a window, the worst of a session.
Errored(i)  == Row(i).failed \/ Row(i).reason = "content_filter"
Degraded(i) == Row(i).reason = "max_tokens"
InWindow(from, to) == {i \in Of("span") : from <= Row(i).at /\ Row(i).at <= to /\ Row(i).session # Absent}
Quality(from, to) ==
    [s \in {Row(i).session : i \in InWindow(from, to)} |->
        LET own == {i \in InWindow(from, to) : Row(i).session = s}
        IN  IF \E i \in own : Errored(i) THEN 2 ELSE IF \E i \in own : Degraded(i) THEN 1 ELSE 0]
Graded(from, to, grade) == N({s \in DOMAIN Quality(from, to) : Quality(from, to)[s] = grade})

\* query_retrieval_stats: the statement of the top queries is not given the values of the
\* filter, so it fails with one that has any.
Retrieved == {i \in Of("retrieval") : input.filter \in {Absent, Row(i).scope}}
Asked(q)  == {i \in Retrieved : Row(i).query = q}
Queries   == {q \in Labels : Asked(q) # {}}
MostAsked == {top \in SUBSET Queries :
                 /\ N(top) = Min({TopQueries, N(Queries)})
                 /\ \A q \in top, p \in Queries \ top : N(Asked(p)) <= N(Asked(q))}
RetrievalStats ==
    IF Retrieved = {} THEN [total |-> 0, top |-> {{}}]
    ELSE IF input.filter # Absent THEN Absent
    ELSE [total |-> N(Retrieved), top |-> MostAsked]

\* query_daily_tool_mix over [from, to): every day that the window touches, in full.
DayOf(t) == t \div DayLength
MixDays(from, to) == DayOf(from)..DayOf(to - 1)
Key(i)   == <<Row(i).day, Row(i).tool>>
MixOf(kind, from, to) == {i \in Of(kind) : Row(i).day \in MixDays(from, to)}
Mix(from, to) ==
    LET count(kind, key) == Sum({i \in MixOf(kind, from, to) : Key(i) = key}, LAMBDA i : Row(i).n)
    IN  [key \in {Key(i) : i \in MixOf("points", from, to) \cup MixOf("tokens", from, to)} |->
            [points |-> count("points", key), tokens |-> count("tokens", key)]]

-----------------------------------------------------------------------------
\* A skill is shown when one of its sessions called a model; its two sides are all the
\* sessions that did, one without a name for each trace, and share out their tokens.
OutcomesCoverSessions ==
    \A row \in Outcomes :
        /\ row.with > 0 /\ row.with + row.without = N(SpanSessions)
        /\ row.tokens + row.rest = Sum(SpanSessions, TokensOf)

\* The cells of the heatmap count every request once.
HeatmapCountsRequests == Sum(Heatmap, LAMBDA c : c.requests) = N(Of("model"))

\* A session is graded by its worst call: the grade over a window is the worse of the
\* grades over its two parts, and the grades count every session once.
QualityIsWorst ==
    \A t \in 0..MaxTime :
        LET whole == Quality(0, MaxTime)
            one == Quality(0, t)
            two == Quality(t + 1, MaxTime)
        IN  /\ DOMAIN whole = DOMAIN one \cup DOMAIN two
            /\ \A s \in DOMAIN whole :
                whole[s] = Max((IF s \in DOMAIN one THEN {one[s]} ELSE {}) \cup (IF s \in DOMAIN two THEN {two[s]} ELSE {}))
            /\ Sum(0..2, LAMBDA g : Graded(0, t, g)) = N(DOMAIN one)

\* The mix shows every row of either rollup whose day the window touches; two windows that
\* meet at a midnight share no row and make up the mix of both.
MixTilesAtMidnight ==
    LET last == (MaxTime + 1) * DayLength
    IN  \A day \in 1..MaxTime :
            LET one == Mix(0, day * DayLength)
                two == Mix(day * DayLength, last)
            IN  /\ DOMAIN one \cap DOMAIN two = {}
                /\ Mix(0, last) = [k \in DOMAIN one \cup DOMAIN two |-> IF k \in DOMAIN one THEN one[k] ELSE two[k]]

\* The queries that are shown were asked within the total, and while there is room for
\* more, whatever else is in the total had no query.
TopQueriesWithinTotal ==
    RetrievalStats # Absent =>
        \A top \in RetrievalStats.top :
            LET asked == Sum(top, LAMBDA q : N(Asked(q)))
            IN  /\ asked <= RetrievalStats.total
                /\ N(top) < TopQueries => RetrievalStats.total - asked = N(Asked(Absent) \cap Retrieved)

-----------------------------------------------------------------------------
\* Fails: "Cross-tab of (agent_role, tool, model)" (reader.rs): two models are two cells.
ModelsAreApart ==
    \A i, j \in Of("model") : Row(i).model # Row(j).model => Cell(i) # Cell(j)

\* Fails: a filter that the endpoint takes is answered.
FiltersAnswered == RetrievalStats # Absent

\* Fails: two windows that meet within a day share no row.
MixTiles == \A t \in 1..((MaxTime + 1) * DayLength - 1) : DOMAIN Mix(0, t) \cap DOMAIN Mix(t, (MaxTime + 1) * DayLength) = {}
=============================================================================
