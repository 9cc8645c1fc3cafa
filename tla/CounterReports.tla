--------------------------- MODULE CounterReports ---------------------------
(***************************************************************************)
(* The reports over cumulative counters of several sessions: effort,       *)
(* efficiency, output per day, lines of code, the roles of agents, the mix *)
(* of providers and the projects.  All of them ask counter_window_deltas,  *)
(* each with labels of its own: rows that agree in those labels are one    *)
(* series to it, whoever sent them.  Counters has restarts and lost rows;  *)
(* here every agent counts up and what it reports is stored.               *)
(***************************************************************************)
EXTENDS Integers, Sequences, FiniteSets, FiniteSetsExt

CONSTANTS
    Sessions, Kinds,    \* token types, or lines added and removed
    Groups,             \* what else a metric is labelled with: model, effort or role
    Counted,            \* the kinds that count as tokens, or as lines added
    DayLength, MaxTime, MaxSeries, Absent

Times   == 0..MaxTime
Windows == {w \in [from : Times, to : Times] : w.from <= w.to}
Labels  == [session : Sessions, kind : Kinds, group : Groups]

\* For each of a few series, how much it grew by each tick where it reports.
VARIABLE input

\* What sessions and groups are called makes no difference: one series has the first of each.
Init == \E S \in {S \in SUBSET Labels : Cardinality(S) = MaxSeries} :
            /\ \E l \in S : l.session = (CHOOSE s \in Sessions : TRUE) /\ l.group = (CHOOSE g \in Groups : TRUE)
            /\ input \in [S -> [Times -> {Absent, 0, 1}]]

-----------------------------------------------------------------------------
Series         == DOMAIN input
Reported(s, T) == {t \in T : input[s][t] # Absent}
Used(s, T)     == MapThenSumSet(LAMBDA t : input[s][t], Reported(s, T))
\* The stored rows: running totals.
Rows == UNION {{[at |-> t, by |-> s, value |-> Used(s, 0..t)] : t \in Reported(s, Times)} : s \in Series}

Key(s, labels)   == [l \in labels |-> s[l]]
Keys(labels)     == {Key(s, labels) : s \in Series}
RowsOf(k)        == {r \in Rows : Key(r.by, DOMAIN k) = k}
\* The largest value of the latest time.
LastOf(rows)     == LET t == Max({r.at : r \in rows}) IN Max({r.value : r \in {q \in rows : q.at = t}})
Earlier(rows, t) == {r \in rows : r.at < t}
Inside(rows, w)  == {r \in rows : w.from <= r.at /\ r.at <= w.to}

\* Mutant: the value before the window is not taken off.
DeltaFromZero(k, w) == IF Inside(RowsOf(k), w) = {} THEN 0 ELSE LastOf(Inside(RowsOf(k), w))

\* counter_window_deltas for one key of the labels that are asked for.
Delta(k, w) ==
    LET in     == Inside(RowsOf(k), w)
        before == Earlier(RowsOf(k), w.from)
        base   == IF before = {} THEN 0 ELSE LastOf(before)
    IN  IF in = {} THEN 0 ELSE IF LastOf(in) < base THEN LastOf(in) ELSE LastOf(in) - base
Sum(keys, w) == MapThenSumSet(LAMBDA k : Delta(k, w), keys)
CountedKeys(labels) == {k \in Keys(labels) : k.kind \in Counted}

\* query_effort_breakdown: effort, model and type; query_loc_efficiency: type and model, lines added.
Effort(w)       == [k \in Keys({"kind", "group"}) |-> Delta(k, w)]
Lines(w, g)     == Sum({k \in CountedKeys({"kind", "group"}) : k.group = g}, w)
\* query_efficiency_stats: the type alone; commits and requests have no labels at all.
Efficiency(w)   == Sum(CountedKeys({"kind"}), w)
Commits(w)      == Sum(Keys({}), w)
\* query_agent_roles and query_provider_mix: the session, too.
RoleTokens(w, g)  == Sum({k \in Keys({"kind", "group", "session"}) : k.group = g}, w)
RoleTotal(w)      == MapThenSumSet(LAMBDA g : RoleTokens(w, g), Groups)
ModelSessions(w, g) == {k.session : k \in {q \in Keys({"kind", "group", "session"}) : q.group = g /\ Delta(q, w) > 0}}

\* query_productivity_summary: a window for each day, its last one up to the end; nothing
\* when the window has no length.
Days(w) == {[from |-> Max({w.from, d * DayLength}), to |-> Min({w.to, (d + 1) * DayLength}) - 1] :
               d \in (w.from \div DayLength)..((w.to - 1) \div DayLength)}
Productivity(w) == IF w.from >= w.to THEN 0
                   ELSE MapThenSumSet(LAMBDA d : Sum(CountedKeys({"kind"}), d), Days(w))

\* query_agent_project_rollup: the type again, and all of it under one project.
Unattributed(w) == Sum(CountedKeys({"kind"}), w)

-----------------------------------------------------------------------------
\* With the session among the labels every series is its own: what is shown is what its rows
\* grew by, and with a report at each tick, what was used; the sessions of a model are those
\* that used it.
OwnSeriesExact ==
    \A w \in Windows :
        /\ (\A s \in Series : Reported(s, Times) = Times) =>
             RoleTotal(w) = MapThenSumSet(LAMBDA s : Used(s, w.from..w.to), Series)
        /\ RoleTotal(w) <= MapThenSumSet(LAMBDA s : Used(s, 0..w.to), Series)
        /\ \A g \in Groups : ModelSessions(w, g) = {} <=> RoleTokens(w, g) = 0

\* The days of the output report add up to at least the window without its last instant, and
\* to the same while no day ends lower than the one before it.
DaysCoverWindow ==
    \A w \in {v \in Windows : v.from < v.to} :
        LET whole == [w EXCEPT !.to = w.to - 1]
            never == \A k \in CountedKeys({"kind"}) : \A r, q \in RowsOf(k) : r.at < q.at => r.value <= q.value
        IN  /\ Productivity(w) >= Efficiency(whole)
            /\ never => Productivity(w) = Efficiency(whole)

\* Reports with fewer labels show the same while the labels they leave out do not tell series
\* apart, and never more than has been used since the counters began.
FewerLabelsAgree ==
    \A w \in Windows :
        /\ Efficiency(w) <= MapThenSumSet(LAMBDA s : Used(s, 0..w.to), Series)
        /\ Cardinality(Keys({"kind"})) = Cardinality(Series) =>
             /\ Efficiency(w) = MapThenSumSet(LAMBDA g : Lines(w, g), Groups)
             /\ (\A s \in Series : s.kind \in Counted) => Unattributed(w) = RoleTotal(w)
        /\ Cardinality(Series) = 1 => Commits(w) = RoleTotal(w)

\* What query_effort_breakdown says: the counters are kept for each effort, model, type and
\* session.  Asked without the session, of two sessions only the one that reports last counts.
SessionsAddUp ==
    \A w \in Windows : MapThenSumSet(LAMBDA k : Effort(w)[k], DOMAIN Effort(w)) = RoleTotal(w)

\* What query_loc_efficiency says: its lines come through the same windowed deltas as those
\* of the output report.  The models of one session are apart in the one and not in the other.
LinesAgree ==
    Cardinality({s.session : s \in Series}) = 1 =>
        \A w \in Windows : MapThenSumSet(LAMBDA g : Lines(w, g), Groups) = Efficiency(w)
=============================================================================
