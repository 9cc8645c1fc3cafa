---------------------------- MODULE CalendarDays ----------------------------
(***************************************************************************)
(* Two computations over days.  Calendar-day buckets of the latency queries: *)
(* a window of instants is cut at the local midnights of a time zone whose *)
(* clock is set forward or back once; the input is a zone and a window.  The *)
(* monthly cost projection: the cost series is read from the store for the *)
(* last 30 days and projected with the rate of the last 7; the input is the *)
(* instant asked for and the priced calls, and tick 0 is the first tick of *)
(* the current month: calls of the months before are at negative ticks.    *)
(***************************************************************************)
EXTENDS Integers, FiniteSets, FiniteSetsExt

CONSTANTS
    DayLength,      \* ticks of a local day
    LastDay,        \* instants are those of days 0..LastDay
    Offsets,        \* offsets of local time from UTC
    NoInstant,
    MonthLengths,   \* how many days the current month may have
    SeriesDays,     \* the days the series is read back: 30
    RateDays,       \* the days the rate is taken over: 7
    Models, NoModel,
    MaxCalls        \* an input has 1..MaxCalls calls

VARIABLE input   \* [at, before, after : the clock change; start, end : the window]
                 \* or [month, asof, calls : {[at, model]}], each call costing 1

Instants == 0..((LastDay + 1) * DayLength)
Zones    == [at : Instants, before : Offsets, after : Offsets]

Inputs ==
    {[at |-> z.at, before |-> z.before, after |-> z.after, start |-> s, end |-> e] :
        z \in Zones, s \in Instants, e \in Instants}

\* Windows leave a day on either side, so that every midnight they need is an instant.
Init ==
    /\ input \in Inputs
    /\ DayLength <= input.start /\ input.start < input.end
    /\ input.end <= (LastDay - 1) * DayLength

Local(t)  == t + (IF t < input.at THEN input.before ELSE input.after)
DateOf(t) == Local(t) \div DayLength

\* Mutant: of two local midnights the later one is taken.
MidnightLatest(day) ==
    LET found == {t \in Instants : Local(t) = day * DayLength}
    IN  IF found = {} THEN NoInstant ELSE Max(found)

\* and_local_timezone(..).earliest(): nothing when the clock skips midnight.
Midnight(day) ==
    LET found == {t \in Instants : Local(t) = day * DayLength}
    IN  IF found = {} THEN NoInstant ELSE Min(found)

Days == DateOf(input.start)..DateOf(input.end - 1)

Failed == \E day \in Days : Midnight(day) = NoInstant \/ Midnight(day + 1) = NoInstant

Buckets ==
    {b \in {[start |-> Max({Midnight(day), input.start}),
             end   |-> Min({Midnight(day + 1), input.end})] : day \in Days} : b.start < b.end}

Begun(t) == {b \in Buckets : b.start <= t}
Newest(S) == CHOOSE b \in S : \A c \in S : c.start <= b.start

\* query_latency_percentiles: the last bucket begun, unless it ended.
PercentileBucket(t) ==
    IF Begun(t) = {} \/ t >= Newest(Begun(t)).end THEN NoInstant ELSE Newest(Begun(t)).start

\* query_latency_series: the last bucket begun.
SeriesBucket(t) == IF Begun(t) = {} THEN NoInstant ELSE Newest(Begun(t)).start

\* Both select the calls of the window with its end included.
InWindow == input.start..input.end

Spec == Init /\ [][UNCHANGED input]_input

-----------------------------------------------------------------------------
\* The local date never goes back: no clock is set from one day into the day before.
DatesRise == \A t, u \in Instants : t <= u => DateOf(t) <= DateOf(u)

\* The buckets tile [start, end) exactly, clipped first and last days included: each
\* instant is in one bucket, and that bucket holds only instants of its local date.
DaysTile ==
    ~Failed /\ DatesRise =>
        /\ \A t \in input.start..(input.end - 1) :
              Cardinality({b \in Buckets : b.start <= t /\ t < b.end}) = 1
        /\ \A b \in Buckets :
              /\ input.start <= b.start /\ b.end <= input.end
              /\ \A t \in b.start..(b.end - 1) : DateOf(t) = DateOf(b.start)

\* The two latency endpoints put every call before the end of the window into the
\* same day.  They differ on a call at the very end: one shows it, one drops it.
EndpointsAgree ==
    ~Failed /\ DatesRise =>
        /\ \A t \in InWindow \ {input.end} :
              PercentileBucket(t) = SeriesBucket(t) /\ SeriesBucket(t) # NoInstant
        /\ PercentileBucket(input.end) = NoInstant

\* What query_latency_percentiles says of its buckets: a call of the window cannot
\* miss them.
CallsCannotMiss == ~Failed => \A t \in InWindow : PercentileBucket(t) # NoInstant

\* What calendar_day_buckets says of a midnight that does not exist: it is mapped,
\* like one that exists twice.
EveryMidnightMapped == ~Failed

-----------------------------------------------------------------------------
LastTick == Max(MonthLengths) * DayLength - 1
Ticks    == (0 - (SeriesDays + 2) * DayLength)..LastTick
Calls    == [at : Ticks, model : Models \cup {NoModel}]

ProjectionInit ==
    \E month \in MonthLengths, call \in [1..MaxCalls -> Calls] :
        \E asof \in 0..(month * DayLength - 1) :
            input = [month |-> month, asof |-> asof, calls |-> {call[n] : n \in 1..MaxCalls}]

Day(t) == t \div DayLength
Today  == Day(input.asof)

\* Mutant: the series is read back one day less.
SeriesStartLater == input.asof - (SeriesDays - 1) * DayLength

\* get_cost_projection: the series starts 30 days before the instant asked for.
SeriesStart == input.asof - SeriesDays * DayLength

\* query_cost_series: the calls of the window with both its ends included, by UTC day.
Points == {c \in input.calls : SeriesStart <= c.at /\ c.at <= input.asof}
Days7     == {c \in Points : Today - RateDays < Day(c.at) /\ Day(c.at) <= Today}
Days30    == {c \in Points : Today - SeriesDays < Day(c.at) /\ Day(c.at) <= Today}
ThisMonth == {c \in Points : 0 <= Day(c.at)}

Cost(calls)       == Cardinality(calls)
OfModel(calls, model)  == {c \in calls : c.model = model}

\* Full days after today; Today counts the first of the month as 0.
DaysRemaining == input.month - (Today + 1)

\* projected_month_total and the models' projected, in units of 1/RateDays.
Projection(rate, month) == Cost(month) * RateDays + Cost(rate) * DaysRemaining
Projected          == Projection(Days7, ThisMonth)

\* A model with calls in either period; one without is left out, and adds nothing.
ModelProjected(m) == Projection(OfModel(Days7, m), OfModel(ThisMonth, m))

-----------------------------------------------------------------------------
Spent(from, to) == Cardinality({c \in input.calls : from <= c.at /\ c.at <= to})

\* The trailing sums are complete: the series reaches back far enough for every whole
\* day they count, though it starts in the middle of one.
TrailingSumsComplete ==
    /\ Cost(Days7)  = Spent((Today - RateDays + 1) * DayLength, input.asof)
    /\ Cost(Days30) = Spent((Today - SeriesDays + 1) * DayLength, input.asof)

\* The projected costs of the models sum to the projected total.
ModelsSumToTotal ==
    MapThenSumSet(ModelProjected, Models \cup {NoModel}) = Projected

\* On the last day of a month nothing is added to what was spent.
LastDayAddsNothing ==
    Today = input.month - 1 => Projected = Cost(ThisMonth) * RateDays

\* The month so far is complete, except on the days of a month that is longer than the
\* series: there the start of the month is read from the hour the question was asked.
MonthCompleteUntilDay31 ==
    Today < SeriesDays => Cost(ThisMonth) = Spent(0, input.asof)

\* What compute promises: the projected total starts from the month-to-date spend.
MonthToDateComplete == Cost(ThisMonth) = Spent(0, input.asof)
=============================================================================
