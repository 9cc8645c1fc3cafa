----------------------------- MODULE Conversion -----------------------------
(***************************************************************************)
(* What becomes of one OTLP export: the receiver converts each record to the *)
(* internal model, the writer stores it, and a reader parses the row.  OTLP *)
(* carries more than the tables hold; what is left out is counted and      *)
(* answered.  And what the metric endpoints make of the stored rows: the   *)
(* aggregate of a window, its buckets, the time series and the list of     *)
(* latest values; and the observations a reader recovers from a stored     *)
(* histogram.  The input is an export, a store with a request, or what an  *)
(* SDK observed; nothing changes it.                                       *)
(***************************************************************************)
EXTENDS Integers, Sequences, FiniteSets, FiniteSetsExt, SequencesExt

CONSTANTS
    Word,               \* integers are two's complement, modulo Word
    Exact,              \* a double is exact up to here, and even up to twice as far
    MaxItems,           \* records of an export
    MaxBucketCount,     \* observations of one histogram bucket
    Severities,         \* the severity numbers a log carries
    NaN, Absent,        \* NaN: also an infinity where JSON is written
    Names, Values, MaxTime, MaxRows, Sizes,   \* stored rows and requests
    MaxBound, MaxObserved, MaxObservations    \* histograms

VARIABLE input

\* An identifier on the wire: nothing, the right length, the right length but all zero,
\* or another length.
Ids == {"none", "valid", "zero", "short"}

Numbers    == -(Word \div 2)..(Word \div 2 - 1)
Counts(n)  == [1..n -> 0..MaxBucketCount]

\* A histogram has one bucket more than bounds, or no buckets at all, and need not have
\* a sum; a summary always has one.
Points ==
    UNION {
      [kind : {"gauge", "sum"}, value : {Absent} \cup [type : {"int"}, n : Numbers]
                                            \cup [type : {"double"}, n : -Exact..Exact \cup {NaN}]],
      [kind : {"histogram"}, bounds : 0..2, counts : {<<>>}, bare : 0..1, sum : {1, NaN, Absent}],
      UNION {[kind : {"histogram"}, bounds : {b}, counts : Counts(b + 1), bare : {0},
              sum : {1, NaN, Absent}] : b \in 0..2},
      [kind : {"summary"}, count : {1}, sum : {1, NaN}],
      [kind : {"exponential"}]}
Spans == [trace : Ids, span : Ids, parent : Ids, links : 0..1]
Logs  == [severity : Severities]

Items(signal) == CASE signal = "metrics" -> Points [] signal = "traces" -> Spans [] signal = "logs" -> Logs

Init ==
    \E signal \in {"metrics", "traces", "logs"}, n \in 0..MaxItems :
        \E items \in [1..n -> Items(signal)] : input = [signal |-> signal, items |-> items]
Spec == Init /\ [][UNCHANGED input]_input

-----------------------------------------------------------------------------
Sum(s) == FoldLeft(+, 0, s)
Observations(p) == Sum(p.counts) + p.bare

\* `as u64`, `as i64` and `as f64`: to the nearest double, a tie to the even mantissa.
Unsigned(n) == n % Word
Signed(n)   == IF n >= Word \div 2 THEN n - Word ELSE n
Double(n)   == IF n \in -Exact..Exact \/ n % 2 = 0 THEN n
               ELSE CHOOSE d \in {n - 1, n + 1} : d % 4 = 0

\* convert_metrics_with_drops: what is left out of a point.
Unset(p)       == p.kind \in {"gauge", "sum"} /\ p.value = Absent
Exponential(p) == p.kind = "exponential"
Overflow(p) ==
    IF p.kind = "histogram" THEN Sum(SubSeq(p.counts, p.bounds + 1, Len(p.counts))) ELSE 0
Converted(p) == ~Unset(p) /\ ~Exponential(p)

\* MetricType: a gauge is a double, a sum a counter of its own type, the buckets of a
\* histogram are those with a bound, and a sum that was not sent is 0.
MetricType(p) ==
    CASE p.kind = "gauge"   -> [type |-> "gauge",
                                n |-> IF p.value.type = "int" THEN Double(p.value.n) ELSE p.value.n]
      [] p.kind = "sum"     -> IF p.value.type = "int"
                               THEN [type |-> "counter", n |-> Unsigned(p.value.n)]
                               ELSE [type |-> "counter_double", n |-> p.value.n]
      [] p.kind = "histogram" -> [type |-> "histogram", count |-> Observations(p),
                                  sum |-> IF p.sum = Absent THEN 0 ELSE p.sum,
                                  buckets |-> SubSeq(p.counts, 1, Min({p.bounds, Len(p.counts)}))]
      [] p.kind = "summary" -> [type |-> "summary", count |-> p.count, sum |-> p.sum, buckets |-> <<>>]

\* SQLite keeps a double that is no number as NULL.
Bound(n) == IF n = NaN THEN Absent ELSE n

\* Mutant: whole doubles are kept as integers.
ColumnFloored(m) ==
    CASE m.type = "gauge" -> [type |-> "gauge", double |-> Bound(m.n)]
      [] m.type \in {"counter", "counter_double"} ->
             IF m.n = NaN THEN [type |-> "sum", int |-> Absent, double |-> Absent]
             ELSE [type |-> "sum", int |-> Signed(m.n % Word), double |-> Absent]
      [] OTHER -> [type |-> m.type, json |-> IF m.sum = NaN THEN Absent ELSE m]

\* write_metric and parse_metric_row: a counter goes through a signed column, a histogram
\* or summary through JSON, which has null for what is no finite number; a gauge without
\* a value is an error, a sum without one is 0, and JSON with a null is the default.
Column(m) ==
    CASE m.type = "counter"        -> [type |-> "sum", int |-> Signed(m.n), double |-> Absent]
      [] m.type = "counter_double" -> [type |-> "sum", int |-> Absent, double |-> Bound(m.n)]
      [] m.type = "gauge"          -> [type |-> "gauge", double |-> Bound(m.n)]
      [] OTHER                     -> [type |-> m.type, json |-> IF m.sum = NaN THEN Absent ELSE m]
ParsedRow(c) ==
    IF c.type = "gauge" THEN IF c.double = Absent THEN Absent ELSE [type |-> "gauge", n |-> c.double]
    ELSE IF c.type # "sum" THEN
        IF c.json # Absent THEN c.json ELSE [type |-> c.type, count |-> 0, sum |-> 0, buckets |-> <<>>]
    ELSE IF c.int # Absent    THEN [type |-> "counter", n |-> Unsigned(c.int)]
    ELSE IF c.double # Absent THEN [type |-> "counter_double", n |-> c.double]
    ELSE [type |-> "counter", n |-> 0]

\* query_metrics: the first row that does not parse fails the query.
StoredPoints == SelectSeq(input.items, Converted)
QueryMetrics ==
    LET rows == [i \in DOMAIN StoredPoints |-> ParsedRow(Column(MetricType(StoredPoints[i])))]
    IN  IF \E i \in DOMAIN rows : rows[i] = Absent THEN Absent ELSE rows

\* list_metrics shows a counter signed again.
Shown(m) == IF m.type = "counter" THEN [m EXCEPT !.n = Signed(@)] ELSE m

\* DroppedCounts, and what of it is answered: points not fully accepted.
Among(P(_))      == Len(SelectSeq(input.items, P))
RejectedPoints   == Among(Unset) + Among(Exponential) + Among(LAMBDA p : Overflow(p) > 0)
LostObservations == Sum([i \in DOMAIN input.items |-> Overflow(input.items[i])])

-----------------------------------------------------------------------------
\* is_valid_otel_id, required_otel_id, optional_otel_id.
ValidId(id)    == id = "valid"
OptionalId(id) == IF ValidId(id) THEN id ELSE Absent

\* convert_traces_with_rejections.
Accepted(s)   == ValidId(s.trace) /\ ValidId(s.span)
StoredSpan(s) == [trace |-> s.trace, span |-> s.span, parent |-> OptionalId(s.parent)]
StoredSpans   == [i \in DOMAIN SelectSeq(input.items, Accepted) |->
                     StoredSpan(SelectSeq(input.items, Accepted)[i])]
RejectedSpans == Among(LAMBDA s : ~Accepted(s))
DroppedLinks  == Sum([i \in DOMAIN SelectSeq(input.items, Accepted) |-> SelectSeq(input.items, Accepted)[i].links])

\* partial_success, in the answer of either signal: absent when nothing was rejected.
Rejected == IF input.signal = "traces" THEN RejectedSpans
            ELSE IF input.signal = "metrics" THEN RejectedPoints ELSE 0

\* convert_severity, and the level from_i32 reads back: the first number of its range.
Levels   == [TRACE |-> 1, DEBUG |-> 5, INFO |-> 9, WARN |-> 13, ERROR |-> 17, FATAL |-> 21]
Severity(n) ==
    IF n \in 1..24 THEN CHOOSE l \in DOMAIN Levels : n \in Levels[l]..(Levels[l] + 3) ELSE "INFO"
StoredSeverity(n) == Levels[Severity(n)]

\* query_logs with min_severity; the third source of query_recent_errors.
AtLeast(level, n)      == StoredSeverity(n) >= Levels[level]
ListedAsRecentError(n) == StoredSeverity(n) >= 9

-----------------------------------------------------------------------------
\* A point that a double column and JSON can carry, and one that reads back as it was
\* sent.
Carried(p) ==
    CASE p.kind \in {"gauge", "sum"} ->
             ~Unset(p) => p.value.n # NaN /\ (p.kind = "gauge" => Double(p.value.n) = p.value.n)
      [] p.kind \in {"histogram", "summary"} -> p.sum \notin {NaN, Absent}
      [] OTHER -> TRUE
ReadsAsSent(p) ==
    /\ Converted(p)
    /\ LET m == ParsedRow(Column(MetricType(p)))
       IN  CASE p.kind = "sum"   -> Shown(m).n = p.value.n /\ (m.type = "counter") = (p.value.type = "int")
             [] p.kind = "gauge" -> m # Absent /\ m.n = p.value.n
             [] p.kind = "histogram" ->
                    /\ m.count = Observations(p) /\ m.sum = p.sum
                    /\ p.counts # <<>> => Sum(m.buckets) = m.count
             [] OTHER -> m.count = p.count /\ m.sum = p.sum

\* What conversion.rs says of DroppedCounts, "never silently dropped": a point that is
\* answered as left out does not read back as it was sent, and one that does not is
\* answered, if a double and JSON can carry its numbers; lost observations are counted
\* one by one.
DropsAreAnswered ==
    input.signal = "metrics" =>
        LET histograms == SelectSeq(input.items, LAMBDA p : p.kind = "histogram" /\ p.counts # <<>>)
        IN  /\ Rejected <= Among(LAMBDA p : ~ReadsAsSent(p))
            /\ Rejected >= Among(LAMBDA p : Carried(p) /\ ~ReadsAsSent(p))
            /\ LostObservations =
                   Sum([i \in DOMAIN histograms |-> Sum(histograms[i].counts)
                           - Sum(MetricType(histograms[i]).buckets)])

\* The same words of every number, which the code refutes: an integer gauge that no
\* double has is rounded, a missing sum of a histogram reads back as 0, and a sum that is
\* no finite number takes the whole point with it, all of them accepted.
AcceptedReadsAsSent ==
    input.signal = "metrics" => Rejected = Among(LAMBDA p : ~ReadsAsSent(p))

\* The same words of a NaN: what was fully accepted can be read.
AcceptedPointsRead ==
    input.signal = "metrics" /\ Rejected = 0 => QueryMetrics # Absent

\* A span is stored or rejected, never both and never neither; what is stored has the
\* identifiers the tables are keyed by; a bad parent costs a span its parent only.
SpansAreAnswered ==
    input.signal = "traces" =>
        /\ Len(StoredSpans) + Rejected = Len(input.items)
        /\ \A i \in DOMAIN StoredSpans :
               /\ StoredSpans[i].trace = "valid" /\ StoredSpans[i].span = "valid"
               /\ StoredSpans[i].parent \in {"valid", Absent}
        /\ Rejected > 0 <=> \E i \in DOMAIN input.items : ~Accepted(input.items[i])

\* Storing a level instead of a number changes no filter by level, for the numbers that
\* OTLP defines.
LevelsAreRanges ==
    input.signal = "logs" =>
        \A i \in DOMAIN input.items : \A level \in DOMAIN Levels :
            LET n == input.items[i].severity
            IN  n \in 1..24 => (AtLeast(level, n) <=> n >= Levels[level])

\* What query_recent_errors says of its logs: they are at ERROR or above.
RecentErrorsAreErrors ==
    input.signal = "logs" =>
        \A i \in DOMAIN input.items :
            ListedAsRecentError(input.items[i].severity) => AtLeast("ERROR", input.items[i].severity)

-----------------------------------------------------------------------------
Times == 0..MaxTime
Upto(S, n) == UNION {[1..k -> S] : k \in 0..n}

\* A row is one number, or the sum n of some number of observations.
Rows  == [name : Names, at : Times, value : Values]
Single(row) == row.value.kind = "number"

\* validate_time_range refuses the other windows.
Windows == {w \in [from : Times \cup {Absent}, to : Times \cup {Absent}] :
                w.from # Absent /\ w.to # Absent => w.from < w.to}

RequestInit ==
    \E rows \in Upto(Rows, MaxRows), w \in Windows, name \in Names, size \in Sizes :
        input = [rows |-> rows, from |-> w.from, to |-> w.to, name |-> name, size |-> size]

HistogramInit ==
    \E n \in 1..MaxObservations, bounds \in SUBSET (1..MaxBound) :
        \E observed \in [1..n -> 0..MaxObserved] :
            /\ \A i \in 1..(n - 1) : observed[i] <= observed[i + 1]
            /\ input = [observed |-> observed, bounds |-> SetToSortSeq(bounds, <)]

-----------------------------------------------------------------------------
SumBy(s, F(_)) == Sum([i \in DOMAIN s |-> F(s[i])])

\* query_metrics: the rows of the window; the aggregate filters by name afterwards, the
\* time series in its query.
InWindow(row) ==
    /\ input.from = Absent \/ row.at >= input.from
    /\ input.to = Absent   \/ row.at <= input.to
WindowRows  == SelectSeq(input.rows, InWindow)
AggregateRows == SelectSeq(WindowRows, LAMBDA row : row.name = input.name)
SeriesRows    == SelectSeq(input.rows, LAMBDA row : InWindow(row) /\ row.name = input.name)

\* 404 for a name that was never seen, and an empty answer for one without rows here.
Seen     == \E i \in DOMAIN input.rows : input.rows[i].name = input.name
Answer(rows) == IF rows # <<>> THEN "data" ELSE IF Seen THEN "empty" ELSE "not found"

\* The functions of aggregate_metrics.  An average is its numerator and denominator;
\* a histogram counts once in a sum and with its observations in an average.
SumOf(rows) == [value |-> SumBy(rows, LAMBDA r : r.value.n), count |-> Len(rows)]
AvgOf(rows) == [value |-> SumBy(rows, LAMBDA r : r.value.n),
                count |-> SumBy(rows, LAMBDA r : r.value.count)]
Extremes(rows) ==
    LET numbers == {rows[i].value.n : i \in {j \in DOMAIN rows : Single(rows[j])}}
    IN  IF numbers = {} THEN [min |-> 0, max |-> 0] ELSE [min |-> Min(numbers), max |-> Max(numbers)]

\* The buckets of a sum or an average; a bucket of an extreme is always 0 of 0 rows.
BucketOf(at) == (at \div input.size) * input.size
Starts(rows) == {BucketOf(rows[i].at) : i \in DOMAIN rows}
Bucket(rows, b) == SelectSeq(rows, LAMBDA row : BucketOf(row.at) = b)
Buckets(rows, F(_), function) ==
    [b \in Starts(rows) |->
        IF function \in {"sum", "avg"} THEN F(Bucket(rows, b)) ELSE [value |-> 0, count |-> 0]]

\* get_metric_timeseries.
Timeseries == [b \in Starts(SeriesRows) |-> AvgOf(Bucket(SeriesRows, b))]

\* list_metrics with a window: the latest row of each name, if it is in the window.
Latest(name) == Max({input.rows[i].at : i \in {j \in DOMAIN input.rows : input.rows[j].name = name}})
Listed ==
    {row.name : row \in {r \in ToSet(input.rows) : r.at = Latest(r.name) /\ InWindow(r)}}

-----------------------------------------------------------------------------
\* An SDK puts an observation into the first bucket whose bound is not below it; what is
\* above every bound is in no stored bucket.
Observed == input.observed
Bounds   == input.bounds
Lower(i) == IF i = 1 THEN 0 ELSE Bounds[i - 1]
InBucket(v, i)  == v <= Bounds[i] /\ \A j \in 1..(i - 1) : v > Bounds[j]
BucketCounts    == [i \in DOMAIN Bounds |-> Len(SelectSeq(Observed, LAMBDA v : InBucket(v, i)))]

\* expand_histogram_midpoints, values times 2: one observation is the sum; the others are
\* the midpoints of their buckets, and the tail shares what they leave of the sum, or 0.
\* The tail is its size and its total.
Emitted == Sum(BucketCounts)
Middles == Sum([i \in DOMAIN Bounds |-> BucketCounts[i] * (Lower(i) + Bounds[i])])
Rest    == 2 * Sum(Observed) - Middles
Expanded ==
    IF Len(Observed) = 1 THEN [middles |-> 0, tail |-> 1, total |-> 2 * Sum(Observed)]
    ELSE [middles |-> Emitted, tail |-> Len(Observed) - Emitted,
          total |-> IF Emitted < Len(Observed) THEN Max({Rest, 0}) ELSE 0]
ExpandedSum == (IF Len(Observed) = 1 THEN 0 ELSE Middles) + Expanded.total

-----------------------------------------------------------------------------
\* The aggregate and the time series of a name are built from the same rows by two
\* queries: they answer alike, their averages agree bucket by bucket, the buckets add up
\* to the totals, a row is in the bucket that holds its time, and the average of numbers
\* is between the extremes.  A listed name has data in the window.
AggregatesAgree ==
    LET rows  == AggregateRows
        sums  == Buckets(rows, SumOf, "sum")
        means == Buckets(rows, AvgOf, "avg")
        Total(f) == [value |-> MapThenSumSet(LAMBDA b : f[b].value, DOMAIN f),
                     count |-> MapThenSumSet(LAMBDA b : f[b].count, DOMAIN f)]
    IN  /\ Answer(rows) = Answer(SeriesRows)
        /\ means = Timeseries
        /\ Total(sums) = SumOf(rows) /\ Total(means) = AvgOf(rows)
        /\ \A i \in DOMAIN rows : \E b \in DOMAIN sums : b <= rows[i].at /\ rows[i].at < b + input.size
        /\ (\A i \in DOMAIN rows : Single(rows[i])) /\ rows # <<>> =>
               /\ Extremes(rows).min * AvgOf(rows).count <= AvgOf(rows).value
               /\ Extremes(rows).max * AvgOf(rows).count >= AvgOf(rows).value
        /\ input.name \in Listed => Answer(rows) = "data"

\* A histogram expands to as many values as it counted, and their sum is off by at most
\* half the width of its bucket for each observation that is in one.
ExpansionKeepsMass ==
    /\ Expanded.middles + Expanded.tail = Len(Observed)
    /\ LET slack == Sum([i \in DOMAIN Bounds |-> BucketCounts[i] * (Bounds[i] - Lower(i))])
           off   == ExpandedSum - 2 * Sum(Observed)
       IN  IF Len(Observed) = 1 THEN off = 0 ELSE -slack <= off /\ off <= slack

\* What expand_histogram_midpoints says of its tail, "never a fabricated zero": a tail of
\* zeros stands for observations of zero.
TailIsNoFabricatedZero ==
    Expanded.tail > 0 /\ Expanded.total = 0 => \A i \in DOMAIN Observed : Observed[i] = 0
=============================================================================
