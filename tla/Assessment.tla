----------------------------- MODULE Assessment -----------------------------
(***************************************************************************)
(* The comparison of a model's performance: which requests fall into the   *)
(* current window, the preceding one and the rolling baseline, and what    *)
(* the change of each metric is classified as.  The input is either the    *)
(* requests of one model with the windows and the size of the sample, or   *)
(* the samples of the three windows.                                       *)
(***************************************************************************)
EXTENDS Integers, Sequences, SequencesExt, FiniteSets, FiniteSetsExt

CONSTANTS
    Absent,
    MaxTime, MaxRequests, Limits,   \* the sample: 100000 requests
    MinEligible,                    \* 10
    Medians, Tails, Percents

VARIABLE input

Windows == {w \in [from : 0..MaxTime, to : 0..MaxTime] : w.from < w.to}
Starts  == UNION {[1..n -> 0..MaxTime] : n \in 0..MaxRequests}

\* What one window says of a metric: how many values, their median and their tail.
Samples == {Absent} \cup {s \in [n : {MinEligible - 1, MinEligible}, median : Medians, tail : Tails] : s.median <= s.tail}
Usual   == {s \in Samples : s = Absent \/ s.n = MinEligible}

\* A token metric and the error rate, in the current and the preceding window.
Tokens == {<<Absent, 5>>, <<5, 5>>, <<6, 5>>}
Rates  == {<<Absent, 5>>, <<9, 5>>, <<10, 5>>, <<5, 10>>}
NoRate == <<Absent, Absent>>

Init ==
    \/ \E s \in Starts, c \in Windows, r \in Windows \cup {Absent}, l \in Limits :
          /\ \A i \in 2..Len(s) : s[i - 1] <= s[i]
          /\ input = [kind |-> "requests", starts |-> s, current |-> c, rolling |-> r, limit |-> l]
    \/ \E c \in Samples, p, r \in Usual, t \in Tokens, e \in Rates, trusted \in BOOLEAN :
          input = [kind |-> "samples", current |-> c, preceding |-> p, rolling |-> r,
                   tokens |-> t, rates |-> e, trusted |-> trusted]
    \/ \E c, p, r \in {Absent} \cup Percents, t \in Tokens :
          input = [kind |-> "rates", current |-> c, preceding |-> p, rolling |-> r, tokens |-> t]

-----------------------------------------------------------------------------
\* query_model_performance

Preceding == [from |-> 2 * input.current.from - input.current.to, to |-> input.current.from]
Accepted  == input.rolling = Absent \/ input.rolling.to <= Preceding.from
From      == IF input.rolling = Absent THEN Preceding.from ELSE Min({input.rolling.from, Preceding.from})

Inside(t, w) == w # Absent /\ w.from <= t /\ t < w.to
WindowOf(t) ==
    CASE Inside(t, input.current) -> "current"
      [] Inside(t, Preceding)     -> "preceding"
      [] Inside(t, input.rolling) -> "rolling"
      [] OTHER                    -> Absent

Selected == SelectSeq(input.starts, LAMBDA t : From <= t /\ t < input.current.to)

LastN(s, n) == SubSeq(s, Max({1, Len(s) - n + 1}), Len(s))

\* Mutant: the statement asks for no more rows than the limit, so nothing shows it was met.
FetchedNoMore == LastN(Selected, input.limit)

\* One row more than the limit, the latest first, shown in the order of their start.
Fetched   == LastN(Selected, input.limit + 1)
Truncated == Len(Fetched) > input.limit
Kept      == IF Truncated THEN SubSeq(Fetched, 1, input.limit) ELSE Fetched

Counts(s) == [w \in {"current", "preceding", "rolling"} |->
    Cardinality({i \in DOMAIN s : WindowOf(s[i]) = w})]

-----------------------------------------------------------------------------
\* model_performance

Abs(x) == IF x < 0 THEN -x ELSE x

\* A change of at least a fifth; from nothing, any value.
RelativeMaterial(c, b) == IF b = 0 THEN c > 0 ELSE 5 * Abs(c - b) >= b

\* Absent unless both are there.
Material(c, b) == IF c = Absent \/ b = Absent THEN Absent ELSE RelativeMaterial(c, b)
Delta(c, b)    == IF c = Absent \/ b = Absent THEN Absent ELSE c - b
Or(x, y)       == IF x # Absent THEN x ELSE y
Median(s)      == IF s = Absent THEN Absent ELSE s.median
Tail95(s)      == IF s = Absent THEN Absent ELSE s.tail

WorkloadMaterial(tokens) == Material(tokens[1], tokens[2]) = TRUE

\* The change of the error rate, where it is at least five points.
ErrorDelta(rates) ==
    LET d == Delta(rates[1], rates[2]) IN IF d = Absent THEN Absent ELSE IF Abs(d) >= 5 THEN d ELSE Absent

Worse(up, d) == d # Absent /\ (IF up THEN d > 0 ELSE d < 0)

\* What a material worsening is called, given what else moved.
Qualified(plain, errors, tokens) ==
    IF errors # Absent /\ errors > 0 THEN "error_associated"
    ELSE IF WorkloadMaterial(tokens) THEN "workload_shift_correlated" ELSE plain

Classify(up, hasTail, c, p, r, tokens, errors) ==
    LET against(Of(_), b) == Material(Of(c), Of(b))
        tailMaterial == Or(against(Tail95, p), against(Tail95, r))
    IN  IF c = Absent THEN "insufficient_telemetry"
        ELSE IF c.n < MinEligible THEN "insufficient_telemetry"
        ELSE IF p # Absent /\ r # Absent /\ against(Median, p) # against(Median, r) THEN "mixed_evidence"
        ELSE IF /\ Or(against(Median, p), against(Median, r)) = TRUE
                /\ Worse(up, Or(Delta(c.median, Median(p)), Delta(c.median, Median(r))))
             THEN Qualified("typical_regression", errors, tokens)
        ELSE IF /\ hasTail /\ tailMaterial = TRUE
                /\ Worse(up, Or(Delta(c.tail, Tail95(p)), Delta(c.tail, Tail95(r))))
             THEN Qualified("tail_regression", errors, tokens)
        ELSE "no_material_change"

Severity(class) ==
    CASE class = "typical_regression"        -> 6
      [] class = "tail_regression"           -> 5
      [] class = "workload_shift_correlated" -> 4
      [] class = "error_associated"          -> 3
      [] class = "mixed_evidence"            -> 2
      [] class = "no_material_change"        -> 1
      [] class = "insufficient_telemetry"    -> 0

\* assess_identity: the same three samples stand for each metric.
Duration(c, p, r)   == Classify(TRUE, TRUE, c, p, r, input.tokens, ErrorDelta(input.rates))
Throughput(c, p, r) == Classify(FALSE, FALSE, c, p, r, input.tokens, ErrorDelta(input.rates))
Ttft(c, p, r) ==
    IF input.trusted THEN Classify(TRUE, FALSE, c, p, r, input.tokens, ErrorDelta(input.rates))
    ELSE "insufficient_telemetry"

\* The rate stands for the median of a sample.
RateSample(v) == IF v = Absent THEN Absent ELSE [n |-> MinEligible, median |-> v, tail |-> v]
ErrorRate(c, p, r) ==
    LET class == Classify(TRUE, FALSE, RateSample(c), RateSample(p), RateSample(r), input.tokens, Absent)
    IN  IF class = "typical_regression" THEN "error_associated" ELSE class

Metric(m, c, p, r) ==
    CASE m = "duration" -> Duration(c, p, r) [] m = "throughput" -> Throughput(c, p, r) [] OTHER -> Ttft(c, p, r)

-----------------------------------------------------------------------------
Requests == input.kind = "requests" /\ Accepted
Compared == input.kind = "samples"
Timings  == {"duration", "throughput", "ttft"}
Here(m)  == Metric(m, input.current, input.preceding, input.rolling)

\* Every request between the first and the last window counts in at most one of them, and
\* unless the response says it is truncated the counts are those of all requests.
CountsAreTrue ==
    Requests =>
        /\ \A t \in 0..MaxTime :
             Cardinality({w \in {input.current, Preceding, input.rolling} : Inside(t, w)}) <= 1
        /\ Truncated \/ Counts(Kept) = Counts(input.starts)

\* A metric is called a regression only if its median or its tail is materially worse
\* than some baseline, in the direction that is worse for it.
RegressionsAreWorse ==
    Compared =>
        \A m \in Timings :
            Severity(Here(m)) > 2 =>
                LET c == input.current
                    worse(x, y) == RelativeMaterial(x, y) /\ Worse(m # "throughput", x - y)
                IN  \E b \in {input.preceding, input.rolling} \ {Absent} :
                        worse(c.median, b.median) \/ (m = "duration" /\ worse(c.tail, b.tail))

\* A median that worsens further, past both baselines, never gets a milder class.
WorseRanksNoLower ==
    Compared /\ input.current # Absent =>
        \A m \in {"throughput", "ttft"}, v \in Medians :
            LET further == [input.current EXCEPT !.median = v]
                past(b) == b = Absent \/ (IF m = "throughput" THEN input.current.median <= b.median
                                          ELSE input.current.median >= b.median)
            IN  /\ past(input.preceding) /\ past(input.rolling)
                /\ IF m = "throughput" THEN v < input.current.median ELSE v > input.current.median
                => Severity(Metric(m, further, input.preceding, input.rolling)) >= Severity(Here(m))

\* A baseline that is alone counts the same whichever window it comes from, and a window
\* equal to its baselines shows no change.
BaselinesExchange ==
    Compared =>
        \A m \in Timings :
            /\ Metric(m, input.current, input.preceding, Absent) = Metric(m, input.current, Absent, input.preceding)
            /\ LET c == input.current IN
               c # Absent => Metric(m, c, c, c) \in {"no_material_change", "insufficient_telemetry"}

\* What the sample says of itself: its statistics cover the most recent spans.  The rows
\* come back oldest first, and the one too many is cut off at the other end.
CoversMostRecent == Requests /\ Truncated => Kept = LastN(Selected, input.limit)

\* What MixedEvidence says: the two baselines disagree.  One may say better, one worse.
DisagreementIsMixed ==
    Compared /\ input.current # Absent /\ input.preceding # Absent /\ input.rolling # Absent =>
        LET d(b) == input.current.median - b.median
            m(b) == RelativeMaterial(input.current.median, b.median)
        IN  m(input.preceding) /\ m(input.rolling) /\ d(input.preceding) * d(input.rolling) < 0 =>
              Severity(Here("duration")) \in {0, 2}

\* The same of a metric with a tail: a median that becomes mixed hides the tail.
WorseTailsRankNoLower ==
    Compared /\ input.current # Absent =>
        \A v \in Medians :
            LET further == [input.current EXCEPT !.median = v]
                past(b) == b = Absent \/ input.current.median >= b.median
            IN  past(input.preceding) /\ past(input.rolling) /\ input.current.median < v /\ v <= input.current.tail =>
                Severity(Metric("duration", further, input.preceding, input.rolling)) >= Severity(Here("duration"))

\* What the threshold for error rates says: a change is material from five points on.
RatesAreJudgedInPoints ==
    input.kind = "rates" =>
        LET c == input.current
        IN  Severity(ErrorRate(c, input.preceding, input.rolling)) > 2 =>
              \E b \in {input.preceding, input.rolling} \ {Absent} : c - b >= 5
=============================================================================
