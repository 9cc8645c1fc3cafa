------------------------------ MODULE Evidence ------------------------------
(***************************************************************************)
(* The capability report: which emitter a span is recognised as, what its  *)
(* token counters and its time to first token are worth, and how the usage *)
(* spans of Codex are joined to the request spans above them.  The input   *)
(* is one span of any shape, or the spans of one trace of Codex in the     *)
(* order of their start, the end of the window and the size of the sample. *)
(***************************************************************************)
EXTENDS Integers, Sequences, FiniteSets, FiniteSetsExt

CONSTANTS
    Models, Absent,
    Depth,        \* parents followed: 64 in the code
    Limits,       \* sizes of the sample: 10000
    MinSamples,   \* valid values before TTFT may be degenerate: 10
    MaxSpans

VARIABLE input    \* [rows, until, limit]

Metrics      == {"input", "output"}
Observations == {"absent", "valid", "invalid"}
None         == 0

\* A model under gen_ai.request.model, llm.request.model or the bare key "model".
RequestModels == {[under |-> Absent, name |-> Absent]}
                   \cup [under : {"standard", "marker", "bare"}, name : Models]

\* TTFT in tenths of the duration, which is 10 or 0; -1 is a word or a number below zero.
TtftValues == {Absent, -1, 0, 1, 9, 10, 11}

Row(name, scope, llm, system, request, response, values, ttft, length, failed, parent) ==
    [name |-> name, codexScope |-> scope, llmKind |-> llm, system |-> system,
     request |-> request, response |-> response, values |-> values, ttft |-> ttft,
     length |-> length, failed |-> failed, parent |-> parent]

Shapes ==
    {Row(n, sc, k, s, r, p, [input |-> i, output |-> "absent"], t, 10, FALSE, None) :
        n \in {"claude", "sampling", "responses", "other"}, sc, k \in BOOLEAN,
        s \in {Absent, "opencode", "other"}, r \in RequestModels, p \in {Absent} \cup Models,
        i \in Observations, t \in {Absent, 1}}
    \cup {Row("claude", FALSE, FALSE, Absent, r, Absent, [input |-> i, output |-> "absent"], t, l, FALSE, None) :
        r \in RequestModels, i \in Observations, t \in TtftValues, l \in {0, 10}}

Requested == CHOOSE m \in Models : TRUE
Bare(m)   == [under |-> IF m = Absent THEN Absent ELSE "bare", name |-> m]
OfCodex(name, m, values, failed, parent) ==
    Row(name, TRUE, FALSE, Absent, Bare(m), Absent, values, Absent, 10, failed, parent)
CodexRows ==
    UNION {
      {OfCodex("sampling", Requested, [input |-> IF f THEN "absent" ELSE i, output |-> "absent"], f, p) :
          i \in {"absent", "valid"}, f \in BOOLEAN, p \in 0..MaxSpans},
      {OfCodex("responses", m, [input |-> "valid", output |-> "absent"], FALSE, p) :
          m \in {Absent} \cup (Models \ {Requested}), p \in 0..MaxSpans},
      {OfCodex("responses", Absent, [input |-> i, output |-> "valid"], FALSE, p) :
          i \in {"absent", "invalid"}, p \in 0..MaxSpans},
      {OfCodex("other", Absent, [input |-> "absent", output |-> "absent"], FALSE, p) : p \in 0..MaxSpans}}

Init ==
    \/ \E s \in Shapes : input = [rows |-> <<s>>, until |-> 1, limit |-> 1]
    \/ \E rows \in [1..MaxSpans -> CodexRows], l \in Limits, u \in Limits :
          /\ l <= u /\ \A n \in 1..MaxSpans : rows[n].parent # n
          /\ input = [rows |-> rows, until |-> u, limit |-> l]

-----------------------------------------------------------------------------
\* One span.

HasModel(s)  == s.request.name # Absent \/ s.response # Absent
HasMetric(s) == s.ttft # Absent \/ \E m \in Metrics : s.values[m] # "absent"

\* Mutant: the scope of the span is not asked for.
IsCodexRequestAnyScope(s) == s.name = "sampling" /\ HasModel(s)

IsCodexRequest(s) == s.name = "sampling" /\ s.codexScope /\ HasModel(s)

Vendors(s) ==
    {e \in {"claude_code", "codex", "opencode"} :
        \/ e = "claude_code" /\ s.name = "claude" /\ HasModel(s)
        \/ e = "codex"       /\ s.name = "sampling" /\ HasModel(s) /\ s.codexScope
        \/ e = "opencode"    /\ s.llmKind /\ s.system = "opencode" /\ HasModel(s)}
Candidates(s) ==
    IF Vendors(s) # {} THEN Vendors(s)
    ELSE {e \in {"standard_otel"} : s.system # Absent /\ HasModel(s) /\ HasMetric(s)}
Emitter(s) ==
    IF Candidates(s) = {} THEN "unknown"
    ELSE IF Cardinality(Candidates(s)) > 1 THEN "ambiguous"
    ELSE CHOOSE e \in Candidates(s) : TRUE
IsRequest(s) == Cardinality(Candidates(s)) = 1

\* unidentified_required_attributes
Required(s) ==
    LET model == {a \in {"model"} : ~HasModel(s)}
    IN  IF s.name = "claude" THEN model
        ELSE IF s.name = "sampling" THEN model \cup {a \in {"scope"} : ~s.codexScope}
        ELSE model \cup {a \in {"system"} : s.system = Absent}
                   \cup {a \in {"input"} : ~HasMetric(s)}
\* The span with these attributes added.
With(s, A) ==
    [s EXCEPT !.request    = IF "model" \in A THEN [under |-> "standard", name |-> Requested] ELSE @,
              !.codexScope = @ \/ "scope" \in A,
              !.system     = IF "system" \in A THEN "other" ELSE @,
              !.values     = IF "input" \in A THEN [@ EXCEPT !["input"] = "valid"] ELSE @]

\* semconv: llm_span_guard and request_span_guard.
LlmGuard(s)     == s.system # Absent \/ s.llmKind \/ s.name = "claude" \/ s.request.under = "marker"
RequestGuard(s) == LlmGuard(s) \/ (s.name = "sampling" /\ s.codexScope /\ s.request.under = "bare")

\* normalise_span_ttft_secs, then classify_ttft_value: what cannot be a first token.
Normalised(s) == IF s.ttft \in {Absent, -1} THEN Absent ELSE s.ttft
Ttft(s) ==
    IF s.ttft = Absent THEN "absent"
    ELSE IF Normalised(s) = Absent \/ s.ttft = 0 \/ s.ttft > s.length THEN "invalid" ELSE "valid"

\* token_evidence and ttft_evidence: the derivation, and whether a value is reported.
Derivation(s, observation) == IF observation # "absent" /\ IsRequest(s) THEN "native" ELSE "unavailable"
Rejected(s, observation)   == observation # "valid" \/ ~IsRequest(s)

-----------------------------------------------------------------------------
\* The trace.  The sample is the latest rows that start before the end of the window.
All       == DOMAIN input.rows
Sample    == {i \in All : input.until - input.limit < i /\ i <= input.until}
Truncated == input.until > input.limit

IsUsage(s) == s.name = "responses" /\ s.codexScope /\ \E m \in Metrics : s.values[m] # "absent"

\* The nearest request above i, no farther than Depth, by parents found among S.
Enclosing(S, i) ==
    LET above[n \in 0..Depth] ==
            IF n = 0 THEN i
            ELSE IF above[n - 1] = None THEN None
            ELSE LET p == input.rows[above[n - 1]].parent IN IF p \in S THEN p ELSE None
        hits == {n \in 1..Depth : above[n] # None /\ IsCodexRequest(input.rows[above[n]])}
    IN  IF hits = {} THEN None ELSE above[Min(hits)]

Requests(S)      == {i \in S : Emitter(input.rows[i]) = "codex"}
UsageUnder(S, r) == {i \in S : IsUsage(input.rows[i]) /\ Enclosing(S, i) = r}
TheOnly(S)       == CHOOSE i \in S : TRUE

Conflicts(r, i) ==
    LET said == input.rows[i].request.name IN said # Absent /\ said # input.rows[r].request.name

\* correlate_codex_usage
Outcome(S, r) ==
    LET found == UsageUnder(S, r)
    IN  IF found = {} THEN "unmatched"
        ELSE IF Cardinality(found) > 1 THEN "ambiguous"
        ELSE IF input.rows[r].failed \/ Conflicts(r, TheOnly(found)) THEN "rejected"
        ELSE "matched"

OfModel(S, m) == {r \in Requests(S) : input.rows[r].request.name = m}
Provenance(S, m) ==
    LET count(o) == Cardinality({r \in OfModel(S, m) : Outcome(S, r) = o})
    IN  [matched   |-> count("matched"),  unmatched |-> count("unmatched"),
         rejected  |-> count("rejected"),
         ambiguous |-> MapThenSumSet(LAMBDA r : Cardinality(UsageUnder(S, r)),
                                     {r \in OfModel(S, m) : Outcome(S, r) = "ambiguous"})]

\* What the report takes for a metric of request r: its own value, else the joined one.
Taken(S, r, metric) ==
    LET own == input.rows[r].values[metric]
    IN  IF own # "absent" THEN own
        ELSE IF Outcome(S, r) = "matched" THEN input.rows[TheOnly(UsageUnder(S, r))].values[metric]
        ELSE "absent"

Tally(S, m, metric) ==
    LET with(o) == Cardinality({r \in OfModel(S, m) : Taken(S, r, metric) = o})
        own     == Cardinality({r \in OfModel(S, m) : input.rows[r].values[metric] # "absent"})
    IN  [eligible |-> Cardinality(OfModel(S, m)), observed |-> own,
         valid |-> with("valid"), invalid |-> with("invalid")]

Availability(t) == CASE t.valid = 0 -> "absent" [] t.valid = t.eligible -> "available" [] OTHER -> "sparse"
Quality(t, degenerate) ==
    CASE t.valid >= MinSamples /\ degenerate * 10 >= t.valid * 9 -> "degenerate"
      [] t.invalid > 0 -> "invalid"
      [] t.valid > 0   -> "reliable"
      [] OTHER         -> "not_assessed"
ReportedDerivation(t) ==
    CASE t.observed > 0 -> "native"
      [] t.valid + t.invalid > t.observed -> "correlated"
      [] OTHER -> "unavailable"

-----------------------------------------------------------------------------
\* is_codex_request_span stays in lockstep with the classification: it holds of exactly
\* the spans for which Codex is a candidate.
LockStep == \A i \in All : IsCodexRequest(input.rows[i]) <=> "codex" \in Candidates(input.rows[i])

\* unidentified_required_attributes: a span nobody recognises misses something, and once
\* it carries that some signature matches.
RequiredSuffice ==
    \A i \in All : LET s == input.rows[i] IN
        Emitter(s) = "unknown" => Required(s) # {} /\ Candidates(With(s, Required(s))) # {}

\* A request the report recognises is one the comparison of models measures, except a
\* sampling span of Codex whose model is not under the bare key.
RecognisedIsMeasured ==
    \A i \in All : LET s == input.rows[i] IN
        IsRequest(s) => RequestGuard(s) \/ (Emitter(s) = "codex" /\ s.request.under # "bare")

\* Every usage span below a request is accounted for once: joined, rejected or ambiguous;
\* and every request has one outcome.
UsageCountedOnce ==
    LET S     == Sample
        total(F(_)) == MapThenSumSet(F, Models)
    IN  /\ total(LAMBDA m : Provenance(S, m).matched + Provenance(S, m).rejected + Provenance(S, m).ambiguous)
             = Cardinality({i \in S : IsUsage(input.rows[i]) /\ Enclosing(S, i) # None})
        /\ \A m \in Models :
             LET p == Provenance(S, m) IN
             p.matched + p.unmatched + p.rejected <= Cardinality(OfModel(S, m))
               /\ (p.ambiguous = 0 => p.matched + p.unmatched + p.rejected = Cardinality(OfModel(S, m)))

\* A metric is available natively or by joining for no more requests than there are, and
\* one that is available and reliable has no request without a valid value.
ReliableMeansEvery ==
    \A m \in Models, metric \in Metrics :
        LET t == Tally(Sample, m, metric)
        IN  /\ t.valid + t.invalid <= t.eligible
            /\ Availability(t) = "available" /\ Quality(t, 0) = "reliable" =>
                 \A r \in OfModel(Sample, m) : Taken(Sample, r, metric) = "valid"
            /\ ReportedDerivation(t) = "unavailable" <=> t.valid + t.invalid = 0

\* The bounded sample does not change what a request is joined to, as long as spans start
\* after their parents and the window ends after the last of them.
ParentsFirst == \A i \in All : input.rows[i].parent < i
SampleIsEnough ==
    ParentsFirst /\ input.until = Len(input.rows) =>
        \A r \in Requests(Sample) : Outcome(Sample, r) = Outcome(All, r)

\* What correlate_codex_usage says: two candidates are never joined.  The window may end
\* between them.
MatchedIsOneToOne ==
    \A r \in Requests(Sample) :
        Outcome(Sample, r) = "matched" => Cardinality(UsageUnder(All, r)) = 1

\* What the report says of its unidentified spans: they resemble calls of a model.
UnidentifiedAreLlm == \A i \in Sample : Emitter(input.rows[i]) = "unknown" => LlmGuard(input.rows[i])

\* What the comparison of models says: a usage span of Codex is not a request.
UsageIsNoRequest == \A i \in All : IsUsage(input.rows[i]) => ~IsRequest(input.rows[i])

\* What classify_ttft_value says: a zero is no measurement; the session view shows the
\* normalised value without asking.
ZeroIsNoTtft == \A i \in All : Normalised(input.rows[i]) = 0 => Ttft(input.rows[i]) = "valid"
=============================================================================
