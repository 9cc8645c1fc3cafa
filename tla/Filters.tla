------------------------------- MODULE Filters ------------------------------
(***************************************************************************)
(* What selects rows.  The filter bar: five dimensions that every usage    *)
(* endpoint takes, turned into a condition on spans, logs and metrics, and *)
(* echoed as applied; and the model patterns of the command line, which the *)
(* storage matches with LIKE and a client by hand.  Structured queries: the *)
(* command line parses a text into predicates and sends them as one        *)
(* parameter, joined with &&; the server splits, parses again, and turns   *)
(* each predicate into a condition on a column or on a label, which is     *)
(* stored as text.                                                         *)
(*                                                                         *)
(* A text is a sequence of words: "f" is bare, "q" and "sq" a word in double *)
(* and in single quotes, "lo" and "lc" the first and the last word of a    *)
(* longer string in quotes.  The input is a filter and a row, a pattern and *)
(* a name, a text, or a predicate and a row; nothing changes it.           *)
(***************************************************************************)
EXTENDS Integers, Sequences, FiniteSets, FiniteSetsExt, SequencesExt

CONSTANTS
    Values,                  \* of a dimension
    Letters, MaxLength,      \* of names and patterns
    Inner,                   \* words that may stand inside a string
    Numbers,                 \* of labels and predicates
    Milliseconds, NsPerMs,   \* durations of spans, and how they are stored
    Absent

VARIABLE input

Dimensions == {"agent", "model", "provider", "project", "session"}
Families   == {"claude", "opencode", "codex"}

\* Rows carry the dimensions as labels; a span tells its agent by its name and scope,
\* a log of codex has a conversation in the place of a session.
Row     == [agent : Families \cup {"other"}, model : Values \cup {Absent}, provider : Values \cup {Absent},
            project : Values \cup {Absent}, session : Values \cup {Absent}, conversation : Values \cup {Absent}]
\* The value asked for where only one can be; which one makes no difference.
Asked   == CHOOSE v \in Values : TRUE
Filter  == [agent : {"claude", "codex", "another", Absent}, model : Values \cup {Absent},
            models : {Absent, {}} \cup {{v} : v \in Values} \cup {Values}, provider : {Asked, Absent},
            project : {Asked, Absent}, session : {Asked, Absent}]

Upto(S, n) == UNION {[1..k -> S] : k \in 0..n}

FilterInit  == \E f \in Filter, r \in Row : input = [filter |-> f, row |-> r]
PatternInit ==
    \E p \in Upto(Letters \cup {"*"}, MaxLength), n \in Upto(Letters, MaxLength) :
        input = [pattern |-> p, name |-> n]

-----------------------------------------------------------------------------
\* json_extract on attributes, a flat object: the key is found only if the path quotes it,
\* because `$.session.id` is the key `id` of an object `session`.
Extract(label, quoted) == IF quoted THEN label ELSE Absent
SessionPathQuoted      == FALSE

Equals(label, value) == value = Absent \/ (label # Absent /\ label = value)

\* agent_span_predicate: an agent that is no known family is ignored.
AgentMatches(f, r) == f.agent \notin Families \/ r.agent = f.agent

\* span_scope, log_scope and metric_scope.  An empty list of models adds no condition.
SpanScope(f, r) ==
    /\ AgentMatches(f, r)
    /\ Equals(r.model, f.model)
    /\ f.models \in {Absent, {}} \/ (r.model # Absent /\ r.model \in f.models)
    /\ Equals(r.provider, f.provider)
    /\ Equals(r.project, f.project)
    /\ Equals(Extract(r.session, SessionPathQuoted), f.session)
LogScope(f, r) ==
    \/ Equals(Extract(r.session, SessionPathQuoted), f.session)
    \/ Equals(r.conversation, f.session)
MetricScope(f, r) ==
    /\ Equals(r.model, f.model)
    /\ Equals(r.project, f.project)
    /\ Equals(Extract(r.session, SessionPathQuoted), f.session)

\* What the filter names, and what an endpoint that supports some of it echoes.
Named(f) == {d \in Dimensions : CASE d = "agent" -> f.agent # Absent
                                  [] d = "model" -> f.model # Absent \/ f.models # Absent
                                  [] OTHER       -> f[d] # Absent}
Applied(f, supported) == {d \in Named(f) \cap supported : d = "agent" => f.agent \in Families}

\* The usage endpoints over spans echo every dimension; query_finish_reasons reads logs,
\* and the TTFT percentiles metrics, beside them; those that echo nothing pass no filter.
EchoOfSpanViews(f) == Applied(f, Dimensions)
EchoOfPlainViews(f) == Applied(f, {})
FinishReasonRows(f, r, signal) == IF signal = "logs" THEN LogScope(f, r) ELSE SpanScope(f, r)
TtftRows(f, r, signal) == IF signal = "metrics" THEN MetricScope(f, r) ELSE SpanScope(f, r)

-----------------------------------------------------------------------------
\* model_matches: the segments between the stars, taken from the front or the back of
\* what is left of the name; Absent once one does not fit.
Stars(p)    == {i \in DOMAIN p : p[i] = "*"}
Segments(p) ==
    LET ends == SetToSortSeq({0, Len(p) + 1} \cup Stars(p), <)
    IN  [i \in 1..(Len(ends) - 1) |-> SubSeq(p, ends[i] + 1, ends[i + 1] - 1)]

Drop(s, n) == SubSeq(s, n + 1, Len(s))
FirstAt(seg, s) == {i \in 0..(Len(s) - Len(seg)) : SubSeq(s, i + 1, i + Len(seg)) = seg}

Take(p, rest, i) ==
    LET seg == Segments(p)[i]
    IN  IF rest = Absent \/ seg = <<>> THEN rest
        ELSE IF i = 1 THEN (IF IsPrefix(seg, rest) THEN Drop(rest, Len(seg)) ELSE Absent)
        ELSE IF i = Len(Segments(p))
             THEN (IF IsSuffix(seg, rest) THEN SubSeq(rest, 1, Len(rest) - Len(seg)) ELSE Absent)
        ELSE IF FirstAt(seg, rest) = {} THEN Absent
        ELSE Drop(rest, Min(FirstAt(seg, rest)) + Len(seg))

ModelMatches(p, name) ==
    IF Stars(p) = {} THEN p = name
    ELSE FoldLeft(LAMBDA rest, i : Take(p, rest, i), name, [i \in DOMAIN Segments(p) |-> i]) # Absent

\* The storage: equality without a star, else LIKE with % for a star, which does not
\* tell "a" from "A".
Folded(c) == IF c = "A" THEN "a" ELSE c
Like[p \in Upto(Letters \cup {"*"}, MaxLength), name \in Upto(Letters, MaxLength)] ==
    IF p = <<>> THEN name = <<>>
    ELSE IF p[1] = "*" THEN Like[Tail(p), name] \/ (name # <<>> /\ Like[p, Tail(name)])
    ELSE name # <<>> /\ Folded(p[1]) = Folded(name[1]) /\ Like[Tail(p), Tail(name)]
StorageMatches(p, name) == IF Stars(p) = {} THEN p = name ELSE Like[p, name]

-----------------------------------------------------------------------------
\* What a scope selects carries every value that its endpoint echoes, an empty list of
\* models aside; an echo names nothing that was not asked, and what it leaves out, an
\* unknown agent, changes nothing.
ScopesHoldWhatTheyEcho ==
    LET f == input.filter
        r == input.row
    IN  /\ SpanScope(f, r) =>
               \A d \in EchoOfSpanViews(f) :
                   IF d = "model" THEN /\ f.model # Absent => r.model = f.model
                                       /\ f.models \notin {Absent, {}} => r.model \in f.models
                   ELSE r[d] = f[d]
        /\ EchoOfPlainViews(f) = {}
        /\ LET ignored == [f EXCEPT !.agent = Absent]
           IN  "agent" \in Named(f) \ EchoOfSpanViews(f) => SpanScope(f, r) = SpanScope(ignored, r)
        /\ EchoOfSpanViews(f) = {} => SpanScope(f, r) /\ LogScope(f, r) /\ MetricScope(f, r)
        /\ LogScope(f, r) /\ f.session # Absent => f.session \in {r.session, r.conversation}

\* model_matches "mirrors the SQL LIKE translation", for names and patterns of one case.
PatternsAgree ==
    "A" \notin ToSet(input.pattern) \cup ToSet(input.name) =>
        (ModelMatches(input.pattern, input.name) <=> StorageMatches(input.pattern, input.name))

\* What filters.rs says of spans, "session via `session.id`": the session alone selects
\* the spans that carry it.
SessionFilterSelects ==
    LET only == [agent |-> Absent, model |-> Absent, models |-> Absent, provider |-> Absent,
                 project |-> Absent, session |-> input.filter.session]
    IN  only.session # Absent => (SpanScope(only, input.row) <=> input.row.session = only.session)

\* What filters.rs says of endpoints: they echo what they apply, for every row they read.
EchoIsApplied ==
    \A signal \in {"spans", "logs"} :
        FinishReasonRows(input.filter, input.row, signal) =>
            \A d \in EchoOfSpanViews(input.filter) \ {"model", "session"} : input.row[d] = input.filter[d]

\* What filters.rs says of model_matches: the storage and the client agree on a pattern.
PatternsAgreeInAnyCase ==
    ModelMatches(input.pattern, input.name) <=> StorageMatches(input.pattern, input.name)

-----------------------------------------------------------------------------
\* In the order in which the parser looks for them.
Operators == <<"contains", ">=", "<=", "!=", ">", "<", "=">>

Quoted == {<<"q">>, <<"sq">>, <<"q", "q">>} \cup {<<"lo">> \o s \o <<"lc">> : s \in UNION {[1..n -> Inner] : n \in 0..2}}
Texts  == {<<"f", op>> \o v : op \in {"=", ">", "contains"}, v \in Quoted \cup {<<"5">>, <<"5ms">>, <<"1s">>, <<"f">>}}

TextInit ==
    \E t \in Texts, u \in Texts, joined \in {<<>>, <<"and">>, <<"&&">>} :
        input = [text |-> IF joined = <<>> THEN t ELSE t \o joined \o u]

\* A label holds the text of a number or another word.
Labels  == {Absent} \cup [word : {FALSE}, n : Numbers] \cup {[word |-> TRUE, n |-> 0]}
RowInit ==
    \E op \in ToSet(Operators) \ {"contains"}, label \in Labels, n \in Numbers, ms \in Milliseconds, d \in Milliseconds :
        input = [op |-> op, label |-> label, n |-> n, duration |-> ms * NsPerMs, ms |-> d]

-----------------------------------------------------------------------------
Error == Absent

\* parse_value: a string in quotes, a duration in milliseconds, or a number.
Duration(w) == CASE w = "5ms" -> 5 [] w = "1s" -> 1000 [] w = "1000ms" -> 1000 [] OTHER -> Absent
Opens(w)    == w \in {"q", "lo"}
Closes(w)   == w \in {"q", "lc"}
ParseValue(v) ==
    IF Opens(v[1]) /\ Closes(v[Len(v)]) THEN [type |-> "string", v |-> v]
    ELSE IF v = <<"sq">> THEN [type |-> "string", v |-> <<"q">>]
    ELSE IF Len(v) = 1 /\ Duration(v[1]) # Absent THEN [type |-> "duration", v |-> Duration(v[1])]
    ELSE IF v = <<"5">> THEN [type |-> "number", v |-> 5]
    ELSE [type |-> Error]

\* parse_single_predicate: the first operator of the list that stands between two words.
At(s, op) == {i \in 2..(Len(s) - 1) : s[i] = op}
ParseOne(s) ==
    LET found == {k \in DOMAIN Operators : At(s, Operators[k]) # {}}
    IN  IF found = {} THEN [op |-> Error]
        ELSE LET op    == Operators[Min(found)]
                 i     == Min(At(s, op))
                 value == ParseValue(SubSeq(s, i + 1, Len(s)))
             IN  IF value.type = Error THEN [op |-> Error]
                 ELSE [field |-> SubSeq(s, 1, i - 1), op |-> op, value |-> value]

\* find_and_separator: an `and` that is neither the first word of what is left nor the last.
PartsByAnd(s) ==
    LET parts[from \in 1..Len(s)] ==
            LET ands == {i \in (from + 1)..(Len(s) - 1) : s[i] = "and"}
            IN  IF ands = {} THEN <<SubSeq(s, from, Len(s))>>
                ELSE <<SubSeq(s, from, Min(ands) - 1)>> \o parts[Min(ands) + 1]
    IN  parts[1]

All(parts, Parse(_)) ==
    LET parsed == [i \in DOMAIN parts |-> Parse(parts[i])]
    IN  IF \E i \in DOMAIN parsed : parsed[i].op = Error THEN Error ELSE parsed
ParseQuery(s) == All(PartsByAnd(s), ParseOne)

\* Mutant: a duration is shown in seconds, rounded.
WordsInSeconds(value) ==
    CASE value.type = "string"   -> value.v
      [] value.type = "duration" -> <<IF value.v = 1000 THEN "1s" ELSE "0s">>
      [] value.type = "number"   -> <<"5">>

\* Display of a predicate, and what the commands send.
Words(value) ==
    CASE value.type = "string"   -> value.v
      [] value.type = "duration" -> <<IF value.v = 1000 THEN "1000ms" ELSE "5ms">>
      [] value.type = "number"   -> <<"5">>
Display(p) == p.field \o <<p.op>> \o Words(p.value)
Wire(ps)   == FoldLeft(LAMBDA acc, p : IF acc = <<>> THEN Display(p) ELSE acc \o <<"&&">> \o Display(p), <<>>, ps)

\* parse_query_param: split at every &&, empty parts left out.
PartsByAmp(s) ==
    LET ends  == SetToSortSeq({0, Len(s) + 1} \cup {i \in DOMAIN s : s[i] = "&&"}, <)
        parts == [i \in 1..(Len(ends) - 1) |-> SubSeq(s, ends[i] + 1, ends[i + 1] - 1)]
    IN  SelectSeq(parts, LAMBDA part : part # <<>>)
ParseParam(s) ==
    LET parsed == [i \in DOMAIN PartsByAmp(s) |-> ParseQuery(PartsByAmp(s)[i])]
    IN  IF \E i \in DOMAIN parsed : parsed[i] = Error THEN Error ELSE FlattenSeq(parsed)

-----------------------------------------------------------------------------
Compare(op, a, b) ==
    CASE op = "="  -> a = b
      [] op = "!=" -> a # b
      [] op = "<"  -> a < b
      [] op = ">"  -> a > b
      [] op = "<=" -> a <= b
      [] op = ">=" -> a >= b

\* predicate_to_sql.  A number is compared with the label cast to a number, 0 for a word,
\* or, for the session, with the text itself, which is above every number; a word is
\* above every number of the column of severities, too.
NumericMatch(op, label, n)   == label # Absent /\ Compare(op, label.n, n)
SessionMatch(op, label)      == label # Absent /\ op \in {"!=", ">", ">="}
SessionIndexed(op, label)    == SessionMatch(op, label) /\ label # Absent
SeverityByNameMatch(op)      == op \in {"!=", "<", "<="}
DurationMatch(op, ns, value) == Compare(op, ns, value)

-----------------------------------------------------------------------------
\* Unless a text contains &&, the server applies exactly the predicates that the command
\* line parsed; a text that contains it is refused, or split in two, by the server.
WireKeepsPredicates ==
    LET parsed == ParseQuery(input.text)
    IN  parsed # Error =>
            IF "&&" \notin ToSet(input.text) THEN ParseParam(Wire(parsed)) = parsed
            ELSE ParseParam(Wire(parsed)) # parsed

\* What numeric_lhs says: labels that are numbers compare as numbers, though they are
\* text; a row without the label is never selected, so an operator and its opposite
\* share out the rows that have it; and the conjuncts of the session index change nothing.
NumbersCompareAsNumbers ==
    LET opposite == [o \in {"=", "!=", "<", ">", "<=", ">="} |->
                        CASE o = "=" -> "!=" [] o = "!=" -> "=" [] o = "<" -> ">="
                          [] o = ">=" -> "<" [] o = ">" -> "<=" [] o = "<=" -> ">"]
    IN  /\ input.label # Absent /\ ~input.label.word =>
               (NumericMatch(input.op, input.label, input.n) <=> Compare(input.op, input.label.n, input.n))
        /\ ~(NumericMatch(input.op, input.label, input.n) /\ NumericMatch(opposite[input.op], input.label, input.n))
        /\ (NumericMatch(input.op, input.label, input.n) \/ NumericMatch(opposite[input.op], input.label, input.n))
               <=> input.label # Absent
        /\ SessionIndexed(input.op, input.label) <=> SessionMatch(input.op, input.label)

\* What query.rs says of QueryValue::Duration, "Duration in milliseconds".
DurationIsMilliseconds ==
    DurationMatch(input.op, input.duration, input.ms)
        <=> Compare(input.op, input.duration, input.ms * NsPerMs)
=============================================================================
