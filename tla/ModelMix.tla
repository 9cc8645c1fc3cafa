------------------------------ MODULE ModelMix ------------------------------
(***************************************************************************)
(* Who served the tokens of a model, how much of them was thinking, and    *)
(* what the sessions cost: the provider mix, the reasoning share and the   *)
(* session costs read the same rows, each by a query of its own.  The      *)
(* tokens of a model are shared out to the providers it ran on, by the     *)
(* number of its calls on each, with largest-remainder apportionment;      *)
(* shares are exact here, the code computes them as 64-bit floats.  The    *)
(* input is those rows, in the order they are read, or, per model, its     *)
(* tokens and its providers; nothing changes it.                           *)
(***************************************************************************)
EXTENDS Integers, Sequences, FiniteSets, FiniteSetsExt, SequencesExt

CONSTANTS
    Models, Sessions, Providers, Unknown, Absent,
    MaxTime, MaxRows,       \* of the rows
    MaxTokens, MaxWeight    \* of a model, of a provider

VARIABLE input    \* Seq of rows, or [Models -> [tokens, providers : Seq([name, weight])]]

Distinct(s) == \A i, j \in DOMAIN s : i # j => s[i].name # s[j].name
Weighted    == [name : Providers, weight : 1..MaxWeight]
ProviderLists ==
    {s \in UNION {[1..n -> Weighted] : n \in 0..Cardinality(Providers)} : Distinct(s)}

SplitInit == input \in [Models -> [tokens : 0..MaxTokens, providers : ProviderLists]]

Weights(s) == MapThenSumSet(LAMBDA i : s[i].weight, DOMAIN s)

\* What the floor of a share leaves over, in units of the total weight.
Fraction(total, s, i) == (total * s[i].weight) % Weights(s)

\* Place in the order of fractional parts, largest first; the sort is stable.
Rank(total, s, i) ==
    Cardinality({j \in DOMAIN s : \/ Fraction(total, s, j) > Fraction(total, s, i)
                                  \/ Fraction(total, s, j) = Fraction(total, s, i) /\ j < i})

Floor(total, s, i)  == (total * s[i].weight) \div Weights(s)
Leftover(total, s)  == total - MapThenSumSet(LAMBDA i : Floor(total, s, i), DOMAIN s)

\* Mutant: the first provider gets all of the leftover.
SplitLeftoverFirst(total, s) ==
    [i \in DOMAIN s |-> Floor(total, s, i) + (IF i = 1 THEN Leftover(total, s) ELSE 0)]

\* largest_remainder_split: the leftover units go round the providers in rank order.
Split(total, s) ==
    [i \in DOMAIN s |-> Floor(total, s, i)
        + Cardinality({u \in 0..(Leftover(total, s) - 1) : u % Len(s) = Rank(total, s, i)})]

\* query_provider_mix: a model without a provider is attributed to "(unknown)".
PartOf(model, provider) ==
    LET m == input[model] IN
    IF m.providers = <<>> THEN (IF provider = Unknown THEN m.tokens ELSE 0)
    ELSE MapThenSumSet(LAMBDA i : Split(m.tokens, m.providers)[i],
                       {i \in DOMAIN m.providers : m.providers[i].name = provider})

ProviderTokens(provider) == MapThenSumSet(LAMBDA model : PartOf(model, provider), Models)
TotalTokens == MapThenSumSet(LAMBDA model : input[model].tokens, Models)

\* The providers' tokens sum exactly to total_tokens, so their shares to 100 %.
ProvidersAddUp ==
    MapThenSumSet(ProviderTokens, Providers \cup {Unknown}) = TotalTokens

\* No provider is off its exact share by a whole token.
WithinOneToken ==
    \A model \in Models :
        LET s == input[model].providers
            t == input[model].tokens
        IN  \A i \in DOMAIN s :
                LET off == Split(t, s)[i] * Weights(s) - t * s[i].weight
                IN  0 - Weights(s) < off /\ off < Weights(s)

\* A provider with more of a model's calls is given no fewer of its tokens.
MoreCallsNoFewerTokens ==
    \A model \in Models :
        LET s == input[model].providers
            parts == Split(input[model].tokens, s)
        IN  \A i, j \in DOMAIN s : s[i].weight > s[j].weight => parts[i] >= parts[j]

-----------------------------------------------------------------------------
\* Request spans of Claude Code, token rows of Codex, what opencode's token counters grew
\* by, its model.usage rows, a span of another tool with reasoning tokens.
Calls  == [kind : {"call"}, at : 0..MaxTime, session : Sessions \cup {Absent},
           model : Models \cup {Absent}, provider : Providers \cup {Absent}, n : {3}]
Turns  == [kind : {"turn"}, model : Models \cup {Absent}, type : {"output", "reasoning", "total"}, n : {2}]
Deltas == [kind : {"delta"}, session : Sessions, model : Models \cup {Absent},
           type : {"output", "reasoning", "other"}, n : {1}]
Uses   == [kind : {"use"}, model : Models \cup {Absent}, provider : Providers \cup {Absent}]
Thinks == [kind : {"thinking"}, model : Models, n : {1}]
\* Rows of opencode's running totals of a session.
Totals == [kind : {"cost"}, at : 0..MaxTime, session : Sessions,
           value : {Absent, 1, 2}, project : Providers \cup {Absent}]
              \cup [kind : {"tokens"}, at : 0..MaxTime, session : Sessions,
                    value : {Absent, 1, 2}, project : {Absent}]
\* Events of Codex.
Events == [kind : {"thread"}, at : 0..MaxTime, source : {"cli", "subagent"}]
              \cup [kind : {"request"}, at : 0..MaxTime, failed : BOOLEAN]
Init ==
    \/ \E n \in 1..MaxRows : \E rows \in [1..n -> Calls \cup Events] :
          (\A i \in 2..n : rows[i - 1].at <= rows[i].at) /\ input = rows
    \/ \E shapes \in {{c \in Calls : c.at = 0 /\ c.session # Absent} \cup Turns \cup Deltas \cup Uses \cup Thinks, Totals} :
           \E n \in 1..MaxRows : input \in [1..n -> shapes]

-----------------------------------------------------------------------------
Row(i)   == input[i]
Of(kind) == {i \in DOMAIN input : Row(i).kind = kind}
Add(S)   == MapThenSumSet(LAMBDA i : Row(i).n, S)
Types    == {"output", "reasoning"}

\* query_provider_mix: the rows that count for a model; opencode's without one are those of
\* a model "(unknown)", the others without one count for none.
NameOf(i)     == IF Row(i).kind = "delta" /\ Row(i).model = Absent THEN Unknown ELSE Row(i).model
TypeOf(i)     == IF Row(i).kind = "call" THEN "output" ELSE Row(i).type
Counted(m)    == {i \in Of("delta") \cup Of("turn") \cup Of("call") : NameOf(i) = m}
MixModels     == {m \in Models \cup {Unknown} : Counted(m) # {}}
Tokens(m, type) == Add({i \in Counted(m) : TypeOf(i) = type})
SessionsOf(m) == {Row(i).session : i \in Counted(m) \ Of("turn")} \ {Absent}

\* The providers of a model in the order they are met, opencode's rows first, each with the
\* number of its rows.
Serving(m) ==
    LET named(kind) == SetToSortSeq({i \in Of(kind) : Row(i).model = m /\ Row(i).provider # Absent}, <)
        all   == named("use") \o named("call")
        order == SetToSortSeq({k \in DOMAIN all : \A j \in 1..(k - 1) : Row(all[j]).provider # Row(all[k]).provider}, <)
    IN  [k \in DOMAIN order |->
            LET p == Row(all[order[k]]).provider
            IN  [name |-> p, weight |-> Cardinality({j \in DOMAIN all : Row(all[j]).provider = p})]]

\* attribute_model_to_providers splits each category of tokens on its own.
Part(m, p, type) ==
    LET s == Serving(m)
    IN  IF s = <<>> THEN (IF p = Unknown THEN Tokens(m, type) ELSE 0)
        ELSE MapThenSumSet(LAMBDA k : Split(Tokens(m, type), s)[k], {k \in DOMAIN s : s[k].name = p})
ServesIn(p) == {m \in MixModels : IF Serving(m) = <<>> THEN p = Unknown ELSE \E k \in DOMAIN Serving(m) : Serving(m)[k].name = p}
Mix == [p \in {q \in Providers \cup {Unknown} : ServesIn(q) # {}} |->
           [m \in ServesIn(p) |-> MapThenSumSet(LAMBDA type : Part(m, p, type), Types)]]
MixTotal == MapThenSumSet(LAMBDA m : MapThenSumSet(LAMBDA type : Tokens(m, type), Types), MixModels)
Method   == IF \E m \in MixModels : Len(Serving(m)) > 1 THEN "token-share-split" ELSE "direct"

\* query_reasoning_share: opencode's counters, Codex's rows and every span that has them.
Reasoned(m) ==
    {i \in Of("delta") \cup Of("turn") : NameOf(i) = m /\ TypeOf(i) = "reasoning"}
        \cup {i \in Of("thinking") : Row(i).model = m}
ReasoningOf(m) == Add(Reasoned(m))
OutputOf(m)    == Add({i \in Of("delta") \cup Of("turn") : NameOf(i) = m /\ TypeOf(i) = "output"})

-----------------------------------------------------------------------------
\* claude_session_costs: the request spans of a session in the window.
CallsIn(from, to, s)  == {i \in Of("call") : Row(i).session = s /\ from <= Row(i).at /\ Row(i).at <= to}
Duration(S) ==
    LET times == {Row(i).at : i \in S} IN IF Max(times) > Min(times) THEN Max(times) - Min(times) ELSE Absent
ModelNames(S) == {IF Row(i).model = Absent THEN Unknown ELSE Row(i).model : i \in S}
ClaudeCosts(from, to) ==
    [s \in {t \in Sessions : CallsIn(from, to, t) # {}} |->
        LET S == CallsIn(from, to, s)
        IN  [tokens |-> Add(S), models |-> ModelNames(S), duration |-> Duration(S)]]

\* last_hist_sum_per_session and last_attr_per_session: of the rows in the window that have
\* the field, the newest; of several, the one that is read last.
Newest(from, to, kind, s, field) ==
    LET with == {i \in Of(kind) : Row(i).session = s /\ from <= Row(i).at /\ Row(i).at <= to /\ Row(i)[field] # Absent}
        newest == {i \in with : \A j \in with : Row(j).at <= Row(i).at}
    IN  IF with = {} THEN Absent ELSE Row(Max(newest))[field]
OpencodeListed(from, to) == {s \in Sessions : \E kind \in {"cost", "tokens"} : Newest(from, to, kind, s, "value") # Absent}
OpencodeCosts(from, to) ==
    [s \in OpencodeListed(from, to) |->
        [cost |-> Newest(from, to, "cost", s, "value"), tokens |-> Newest(from, to, "tokens", s, "value"),
         project |-> Newest(from, to, "cost", s, "project")]]

\* codex_event_totals: the threads of the command line and the requests that failed.
EventTotals(from, to) ==
    LET within(kind) == {i \in Of(kind) : from <= Row(i).at /\ Row(i).at <= to}
    IN  [sessions |-> Cardinality({i \in within("thread") : Row(i).source = "cli"}),
         retries  |-> Cardinality({i \in within("request") : Row(i).failed})]

-----------------------------------------------------------------------------
\* The providers of a mix have together exactly its total, though each category of a model
\* is rounded on its own; "direct" says that no two providers share a model.
MixAddsUp ==
    /\ MapThenSumSet(LAMBDA p : MapThenSumSet(LAMBDA m : Mix[p][m], DOMAIN Mix[p]), DOMAIN Mix) = MixTotal
    /\ Method = "direct" <=> \A p, q \in DOMAIN Mix : p # q => DOMAIN Mix[p] \cap DOMAIN Mix[q] = {}

\* The mix and the session costs count Claude's tokens alike: what either leaves out are the
\* spans without a model there and without a session here; and a model has as many sessions
\* there as list it here.
MixMatchesSessions ==
    LET costs == ClaudeCosts(0, MaxTime)
        calls == Of("call")
    IN  Of("delta") \cup Of("turn") = {} =>
        /\ MixTotal + Add({i \in calls : Row(i).model = Absent}) =
               MapThenSumSet(LAMBDA s : costs[s].tokens, DOMAIN costs) + Add({i \in calls : Row(i).session = Absent})
        /\ \A m \in MixModels : SessionsOf(m) = {s \in DOMAIN costs : m \in costs[s].models}

\* The thinking that the reasoning share finds is that of the mix and of the spans that
\* carry it; its output leaves out Claude's, which reports no thinking.
ReasoningMatchesMix ==
    \A m \in Models \cup {Unknown} :
        /\ ReasoningOf(m) = Tokens(m, "reasoning") + Add({i \in Of("thinking") : Row(i).model = m})
        /\ OutputOf(m) + Add({i \in Of("call") : Row(i).model = m}) = Tokens(m, "output")

\* Two windows that meet hold what the window they make holds: Claude's tokens and Codex's
\* events add up, a running total is that of the later window that has one, and a session
\* lasts at least as long as its parts.
CostsCarryOver ==
    \A t \in 0..(MaxTime - 1) :
        LET whole == ClaudeCosts(0, MaxTime)
            one == ClaudeCosts(0, t)
            two == ClaudeCosts(t + 1, MaxTime)
            of(costs, s, field) == IF s \in DOMAIN costs /\ costs[s][field] # Absent THEN costs[s][field] ELSE 0
        IN  /\ DOMAIN whole = DOMAIN one \cup DOMAIN two
            /\ \A s \in DOMAIN whole :
                /\ whole[s].tokens = of(one, s, "tokens") + of(two, s, "tokens")
                /\ of(whole, s, "duration") >= of(one, s, "duration") + of(two, s, "duration")
            /\ OpencodeListed(0, MaxTime) = OpencodeListed(0, t) \cup OpencodeListed(t + 1, MaxTime)
            /\ \A s \in OpencodeListed(0, MaxTime), f \in {"cost", "tokens", "project"} :
                LET later == OpencodeCosts(t + 1, MaxTime)
                    before == OpencodeCosts(0, t)
                    known(costs) == s \in DOMAIN costs /\ costs[s][f] # Absent
                    all == OpencodeCosts(0, MaxTime)[s][f]
                IN  (known(later) => all = later[s][f]) /\ (~known(later) /\ known(before) /\ f # "project" => all = before[s][f])
            /\ \A f \in {"sessions", "retries"} :
                EventTotals(0, MaxTime)[f] = EventTotals(0, t)[f] + EventTotals(t + 1, MaxTime)[f]

-----------------------------------------------------------------------------
\* Fails: the project of a session is that of the row its cost is from.
CostAndProjectAreOfOneRow ==
    \A s \in OpencodeListed(0, MaxTime) :
        LET row == OpencodeCosts(0, MaxTime)[s]
        IN  row.cost # Absent /\ row.project # Absent =>
                \E i \in Of("cost") : Row(i).session = s /\ Row(i).value = row.cost /\ Row(i).project = row.project

\* Fails: a session of the list has its tokens under its model in the mix.
EverySessionIsInTheMix ==
    \A s \in DOMAIN ClaudeCosts(0, MaxTime) : \E m \in MixModels : s \in SessionsOf(m)
=============================================================================
