------------------------------ MODULE Pricing ------------------------------
(***************************************************************************)
(* What tokens cost: the look-up of a model in the LiteLLM table with the  *)
(* fallback for the Claude families, the savings of cached tokens, and the *)
(* rollups that the endpoints price model by model.  A name is a sequence  *)
(* of words, so that one can be part of another; a table is a function of  *)
(* names.  The input is a table and a request, or the rows of a rollup;    *)
(* nothing changes it.                                                     *)
(***************************************************************************)
EXTENDS Integers, Sequences, FiniteSets, FiniteSetsExt, SequencesExt

CONSTANTS
    MaxEntries,
    Models,
    MaxRows, TopModels,     \* models of a role that are priced, 5
    Absent

VARIABLE input

\* Rates of a table: with and without one for cached tokens, free, and one where reading
\* the cache costs more than sending the tokens.
Rate(in, out, read) == [in |-> in, out |-> out, read |-> read]
Rates    == {Rate(4, 8, 1), Rate(2, 6, Absent), Rate(0, 0, 0), Rate(1, 2, 3)}
Fallback == Rate(10, 50, 1)
Keys     == {<<"m">>, <<"M">>, <<"s", "m">>, <<"m", "n">>, <<"n", "m">>, <<"opus">>}
Names    == {<<"m">>, <<"M">>, <<"s", "m">>, <<"opus">>, <<"s", "opus">>}
LookupInit ==
    \E keys \in {K \in SUBSET Keys : Cardinality(K) <= MaxEntries}, model \in Names, system \in {Absent, "s"} :
        \E table \in [keys -> Rates] : input = [table |-> table, model |-> model, system |-> system]

\* Rows of a rollup, the tokens of a model in a bucket or session, and the input rate of
\* every model, half its output rate: Absent without a price, 0 when its tokens cost nothing.
Used(in, out, reasoning, read) == [in |-> in, out |-> out, reasoning |-> reasoning, read |-> read]
Usages == {Used(0, 0, 0, 0), Used(1, 0, 0, 2), Used(0, 1, 1, 0), Used(3, 1, 0, 0)}
RollupInit ==
    \E prices \in [Models -> {Absent, 0, 2}], counter \in {Absent, 0, 3}, n \in 0..MaxRows :
        \E rows \in [1..n -> [model : Models, bucket : 0..1, used : Usages]], disjoint \in BOOLEAN :
            input = [prices |-> prices, counter |-> counter, rows |-> rows, disjoint |-> disjoint]

-----------------------------------------------------------------------------
Lower(name) == [i \in DOMAIN name |-> IF name[i] = "M" THEN "m" ELSE name[i]]

\* PricingDatabase::lookup, the entry that one of several keys may give: the first exact
\* candidate, then a shortest key that holds the name.  The keys come in the order of a hash map.
Candidates(model, system) ==
    <<model, Lower(model)>>
        \o (IF system = Absent THEN <<>> ELSE <<<<system>> \o model, <<system>> \o Lower(model)>>)
Exact(model, system) ==
    SelectSeq(Candidates(model, system), LAMBDA name : name \in DOMAIN input.table)
Within(part, whole) ==
    \E k \in 0..(Len(whole) - Len(part)) : SubSeq(whole, k + 1, k + Len(part)) = part
Holding(model) == {key \in DOMAIN input.table : Within(Lower(model), Lower(key))}

Lookup(model, system) ==
    IF Exact(model, system) # <<>> THEN {Head(Exact(model, system))}
    ELSE {key \in Holding(model) : \A other \in Holding(model) : Len(key) <= Len(other)}

\* claude_fallback: the family is a word of the name.
HasFallback(model) == \E i \in DOMAIN model : model[i] = "opus"

\* compute_cost and compute_cache_savings, for each entry that the look-up may give, none
\* for Absent: an entry that is free is no price, and savings are never of a rate that is
\* not known.
Found(model, system)  == IF Lookup(model, system) = {} THEN {Absent} ELSE Lookup(model, system)
FallbackOf(model)     == IF HasFallback(model) THEN Fallback ELSE Absent
CostRate(key, model)  ==
    LET entry == input.table[key]
    IN  IF key = Absent \/ (entry.in = 0 /\ entry.out = 0) THEN FallbackOf(model)
        ELSE [entry EXCEPT !.read = IF @ = Absent THEN 0 ELSE @]
SavingsRate(key, model) ==
    LET rate == IF key = Absent THEN FallbackOf(model) ELSE input.table[key]
    IN  IF rate = Absent \/ rate.read = Absent THEN Absent ELSE rate.in - rate.read

-----------------------------------------------------------------------------
Rows          == DOMAIN input.rows
Of(m, S)      == {i \in S : input.rows[i].model = m}
In(b)         == {i \in Rows : input.rows[i].bucket = b}
ModelsOf(S)   == {input.rows[i].model : i \in S}
Sum(S, f)     == MapThenSumSet(LAMBDA i : input.rows[i].used[f], S)
Total(m, S)   == MapThenSumSet(LAMBDA f : Sum(Of(m, S), f), {"in", "out", "reasoning", "read"})

\* The tokens of a model at its rates: the agents, projects and sessions bill reasoning
\* as output, the roles, providers, chains and depths leave it out, the cross-tab of
\* sessions and models leaves out the cache as well.
Priced(m, S, reasoning, cache) ==
    IF input.prices[m] = Absent THEN Absent
    ELSE input.prices[m] * (Sum(Of(m, S), "in") + (IF cache THEN Sum(Of(m, S), "read") ELSE 0)
                            + 2 * (Sum(Of(m, S), "out") + (IF reasoning THEN Sum(Of(m, S), "reasoning") ELSE 0)))

\* The prices that are known, together; Absent when none is.
SumOfKnown(S, reasoning, cache) ==
    LET known == {m \in ModelsOf(S) : input.prices[m] # Absent}
    IN  IF known = {} THEN Absent ELSE MapThenSumSet(LAMBDA m : Priced(m, S, reasoning, cache), known)

Estimated(S)     == SumOfKnown(S, TRUE, TRUE)
WithoutReasoning(S) == SumOfKnown(S, FALSE, TRUE)
Breakdown(S)     == SumOfKnown(S, FALSE, FALSE)

\* AgentRollupStorage::enrich, the same for a session: a counter replaces the estimate.
AgentCost(S)   == IF input.counter # Absent THEN input.counter ELSE Estimated(S)
AgentSeries    == [b \in {input.rows[i].bucket : i \in Rows} |-> Estimated(In(b))]

\* ProjectRollupStorage::enrich: the counter of the row without a project is of other
\* sessions than its tokens.
ProjectCost ==
    LET counter == input.counter
        rows    == Estimated(Rows)
    IN  IF ~input.disjoint \/ counter = Absent \/ rows = Absent
        THEN IF counter # Absent THEN [cost |-> counter, source |-> "actual"]
             ELSE [cost |-> rows, source |-> "estimated"]
        ELSE [cost |-> counter + rows, source |-> IF counter > 0 THEN "mixed" ELSE "estimated"]
OrZero(cost) == IF cost = Absent THEN 0 ELSE cost
TopOrder(m, n) ==
    LET a == OrZero(Priced(m, Rows, TRUE, TRUE))
        b == OrZero(Priced(n, Rows, TRUE, TRUE))
    IN  a > b \/ (a = b /\ Total(m, Rows) > Total(n, Rows))

\* get_agent_roles and get_provider_mix.
TopOf(S) == {m \in ModelsOf(S) : Cardinality({n \in ModelsOf(S) : Total(n, S) > Total(m, S)}) < TopModels}
RoleCost(S, top) ==
    IF S = {} \/ \E m \in top : input.prices[m] = Absent THEN Absent
    ELSE MapThenSumSet(LAMBDA m : Priced(m, S, FALSE, TRUE), top)
ProviderCost(S) == WithoutReasoning(S)

-----------------------------------------------------------------------------
\* Whether a model has an entry depends neither on the case of its name nor on whether
\* the provider is known, though each has candidates of its own.
FoundWhateverTheSystem ==
    /\ Lookup(input.model, input.system) # {} <=> Lookup(input.model, Absent) # {}
    /\ Lookup(input.model, input.system) # {} <=> Lookup(Lower(input.model), input.system) # {}

\* The savings of cached tokens are what they would have cost as input without what they
\* did cost, wherever both are known of one entry.
SavingsAreTheDifference ==
    \A key \in Found(input.model, input.system) :
        LET cost == CostRate(key, input.model)
            savings == SavingsRate(key, input.model)
        IN  cost # Absent /\ savings # Absent =>
                \/ savings = cost.in - cost.read
                \/ key # Absent /\ input.table[key].in = 0 /\ input.table[key].out = 0

\* The buckets of an agent cost together what the agent is estimated at.
SeriesSumsToEstimate ==
    Estimated(Rows) =
        LET known == {b \in DOMAIN AgentSeries : AgentSeries[b] # Absent}
        IN  IF known = {} THEN Absent ELSE MapThenSumSet(LAMBDA b : AgentSeries[b], known)

\* One usage costs no more as a role than as a provider, no more there than as an agent,
\* and no less there than in the cross-tab; a role has no price that the others miss.
ViewsPriceInOrder ==
    \A top \in SUBSET TopOf(Rows) : Cardinality(top) <= TopModels =>
        /\ RoleCost(Rows, top) # Absent /\ top # {} => ProviderCost(Rows) # Absent
        /\ OrZero(RoleCost(Rows, top)) <= OrZero(ProviderCost(Rows))
        /\ OrZero(Breakdown(Rows)) <= OrZero(ProviderCost(Rows))
        /\ OrZero(ProviderCost(Rows)) <= OrZero(Estimated(Rows))
        /\ (Estimated(Rows) = Absent) <=> (Breakdown(Rows) = Absent)

\* The cost of the row without a project covers the counter and the tokens, and is mixed
\* only when both are more than nothing.
ProjectCostCovers ==
    input.disjoint =>
        /\ OrZero(ProjectCost.cost) = OrZero(input.counter) + OrZero(Estimated(Rows))
        /\ ProjectCost.source = "mixed" => input.counter > 0 /\ Estimated(Rows) # Absent

-----------------------------------------------------------------------------
\* Fails: "A zero rate difference (free model) is a known zero, not unknown" (pricing.rs),
\* of savings; the cost of a free model is unknown, or that of a Claude family.
FreeModelIsKnownZero ==
    \A key \in Found(input.model, input.system) :
        key # Absent /\ input.table[key].in = 0 /\ input.table[key].out = 0 /\ SavingsRate(key, input.model) = 0
            => CostRate(key, input.model) # Absent /\ CostRate(key, input.model).in = 0

\* Fails: a table prices a model the same way every time.
OnePrice == Cardinality({CostRate(key, input.model) : key \in Found(input.model, input.system)}) = 1

\* Fails: "the composite identity (`provider/model`) resolves as precisely as the bare
\* name did" (usage.rs of the command line).
IdentityResolves ==
    Lookup(input.model, Absent) # {} => Lookup(<<"s">> \o input.model, Absent) # {}

\* Fails: "Up to 5 models, cost desc (unpriced models last, tokens desc)" (api.rs).
UnpricedLast ==
    \A m, n \in ModelsOf(Rows) : input.prices[m] = Absent /\ input.prices[n] # Absent => ~TopOrder(m, n)

\* Fails: "Unpriced models leave the session unpriced (null, never zero)" (sessions.rs).
UnpricedLeavesNull ==
    (\E m \in ModelsOf(Rows) : input.prices[m] = Absent) => WithoutReasoning(Rows) = Absent

\* Fails: what is called estimated has a cost.
EstimateHasCost == ProjectCost.source = "estimated" => ProjectCost.cost # Absent
=============================================================================
