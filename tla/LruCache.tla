------------------------------ MODULE LruCache ------------------------------
(***************************************************************************)
(* LruCache of the dashboard: a map behind one lock and the access order   *)
(* behind another.  Every operation takes the map's lock first and holds   *)
(* both, so each is one step.  An entry that is over its time to live      *)
(* stays in the map, and counts, until it is evicted or replaced.          *)
(***************************************************************************)
EXTENDS Naturals, Sequences, FiniteSets

CONSTANTS
    Keys, Values,
    MaxSize,      \* max_size
    None

VARIABLES
    cache,        \* the cached keys -> [value, live]
    access_order, \* most recently used first
    since         \* history: key -> the other keys used since its last use, or all keys

vars == <<cache, access_order, since>>

Cached     == DOMAIN cache
Live(k)    == k \in Cached /\ cache[k].live

\* VecDeque::retain: the items of S, in their order.
Retain(list, S) ==
    LET at == {i \in DOMAIN list : list[i] \in S}
    IN  [n \in 1..Cardinality(at) |->
            list[CHOOSE i \in at : Cardinality({j \in at : j <= i}) = n]]

Used(k) == since' = [x \in Keys |-> IF x = k THEN {} ELSE since[x] \cup {k}]
\* Expired, cleared or never inserted: no promise is left.
Forgotten(S) == since' = [x \in Keys |-> IF x \in S THEN Keys ELSE since[x]]

Init ==
    /\ cache = [k \in {} |-> None]
    /\ access_order = <<>>
    /\ since = [k \in Keys |-> Keys]

-----------------------------------------------------------------------------
\* Mutant: a lookup does not count as a use.
GetPeeks(k) ==
    /\ Live(k)
    /\ Used(k)
    /\ UNCHANGED <<cache, access_order>>

\* A hit moves the key to the front; an expired entry is a miss and stays.
Get(k) ==
    /\ Live(k)
    /\ access_order' = <<k>> \o Retain(access_order, Keys \ {k})
    /\ Used(k)
    /\ UNCHANGED cache

\* The entry that makes room for k.
Evicted(k) ==
    IF Cardinality(Cached) >= MaxSize /\ k \notin Cached /\ access_order # <<>>
    THEN {access_order[Len(access_order)]} ELSE {}

\* Mutant: a key that is cached already keeps its entry.
InsertFirstWins(k, v) ==
    LET kept == Cached \ Evicted(k)
    IN  /\ cache' = [x \in kept \cup {k} |->
                        IF x \in kept THEN [cache[x] EXCEPT !.live = TRUE]
                        ELSE [value |-> v, live |-> TRUE]]
        /\ access_order' = <<k>> \o Retain(access_order, kept \ {k})
        /\ Used(k)

\* At capacity a new key replaces the least recently used one.
Insert(k, v) ==
    LET kept == Cached \ Evicted(k)
    IN  /\ cache' = [x \in kept \cup {k} |-> IF x = k THEN [value |-> v, live |-> TRUE] ELSE cache[x]]
        /\ access_order' = <<k>> \o Retain(access_order, kept \ {k})
        /\ Used(k)

Clear ==
    /\ cache' = [k \in {} |-> None]
    /\ access_order' = <<>>
    /\ Forgotten(Keys)

CleanupExpired ==
    /\ cache' = [k \in {x \in Cached : Live(x)} |-> cache[k]]
    /\ access_order' = Retain(access_order, {x \in Cached : Live(x)})
    /\ UNCHANGED since

\* The entry is over its time to live.
Expire(k) ==
    /\ Live(k)
    /\ cache' = [cache EXCEPT ![k].live = FALSE]
    /\ Forgotten({k})
    /\ UNCHANGED access_order

Next ==
    \/ \E k \in Keys : Get(k) \/ Expire(k) \/ \E v \in Values : Insert(k, v)
    \/ Clear \/ CleanupExpired

Spec == Init /\ [][Next]_vars

-----------------------------------------------------------------------------
\* Types, and the two locked structures agree: the order lists each cached key once,
\* so the eviction always finds a key to evict.
TypeOK ==
    /\ Cached \subseteq Keys
    /\ cache \in [Cached -> [value : Values, live : BOOLEAN]]
    /\ Len(access_order) = Cardinality(Cached)
    /\ {access_order[i] : i \in DOMAIN access_order} = Cached
    /\ since \in [Keys -> SUBSET Keys]

\* The cache never holds more than its size; expired entries count.
SizeBounded == Cardinality(Cached) <= MaxSize

\* A key is not evicted before as many other keys as the cache holds were used
\* after it, unless it expired or the cache was cleared.
RecentStay == \A k \in Keys : Live(k) \/ k \in since[k] \/ Cardinality(since[k]) >= MaxSize

\* The cache is a map that loses entries (module ExpiringMap).
Lookup == [k \in Keys |-> IF Live(k) THEN cache[k].value ELSE None]
Map    == INSTANCE ExpiringMap WITH map <- Lookup
ImplementsMap == Map!Spec
=============================================================================
