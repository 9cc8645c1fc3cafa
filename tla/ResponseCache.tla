--------------------------- MODULE ResponseCache ---------------------------
(***************************************************************************)
(* The response cache of otelite-api: cache_handler answers a GET from the *)
(* cache, joins an identical request in flight, or runs the query itself   *)
(* and publishes the answer; purge_all deletes the data and then clears    *)
(* the cache.  Handlers are futures: a client that disconnects drops its   *)
(* handler at the await it is in.  An answer stands for the generation of  *)
(* the data it was read from, the number of purges committed before.       *)
(***************************************************************************)
EXTENDS Integers, FiniteSets

CONSTANTS
    Keys,       \* cache keys: path and query of the cached endpoints
    Requests,   \* GET requests, each made once
    KeyOf,      \* request -> key
    MaxPurges,  \* bound on the purges
    None        \* no request, no answer

Generations == 0..MaxPurges

ASSUME ResponseCacheAssumption ==
    /\ KeyOf \in [Requests -> Keys]
    /\ MaxPurges \in Nat
    /\ None \notin Requests \cup Generations

VARIABLES
    generation,  \* purges the database has committed
    cached,      \* key -> the cached answer, or None
    in_flight,   \* key -> the owner of the registered entry, or None
    response,    \* owner -> the answer published in its entry, or None
    pc,          \* request -> where its handler is
    entry,       \* request -> the owner of the entry it waits on, or None
    answer,      \* request -> what it read or was given, or None
    purge,       \* purge_all: "idle", "storage", "committed" or "clearing"
    orphans,     \* purges whose handler was dropped while the storage worked
    to_clear,    \* keys the clearing purge has not reached
    committed,   \* history: the generation the purge of the handler has committed
    confirmed,   \* history: that of the last purge that answered
    floor,       \* history: request -> confirmed when it arrived
    evicted,     \* history: owners whose entry a waiter removed
    overlapped   \* history: keys cleared while an owner had read and had not left

request_vars == <<pc, entry, answer, floor>>
purge_vars   == <<generation, purge, orphans, to_clear, committed, confirmed>>
vars == <<generation, cached, in_flight, response, pc, entry, answer,
          purge, orphans, to_clear, committed, confirmed, floor, evicted, overlapped>>

Goto(r, label) == pc' = [pc EXCEPT ![r] = label]

-----------------------------------------------------------------------------
Init ==
    /\ generation = 0 /\ committed = 0 /\ confirmed = 0
    /\ cached = [k \in Keys |-> None]
    /\ in_flight = [k \in Keys |-> None]
    /\ response = [r \in Requests |-> None]
    /\ pc = [r \in Requests |-> "unsent"]
    /\ entry = [r \in Requests |-> None]
    /\ answer = [r \in Requests |-> None]
    /\ purge = "idle" /\ orphans = 0 /\ to_clear = {}
    /\ floor = [r \in Requests |-> 0]
    /\ evicted = {} /\ overlapped = {}

Arrive(r) ==
    /\ pc[r] = "unsent"
    /\ Goto(r, "lookup")
    /\ floor' = [floor EXCEPT ![r] = confirmed]
    /\ UNCHANGED <<purge_vars, cached, in_flight, response, entry, answer, evicted, overlapped>>

\* A fresh entry of the cache is the answer.
Hit(r) ==
    /\ pc[r] = "lookup"
    /\ cached[KeyOf[r]] # None
    /\ answer' = [answer EXCEPT ![r] = cached[KeyOf[r]]]
    /\ Goto(r, "done")
    /\ UNCHANGED <<purge_vars, cached, in_flight, response, entry, floor, evicted, overlapped>>

Miss(r) ==
    /\ pc[r] = "lookup"
    /\ cached[KeyOf[r]] = None
    /\ Goto(r, "join")
    /\ UNCHANGED <<purge_vars, cached, in_flight, response, entry, answer, floor, evicted, overlapped>>

\* Under the in_flight mutex: register as the owner, or join the one registered.
Own(r) ==
    /\ pc[r] = "join"
    /\ in_flight[KeyOf[r]] = None
    /\ in_flight' = [in_flight EXCEPT ![KeyOf[r]] = r]
    /\ Goto(r, "owner")
    /\ UNCHANGED <<purge_vars, cached, response, entry, answer, floor, evicted, overlapped>>

Join(r) ==
    /\ pc[r] = "join"
    /\ in_flight[KeyOf[r]] # None
    /\ entry' = [entry EXCEPT ![r] = in_flight[KeyOf[r]]]
    /\ Goto(r, "waiting")
    /\ UNCHANGED <<purge_vars, cached, in_flight, response, answer, floor, evicted, overlapped>>

-----------------------------------------------------------------------------
\* The query of the owner reads the database.
OwnerReads(r) ==
    /\ pc[r] = "owner"
    /\ answer' = [answer EXCEPT ![r] = generation]
    /\ Goto(r, "read")
    /\ UNCHANGED <<purge_vars, cached, in_flight, response, entry, floor, evicted, overlapped>>

\* A complete JSON body is cached.
OwnerInserts(r) ==
    /\ pc[r] = "read"
    /\ cached' = [cached EXCEPT ![KeyOf[r]] = answer[r]]
    /\ Goto(r, "publish")
    /\ UNCHANGED <<purge_vars, in_flight, response, entry, answer, floor, evicted, overlapped>>

\* Another complete body is published only.
OwnerSkipsCache(r) ==
    /\ pc[r] = "read"
    /\ Goto(r, "publish")
    /\ UNCHANGED <<purge_vars, cached, in_flight, response, entry, answer, floor, evicted, overlapped>>

OwnerPublishes(r) ==
    /\ pc[r] = "publish"
    /\ response' = [response EXCEPT ![r] = answer[r]]
    /\ Goto(r, "leaving")
    /\ UNCHANGED <<purge_vars, cached, in_flight, entry, answer, floor, evicted, overlapped>>

\* An error status, an oversized or a broken body: neither cached nor published.
OwnerKeepsToItself(r) ==
    /\ pc[r] = "read"
    /\ Goto(r, "leaving")
    /\ UNCHANGED <<purge_vars, cached, in_flight, response, entry, answer, floor, evicted, overlapped>>

\* Mutant: the guard removes whatever entry is registered.
DropGuardOfAnyone(r) == in_flight' = [in_flight EXCEPT ![KeyOf[r]] = None]

\* InFlightGuard::drop: the entry is removed if it is still the owner's own.
DropGuard(r) ==
    in_flight' = IF in_flight[KeyOf[r]] = r
                 THEN [in_flight EXCEPT ![KeyOf[r]] = None] ELSE in_flight

OwnerLeaves(r) ==
    /\ pc[r] = "leaving"
    /\ DropGuard(r)
    /\ Goto(r, "done")
    /\ UNCHANGED <<purge_vars, cached, response, entry, answer, floor, evicted, overlapped>>

\* Mutant: a dropped owner leaves its entry behind.
OwnerDroppedWithEntry(r) ==
    /\ pc[r] \in {"owner", "read"}
    /\ Goto(r, "dropped")
    /\ UNCHANGED <<purge_vars, cached, in_flight, response, entry, answer, floor, evicted, overlapped>>

\* The client of the owner disconnects while the query or its body is awaited.
OwnerDropped(r) ==
    /\ pc[r] \in {"owner", "read"}
    /\ DropGuard(r)
    /\ Goto(r, "dropped")
    /\ UNCHANGED <<purge_vars, cached, response, entry, answer, floor, evicted, overlapped>>

-----------------------------------------------------------------------------
\* A round of the wait loop: take the published answer, ...
WaiterTakes(r) ==
    /\ pc[r] = "waiting"
    /\ response[entry[r]] # None
    /\ answer' = [answer EXCEPT ![r] = response[entry[r]]]
    /\ Goto(r, "done")
    /\ UNCHANGED <<purge_vars, cached, in_flight, response, entry, floor, evicted, overlapped>>

\* ... or look whether the entry is still there, ...
WaiterLooks(r) ==
    /\ pc[r] = "waiting"
    /\ response[entry[r]] = None
    /\ Goto(r, "looking")
    /\ UNCHANGED <<purge_vars, cached, in_flight, response, entry, answer, floor, evicted, overlapped>>

\* ... and start again after a second or a notification, or stop waiting.
WaiterStays(r) ==
    /\ pc[r] = "looking"
    /\ in_flight[KeyOf[r]] = entry[r]
    /\ Goto(r, "waiting")
    /\ UNCHANGED <<purge_vars, cached, in_flight, response, entry, answer, floor, evicted, overlapped>>

WaiterStops(r) ==
    /\ pc[r] = "looking"
    /\ in_flight[KeyOf[r]] # entry[r]
    /\ Goto(r, "evict")
    /\ UNCHANGED <<purge_vars, cached, in_flight, response, entry, answer, floor, evicted, overlapped>>

\* DEDUP_WAIT_TIMEOUT has passed.
WaiterTimesOut(r) ==
    /\ pc[r] = "waiting"
    /\ response[entry[r]] = None
    /\ Goto(r, "evict")
    /\ UNCHANGED <<purge_vars, cached, in_flight, response, entry, answer, floor, evicted, overlapped>>

\* The entry is removed if it is still the one waited on.
WaiterEvicts(r) ==
    /\ pc[r] = "evict"
    /\ IF in_flight[KeyOf[r]] = entry[r]
       THEN /\ in_flight' = [in_flight EXCEPT ![KeyOf[r]] = None]
            /\ evicted' = evicted \cup {entry[r]}
       ELSE UNCHANGED <<in_flight, evicted>>
    /\ Goto(r, "alone")
    /\ UNCHANGED <<purge_vars, cached, response, entry, answer, floor, overlapped>>

\* It runs the query itself; the answer is not cached.
RunsAlone(r) ==
    /\ pc[r] = "alone"
    /\ answer' = [answer EXCEPT ![r] = generation]
    /\ Goto(r, "done")
    /\ UNCHANGED <<purge_vars, cached, in_flight, response, entry, floor, evicted, overlapped>>

WaiterDropped(r) ==
    /\ pc[r] \in {"waiting", "alone"}
    /\ Goto(r, "dropped")
    /\ UNCHANGED <<purge_vars, cached, in_flight, response, entry, answer, floor, evicted, overlapped>>

-----------------------------------------------------------------------------
\* An entry passes its TTL or is the least recently used of a full bucket.
Expire(k) ==
    /\ cached[k] # None
    /\ cached' = [cached EXCEPT ![k] = None]
    /\ UNCHANGED <<request_vars, purge_vars, in_flight, response, evicted, overlapped>>

\* purge_all calls the storage, ...
PurgeStarts ==
    /\ purge = "idle"
    /\ generation + orphans < MaxPurges
    /\ purge' = "storage"
    /\ UNCHANGED <<request_vars, generation, orphans, to_clear, committed, confirmed,
                   cached, in_flight, response, evicted, overlapped>>

\* ... which commits, ...
PurgeCommits ==
    /\ purge = "storage"
    /\ generation' = generation + 1
    /\ committed' = generation'
    /\ purge' = "committed"
    /\ UNCHANGED <<request_vars, orphans, to_clear, confirmed,
                   cached, in_flight, response, evicted, overlapped>>

\* ... or fails: another purge runs, the database is busy, or the checkpoint after
\* the commit fails.
PurgeFails ==
    /\ purge \in {"storage", "committed"}
    /\ purge' = "idle"
    /\ UNCHANGED <<request_vars, generation, orphans, to_clear, committed, confirmed,
                   cached, in_flight, response, evicted, overlapped>>

\* The client disconnects while the storage is awaited: the handler is dropped,
\* the blocking deletes go on.
PurgeDropped ==
    /\ \/ purge = "storage" /\ orphans' = orphans + 1
       \/ purge = "committed" /\ UNCHANGED orphans
    /\ purge' = "idle"
    /\ UNCHANGED <<request_vars, generation, to_clear, committed, confirmed,
                   cached, in_flight, response, evicted, overlapped>>

OrphanEnds ==
    /\ orphans > 0
    /\ orphans' = orphans - 1
    /\ generation' \in {generation, generation + 1}
    /\ UNCHANGED <<request_vars, purge, to_clear, committed, confirmed,
                   cached, in_flight, response, evicted, overlapped>>

\* Mutant: the caches are left as they are.
PurgeForgetsCaches ==
    /\ purge = "committed"
    /\ purge' = "clearing"
    /\ to_clear' = {}
    /\ UNCHANGED <<request_vars, generation, orphans, committed, confirmed,
                   cached, in_flight, response, evicted, overlapped>>

\* The storage has answered; the buckets are cleared one after the other.
PurgeStartsClearing ==
    /\ purge = "committed"
    /\ purge' = "clearing"
    /\ to_clear' = Keys
    /\ UNCHANGED <<request_vars, generation, orphans, committed, confirmed,
                   cached, in_flight, response, evicted, overlapped>>

Clear(k) ==
    /\ purge = "clearing"
    /\ k \in to_clear
    /\ to_clear' = to_clear \ {k}
    /\ cached' = [cached EXCEPT ![k] = None]
    /\ overlapped' = IF \E r \in Requests : KeyOf[r] = k /\ pc[r] \in {"read", "publish", "leaving"}
                     THEN overlapped \cup {k} ELSE overlapped
    /\ UNCHANGED <<request_vars, generation, purge, orphans, committed, confirmed,
                   in_flight, response, evicted>>

\* purge_all answers 200.
PurgeAnswers ==
    /\ purge = "clearing"
    /\ to_clear = {}
    /\ purge' = "idle"
    /\ confirmed' = committed
    /\ UNCHANGED <<request_vars, generation, orphans, to_clear, committed,
                   cached, in_flight, response, evicted, overlapped>>

OwnerStep(r) ==
    \/ OwnerReads(r) \/ OwnerInserts(r) \/ OwnerSkipsCache(r) \/ OwnerKeepsToItself(r)
    \/ OwnerPublishes(r) \/ OwnerLeaves(r)

\* The steps of a waiter, but for its time-out.
WaiterStep(r) ==
    \/ WaiterTakes(r) \/ WaiterLooks(r) \/ WaiterStays(r) \/ WaiterStops(r)
    \/ WaiterEvicts(r) \/ RunsAlone(r)

Next ==
    \/ \E r \in Requests :
          \/ Arrive(r) \/ Hit(r) \/ Miss(r) \/ Own(r) \/ Join(r)
          \/ OwnerReads(r) \/ OwnerInserts(r) \/ OwnerSkipsCache(r) \/ OwnerKeepsToItself(r)
          \/ OwnerPublishes(r) \/ OwnerLeaves(r) \/ OwnerDropped(r)
          \/ WaiterTakes(r) \/ WaiterLooks(r) \/ WaiterStays(r) \/ WaiterStops(r)
          \/ WaiterTimesOut(r) \/ WaiterEvicts(r) \/ RunsAlone(r) \/ WaiterDropped(r)
    \/ \E k \in Keys : Expire(k) \/ Clear(k)
    \/ PurgeStarts \/ PurgeCommits \/ PurgeFails \/ PurgeDropped \/ OrphanEnds
    \/ PurgeStartsClearing \/ PurgeAnswers

Spec == Init /\ [][Next]_vars

\* A query ends, and a waiter is polled again every second.  The two minutes of
\* the time-out are not counted on.
Fairness == \A r \in Requests : WF_vars(OwnerStep(r)) /\ WF_vars(WaiterStep(r))
FairSpec == Spec /\ Fairness

-----------------------------------------------------------------------------
Owning(r) == pc[r] \in {"owner", "read", "publish", "leaving"}
Answers == Generations \cup {None}

\* Types.
TypeOK ==
    /\ generation \in Generations
    /\ committed \in 0..generation /\ confirmed \in 0..committed
    /\ cached \in [Keys -> Answers]
    /\ in_flight \in [Keys -> Requests \cup {None}]
    /\ response \in [Requests -> Answers]
    /\ pc \in [Requests -> {"unsent", "lookup", "join", "owner", "read", "publish", "leaving",
                            "waiting", "looking", "evict", "alone", "done", "dropped"}]
    /\ entry \in [Requests -> Requests \cup {None}]
    /\ \A r \in Requests : pc[r] \in {"waiting", "looking", "evict"} => entry[r] # None
    /\ answer \in [Requests -> Answers]
    /\ purge \in {"idle", "storage", "committed", "clearing"}
    /\ orphans \in Generations /\ to_clear \subseteq Keys
    /\ floor \in [Requests -> Generations]
    /\ evicted \subseteq Requests /\ overlapped \subseteq Keys

\* A registered entry has an owner that is still running: no disconnect leaves
\* an entry behind that later requests would wait on.
EntryHasOwner ==
    \A k \in Keys : in_flight[k] # None =>
        Owning(in_flight[k]) /\ KeyOf[in_flight[k]] = k

\* An owner loses its entry only to a waiter that evicted it: the guard of an
\* evicted owner does not remove the entry of the one that came after.
OwnerKeepsEntry ==
    \A r \in Requests : Owning(r) /\ r \notin evicted => in_flight[KeyOf[r]] = r

\* No answer comes from before a purge that was confirmed when the request
\* arrived, unless an owner had read and had not left at the clear.
StaleOnlyByOverlap ==
    \A r \in Requests :
        pc[r] = "done" /\ KeyOf[r] \notin overlapped /\ answer[r] # None => answer[r] >= floor[r]

\* "Purged data must not be served from any cache" (admin.rs).
PurgedNotServed ==
    \A r \in Requests : pc[r] = "done" /\ answer[r] # None => answer[r] >= floor[r]

\* "The cache is cleared on data-mutating operations (purge)" (cached.rs): with no
\* purge under way nothing from before the last purge is cached, not even after a
\* purge whose handler was dropped or whose checkpoint failed.
ClearedAfterPurge ==
    purge = "idle" /\ orphans = 0 =>
        \A k \in Keys \ overlapped : cached[k] # None => cached[k] = generation

\* A request that waits on another comes to an end without its time-out, also
\* when the owner is dropped or keeps its answer to itself.
WaiterReleased ==
    \A r \in Requests : pc[r] \in {"waiting", "looking"} ~> pc[r] \notin {"waiting", "looking"}
=============================================================================
