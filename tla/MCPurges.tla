------------------------------ MODULE MCPurges ------------------------------
(***************************************************************************)
(* Parts of the daemon that delete, each alone: the response cache and the *)
(* purge that clears it, with three requests for one key (an owner, a      *)
(* waiter that evicts it, and the owner after it) and one purge, or two    *)
(* requests and two purges; the purge lock with two requests and a pass    *)
(* over three old spans, two batches; the LRU cache with more keys than it *)
(* holds; and the statistics task over days of four ticks, one of them the *)
(* night.                                                                  *)
(***************************************************************************)
EXTENDS ResponseCache, Sequences

CONSTANTS
    r1, r2, r3, k1,
    Handlers, Rows, TableOf, OldRows, BatchSize,
    LruKeys, Values, MaxSize,
    DayLength, Night, MaxAge, LargeAt, MaxFailures, MaxStops

ASSUME PurgesAssumption ==
    /\ TableOf \in [Rows -> {"logs", "spans", "metrics"}]
    /\ DayLength \in Nat \ {0} /\ MaxAge \in Nat /\ LargeAt \in Nat
    /\ MaxFailures \in Nat /\ MaxStops \in Nat /\ MaxSize \in Nat \ {0}
    /\ None \notin 0..(MaxAge + 1) /\ None \notin Values

VARIABLES
    part,
    stored, arrived, fresh, noted, locked, future, task, table, targets, dropped, analyze,
    cache, access_order, since,
    clock, step, spans, others, quiet, sqlite_stat1, recorded, maintenance_active,
    deferred_logged, elapsed, unrecorded, put_off, told, silenced, failures, stops

AllOneKey == [r \in Requests |-> k1]
AllSpans  == [row \in Rows |-> "spans"]

P == INSTANCE Purge
L == INSTANCE LruCache WITH Keys <- LruKeys
S == INSTANCE PlannerStats WITH Never <- None

lockVars == <<stored, arrived, fresh, noted, locked, future, task, table, targets, dropped,
              analyze>>
lruVars  == <<cache, access_order, since>>
statsVars == <<clock, step, spans, others, quiet, sqlite_stat1, recorded, maintenance_active,
               deferred_logged, elapsed, unrecorded, put_off, told, silenced, failures, stops>>

\* Requests for the one key are named in the order they arrive; three come beside one
\* purge, two beside two.
InOrder == (pc[r3] # "unsent" => pc[r2] # "unsent") /\ (pc[r2] # "unsent" => pc[r1] # "unsent")
ThirdOrSecond == pc[r3] = "unsent" \/ generation + orphans + (IF purge = "storage" THEN 1 ELSE 0) <= 1

\* The parts that do not run start in one state.
PurgesInit ==
    /\ part \in {"cache", "lock", "lru", "stats"}
    /\ Init /\ P!Init /\ L!Init /\ S!Init
    /\ part # "stats" => clock = 0 /\ spans = 0 /\ ~sqlite_stat1
PurgesNext ==
    \/ part = "cache" /\ Next /\ InOrder' /\ ThirdOrSecond'
          /\ UNCHANGED <<part, lockVars, lruVars, statsVars>>
    \/ part = "lock"  /\ P!Next /\ UNCHANGED <<part, vars, lruVars, statsVars>>
    \/ part = "lru"   /\ L!Next /\ UNCHANGED <<part, vars, lockVars, statsVars>>
    \/ part = "stats" /\ S!Next /\ UNCHANGED <<part, vars, lockVars, lruVars>>
PurgesSpec ==
    /\ PurgesInit /\ [][PurgesNext]_<<part, vars, lockVars, lruVars, statsVars>>
    /\ Fairness /\ P!Fairness
    /\ WF_statsVars(part = "stats" /\ S!Minute) /\ WF_statsVars(part = "stats" /\ S!Round)

\* The lock is held exactly while one future has the guard; purges overlap only when a
\* future was dropped over its running task.
LockHolds == P!TypeOK /\ P!LockFollowsGuard /\ P!OverlapOnlyByDrop

\* A retention pass that gets to its record has deleted every old row stored when it
\* started.  The statistics task sets the flag that refuses every write for the time of
\* ANALYZE alone, whatever fails or stops; runs ANALYZE once within its age unless the
\* record of a run was lost; and logs each refresh it puts off, once in a stale period
\* unless a check failed in it or the process was restarted.
MaintenanceHolds ==
    /\ P!PassIsComplete
    /\ S!TypeOK /\ S!FlagEndsWithRefresh /\ S!NotTwiceWithinAge /\ S!DeferralLoggedOnce

\* Whoever waits on an in-flight query is released; a purge pass comes to an end; and the
\* statistics of a large database are refreshed by the next night, however busy it is.
WaitsAndPassesEnd == WaiterReleased /\ P!PassEnds /\ S!NightlyRefresh

\* The LRU cache never holds more than its size, expired entries included; its order
\* lists each cached key once, so that an eviction finds one; and a key is not evicted
\* before as many other keys as the cache holds were used after it.
LruHolds == L!TypeOK /\ L!SizeBounded /\ L!RecentStay

\* The LRU cache is a map that loses entries (module ExpiringMap).
ImplementsMap == L!ImplementsMap
=============================================================================
