---------------------------- MODULE Purges_proofs ----------------------------
(***************************************************************************)
(* Proofs about the parts of the daemon that delete: the response cache and *)
(* its in-flight queries, beside the purge that clears it; the purge lock  *)
(* and the retention pass, the statistics task, and the LRU cache as a map *)
(* and its access order; for any requests, rows, tables, batches, days,    *)
(* ages, keys and size.                                                    *)
(***************************************************************************)
EXTENDS MCPurges, FiniteSetTheorems, TLAPS

\* The part of the types the two properties rest on.
EntryTypes ==
    /\ in_flight \in [Keys -> Requests \cup {None}]
    /\ pc \in [Requests -> {"unsent", "lookup", "join", "owner", "read", "publish", "leaving",
                            "waiting", "looking", "evict", "alone", "done", "dropped"}]

\* Both properties together are inductive: an owner's guard removes nothing but
\* its own entry because no other owner's entry can be its own, and an entry is
\* never left behind because its owner leaves only through the guard.
EntryInv == EntryTypes /\ EntryHasOwner /\ OwnerKeepsEntry

\* A step of a request that neither registers nor removes an entry, and neither
\* makes it an owner nor ends its ownership, keeps the invariant.
LEMMA NeutralStep ==
    ASSUME EntryInv, UNCHANGED <<in_flight, evicted>>,
           NEW r \in Requests,
           NEW label \in {"lookup", "join", "read", "publish", "leaving", "waiting", "looking",
                          "evict", "alone", "done", "dropped"},
           pc' = [pc EXCEPT ![r] = label],
           Owning(r) <=> label \in {"owner", "read", "publish", "leaving"}
    PROVE  EntryInv'
<1>1. EntryTypes'
  BY DEF EntryInv, EntryTypes
<1>2. \A q \in Requests : Owning(q)' <=> Owning(q)
  BY DEF EntryInv, EntryTypes, Owning
<1>3. EntryHasOwner' /\ OwnerKeepsEntry'
  BY <1>2, ResponseCacheAssumption DEF EntryInv, EntryTypes, EntryHasOwner, OwnerKeepsEntry
<1> QED BY <1>1, <1>3 DEF EntryInv

\* The end of an ownership through the guard keeps the invariant.
LEMMA GuardedEnd ==
    ASSUME EntryInv, UNCHANGED evicted,
           NEW r \in Requests, NEW label \in {"done", "dropped"},
           DropGuard(r), pc' = [pc EXCEPT ![r] = label]
    PROVE  EntryInv'
<1> USE ResponseCacheAssumption
<1>1. KeyOf[r] \in Keys
  OBVIOUS
<1>2. EntryTypes'
  BY <1>1 DEF EntryInv, EntryTypes, DropGuard
<1>3. \A q \in Requests : Owning(q)' <=> Owning(q) /\ q # r
  BY DEF EntryInv, EntryTypes, Owning
<1>4. \A k \in Keys : in_flight'[k] = IF k = KeyOf[r] /\ in_flight[k] = r THEN None ELSE in_flight[k]
  BY <1>1 DEF EntryInv, EntryTypes, DropGuard
<1>5. EntryHasOwner'
  BY <1>3, <1>4 DEF EntryInv, EntryTypes, EntryHasOwner
<1>6. OwnerKeepsEntry'
  BY <1>3, <1>4 DEF EntryInv, EntryTypes, OwnerKeepsEntry
<1> QED BY <1>2, <1>5, <1>6 DEF EntryInv

LEMMA EntryStep == EntryInv /\ [Next]_vars => EntryInv'
<1> SUFFICES ASSUME EntryInv, [Next]_vars PROVE EntryInv'
  OBVIOUS
<1> USE ResponseCacheAssumption
<1>1. ASSUME NEW r \in Requests,
             Arrive(r) \/ Hit(r) \/ Miss(r) \/ Join(r)
      PROVE  EntryInv'
  BY <1>1, NeutralStep DEF Arrive, Hit, Miss, Join, Goto, Owning
<1>2. ASSUME NEW r \in Requests, Own(r) PROVE EntryInv'
  <2>1. /\ KeyOf[r] \in Keys /\ in_flight[KeyOf[r]] = None
        /\ in_flight' = [in_flight EXCEPT ![KeyOf[r]] = r]
        /\ pc' = [pc EXCEPT ![r] = "owner"] /\ UNCHANGED evicted
    BY <1>2 DEF Own, Goto
  <2>2. EntryTypes'
    BY <2>1 DEF EntryInv, EntryTypes
  <2>3. \A q \in Requests : Owning(q)' <=> Owning(q) \/ q = r
    BY <1>2, <2>1 DEF EntryInv, EntryTypes, Owning, Own
  <2>4. \A k \in Keys : in_flight'[k] = IF k = KeyOf[r] THEN r ELSE in_flight[k]
    BY <2>1 DEF EntryInv, EntryTypes
  <2>5. EntryHasOwner'
    BY <2>3, <2>4 DEF EntryInv, EntryTypes, EntryHasOwner
  <2>6. OwnerKeepsEntry'
    BY <2>1, <2>3, <2>4 DEF EntryInv, EntryTypes, OwnerKeepsEntry
  <2> QED BY <2>2, <2>5, <2>6 DEF EntryInv
<1>3. ASSUME NEW r \in Requests,
             OwnerReads(r) \/ OwnerInserts(r) \/ OwnerSkipsCache(r) \/ OwnerKeepsToItself(r)
               \/ OwnerPublishes(r)
      PROVE  EntryInv'
  BY <1>3, NeutralStep
     DEF OwnerReads, OwnerInserts, OwnerSkipsCache, OwnerKeepsToItself, OwnerPublishes, Goto, Owning
<1>4. ASSUME NEW r \in Requests, OwnerLeaves(r) \/ OwnerDropped(r) PROVE EntryInv'
  BY <1>4, GuardedEnd DEF OwnerLeaves, OwnerDropped, Goto
<1>5. ASSUME NEW r \in Requests,
             WaiterTakes(r) \/ WaiterLooks(r) \/ WaiterStays(r) \/ WaiterStops(r)
               \/ WaiterTimesOut(r) \/ RunsAlone(r) \/ WaiterDropped(r)
      PROVE  EntryInv'
  BY <1>5, NeutralStep
     DEF WaiterTakes, WaiterLooks, WaiterStays, WaiterStops, WaiterTimesOut, RunsAlone,
         WaiterDropped, Goto, Owning
<1>6. ASSUME NEW r \in Requests, WaiterEvicts(r) PROVE EntryInv'
  <2> DEFINE k0 == KeyOf[r]
             lost == in_flight[k0] = entry[r]
  <2>1. k0 \in Keys /\ pc[r] = "evict" /\ pc' = [pc EXCEPT ![r] = "alone"]
    BY <1>6 DEF WaiterEvicts, Goto
  <2>2. \A q \in Requests : Owning(q)' <=> Owning(q)
    BY <2>1 DEF EntryInv, EntryTypes, Owning
  <2>3. \A k \in Keys : in_flight'[k] = IF k = k0 /\ lost THEN None ELSE in_flight[k]
    BY <1>6, <2>1 DEF WaiterEvicts, EntryInv, EntryTypes
  <2>4. evicted' = IF lost THEN evicted \cup {in_flight[k0]} ELSE evicted
    BY <1>6 DEF WaiterEvicts
  <2>5. EntryTypes'
    BY <1>6, <2>1 DEF WaiterEvicts, EntryInv, EntryTypes
  <2>6. EntryHasOwner'
    BY <2>2, <2>3 DEF EntryInv, EntryTypes, EntryHasOwner
  <2>7. OwnerKeepsEntry'
    <3> SUFFICES ASSUME NEW q \in Requests, Owning(q), q \notin evicted'
                 PROVE  in_flight'[KeyOf[q]] = q
      BY <2>2 DEF OwnerKeepsEntry
    <3>1. KeyOf[q] \in Keys /\ in_flight[KeyOf[q]] = q
      BY <2>4 DEF EntryInv, OwnerKeepsEntry
    <3> QED BY <2>3, <2>4, <3>1
  <2> QED BY <2>5, <2>6, <2>7 DEF EntryInv
<1>7. ASSUME UNCHANGED <<in_flight, pc, evicted>> PROVE EntryInv'
  BY <1>7 DEF EntryInv, EntryTypes, EntryHasOwner, OwnerKeepsEntry, Owning
<1>8. ASSUME NEW k \in Keys, Expire(k) \/ Clear(k) PROVE EntryInv'
  BY <1>7, <1>8 DEF Expire, Clear, request_vars
<1>9. CASE PurgeStarts \/ PurgeCommits \/ PurgeFails \/ PurgeDropped \/ OrphanEnds
             \/ PurgeStartsClearing \/ PurgeAnswers
  BY <1>7, <1>9 DEF PurgeStarts, PurgeCommits, PurgeFails, PurgeDropped, OrphanEnds,
                    PurgeStartsClearing, PurgeAnswers, request_vars
<1>10. CASE UNCHANGED vars
  BY <1>7, <1>10 DEF vars
<1> QED
  BY <1>1, <1>2, <1>3, <1>4, <1>5, <1>6, <1>8, <1>9, <1>10 DEF Next

\* The two facts about owners are inductive together.
THEOREM EntryInvariant == Spec => []EntryInv
<1>1. Init => EntryInv
  BY ResponseCacheAssumption
     DEF Init, EntryInv, EntryTypes, EntryHasOwner, OwnerKeepsEntry, Owning
<1> QED BY <1>1, EntryStep, PTL DEF Spec

\* No disconnect, time-out or failing query leaves an entry without a running
\* owner (EntryHasOwner).
THEOREM EntriesOwned == Spec => []EntryHasOwner
BY EntryInvariant, PTL DEF EntryInv

\* An owner loses its entry only by an eviction, never to the guard of another
\* owner of the key (OwnerKeepsEntry).
THEOREM OwnersKeepEntries == Spec => []OwnerKeepsEntry
BY EntryInvariant, PTL DEF EntryInv

-----------------------------------------------------------------------------
\* Purges stay inside their bound: those committed, those whose handler was
\* dropped and the one in the storage.
PurgesCounted == generation + orphans + (IF purge = "storage" THEN 1 ELSE 0) <= MaxPurges

\* The generation key k is clear of: the last confirmed purge, or the one under
\* way once it has reached k.
ClearOf(k) == IF purge = "clearing" /\ k \notin to_clear THEN committed ELSE confirmed

\* Nothing cached, and nothing an owner still carries, is older than what the key is clear
\* of, unless the clear met an owner between its read and its leave.
CachedFresh ==
    /\ \A k \in Keys \ overlapped : cached[k] # None => cached[k] >= ClearOf(k)
    /\ \A r \in Requests : pc[r] \in {"read", "publish", "leaving"} =>
          answer[r] # None /\ (KeyOf[r] \notin overlapped => answer[r] >= ClearOf(KeyOf[r]))

\* An owner publishes what it has read, and only before it leaves.
PublishedOnce ==
    \A r \in Requests : response[r] # None =>
        pc[r] \in {"leaving", "done"} /\ (pc[r] = "leaving" => response[r] = answer[r])

\* A request arrives after the purges it is measured against were confirmed; one that
\* waits does so on an owner of its key, whose answer is new enough for it.
WaitsForFresh ==
    /\ \A r \in Requests : floor[r] <= confirmed
    /\ \A r \in Requests : pc[r] \in {"waiting", "looking"} =>
          /\ KeyOf[entry[r]] = KeyOf[r]
          /\ KeyOf[r] \notin overlapped /\ response[entry[r]] # None =>
                response[entry[r]] >= floor[r]

FreshInv == CachedFresh /\ PublishedOnce /\ WaitsForFresh /\ StaleOnlyByOverlap

Labels == {"unsent", "lookup", "join", "owner", "read", "publish", "leaving",
           "waiting", "looking", "evict", "alone", "done", "dropped"}

\* A request that is sent somewhere keeps the types of pc.
LEMMA GotoTypes ==
    ASSUME TypeOK, NEW r \in Requests, NEW label \in Labels, Goto(r, label)
    PROVE  /\ pc' \in [Requests -> Labels]
           /\ pc'[r] = label
           /\ \A q \in Requests : q # r => pc'[q] = pc[q]
BY DEF TypeOK, Goto, Labels

LEMMA TypeStep == TypeOK /\ PurgesCounted /\ [Next]_vars => TypeOK' /\ PurgesCounted'
<1> SUFFICES ASSUME TypeOK, PurgesCounted, [Next]_vars PROVE TypeOK' /\ PurgesCounted'
  OBVIOUS
<1> USE ResponseCacheAssumption DEF TypeOK, PurgesCounted, Generations, Answers
<1>1. ASSUME NEW r \in Requests,
             \/ Arrive(r) \/ Hit(r) \/ Miss(r) \/ Own(r) \/ Join(r)
             \/ OwnerReads(r) \/ OwnerInserts(r) \/ OwnerSkipsCache(r) \/ OwnerKeepsToItself(r)
             \/ OwnerPublishes(r) \/ OwnerLeaves(r) \/ OwnerDropped(r)
             \/ WaiterTakes(r) \/ WaiterLooks(r) \/ WaiterStays(r) \/ WaiterStops(r)
             \/ WaiterTimesOut(r) \/ WaiterEvicts(r) \/ RunsAlone(r) \/ WaiterDropped(r)
      PROVE  TypeOK' /\ PurgesCounted'
  <2>0. KeyOf[r] \in Keys
    OBVIOUS
  <2>1. CASE Arrive(r) \/ Hit(r) \/ Miss(r)
    BY <2>0, <2>1, GotoTypes DEF Arrive, Hit, Miss, Goto, purge_vars
  <2>2. CASE Own(r) \/ Join(r)
    BY <2>0, <2>2 DEF Own, Join, Goto, purge_vars
  <2>3. CASE OwnerReads(r) \/ OwnerInserts(r) \/ OwnerSkipsCache(r) \/ OwnerKeepsToItself(r)
    BY <2>0, <2>3 DEF OwnerReads, OwnerInserts, OwnerSkipsCache, OwnerKeepsToItself, Goto, purge_vars
  <2>4. CASE OwnerPublishes(r) \/ OwnerLeaves(r) \/ OwnerDropped(r)
    BY <2>0, <2>4 DEF OwnerPublishes, OwnerLeaves, OwnerDropped, DropGuard, Goto, purge_vars
  <2>5. CASE WaiterTakes(r) \/ WaiterLooks(r) \/ WaiterStays(r) \/ WaiterStops(r)
    BY <2>0, <2>5 DEF WaiterTakes, WaiterLooks, WaiterStays, WaiterStops, Goto, purge_vars
  <2>6. CASE WaiterTimesOut(r) \/ WaiterEvicts(r)
    BY <2>0, <2>6 DEF WaiterTimesOut, WaiterEvicts, Goto, purge_vars
  <2>7. CASE RunsAlone(r) \/ WaiterDropped(r)
    BY <2>0, <2>7 DEF RunsAlone, WaiterDropped, Goto, purge_vars
  <2> QED BY <1>1, <2>1, <2>2, <2>3, <2>4, <2>5, <2>6, <2>7
<1>2. ASSUME NEW k \in Keys, Expire(k) \/ Clear(k) PROVE TypeOK' /\ PurgesCounted'
  BY <1>2 DEF Expire, Clear, request_vars, purge_vars
<1>3. CASE PurgeStarts \/ PurgeCommits \/ PurgeFails \/ PurgeDropped
  BY <1>3 DEF PurgeStarts, PurgeCommits, PurgeFails, PurgeDropped, request_vars
<1>4. CASE OrphanEnds \/ PurgeStartsClearing \/ PurgeAnswers
  BY <1>4 DEF OrphanEnds, PurgeStartsClearing, PurgeAnswers, request_vars
<1>5. CASE UNCHANGED vars
  BY <1>5 DEF vars
<1> QED BY <1>1, <1>2, <1>3, <1>4, <1>5 DEF Next

\* Types hold, and the bound on purges with them (TypeOK).
THEOREM TypeCorrect == Spec => [](TypeOK /\ PurgesCounted)
<1>1. Init => TypeOK /\ PurgesCounted
  BY ResponseCacheAssumption DEF Init, TypeOK, PurgesCounted, Generations, Answers
<1> QED BY <1>1, TypeStep, PTL DEF Spec

\* A step that leaves the purge, the caches and the answers alone keeps FreshInv, wherever
\* the request goes, as long as it neither starts nor ends to carry an answer or to wait.
LEMMA MovingOn ==
    ASSUME TypeOK, FreshInv, NEW r \in Requests, NEW label \in Labels, Goto(r, label),
           UNCHANGED <<purge_vars, cached, response, entry, answer, floor, overlapped>>,
           label \in {"read", "publish", "leaving"} => pc[r] \in {"read", "publish", "leaving"},
           label \in {"waiting", "looking"} => pc[r] \in {"waiting", "looking"},
           pc[r] = "leaving" => label = "done",
           pc[r] # "done",
           label = "done" => pc[r] = "leaving",
           pc[r] = "leaving" => answer[r] # None /\ (KeyOf[r] \notin overlapped => answer[r] >= floor[r])
    PROVE  FreshInv'
<1> USE ResponseCacheAssumption
<1>1. /\ pc'[r] = label
      /\ \A q \in Requests : q # r => pc'[q] = pc[q]
  BY GotoTypes
<1>2. \A k \in Keys : ClearOf(k)' = ClearOf(k)
  BY DEF ClearOf, purge_vars
<1>3. CachedFresh'
  BY <1>1, <1>2 DEF FreshInv, CachedFresh
<1>4. PublishedOnce'
  BY <1>1 DEF FreshInv, PublishedOnce
<1>5. WaitsForFresh'
  BY <1>1 DEF FreshInv, WaitsForFresh, purge_vars
<1>6. StaleOnlyByOverlap'
  BY <1>1 DEF FreshInv, StaleOnlyByOverlap
<1> QED BY <1>3, <1>4, <1>5, <1>6 DEF FreshInv

\* What a key is clear of is between the last confirmed purge and the data.
LEMMA ClearBounds ==
    ASSUME TypeOK, NEW k
    PROVE  /\ ClearOf(k) \in Nat /\ confirmed \in Nat /\ generation \in Nat
           /\ confirmed <= ClearOf(k) /\ ClearOf(k) <= generation
           /\ generation # None
BY ResponseCacheAssumption DEF TypeOK, ClearOf, Generations

\* Answers are numbers, or none.
LEMMA AnswerTypes ==
    ASSUME TypeOK
    PROVE  /\ \A k \in Keys : cached[k] # None => cached[k] \in Nat
           /\ \A r \in Requests : /\ answer[r] # None => answer[r] \in Nat
                                  /\ response[r] # None => response[r] \in Nat
                                  /\ floor[r] \in Nat
BY ResponseCacheAssumption DEF TypeOK, Answers, Generations

LEMMA FreshStep == TypeOK /\ EntryInv /\ FreshInv /\ [Next]_vars => FreshInv'
<1> SUFFICES ASSUME TypeOK, EntryInv, FreshInv, [Next]_vars PROVE FreshInv'
  OBVIOUS
<1> USE ResponseCacheAssumption
<1>1. ASSUME NEW r \in Requests,
             \/ Miss(r) \/ Own(r) \/ OwnerSkipsCache(r) \/ OwnerKeepsToItself(r)
             \/ OwnerDropped(r) \/ WaiterLooks(r) \/ WaiterStays(r) \/ WaiterStops(r)
             \/ WaiterTimesOut(r) \/ WaiterEvicts(r) \/ WaiterDropped(r)
      PROVE  FreshInv'
  BY <1>1, MovingOn
     DEF Miss, Own, OwnerSkipsCache, OwnerKeepsToItself, OwnerDropped, WaiterLooks,
         WaiterStays, WaiterStops, WaiterTimesOut, WaiterEvicts, WaiterDropped, Labels, Goto
<1>2. ASSUME NEW r \in Requests, OwnerLeaves(r) PROVE FreshInv'
  <2>1. answer[r] # None /\ (KeyOf[r] \notin overlapped => answer[r] >= ClearOf(KeyOf[r]))
    BY <1>2 DEF OwnerLeaves, FreshInv, CachedFresh
  <2>2. floor[r] <= confirmed
    BY DEF FreshInv, WaitsForFresh
  <2>3. KeyOf[r] \notin overlapped => answer[r] >= floor[r]
    BY <2>1, <2>2, ClearBounds, AnswerTypes
  <2> QED BY <1>2, <2>1, <2>3, MovingOn DEF OwnerLeaves, Labels, Goto
<1>3. ASSUME NEW r \in Requests, Arrive(r) PROVE FreshInv'
  <2>1. /\ pc[r] = "unsent" /\ pc' = [pc EXCEPT ![r] = "lookup"]
        /\ floor' = [floor EXCEPT ![r] = confirmed]
        /\ UNCHANGED <<purge_vars, cached, response, entry, answer, overlapped>>
    BY <1>3 DEF Arrive, Goto
  <2>2. /\ pc'[r] = "lookup" /\ floor'[r] = confirmed
        /\ \A q \in Requests : q # r => pc'[q] = pc[q] /\ floor'[q] = floor[q]
    BY <2>1 DEF TypeOK
  <2>3. \A k \in Keys : ClearOf(k)' = ClearOf(k)
    BY <2>1 DEF ClearOf, purge_vars
  <2>4. confirmed' = confirmed /\ confirmed \in Nat
    BY <2>1, ClearBounds DEF purge_vars
  <2>5. CachedFresh' /\ PublishedOnce'
    BY <2>1, <2>2, <2>3 DEF FreshInv, CachedFresh, PublishedOnce
  <2>6. WaitsForFresh' /\ StaleOnlyByOverlap'
    BY <2>1, <2>2, <2>4 DEF FreshInv, WaitsForFresh, StaleOnlyByOverlap
  <2> QED BY <2>5, <2>6 DEF FreshInv
<1>4. ASSUME NEW r \in Requests, NEW x \in Answers, NEW label \in {"read", "done"},
             answer' = [answer EXCEPT ![r] = x], Goto(r, label),
             pc[r] \in {"lookup", "owner", "waiting", "alone"},
             label = "read" => x = generation,
             label = "done" /\ KeyOf[r] \notin overlapped => x >= floor[r],
             UNCHANGED <<purge_vars, cached, response, entry, floor, overlapped>>
      PROVE  FreshInv'
  <2>1. /\ pc'[r] = label /\ answer'[r] = x
        /\ \A q \in Requests : q # r => pc'[q] = pc[q] /\ answer'[q] = answer[q]
    BY <1>4, GotoTypes DEF TypeOK, Labels
  <2>2. \A k \in Keys : ClearOf(k)' = ClearOf(k)
    BY <1>4 DEF ClearOf, purge_vars
  <2>3. CachedFresh'
    BY <1>4, <2>1, <2>2, ClearBounds DEF FreshInv, CachedFresh
  <2>4. PublishedOnce'
    BY <1>4, <2>1 DEF FreshInv, PublishedOnce
  <2>5. WaitsForFresh' /\ StaleOnlyByOverlap'
    BY <1>4, <2>1 DEF FreshInv, WaitsForFresh, StaleOnlyByOverlap, purge_vars
  <2> QED BY <2>3, <2>4, <2>5 DEF FreshInv
<1>5. ASSUME NEW r \in Requests, Hit(r) \/ OwnerReads(r) \/ WaiterTakes(r) \/ RunsAlone(r)
      PROVE  FreshInv'
  <2>0. floor[r] <= confirmed /\ generation \in Answers
    BY DEF FreshInv, WaitsForFresh, TypeOK, Answers
  <2>1. CASE Hit(r)
    <3>1. cached[KeyOf[r]] \in Answers
      BY DEF TypeOK
    <3>2. KeyOf[r] \notin overlapped => cached[KeyOf[r]] >= floor[r]
      BY <2>0, <2>1, ClearBounds, AnswerTypes DEF Hit, FreshInv, CachedFresh
    <3> QED BY <1>4, <2>1, <3>1, <3>2 DEF Hit
  <2>2. CASE OwnerReads(r)
    BY <1>4, <2>0, <2>2 DEF OwnerReads
  <2>3. CASE WaiterTakes(r)
    <3>1. entry[r] \in Requests
      BY <2>3 DEF WaiterTakes, TypeOK
    <3>2. response[entry[r]] \in Answers
      BY <3>1 DEF TypeOK
    <3>3. KeyOf[r] \notin overlapped => response[entry[r]] >= floor[r]
      BY <2>3 DEF WaiterTakes, FreshInv, WaitsForFresh
    <3> QED BY <1>4, <2>3, <3>2, <3>3 DEF WaiterTakes
  <2>4. CASE RunsAlone(r)
    <3>1. generation >= floor[r]
      BY <2>0, ClearBounds, AnswerTypes
    <3> QED BY <1>4, <2>0, <2>4, <3>1 DEF RunsAlone
  <2> QED BY <1>5, <2>1, <2>2, <2>3, <2>4
<1>6. ASSUME NEW r \in Requests, Join(r) PROVE FreshInv'
  <2> DEFINE o == in_flight[KeyOf[r]]
  <2>1. /\ KeyOf[r] \in Keys /\ o # None /\ o \in Requests
        /\ entry' = [entry EXCEPT ![r] = o] /\ Goto(r, "waiting") /\ pc[r] = "join"
        /\ UNCHANGED <<purge_vars, cached, response, answer, floor, overlapped>>
    BY <1>6 DEF Join, TypeOK
  <2>2. /\ pc'[r] = "waiting" /\ entry'[r] = o
        /\ \A q \in Requests : q # r => pc'[q] = pc[q] /\ entry'[q] = entry[q]
    BY <2>1, GotoTypes DEF TypeOK, Labels
  <2>3. KeyOf[o] = KeyOf[r] /\ Owning(o)
    BY <2>1 DEF EntryInv, EntryHasOwner
  <2>4. response[o] # None => pc[o] = "leaving" /\ response[o] = answer[o]
    BY <2>1, <2>3 DEF FreshInv, PublishedOnce, Owning
  <2>5. KeyOf[r] \notin overlapped /\ response[o] # None => response[o] >= ClearOf(KeyOf[r])
    BY <2>1, <2>3, <2>4 DEF FreshInv, CachedFresh
  <2>6. floor[r] <= confirmed
    BY DEF FreshInv, WaitsForFresh
  <2>7. KeyOf[r] \notin overlapped /\ response[o] # None => response[o] >= floor[r]
    BY <2>1, <2>5, <2>6, ClearBounds, AnswerTypes
  <2>8. \A k \in Keys : ClearOf(k)' = ClearOf(k)
    BY <2>1 DEF ClearOf, purge_vars
  <2>9. CachedFresh' /\ PublishedOnce'
    BY <2>1, <2>2, <2>8 DEF FreshInv, CachedFresh, PublishedOnce
  <2>10. WaitsForFresh' /\ StaleOnlyByOverlap'
    BY <2>1, <2>2, <2>3, <2>7 DEF FreshInv, WaitsForFresh, StaleOnlyByOverlap, purge_vars
  <2> QED BY <2>9, <2>10 DEF FreshInv
<1>7. ASSUME NEW r \in Requests, OwnerInserts(r) PROVE FreshInv'
  <2> DEFINE k0 == KeyOf[r]
  <2>1. /\ k0 \in Keys /\ pc[r] = "read" /\ Goto(r, "publish")
        /\ cached' = [cached EXCEPT ![k0] = answer[r]]
        /\ UNCHANGED <<purge_vars, response, entry, answer, floor, overlapped>>
    BY <1>7 DEF OwnerInserts
  <2>2. /\ pc'[r] = "publish"
        /\ \A q \in Requests : q # r => pc'[q] = pc[q]
    BY <2>1, GotoTypes DEF Labels
  <2>3. \A k \in Keys : cached'[k] = IF k = k0 THEN answer[r] ELSE cached[k]
    BY <2>1 DEF TypeOK
  <2>4. \A k \in Keys : ClearOf(k)' = ClearOf(k)
    BY <2>1 DEF ClearOf, purge_vars
  <2>5. CachedFresh'
    BY <2>1, <2>2, <2>3, <2>4 DEF FreshInv, CachedFresh
  <2>6. PublishedOnce' /\ WaitsForFresh' /\ StaleOnlyByOverlap'
    BY <2>1, <2>2 DEF FreshInv, PublishedOnce, WaitsForFresh, StaleOnlyByOverlap, purge_vars
  <2> QED BY <2>5, <2>6 DEF FreshInv
<1>8. ASSUME NEW r \in Requests, OwnerPublishes(r) PROVE FreshInv'
  <2>1. /\ KeyOf[r] \in Keys /\ pc[r] = "publish" /\ Goto(r, "leaving")
        /\ response' = [response EXCEPT ![r] = answer[r]]
        /\ UNCHANGED <<purge_vars, cached, entry, answer, floor, overlapped>>
    BY <1>8 DEF OwnerPublishes
  <2>2. /\ pc'[r] = "leaving" /\ response'[r] = answer[r]
        /\ \A q \in Requests : q # r => pc'[q] = pc[q] /\ response'[q] = response[q]
    BY <2>1, GotoTypes DEF TypeOK, Labels
  <2>3. answer[r] # None /\ (KeyOf[r] \notin overlapped => answer[r] >= ClearOf(KeyOf[r]))
    BY <2>1 DEF FreshInv, CachedFresh
  <2>4. \A q \in Requests : floor[q] <= confirmed
    BY DEF FreshInv, WaitsForFresh
  <2>5. \A q \in Requests : KeyOf[r] \notin overlapped => answer[r] >= floor[q]
    BY <2>3, <2>4, ClearBounds, AnswerTypes
  <2>6. \A k \in Keys : ClearOf(k)' = ClearOf(k)
    BY <2>1 DEF ClearOf, purge_vars
  <2>7. CachedFresh' /\ PublishedOnce'
    BY <2>1, <2>2, <2>6 DEF FreshInv, CachedFresh, PublishedOnce
  <2>8. WaitsForFresh'
    <3> SUFFICES ASSUME NEW q \in Requests, pc[q] \in {"waiting", "looking"}
                 PROVE  /\ KeyOf[entry[q]] = KeyOf[q]
                        /\ KeyOf[q] \notin overlapped /\ response'[entry[q]] # None =>
                              response'[entry[q]] >= floor[q]
      BY <2>1, <2>2, <2>4 DEF WaitsForFresh, purge_vars
    <3>1. entry[q] \in Requests
      BY DEF TypeOK
    <3>2. CASE entry[q] = r
      BY <2>2, <2>5, <3>2 DEF FreshInv, WaitsForFresh
    <3>3. CASE entry[q] # r
      BY <2>2, <3>1, <3>3 DEF FreshInv, WaitsForFresh
    <3> QED BY <3>2, <3>3
  <2>9. StaleOnlyByOverlap'
    BY <2>1, <2>2 DEF FreshInv, StaleOnlyByOverlap
  <2> QED BY <2>7, <2>8, <2>9 DEF FreshInv
<1>9. ASSUME NEW k \in Keys, Expire(k) PROVE FreshInv'
  <2>1. /\ cached' = [cached EXCEPT ![k] = None]
        /\ UNCHANGED <<pc, entry, answer, floor, purge_vars, response, overlapped>>
    BY <1>9 DEF Expire, request_vars
  <2>2. \A j \in Keys : cached'[j] = IF j = k THEN None ELSE cached[j]
    BY <2>1 DEF TypeOK
  <2>3. \A j \in Keys : ClearOf(j)' = ClearOf(j)
    BY <2>1 DEF ClearOf, purge_vars
  <2>4. CachedFresh'
    BY <2>1, <2>2, <2>3 DEF FreshInv, CachedFresh
  <2>5. PublishedOnce' /\ WaitsForFresh' /\ StaleOnlyByOverlap'
    BY <2>1 DEF FreshInv, PublishedOnce, WaitsForFresh, StaleOnlyByOverlap, purge_vars
  <2> QED BY <2>4, <2>5 DEF FreshInv
<1>10. ASSUME NEW k \in Keys, Clear(k) PROVE FreshInv'
  <2>1. /\ purge = "clearing" /\ to_clear' = to_clear \ {k}
        /\ cached' = [cached EXCEPT ![k] = None]
        /\ UNCHANGED <<pc, entry, answer, floor, response, purge, committed, confirmed>>
    BY <1>10 DEF Clear, request_vars
  <2>2. /\ overlapped \subseteq overlapped'
        /\ \A j \in Keys : j \notin overlapped' /\ j # k => j \notin overlapped
        /\ k \notin overlapped' =>
              \A r \in Requests : KeyOf[r] = k => pc[r] \notin {"read", "publish", "leaving"}
    BY <1>10 DEF Clear
  <2>3. \A j \in Keys : cached'[j] = IF j = k THEN None ELSE cached[j]
    BY <2>1 DEF TypeOK
  <2>4. \A j \in Keys : j # k => ClearOf(j)' = ClearOf(j)
    BY <2>1 DEF ClearOf
  <2>5. CachedFresh'
    <3>1. \A j \in Keys \ overlapped' : cached'[j] # None => cached'[j] >= ClearOf(j)'
      BY <2>2, <2>3, <2>4 DEF FreshInv, CachedFresh
    <3>2. ASSUME NEW r \in Requests, pc'[r] \in {"read", "publish", "leaving"}
          PROVE  answer'[r] # None /\ (KeyOf[r] \notin overlapped' => answer'[r] >= ClearOf(KeyOf[r])')
      <4>1. KeyOf[r] \notin overlapped' => KeyOf[r] # k /\ KeyOf[r] \notin overlapped
        BY <2>1, <2>2, <3>2
      <4>2. KeyOf[r] # k => ClearOf(KeyOf[r])' = ClearOf(KeyOf[r])
        BY <2>4
      <4> QED BY <2>1, <3>2, <4>1, <4>2 DEF FreshInv, CachedFresh
    <3> QED BY <3>1, <3>2 DEF CachedFresh
  <2>6. PublishedOnce' /\ WaitsForFresh' /\ StaleOnlyByOverlap'
    BY <2>1, <2>2 DEF FreshInv, PublishedOnce, WaitsForFresh, StaleOnlyByOverlap
  <2> QED BY <2>5, <2>6 DEF FreshInv
<1>11. ASSUME UNCHANGED <<cached, response, pc, entry, answer, floor, overlapped>>,
              confirmed <= confirmed', confirmed' \in Nat,
              \A k \in Keys : ClearOf(k)' = ClearOf(k)
       PROVE  FreshInv'
  <2>1. CachedFresh' /\ PublishedOnce' /\ StaleOnlyByOverlap'
    BY <1>11 DEF FreshInv, CachedFresh, PublishedOnce, StaleOnlyByOverlap
  <2>2. \A r \in Requests : floor[r] <= confirmed'
    BY <1>11, ClearBounds, AnswerTypes DEF FreshInv, WaitsForFresh
  <2>3. WaitsForFresh'
    BY <1>11, <2>2 DEF FreshInv, WaitsForFresh
  <2> QED BY <2>1, <2>3 DEF FreshInv
<1>12. CASE PurgeStarts \/ PurgeCommits \/ PurgeFails \/ PurgeDropped \/ OrphanEnds
  BY <1>11, <1>12, ClearBounds
     DEF PurgeStarts, PurgeCommits, PurgeFails, PurgeDropped, OrphanEnds, ClearOf, request_vars
<1>13. CASE PurgeStartsClearing \/ PurgeAnswers
  <2>1. confirmed <= committed /\ committed \in Nat
    BY DEF TypeOK, Generations
  <2> QED
    BY <1>11, <1>13, <2>1, ClearBounds DEF PurgeStartsClearing, PurgeAnswers, ClearOf, request_vars
<1>14. CASE UNCHANGED vars
  BY <1>11, <1>14, ClearBounds DEF vars, ClearOf
<1> QED
  BY <1>1, <1>2, <1>3, <1>5, <1>6, <1>7, <1>8, <1>9, <1>10, <1>12, <1>13, <1>14 DEF Next

\* An answer from before a purge that was confirmed when the request arrived needs an owner
\* that had read and had not left when the purge cleared its key (StaleOnlyByOverlap):
\* neither an orphaned purge, a time-out, an eviction nor a disconnect gives one.
THEOREM StaleOnlyOverlapped == Spec => []StaleOnlyByOverlap
<1>1. Init => FreshInv
  BY ResponseCacheAssumption
     DEF Init, FreshInv, CachedFresh, PublishedOnce, WaitsForFresh, StaleOnlyByOverlap, Generations
<1>2. TypeOK /\ EntryInv /\ FreshInv /\ [Next]_vars => FreshInv'
  BY FreshStep
<1> QED BY <1>1, <1>2, TypeCorrect, EntryInvariant, PTL DEF Spec, FreshInv

-----------------------------------------------------------------------------
\* While no future was dropped over its running task, every running task has a future
\* that joins it, and that future has the guard.
Joined == ~dropped => \A o \in P!Owners : task[o] = "running" => future[o] = "guarded"

\* The pass has been through the tables below its own: of the old rows it started with
\* none is left there.  Ids are issued once, so none comes back.
TablesDone ==
    /\ targets \subseteq arrived
    /\ \A i \in 1..3 : i < table => \A row \in stored \cap targets : TableOf[row] # P!Tables[i]

PurgeInv == P!TypeOK /\ P!LockFollowsGuard /\ Joined /\ TablesDone

LEMMA PurgeInit == P!Init => PurgeInv
<1> SUFFICES ASSUME P!Init PROVE PurgeInv
  OBVIOUS
<1>1. noted \in BOOLEAN /\ locked \in BOOLEAN /\ dropped \in BOOLEAN
  BY Zenon DEF P!Init
<1>2. P!TypeOK
  BY <1>1 DEF P!Init, P!TypeOK
<1>3. P!LockFollowsGuard /\ Joined /\ TablesDone
  BY DEF P!Init, P!LockFollowsGuard, Joined, TablesDone
<1> QED BY <1>2, <1>3 DEF PurgeInv

\* A step that only takes rows away, or adds one that has not been there, leaves the
\* tables done that are.
LEMMA DoneStays ==
    ASSUME P!TypeOK, TablesDone, UNCHANGED <<table, targets>>,
           stored' \cap targets \subseteq stored, arrived \subseteq arrived'
    PROVE  TablesDone'
BY DEF TablesDone

LEMMA PurgeStep == PurgeInv /\ [P!Next]_(P!vars) => PurgeInv'
<1> SUFFICES ASSUME PurgeInv, [P!Next]_(P!vars) PROVE PurgeInv'
  OBVIOUS
<1> USE DEF PurgeInv, P!Owners, P!data, P!pass
<1>1. ASSUME NEW row \in Rows, P!Ingest(row) PROVE PurgeInv'
  <2>1. TablesDone'
    BY <1>1, DoneStays DEF P!Ingest, P!TypeOK, TablesDone
  <2>2. P!TypeOK'
    BY <1>1 DEF P!Ingest, P!TypeOK
  <2> QED BY <1>1, <2>1, <2>2 DEF P!Ingest, P!LockFollowsGuard, Joined
<1>2. CASE P!Minute \/ P!DecideAnalyze \/ P!StartAnalyze \/ P!EndAnalyze
  <2>1. P!TypeOK'
    BY <1>2 DEF P!Minute, P!DecideAnalyze, P!StartAnalyze, P!EndAnalyze, P!TypeOK
  <2>2. UNCHANGED <<stored, arrived, locked, future, task, table, targets, dropped>>
    BY <1>2 DEF P!Minute, P!DecideAnalyze, P!StartAnalyze, P!EndAnalyze
  <2>3. TablesDone'
    BY <2>2, DoneStays
  <2> QED BY <2>1, <2>2, <2>3 DEF P!LockFollowsGuard, Joined
<1>3. ASSUME NEW o \in P!Owners, P!LockTaken(o), future[o] = "idle", UNCHANGED dropped
      PROVE  P!LockFollowsGuard' /\ Joined'
  BY <1>3 DEF P!LockTaken, P!LockFollowsGuard, Joined, P!TypeOK
<1>4. ASSUME NEW h \in Handlers, P!StartPurgeAll(h) PROVE PurgeInv'
  <2>1. P!LockFollowsGuard' /\ Joined'
    BY <1>3, <1>4 DEF P!StartPurgeAll
  <2>2. P!TypeOK'
    BY <1>4 DEF P!StartPurgeAll, P!LockTaken, P!TypeOK
  <2>3. TablesDone'
    BY <1>4, DoneStays DEF P!StartPurgeAll
  <2> QED BY <2>1, <2>2, <2>3
<1>5. ASSUME NEW h \in Handlers, P!RefusePurgeAll(h) PROVE PurgeInv'
  <2>1. P!TypeOK'
    BY <1>5 DEF P!RefusePurgeAll, P!TypeOK
  <2>2. TablesDone'
    BY <1>5, DoneStays DEF P!RefusePurgeAll
  <2> QED BY <1>5, <2>1, <2>2 DEF P!RefusePurgeAll, P!LockFollowsGuard, Joined, P!TypeOK
<1>6. ASSUME NEW h \in Handlers, P!DeleteAll(h) PROVE PurgeInv'
  <2>1. P!TypeOK'
    BY <1>6 DEF P!DeleteAll, P!Keep, P!TypeOK
  <2>2. TablesDone'
    BY <1>6, DoneStays DEF P!DeleteAll, P!Keep
  <2> QED BY <1>6, <2>1, <2>2 DEF P!DeleteAll, P!LockFollowsGuard, Joined, P!TypeOK
<1>7. ASSUME NEW h \in Handlers, P!EndPurgeAll(h) \/ P!DropPurgeAll(h) PROVE PurgeInv'
  <2>1. P!TypeOK'
    BY <1>7 DEF P!EndPurgeAll, P!DropPurgeAll, P!TypeOK
  <2>2. TablesDone'
    BY <1>7, DoneStays DEF P!EndPurgeAll, P!DropPurgeAll
  <2>3. /\ future[h] = "guarded" /\ future' = [future EXCEPT ![h] = "ended"] /\ locked' = FALSE
        /\ UNCHANGED task
    BY <1>7 DEF P!EndPurgeAll, P!DropPurgeAll
  <2>4. P!LockFollowsGuard'
    BY <2>3 DEF P!LockFollowsGuard, P!TypeOK
  <2>5. ~dropped' => ~dropped /\ task[h] # "running"
    BY <1>7 DEF P!EndPurgeAll, P!DropPurgeAll
  <2>6. Joined'
    BY <2>3, <2>5 DEF Joined, P!TypeOK
  <2> QED BY <2>1, <2>2, <2>4, <2>6
<1>8. ASSUME NEW o \in P!Owners, P!TaskFails(o) PROVE PurgeInv'
  <2>1. P!TypeOK'
    BY <1>8 DEF P!TaskFails, P!TypeOK
  <2>2. TablesDone'
    BY <1>8, DoneStays DEF P!TaskFails
  <2> QED BY <1>8, <2>1, <2>2 DEF P!TaskFails, P!LockFollowsGuard, Joined, P!TypeOK
<1>9. CASE P!StartPass
  <2>1. P!LockFollowsGuard' /\ Joined'
    BY <1>3, <1>9 DEF P!StartPass
  <2>2. P!TypeOK'
    BY <1>9 DEF P!StartPass, P!LockTaken, P!TypeOK
  <2>3. TablesDone'
    BY <1>9 DEF P!StartPass, TablesDone, P!TypeOK
  <2> QED BY <2>1, <2>2, <2>3
<1>10. CASE P!DeleteBatch
  <2>1. P!TypeOK'
    BY <1>10 DEF P!DeleteBatch, P!Keep, P!TypeOK
  <2>2. TablesDone'
    BY <1>10, DoneStays DEF P!DeleteBatch, P!Keep
  <2> QED BY <1>10, <2>1, <2>2 DEF P!DeleteBatch, P!LockFollowsGuard, Joined
<1>11. CASE P!LastBatch
  <2>0. /\ table \in 1..3 /\ table' = table + 1
        /\ stored' = stored \ P!Expired /\ UNCHANGED <<arrived, targets>>
    BY <1>11 DEF P!LastBatch, P!Keep, P!TypeOK, P!Tables
  <2>1. P!TypeOK'
    BY <1>11, <2>0 DEF P!LastBatch, P!Keep, P!TypeOK
  <2>2. TablesDone'
    <3>1. ASSUME NEW i \in 1..3, i < table', NEW row \in stored' \cap targets
          PROVE  TableOf[row] # P!Tables[i]
      <4>1. CASE i < table
        BY <2>0, <3>1, <4>1 DEF TablesDone
      <4>2. CASE i = table
        BY <2>0, <3>1, <4>2 DEF P!Expired, P!TypeOK
      <4> QED BY <2>0, <3>1, <4>1, <4>2
    <3> QED BY <2>0, <3>1 DEF TablesDone
  <2> QED BY <1>11, <2>1, <2>2 DEF P!LastBatch, P!LockFollowsGuard, Joined
<1>12. CASE P!RecordPass
  <2>1. P!TypeOK'
    BY <1>12 DEF P!RecordPass, P!TypeOK
  <2>2. TablesDone'
    BY <1>12, DoneStays DEF P!RecordPass
  <2> QED BY <1>12, <2>1, <2>2 DEF P!RecordPass, P!LockFollowsGuard, Joined, P!TypeOK
<1>13. CASE P!EndPass \/ P!SchedulerEnds
  <2>1. P!TypeOK'
    BY <1>13 DEF P!EndPass, P!SchedulerEnds, P!TypeOK
  <2>2. TablesDone'
    BY <1>13, DoneStays DEF P!EndPass, P!SchedulerEnds
  <2> QED BY <1>13, <2>1, <2>2 DEF P!EndPass, P!SchedulerEnds, P!LockFollowsGuard, Joined, P!TypeOK
<1>14. CASE UNCHANGED P!vars
  <2>1. TablesDone'
    BY <1>14, DoneStays DEF P!vars
  <2> QED BY <1>14, <2>1 DEF P!vars, P!TypeOK, P!LockFollowsGuard, Joined
<1> QED
  BY <1>1, <1>2, <1>4, <1>5, <1>6, <1>7, <1>8, <1>9, <1>10, <1>11, <1>12, <1>13, <1>14 DEF P!Next

LEMMA PurgeInvariant == P!Spec => []PurgeInv
<1> QED BY PurgeInit, PurgeStep, PTL DEF P!Spec

\* The lock is held exactly while one future has the guard, and purges overlap only when a
\* future was dropped over its running task (LockHolds).
THEOREM LockSafe == P!Spec => []LockHolds
<1>1. PurgeInv => LockHolds
  BY DEF LockHolds, PurgeInv, Joined, P!LockFollowsGuard, P!Purging, P!OverlapOnlyByDrop
<1> QED BY <1>1, PurgeInvariant, PTL

-----------------------------------------------------------------------------
\* What the task has recorded is no older than the last ANALYZE, unless that record was
\* lost; without a record the last ANALYZE is too long ago.
RecordFollows ==
    step # "analyzed" /\ ~unrecorded =>
        IF recorded = None THEN elapsed > MaxAge ELSE elapsed >= recorded

\* The messages of a stale period: one if the flag is set, and none before unless a
\* failed check or a restart forgot it.
LoggedOnce ==
    /\ deferred_logged \/ put_off => told >= 1
    /\ ~silenced => told <= 1 /\ (~deferred_logged => told = 0)

StatsInv == S!TypeOK /\ S!FlagEndsWithRefresh /\ S!NotTwiceWithinAge /\ RecordFollows /\ LoggedOnce

LEMMA StatsInit == S!Init => StatsInv
<1> SUFFICES ASSUME S!Init PROVE StatsInv
  OBVIOUS
<1> USE PurgesAssumption
<1>1. /\ quiet \in BOOLEAN /\ maintenance_active \in BOOLEAN /\ deferred_logged \in BOOLEAN
      /\ unrecorded \in BOOLEAN /\ put_off \in BOOLEAN /\ silenced \in BOOLEAN
  BY Zenon DEF S!Init
<1>2. elapsed \in 0..(MaxAge + 1) /\ recorded \in 0..(MaxAge + 1) \cup {None}
  BY DEF S!Init
<1>3. S!TypeOK
  BY <1>1, <1>2 DEF S!Init, S!TypeOK
<1>4. RecordFollows
  BY DEF S!Init, RecordFollows
<1> QED BY <1>3, <1>4 DEF S!Init, StatsInv, S!FlagEndsWithRefresh, S!NotTwiceWithinAge, LoggedOnce

\* A step that leaves the task's own state alone.
LEMMA StatsUntouched ==
    ASSUME StatsInv,
           UNCHANGED <<step, recorded, maintenance_active, deferred_logged, elapsed, unrecorded,
                       put_off, told, silenced>>
    PROVE  S!FlagEndsWithRefresh' /\ S!NotTwiceWithinAge' /\ RecordFollows' /\ LoggedOnce'
BY DEF StatsInv, S!FlagEndsWithRefresh, S!NotTwiceWithinAge, RecordFollows, LoggedOnce

\* The two ages grow together.
LEMMA OlderTogether ==
    ASSUME NEW a \in 0..(MaxAge + 1), NEW b \in 0..(MaxAge + 1) \cup {None}
    PROVE  /\ S!Older(a) \in 0..(MaxAge + 1)
           /\ S!Older(b) \in 0..(MaxAge + 1) \cup {None}
           /\ S!Older(b) = None <=> b = None
           /\ a > MaxAge => S!Older(a) > MaxAge
           /\ b # None /\ a >= b => S!Older(a) >= S!Older(b)
BY PurgesAssumption DEF S!Older

\* The type invariant in two halves, flags and numbers, for the two provers.
StatsFlags ==
    /\ quiet \in BOOLEAN /\ sqlite_stat1 \in BOOLEAN
    /\ maintenance_active \in BOOLEAN /\ deferred_logged \in BOOLEAN
    /\ unrecorded \in BOOLEAN /\ put_off \in BOOLEAN /\ silenced \in BOOLEAN

StatsNumbers ==
    /\ clock \in 0..(DayLength - 1)
    /\ step \in {"sleeping", "checking", "refreshing", "analyzed"}
    /\ spans \in 0..LargeAt /\ others \in 0..LargeAt
    /\ recorded \in 0..(MaxAge + 1) \cup {None} /\ elapsed \in 0..(MaxAge + 1)
    /\ told \in 0..2 /\ failures \in 0..MaxFailures /\ stops \in 0..MaxStops

LEMMA StatsHalves == /\ S!TypeOK => StatsFlags /\ StatsNumbers
                     /\ StatsFlags' /\ StatsNumbers' => S!TypeOK'
<1>1. S!TypeOK => StatsFlags
  BY Zenon DEF S!TypeOK, StatsFlags
<1>2. S!TypeOK => StatsNumbers
  BY Zenon DEF S!TypeOK, StatsNumbers
<1>3. StatsFlags' /\ StatsNumbers' => S!TypeOK'
  BY Zenon DEF S!TypeOK, StatsFlags, StatsNumbers
<1> QED BY <1>1, <1>2, <1>3

LEMMA StatsStep == StatsInv /\ [S!Next]_statsVars => StatsInv'
<1> SUFFICES ASSUME StatsInv, [S!Next]_statsVars PROVE StatsInv'
  OBVIOUS
<1>t. StatsFlags /\ StatsNumbers
  BY StatsHalves DEF StatsInv
<1> USE PurgesAssumption DEF StatsInv, S!database, S!history, S!bounds
<1>1. CASE S!Ingest \/ S!PurgeAll
  <2>a. StatsFlags'
    BY Zenon, <1>1, <1>t DEF S!Ingest, S!PurgeAll, StatsFlags
  <2>b. StatsNumbers'
    BY <1>1, <1>t DEF S!Ingest, S!PurgeAll, StatsNumbers
  <2>1. S!TypeOK'
    BY <2>a, <2>b, StatsHalves
  <2> QED BY <1>1, <2>1, StatsUntouched DEF S!Ingest, S!PurgeAll
<1>2. CASE S!Minute
  <2>1. /\ recorded' = S!Older(recorded) /\ elapsed' = S!Older(elapsed)
        /\ step' = (IF step = "sleeping" THEN "checking" ELSE step)
        /\ step \in {"sleeping", "refreshing"}
    BY <1>2 DEF S!Minute
  <2>2. elapsed \in 0..(MaxAge + 1) /\ recorded \in 0..(MaxAge + 1) \cup {None}
    BY DEF S!TypeOK
  <2>3. S!TypeOK'
    BY <1>2, <2>1, <2>2, OlderTogether DEF S!Minute, S!TypeOK
  <2>4. RecordFollows'
    BY <1>2, <2>1, <2>2, OlderTogether DEF S!Minute, RecordFollows
  <2>5. S!NotTwiceWithinAge'
    BY <1>2, <2>1, <2>2, OlderTogether DEF S!Minute, S!NotTwiceWithinAge
  <2>6. S!FlagEndsWithRefresh' /\ LoggedOnce'
    BY <1>2 DEF S!Minute, S!FlagEndsWithRefresh, LoggedOnce
  <2> QED BY <2>3, <2>4, <2>5, <2>6
<1>3. CASE S!FindFresh
  <2>a. StatsFlags'
    BY Zenon, <1>3, <1>t DEF S!FindFresh, S!IsFresh, StatsFlags
  <2>b. StatsNumbers'
    BY <1>3, <1>t DEF S!FindFresh, S!IsFresh, StatsNumbers
  <2>1. S!TypeOK'
    BY <2>a, <2>b, StatsHalves
  <2>2. RecordFollows'
    BY <1>3 DEF S!FindFresh, S!IsFresh, S!TypeOK, RecordFollows
  <2> QED BY <1>3, <2>1, <2>2
          DEF S!FindFresh, S!IsFresh, S!FlagEndsWithRefresh, S!NotTwiceWithinAge, LoggedOnce
<1>4. CASE S!Defer
  <2>1. S!TypeOK' /\ LoggedOnce'
    BY <1>4 DEF S!Defer, S!StaysStale, S!TypeOK, LoggedOnce
  <2> QED BY <1>4, <2>1
          DEF S!Defer, S!StaysStale, S!FlagEndsWithRefresh, S!NotTwiceWithinAge, RecordFollows
<1>5. CASE S!CheckFails
  <2>a. StatsFlags'
    BY Zenon, <1>5, <1>t DEF S!CheckFails, StatsFlags
  <2>b. StatsNumbers'
    BY <1>5, <1>t DEF S!CheckFails, StatsNumbers
  <2>1. S!TypeOK'
    BY <2>a, <2>b, StatsHalves
  <2> QED BY <1>5, <2>1
          DEF S!CheckFails, S!FlagEndsWithRefresh, S!NotTwiceWithinAge, RecordFollows, LoggedOnce
<1>6. CASE S!Decide
  <2>1. S!TypeOK'
    BY <1>6 DEF S!Decide, S!TypeOK
  <2>2. S!NotTwiceWithinAge'
    BY <1>6 DEF S!Decide, S!Stale, S!NotTwiceWithinAge, RecordFollows, S!TypeOK
  <2> QED BY <1>6, <2>1, <2>2
          DEF S!Decide, S!FlagEndsWithRefresh, RecordFollows, LoggedOnce
<1>7. CASE S!Analyze
  <2>a. StatsFlags'
    BY Zenon, <1>7, <1>t DEF S!Analyze, StatsFlags
  <2>b. StatsNumbers'
    BY <1>7, <1>t DEF S!Analyze, StatsNumbers
  <2>1. S!TypeOK'
    BY <2>a, <2>b, StatsHalves
  <2> QED BY <1>7, <2>1
          DEF S!Analyze, S!FlagEndsWithRefresh, S!NotTwiceWithinAge, RecordFollows, LoggedOnce
<1>8. CASE S!Record
  <2>a. StatsFlags'
    BY Zenon, <1>8, <1>t DEF S!Record, S!IsFresh, StatsFlags
  <2>b. StatsNumbers'
    BY <1>8, <1>t DEF S!Record, S!IsFresh, StatsNumbers
  <2>1. S!TypeOK'
    BY <2>a, <2>b, StatsHalves
  <2> QED BY <1>8, <2>1
          DEF S!Record, S!IsFresh, S!FlagEndsWithRefresh, S!NotTwiceWithinAge, RecordFollows,
              LoggedOnce, S!TypeOK
<1>9. CASE S!RefreshFails
  <2>a. StatsFlags'
    BY Zenon, <1>9, <1>t DEF S!RefreshFails, S!StaysStale, StatsFlags
  <2>b. StatsNumbers'
    BY <1>9, <1>t DEF S!RefreshFails, S!StaysStale, StatsNumbers
  <2>1. S!TypeOK'
    BY <2>a, <2>b, StatsHalves
  <2>2. LoggedOnce'
    BY <1>9, <1>t DEF S!RefreshFails, S!StaysStale, LoggedOnce, StatsNumbers
  <2> QED BY <1>9, <2>1, <2>2
          DEF S!RefreshFails, S!StaysStale, S!FlagEndsWithRefresh, S!NotTwiceWithinAge, RecordFollows
<1>10. CASE S!Restart
  <2>a. StatsFlags'
    BY Zenon, <1>10, <1>t DEF S!Restart, StatsFlags
  <2>b. StatsNumbers'
    BY <1>10, <1>t DEF S!Restart, StatsNumbers
  <2>1. S!TypeOK'
    BY <2>a, <2>b, StatsHalves
  <2> QED BY <1>10, <2>1
          DEF S!Restart, S!FlagEndsWithRefresh, S!NotTwiceWithinAge, RecordFollows, LoggedOnce
<1>11. CASE UNCHANGED statsVars
  <2>1. S!TypeOK'
    BY <1>11 DEF statsVars, S!TypeOK
  <2> QED BY <1>11, <2>1, StatsUntouched DEF statsVars
<1> QED
  BY <1>1, <1>2, <1>3, <1>4, <1>5, <1>6, <1>7, <1>8, <1>9, <1>10, <1>11 DEF S!Next, S!Round

\* A retention pass that gets to its record has deleted every old row stored when it
\* started; the flag that refuses writes is set for the time of ANALYZE alone, ANALYZE is
\* not repeated within its age, and a deferral is logged once (MaintenanceHolds).
THEOREM MaintenanceSafe ==
    P!Spec /\ S!Init /\ [][S!Next]_statsVars => []MaintenanceHolds
<1>1. PurgeInv => P!PassIsComplete
  <2> SUFFICES ASSUME PurgeInv, table > Len(P!Tables), NEW row \in stored \cap targets
               PROVE  FALSE
    BY DEF P!PassIsComplete
  <2>1. \A i \in 1..3 : i < table
    BY DEF PurgeInv, P!TypeOK, P!Tables
  <2>2. TableOf[row] \in {"logs", "spans", "metrics"}
    BY PurgesAssumption DEF PurgeInv, P!TypeOK
  <2>3. TableOf[row] # P!Tables[1] /\ TableOf[row] # P!Tables[2] /\ TableOf[row] # P!Tables[3]
    BY <2>1 DEF PurgeInv, TablesDone
  <2> QED BY <2>2, <2>3 DEF P!Tables
<1>2. StatsInv => S!TypeOK /\ S!FlagEndsWithRefresh /\ S!NotTwiceWithinAge /\ S!DeferralLoggedOnce
  BY DEF StatsInv, S!DeferralLoggedOnce, LoggedOnce
<1>3. S!Init /\ [][S!Next]_statsVars => []StatsInv
  BY StatsInit, StatsStep, PTL
<1>4. PurgeInv /\ StatsInv => MaintenanceHolds
  BY <1>1, <1>2 DEF MaintenanceHolds
<1> QED BY <1>3, <1>4, PurgeInvariant, PTL

-----------------------------------------------------------------------------
\* The cache is a function from some of the keys to values with their state.
LruTypes ==
    /\ L!Cached \subseteq LruKeys
    /\ cache \in [L!Cached -> [value : Values, live : BOOLEAN]]

\* What a user of the cache reads of a key.
LEMMA LookupOf ==
    ASSUME NEW k \in LruKeys
    PROVE  L!Lookup[k] = IF k \in L!Cached /\ cache[k].live THEN cache[k].value ELSE None
BY DEF L!Lookup, L!Live

LEMMA LruInit == L!Init => LruTypes /\ L!Map!Init
BY DEF L!Init, LruTypes, L!Cached, L!Map!Init, L!Lookup, L!Live

\* A step that keeps each entry as it is, but may expire or drop it, loses entries at most.
LEMMA LosesOnly ==
    ASSUME LruTypes, LruTypes', L!Cached' \subseteq L!Cached,
           \A x \in L!Cached' : /\ cache'[x].value = cache[x].value
                                /\ cache'[x].live => cache[x].live
    PROVE  L!Map!Lose
<1>1. ASSUME NEW x \in LruKeys PROVE L!Lookup'[x] \in {L!Lookup[x], None}
  BY LookupOf DEF L!Lookup, L!Live
<1>2. L!Lookup' \in [LruKeys -> Values \cup {None}]
  BY DEF L!Lookup, L!Live, LruTypes
<1> QED BY <1>1, <1>2 DEF L!Map!Lose, L!Map!KeepsOrLoses

LEMMA LruStep == LruTypes /\ [L!Next]_(L!vars) => LruTypes' /\ [L!Map!Next]_(L!Lookup)
<1> SUFFICES ASSUME LruTypes, [L!Next]_(L!vars) PROVE LruTypes' /\ [L!Map!Next]_(L!Lookup)
  OBVIOUS
<1>1. ASSUME (\E k \in LruKeys : L!Get(k)) \/ UNCHANGED L!vars
      PROVE  LruTypes' /\ [L!Map!Next]_(L!Lookup)
  <2>1. UNCHANGED cache
    BY <1>1 DEF L!Get, L!vars
  <2> QED BY <2>1 DEF LruTypes, L!Cached, L!Lookup, L!Live
<1>2. ASSUME NEW k \in LruKeys, L!Expire(k) PROVE LruTypes' /\ [L!Map!Next]_(L!Lookup)
  <2>1. k \in L!Cached /\ cache' = [cache EXCEPT ![k].live = FALSE]
    BY <1>2 DEF L!Expire, L!Live
  <2>2. LruTypes' /\ L!Cached' = L!Cached
    BY <2>1 DEF LruTypes, L!Cached
  <2>3. ASSUME NEW x \in L!Cached
        PROVE  cache'[x].value = cache[x].value /\ (cache'[x].live => cache[x].live)
    BY <2>1 DEF LruTypes, L!Cached
  <2> QED BY <2>2, <2>3, LosesOnly DEF L!Map!Next
<1>3. ASSUME NEW k \in LruKeys, NEW v \in Values, L!Insert(k, v)
      PROVE  LruTypes' /\ [L!Map!Next]_(L!Lookup)
  <2>1. PICK kept \in SUBSET L!Cached :
           cache' = [x \in kept \cup {k} |-> IF x = k THEN [value |-> v, live |-> TRUE]
                                             ELSE cache[x]]
    BY <1>3 DEF L!Insert
  <2>2. LruTypes'
    BY <2>1 DEF LruTypes, L!Cached
  <2>3. L!Lookup' \in [LruKeys -> Values \cup {None}]
    BY <2>2 DEF L!Lookup, L!Live, LruTypes
  <2>4. L!Lookup'[k] = v
    BY <2>1 DEF L!Lookup, L!Live, L!Cached
  <2>5. ASSUME NEW x \in LruKeys \ {k} PROVE L!Lookup'[x] \in {L!Lookup[x], None}
    BY <2>1 DEF L!Lookup, L!Live, L!Cached
  <2>6. L!Map!Put(k, v)
    BY <2>3, <2>4, <2>5 DEF L!Map!Put, L!Map!KeepsOrLoses
  <2> QED BY <2>2, <2>6 DEF L!Map!Next
<1>4. CASE L!Clear
  <2>1. cache' = [k \in {} |-> None]
    BY <1>4 DEF L!Clear
  <2>2. LruTypes' /\ L!Cached' = {}
    BY <2>1 DEF LruTypes, L!Cached
  <2> QED BY <2>2, LosesOnly DEF L!Map!Next
<1>5. CASE L!CleanupExpired
  <2>1. cache' = [k \in {x \in L!Cached : L!Live(x)} |-> cache[k]]
    BY <1>5 DEF L!CleanupExpired
  <2>2. LruTypes' /\ L!Cached' \subseteq L!Cached /\ \A x \in L!Cached' : cache'[x] = cache[x]
    BY <2>1 DEF LruTypes, L!Cached
  <2> QED BY <2>2, LosesOnly DEF L!Map!Next
<1> QED
  BY <1>1, <1>2, <1>3, <1>4, <1>5 DEF L!Next

\* The LRU cache is a map that loses entries (ImplementsMap): whatever is evicted, cleared
\* or expires, a hit is the value of the last insert.
THEOREM CacheIsMap == L!Spec => ImplementsMap
<1> QED BY LruInit, LruStep, PTL DEF L!Spec, ImplementsMap, L!ImplementsMap, L!Map!Spec

-----------------------------------------------------------------------------
\* The access order lists each cached key once, and a key that stands before another was
\* used after it.
Ordered(order, listed, after) ==
    /\ order \in Seq(LruKeys)
    /\ \A i, j \in DOMAIN order : order[i] = order[j] => i = j
    /\ {order[i] : i \in DOMAIN order} = listed
    /\ \A i, j \in DOMAIN order : i < j => order[i] \in after[order[j]]

\* No promise is left for a key that counts itself; of the others finitely many uses are known.
LruUses ==
    /\ since \in [LruKeys -> SUBSET LruKeys]
    /\ \A k \in LruKeys : k \in since[k] \/ IsFiniteSet(since[k])

LruInv == LruTypes /\ LruUses /\ Ordered(access_order, L!Cached, since) /\ L!SizeBounded /\ L!RecentStay

Places(list, K) == {i \in DOMAIN list : list[i] \in K}

LEMMA SizeSame == \A T : L!Cardinality(T) = Cardinality(T)
BY DEF L!Cardinality, Cardinality

LEMMA UpTo == \A n \in Nat : IsFiniteSet(1..n) /\ Cardinality(1..n) = n
BY FS_Interval

\* Retain keeps the items of K in their order: each is found at the place that is its
\* rank among the places of such items.
LEMMA RetainPlaces ==
    ASSUME NEW A, NEW list \in Seq(A), NEW K
    PROVE  \E place \in [1..Cardinality(Places(list, K)) -> Places(list, K)] :
              /\ Cardinality(Places(list, K)) \in Nat
              /\ L!Retain(list, K) = [n \in 1..Cardinality(Places(list, K)) |-> list[place[n]]]
              /\ \A m, n \in 1..Cardinality(Places(list, K)) : m < n => place[m] < place[n]
              /\ \A i \in Places(list, K) :
                    \E n \in 1..Cardinality(Places(list, K)) : place[n] = i
<1> DEFINE at == Places(list, K)
           upto(i) == {j \in at : j <= i}
           rank == [i \in at |-> Cardinality(upto(i))]
           size == Cardinality(at)
           place == [n \in 1..size |-> CHOOSE i \in at : Cardinality(upto(i)) = n]
<1>1. at \subseteq 1..Len(list) /\ Len(list) \in Nat
  BY DEF Places
<1>2. IsFiniteSet(at) /\ size \in Nat
  <2>1. IsFiniteSet(1..Len(list)) /\ Cardinality(1..Len(list)) = Len(list)
    BY <1>1, UpTo
  <2> QED BY <1>1, <2>1, FS_Subset, FS_CardinalityType
<1>3. \A i \in at : IsFiniteSet(upto(i)) /\ rank[i] \in 1..size
  <2> SUFFICES ASSUME NEW i \in at PROVE IsFiniteSet(upto(i)) /\ rank[i] \in 1..size
    OBVIOUS
  <2>1. upto(i) \in SUBSET at /\ i \in upto(i)
    BY <1>1
  <2> HIDE DEF at, upto
  <2>2. IsFiniteSet(upto(i)) /\ Cardinality(upto(i)) <= size
    BY <1>2, <2>1, FS_Subset
  <2>3. Cardinality(upto(i)) \in Nat /\ Cardinality(upto(i)) # 0
    BY <2>1, <2>2, FS_CardinalityType, FS_EmptySet
  <2> QED BY <1>2, <2>2, <2>3
<1>4. \A i, j \in at : i < j => rank[i] < rank[j]
  <2> SUFFICES ASSUME NEW i \in at, NEW j \in at, i < j PROVE rank[i] < rank[j]
    OBVIOUS
  <2>1. upto(i) \in SUBSET upto(j) /\ j \in upto(j) /\ j \notin upto(i)
    BY <1>1
  <2> HIDE DEF upto
  <2>2. Cardinality(upto(i)) <= Cardinality(upto(j)) /\ Cardinality(upto(i)) # Cardinality(upto(j))
    BY <1>3, <2>1, FS_Subset
  <2>3. Cardinality(upto(i)) \in Nat /\ Cardinality(upto(j)) \in Nat
    BY <1>3, FS_CardinalityType
  <2> QED BY <2>2, <2>3
<1>5. rank \in Surjection(at, 1..size)
  <2> HIDE DEF at, upto
  <2>0. rank \in [at -> 1..size]
    BY <1>3
  <2>1. \A i, j \in at : rank[i] = rank[j] => i = j
    <3> SUFFICES ASSUME NEW i \in at, NEW j \in at, i # j PROVE rank[i] # rank[j]
      OBVIOUS
    <3>1. i \in Nat /\ j \in Nat
      BY <1>1
    <3>2. rank[i] \in Nat /\ rank[j] \in Nat
      BY <1>2, <1>3
    <3>3. (i < j => rank[i] < rank[j]) /\ (j < i => rank[j] < rank[i])
      BY <1>4
    <3> QED BY <3>1, <3>2, <3>3
  <2>2. rank \in Injection(at, 1..size)
    <3> HIDE DEF rank
    <3> QED BY <2>0, <2>1 DEF Injection, IsInjective
  <2>3. IsFiniteSet(1..size) /\ Cardinality(1..size) = size
    BY <1>2, UpTo
  <2> QED BY <2>2, <2>3, FS_Injection
<1>6. \A n \in 1..size : place[n] \in at /\ rank[place[n]] = n
  <2> SUFFICES ASSUME NEW n \in 1..size PROVE place[n] \in at /\ rank[place[n]] = n
    OBVIOUS
  <2>1. \E i \in at : Cardinality(upto(i)) = n
    BY <1>5 DEF Surjection
  <2> QED BY <2>1
<1>7. \A m, n \in 1..size : m < n => place[m] < place[n]
  <2> SUFFICES ASSUME NEW m \in 1..size, NEW n \in 1..size, m < n PROVE place[m] < place[n]
    OBVIOUS
  <2> HIDE DEF place, rank
  <2>1. place[m] \in at /\ rank[place[m]] = m /\ place[n] \in at /\ rank[place[n]] = n
    BY <1>6
  <2>2. place[n] < place[m] => rank[place[n]] < rank[place[m]]
    BY <1>4, <2>1
  <2>3. place[m] \in Nat /\ place[n] \in Nat
    BY <1>1, <2>1
  <2> QED BY <2>1, <2>2, <2>3
<1>8. \A i \in at : \E n \in 1..size : place[n] = i
  <2> SUFFICES ASSUME NEW i \in at PROVE place[rank[i]] = i
    BY <1>3
  <2> HIDE DEF place
  <2>1. rank[i] \in 1..size
    BY <1>3
  <2>2. place[rank[i]] \in at /\ rank[place[rank[i]]] = rank[i]
    BY <1>6, <2>1
  <2>3. \A j \in at : rank[j] = rank[i] => j = i
    <3> SUFFICES ASSUME NEW j \in at, j # i PROVE rank[j] # rank[i]
      OBVIOUS
    <3> HIDE DEF rank, at, upto
    <3>1. i \in Nat /\ j \in Nat /\ rank[i] \in Nat /\ rank[j] \in Nat
      BY <1>1, <1>2, <1>3
    <3> QED BY <1>4, <3>1
  <2> QED BY <2>2, <2>3
<1>9. L!Retain(list, K) = [n \in 1..size |-> list[place[n]]]
  <2>1. L!Retain(list, K) = [n \in 1..size |-> list[CHOOSE i \in at : Cardinality(upto(i)) = n]]
    BY Zenon DEF L!Retain, L!Cardinality, Cardinality, Places
  <2>2. \A n \in 1..size : place[n] = CHOOSE i \in at : Cardinality(upto(i)) = n
    BY Zenon
  <2> QED BY <2>1, <2>2, Zenon
<1>10. place \in [1..size -> at]
  BY <1>6
<1> HIDE DEF place
<1> QED BY <1>2, <1>7, <1>8, <1>9, <1>10

LEMMA RetainOrdered ==
    ASSUME NEW order, NEW listed, NEW after, Ordered(order, listed, after), NEW K
    PROVE  Ordered(L!Retain(order, K), listed \cap K, after)
<1> DEFINE at == Places(order, K)
           size == Cardinality(at)
           kept == L!Retain(order, K)
<1>1. PICK place \in [1..size -> at] :
         /\ size \in Nat
         /\ kept = [n \in 1..size |-> order[place[n]]]
         /\ \A m, n \in 1..size : m < n => place[m] < place[n]
         /\ \A i \in at : \E n \in 1..size : place[n] = i
  <2>1. order \in Seq(LruKeys)
    BY DEF Ordered
  <2> QED BY <2>1, RetainPlaces, Zenon
<1> HIDE DEF size, kept
<1>2. \A n \in 1..size : place[n] \in DOMAIN order /\ order[place[n]] \in K \cap LruKeys
  BY <1>1 DEF Ordered, Places
<1> HIDE DEF at
<1>3. kept \in Seq(LruKeys) /\ DOMAIN kept = 1..size /\ \A n \in 1..size : kept[n] = order[place[n]]
  BY <1>1, <1>2
<1>4. \A m, n \in 1..size : kept[m] = kept[n] => m = n
  <2> SUFFICES ASSUME NEW m \in 1..size, NEW n \in 1..size, kept[m] = kept[n] PROVE m = n
    OBVIOUS
  <2>1. place[m] = place[n]
    BY <1>2, <1>3 DEF Ordered
  <2>2. place[m] \in Nat
    BY <1>2 DEF Ordered
  <2>3. (m < n => place[m] < place[n]) /\ (n < m => place[n] < place[m])
    BY <1>1
  <2> QED BY <1>1, <2>1, <2>2, <2>3
<1>5. {kept[n] : n \in 1..size} = listed \cap K
  <2>1. \A n \in 1..size : kept[n] \in listed \cap K
    BY <1>2, <1>3 DEF Ordered
  <2>2. ASSUME NEW x \in listed \cap K PROVE \E n \in 1..size : kept[n] = x
    <3>1. PICK i \in DOMAIN order : order[i] = x
      BY DEF Ordered
    <3>2. i \in at
      BY <3>1 DEF at, Places
    <3>3. PICK n \in 1..size : place[n] = i
      BY <1>1, <3>2
    <3> QED BY <1>3, <3>1, <3>3
  <2> QED BY <2>1, <2>2
<1>6. \A m, n \in 1..size : m < n => kept[m] \in after[kept[n]]
  BY <1>1, <1>2, <1>3 DEF Ordered
<1> QED BY <1>3, <1>4, <1>5, <1>6 DEF Ordered, kept

\* A key that is not listed goes to the front when it is used.
LEMMA FrontOrdered ==
    ASSUME NEW order, NEW listed, NEW k \in LruKeys \ listed, Ordered(order, listed, since),
           since \in [LruKeys -> SUBSET LruKeys], L!Used(k)
    PROVE  Ordered(<<k>> \o order, listed \cup {k}, since')
<1> DEFINE new == <<k>> \o order
<1>1. order \in Seq(LruKeys) /\ Len(order) \in Nat /\ DOMAIN order = 1..Len(order)
  BY DEF Ordered
<1>2. /\ new \in Seq(LruKeys) /\ DOMAIN new = 1..(Len(order) + 1)
      /\ new[1] = k /\ \A i \in 1..Len(order) : new[i + 1] = order[i]
  BY <1>1
<1>3. \A i \in DOMAIN new : i = 1 \/ (i - 1 \in DOMAIN order /\ new[i] = order[i - 1])
  BY <1>1, <1>2
<1>4. \A i \in DOMAIN order : order[i] \in listed /\ order[i] # k /\ order[i] \in LruKeys
  BY <1>1 DEF Ordered
<1> HIDE DEF new
<1>5. ASSUME NEW i \in DOMAIN new, NEW j \in DOMAIN new, new[i] = new[j] PROVE i = j
  BY <1>1, <1>2, <1>3, <1>4, <1>5 DEF Ordered
<1>6. {new[i] : i \in DOMAIN new} = listed \cup {k}
  <2>1. \A i \in DOMAIN new : new[i] \in listed \cup {k}
    BY <1>2, <1>3, <1>4
  <2>2. ASSUME NEW x \in listed PROVE \E i \in DOMAIN new : new[i] = x
    <3>1. PICK i \in DOMAIN order : order[i] = x
      BY DEF Ordered
    <3> QED BY <1>1, <1>2, <3>1
  <2>3. 1 \in DOMAIN new
    BY <1>1, <1>2
  <2> QED BY <1>2, <2>1, <2>2, <2>3
<1>7. ASSUME NEW i \in DOMAIN new, NEW j \in DOMAIN new, i < j PROVE new[i] \in since'[new[j]]
  <2>1. j - 1 \in DOMAIN order /\ new[j] = order[j - 1] /\ new[j] # k
    BY <1>1, <1>2, <1>3, <1>4, <1>7
  <2>2. since'[new[j]] = since[new[j]] \cup {k}
    BY <1>4, <2>1 DEF L!Used
  <2>3. CASE i = 1
    BY <1>2, <2>2, <2>3
  <2>4. CASE i # 1
    <3>1. i - 1 \in DOMAIN order /\ new[i] = order[i - 1] /\ i - 1 < j - 1
      BY <1>1, <1>2, <1>3, <1>7, <2>4
    <3> QED BY <2>1, <2>2, <3>1 DEF Ordered
  <2> QED BY <2>3, <2>4
<1> QED BY <1>2, <1>5, <1>6, <1>7 DEF Ordered, new

\* There are as many listed keys as the order is long.
LEMMA OrderedSize ==
    ASSUME NEW order, NEW listed, NEW after, Ordered(order, listed, after)
    PROVE  IsFiniteSet(listed) /\ Cardinality(listed) = Len(order)
<1>1. Len(order) \in Nat /\ DOMAIN order = 1..Len(order)
  BY DEF Ordered
<1>2. IsFiniteSet(1..Len(order)) /\ Cardinality(1..Len(order)) = Len(order)
  BY <1>1, UpTo
<1>3. order \in Bijection(1..Len(order), listed)
  BY <1>1 DEF Ordered, Bijection, Injection, Surjection, IsInjective
<1>4. ExistsBijection(1..Len(order), listed)
  BY <1>3 DEF ExistsBijection
<1> QED BY <1>2, <1>4, FS_Bijection

LEMMA LruInvInit == L!Init => LruInv
<1> SUFFICES ASSUME L!Init PROVE LruInv
  OBVIOUS
<1> USE DEF L!Init
<1>1. L!Cached = {} /\ Cardinality({}) = 0
  BY FS_EmptySet DEF L!Cached
<1>2. LruTypes /\ LruUses /\ Ordered(access_order, L!Cached, since)
  BY <1>1, LruInit DEF LruUses, Ordered
<1>3. L!SizeBounded
  BY <1>1, PurgesAssumption, SizeSame DEF L!SizeBounded
<1>4. L!RecentStay
  BY DEF L!RecentStay
<1> QED BY <1>2, <1>3, <1>4 DEF LruInv

\* A use keeps the promise to every key that is still live, or was not live before.
LEMMA UsesStep ==
    ASSUME LruUses, NEW k \in LruKeys, L!Used(k)
    PROVE  /\ LruUses'
           /\ \A x \in LruKeys \ {k} :
                 \/ x \in since'[x]
                 \/ Cardinality(since[x]) \in Nat /\ Cardinality(since'[x]) \in Nat
                    /\ Cardinality(since[x]) <= Cardinality(since'[x]) /\ x \notin since[x]
<1> USE DEF LruUses, L!Used
<1>1. since' \in [LruKeys -> SUBSET LruKeys]
  OBVIOUS
<1>2. ASSUME NEW x \in LruKeys, x \notin since'[x] PROVE IsFiniteSet(since'[x])
  BY <1>2, FS_EmptySet, FS_AddElement
<1>3. ASSUME NEW x \in LruKeys \ {k}, x \notin since'[x]
      PROVE  /\ Cardinality(since[x]) \in Nat /\ Cardinality(since'[x]) \in Nat
             /\ Cardinality(since[x]) <= Cardinality(since'[x]) /\ x \notin since[x]
  <2>1. since'[x] = since[x] \cup {k} /\ x \notin since[x] /\ IsFiniteSet(since[x])
    BY <1>3
  <2>2. IsFiniteSet(since'[x]) /\ since[x] \in SUBSET since'[x]
    BY <1>2, <1>3, <2>1
  <2> QED BY <2>1, <2>2, FS_Subset, FS_CardinalityType
<1> QED BY <1>1, <1>2, <1>3

\* A key that was not evicted by the step keeps its promise.
LEMMA PromiseKept ==
    ASSUME LruUses, L!RecentStay, NEW k \in LruKeys, L!Used(k), NEW x \in LruKeys \ {k},
           L!Live(x) => L!Live(x)'
    PROVE  L!Live(x)' \/ x \in since'[x] \/ L!Cardinality(since'[x]) >= MaxSize
<1>1. L!Live(x) \/ x \in since[x] \/ Cardinality(since[x]) >= MaxSize
  BY SizeSame DEF L!RecentStay
<1>2. x \in since[x] => x \in since'[x]
  BY DEF L!Used, LruUses
<1>3. MaxSize \in Nat
  BY PurgesAssumption
<1> QED BY <1>1, <1>2, <1>3, UsesStep, SizeSame

\* The key that makes room was used before all others that are cached.
LEMMA EvictedStale ==
    ASSUME LruTypes, LruUses, Ordered(access_order, L!Cached, since), L!SizeBounded,
           NEW k \in LruKeys, L!Used(k), NEW x \in L!Evicted(k)
    PROVE  /\ x \in L!Cached /\ k \notin L!Cached
           /\ L!Evicted(k) = {x}
           /\ Cardinality(L!Cached) = MaxSize
           /\ x \in since'[x] \/ Cardinality(since'[x]) >= MaxSize
<1>1. /\ Len(access_order) \in Nat /\ DOMAIN access_order = 1..Len(access_order)
      /\ access_order \in Seq(LruKeys)
  BY DEF Ordered
<1>2. /\ k \notin L!Cached /\ access_order # <<>> /\ x = access_order[Len(access_order)]
      /\ Cardinality(L!Cached) >= MaxSize /\ L!Evicted(k) = {x}
  BY SizeSame DEF L!Evicted
<1>3. Len(access_order) \in DOMAIN access_order
  BY <1>1, <1>2
<1>4. x \in L!Cached /\ x \in LruKeys
  BY <1>2, <1>3 DEF Ordered, LruTypes
<1>5. IsFiniteSet(L!Cached) /\ Cardinality(L!Cached) \in Nat
  BY OrderedSize, FS_CardinalityType
<1>6. Cardinality(L!Cached) = MaxSize
  BY <1>2, <1>5, SizeSame, PurgesAssumption DEF L!SizeBounded
<1>7. ASSUME NEW y \in L!Cached \ {x} PROVE y \in since[x]
  <2>1. PICK i \in DOMAIN access_order : access_order[i] = y
    BY DEF Ordered
  <2>2. i < Len(access_order)
    BY <1>1, <1>2, <2>1
  <2> QED BY <1>2, <1>3, <2>1, <2>2 DEF Ordered
<1>8. since'[x] = since[x] \cup {k}
  BY <1>2, <1>4 DEF L!Used, LruUses
<1>9. CASE x \notin since'[x]
  <2> DEFINE used == (L!Cached \ {x}) \cup {k}
  <2>1. used \in SUBSET since'[x]
    BY <1>7, <1>8
  <2>2. IsFiniteSet(L!Cached \ {x}) /\ Cardinality(L!Cached \ {x}) = MaxSize - 1
    BY <1>4, <1>5, <1>6, FS_RemoveElement
  <2>3. Cardinality(used) = (MaxSize - 1) + 1
    BY <1>2, <2>2, FS_AddElement
  <2>4. IsFiniteSet(since'[x])
    BY <1>4, <1>9, UsesStep DEF LruUses
  <2> HIDE DEF used
  <2>5. Cardinality(used) <= Cardinality(since'[x])
    BY <2>1, <2>4, FS_Subset
  <2>6. Cardinality(since'[x]) \in Nat /\ MaxSize \in Nat
    BY <2>4, FS_CardinalityType, PurgesAssumption
  <2> QED BY <1>2, <1>4, <1>6, <2>3, <2>5, <2>6
<1> QED BY <1>2, <1>4, <1>6, <1>9

LEMMA LruInvInsert ==
    ASSUME LruInv, NEW k \in LruKeys, NEW v \in Values, L!Insert(k, v) PROVE LruInv'
<1> USE DEF LruInv
<1> DEFINE kept == L!Cached \ L!Evicted(k)
<1>1. /\ cache' = [x \in kept \cup {k} |-> IF x = k THEN [value |-> v, live |-> TRUE] ELSE cache[x]]
      /\ access_order' = <<k>> \o L!Retain(access_order, kept \ {k})
      /\ L!Used(k)
  BY DEF L!Insert
<1>2. LruTypes' /\ LruUses'
  BY <1>1, LruStep, UsesStep DEF L!Next
<1>3. L!Cached' = kept \cup {k}
  BY <1>1 DEF L!Cached
<1>4. Ordered(access_order, L!Cached, since)' 
  <2>1. L!Cached \cap (kept \ {k}) = kept \ {k}
    OBVIOUS
  <2>2. Ordered(L!Retain(access_order, kept \ {k}), kept \ {k}, since)
    BY <2>1, RetainOrdered
  <2>3. Ordered(access_order', (kept \ {k}) \cup {k}, since')
    BY <1>1, <2>2, FrontOrdered DEF LruUses
  <2>4. (kept \ {k}) \cup {k} = L!Cached'
    BY <1>3
  <2> QED BY <2>3, <2>4
<1>5. L!SizeBounded'
  <2>1. IsFiniteSet(L!Cached) /\ Cardinality(L!Cached) \in Nat /\ Cardinality(L!Cached) <= MaxSize
    BY OrderedSize, FS_CardinalityType, SizeSame DEF L!SizeBounded
  <2>2. MaxSize \in Nat \ {0}
    BY PurgesAssumption
  <2>3. CASE k \in L!Cached
    <3>1. L!Cached' = L!Cached
      BY <1>3, <2>3 DEF L!Evicted
    <3> QED BY <2>1, <3>1, SizeSame DEF L!SizeBounded
  <2>4. CASE k \notin L!Cached /\ L!Evicted(k) = {}
    <3>1. L!Cached' = L!Cached \cup {k}
      BY <1>3, <2>4
    <3>2. Cardinality(L!Cached') = Cardinality(L!Cached) + 1
      BY <2>1, <2>4, <3>1, FS_AddElement
    <3>3. ~(Cardinality(L!Cached) >= MaxSize /\ access_order # <<>>)
      BY <2>4, SizeSame DEF L!Evicted
    <3>4. access_order = <<>> => Cardinality(L!Cached) = 0
      BY OrderedSize
    <3> QED BY <2>1, <2>2, <3>2, <3>3, <3>4, SizeSame DEF L!SizeBounded
  <2>5. CASE L!Evicted(k) # {}
    <3>1. PICK x : x \in L!Evicted(k)
      BY <2>5
    <3>2. x \in L!Cached /\ k \notin L!Cached /\ L!Evicted(k) = {x}
      BY <1>1, <3>1, EvictedStale
    <3>3. L!Cached' = (L!Cached \ {x}) \cup {k}
      BY <1>3, <3>2
    <3>4. IsFiniteSet(L!Cached \ {x}) /\ Cardinality(L!Cached \ {x}) = Cardinality(L!Cached) - 1
      BY <2>1, <3>2, FS_RemoveElement
    <3>5. Cardinality(L!Cached') = (Cardinality(L!Cached) - 1) + 1
      BY <3>2, <3>3, <3>4, FS_AddElement
    <3> QED BY <2>1, <2>2, <3>5, SizeSame DEF L!SizeBounded
  <2> QED BY <2>3, <2>4, <2>5
<1>6. ASSUME NEW x \in LruKeys
      PROVE  L!Live(x)' \/ x \in since'[x] \/ L!Cardinality(since'[x]) >= MaxSize
  <2>1. CASE x = k
    BY <1>1, <1>3, <2>1 DEF L!Live
  <2>2. CASE x \in L!Evicted(k)
    BY <1>1, <2>2, EvictedStale, SizeSame
  <2>3. CASE x # k /\ x \notin L!Evicted(k)
    <3>1. L!Live(x) => L!Live(x)'
      BY <1>1, <1>3, <2>3 DEF L!Live
    <3> QED BY <1>1, <2>3, <3>1, PromiseKept
  <2> QED BY <2>1, <2>2, <2>3
<1>7. L!RecentStay'
  BY <1>6 DEF L!RecentStay
<1> QED BY <1>2, <1>4, <1>5, <1>7

LEMMA LruInvStep == LruInv /\ [L!Next]_(L!vars) => LruInv'
<1> SUFFICES ASSUME LruInv, [L!Next]_(L!vars) PROVE LruInv'
  OBVIOUS
<1> USE DEF LruInv
<1>0. LruTypes'
  BY LruStep
<1>1. ASSUME NEW k \in LruKeys, L!Get(k) PROVE LruInv'
  <2>1. /\ L!Live(k) /\ UNCHANGED cache /\ L!Used(k) /\ k \in L!Cached
        /\ access_order' = <<k>> \o L!Retain(access_order, LruKeys \ {k})
    BY <1>1 DEF L!Get, L!Live
  <2>2. L!Cached' = L!Cached /\ \A x \in LruKeys : L!Live(x)' <=> L!Live(x)
    BY <2>1 DEF L!Cached, L!Live
  <2>3. L!Cached \cap (LruKeys \ {k}) = L!Cached \ {k} /\ (L!Cached \ {k}) \cup {k} = L!Cached
    BY <2>1 DEF LruTypes
  <2>4. Ordered(L!Retain(access_order, LruKeys \ {k}), L!Cached \ {k}, since)
    BY <2>3, RetainOrdered
  <2>5. Ordered(access_order', (L!Cached \ {k}) \cup {k}, since')
    BY <2>1, <2>4, FrontOrdered DEF LruUses
  <2>6. Ordered(access_order, L!Cached, since)'
    BY <2>2, <2>3, <2>5
  <2>7. ASSUME NEW x \in LruKeys
        PROVE  L!Live(x)' \/ x \in since'[x] \/ L!Cardinality(since'[x]) >= MaxSize
    BY <2>1, <2>2, PromiseKept
  <2>8. L!RecentStay' /\ L!SizeBounded'
    BY <2>2, <2>7 DEF L!RecentStay, L!SizeBounded
  <2> QED BY <1>0, <2>1, <2>6, <2>8, UsesStep
<1>2. ASSUME NEW k \in LruKeys, L!Expire(k) PROVE LruInv'
  <2>1. /\ cache' = [cache EXCEPT ![k].live = FALSE] /\ UNCHANGED access_order
        /\ since' = [since EXCEPT ![k] = LruKeys]
    BY <1>2 DEF L!Expire, L!Forgotten, LruUses
  <2>2. L!Cached' = L!Cached /\ \A x \in LruKeys \ {k} : L!Live(x)' <=> L!Live(x)
    BY <2>1 DEF L!Cached, L!Live, LruTypes
  <2>3. LruUses' /\ \A x \in LruKeys \ {k} : since'[x] = since[x]
    BY <2>1 DEF LruUses
  <2>4. since'[k] = LruKeys
    BY <2>1 DEF LruUses
  <2>5. Ordered(access_order, L!Cached, since)'
    <3>1. \A i, j \in DOMAIN access_order : i < j => access_order[i] \in since'[access_order[j]]
      BY <2>3, <2>4 DEF Ordered
    <3> QED BY <2>1, <2>2, <3>1 DEF Ordered
  <2>6. L!RecentStay' /\ L!SizeBounded'
    BY <2>2, <2>3, <2>4 DEF L!RecentStay, L!SizeBounded
  <2> QED BY <1>0, <2>3, <2>5, <2>6
<1>3. CASE L!Clear
  <2>1. L!Cached' = {} /\ access_order' = <<>> /\ since' = [x \in LruKeys |-> LruKeys]
    BY <1>3 DEF L!Clear, L!Forgotten, L!Cached, LruUses
  <2>2. LruUses' /\ Ordered(access_order, L!Cached, since)' /\ L!RecentStay'
    BY <2>1 DEF LruUses, Ordered, L!RecentStay
  <2>3. L!SizeBounded'
    BY <2>1, FS_EmptySet, SizeSame, PurgesAssumption DEF L!SizeBounded
  <2> QED BY <1>0, <2>2, <2>3
<1>4. CASE L!CleanupExpired
  <2> DEFINE left == {x \in L!Cached : L!Live(x)}
  <2>1. /\ cache' = [k \in left |-> cache[k]] /\ UNCHANGED since
        /\ access_order' = L!Retain(access_order, left)
    BY <1>4 DEF L!CleanupExpired
  <2>2. L!Cached' = left /\ L!Cached \cap left = left /\ left \in SUBSET L!Cached
    BY <2>1 DEF L!Cached
  <2>3. \A x \in LruKeys : L!Live(x)' <=> L!Live(x)
    BY <2>1, <2>2 DEF L!Live
  <2> HIDE DEF left
  <2>4. Ordered(access_order, L!Cached, since)'
    BY <2>1, <2>2, RetainOrdered
  <2>5. L!RecentStay' /\ LruUses'
    BY <2>1, <2>3 DEF L!RecentStay, LruUses
  <2>6. IsFiniteSet(L!Cached) /\ Cardinality(L!Cached) <= MaxSize
    BY OrderedSize, SizeSame DEF L!SizeBounded
  <2>7. IsFiniteSet(left) /\ Cardinality(left) <= Cardinality(L!Cached)
    BY <2>2, <2>6, FS_Subset
  <2>8. Cardinality(left) \in Nat /\ Cardinality(L!Cached) \in Nat /\ MaxSize \in Nat
    BY <2>6, <2>7, FS_CardinalityType, PurgesAssumption
  <2>9. L!SizeBounded'
    BY <2>2, <2>6, <2>7, <2>8, SizeSame DEF L!SizeBounded
  <2> QED BY <1>0, <2>4, <2>5, <2>9
<1>5. CASE UNCHANGED L!vars
  BY <1>5 DEF L!vars, L!Cached, LruTypes, LruUses, L!SizeBounded, L!RecentStay, L!Live
<1> QED
  BY <1>1, <1>2, <1>3, <1>4, <1>5, LruInvInsert DEF L!Next

\* The LRU cache never holds more than its size, its order lists each cached key once, and a
\* key outlasts the use of as many others as the cache holds (LruHolds), for any keys and size.
THEOREM LruSafe == L!Spec => []LruHolds
<1>1. LruInv => LruHolds
  <2> SUFFICES ASSUME LruInv PROVE LruHolds
    OBVIOUS
  <2>1. Len(access_order) = L!Cardinality(L!Cached)
    BY OrderedSize, SizeSame DEF LruInv
  <2>2. L!TypeOK
    BY <2>1 DEF LruInv, LruTypes, LruUses, Ordered, L!TypeOK
  <2> QED BY <2>2 DEF LruInv, LruHolds
<1> QED BY <1>1, LruInvInit, LruInvStep, PTL DEF L!Spec

-----------------------------------------------------------------------------
\* The instance that the run explores behaves, part by part, as the modules do: so the
\* theorems about them hold of it.
THEOREM PartsRun ==
    PurgesSpec => Spec /\ P!Spec /\ L!Spec /\ S!Init /\ [][S!Next]_statsVars
<1>1. PurgesInit => Init /\ P!Init /\ L!Init /\ S!Init
  BY DEF PurgesInit
<1>2. ASSUME [PurgesNext]_<<part, vars, lockVars, lruVars, statsVars>>
      PROVE  [Next]_vars /\ [P!Next]_(P!vars) /\ [L!Next]_(L!vars) /\ [S!Next]_statsVars
  <2>1. (UNCHANGED lockVars => UNCHANGED P!vars) /\ (UNCHANGED lruVars => UNCHANGED L!vars)
    BY DEF lockVars, P!vars, lruVars, L!vars
  <2> QED BY <1>2, <2>1 DEF PurgesNext
<1> QED BY <1>1, <1>2, PTL DEF PurgesSpec, Spec, P!Spec, L!Spec

\* What the run checks of the purge, the statistics task and the LRU cache, for every
\* value of the constants.
COROLLARY PurgesSafe ==
    PurgesSpec => [](LockHolds /\ MaintenanceHolds /\ LruHolds) /\ ImplementsMap
BY PartsRun, LockSafe, MaintenanceSafe, LruSafe, CacheIsMap, PTL
=============================================================================
