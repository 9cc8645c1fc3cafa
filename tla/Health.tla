------------------------------- MODULE Health -------------------------------
(***************************************************************************)
(* The write-path health of otelite-receiver: every export handler, gRPC   *)
(* or HTTP, records the outcome of its write in one shared HealthChecker.  *)
(* The streak counter and the degraded flag are two atomics: an update of  *)
(* both is two steps, and the handlers run concurrently.                   *)
(***************************************************************************)
EXTENDS Integers, FiniteSets

CONSTANTS
    Handlers,     \* export handlers that may be recording at the same time
    Threshold,    \* WRITE_FAILURE_THRESHOLD
    MaxFailures   \* bound on the streak; the code's u32 does not get near its limit

ASSUME HealthAssumption ==
    /\ Threshold \in Nat \ {0}
    /\ MaxFailures \in Nat

\* What SQLite reports, and the statement that reports it.
Causes == {"disk_full", "corrupt", "read_only", "busy", "other"}
Phases == {"begin", "statement", "commit"}

\* StorageError::is_persistent of the error the write returns: a failing row
\* statement is classified by its result code, a failing BEGIN or COMMIT is
\* wrapped into a WriteError whatever its code.
Persistent(phase, cause) ==
    phase = "statement" /\ cause \in {"disk_full", "corrupt", "read_only"}

VARIABLES
    consecutive_persistent_failures,
    degraded,
    pc,           \* handler -> "idle", or the store it still has to make
    overlapped,   \* history: a success and a failure were recorded at the same time, and
                  \* no update that stores the flag has begun alone since then
    full_streak   \* history: exports in a row that failed on a full disk

vars == <<consecutive_persistent_failures, degraded, pc, overlapped, full_streak>>

Pending(label) == \E h \in Handlers : pc[h] = label
Quiet          == \A h \in Handlers : pc[h] = "idle"

-----------------------------------------------------------------------------
Init ==
    /\ consecutive_persistent_failures = 0
    /\ degraded = FALSE
    /\ pc = [h \in Handlers |-> "idle"]
    /\ overlapped = FALSE
    /\ full_streak = 0

\* Mutant: the streak is cleared, the flag is not.
SwapStreakOnly(h) ==
    /\ pc[h] = "idle"
    /\ consecutive_persistent_failures' = 0
    /\ overlapped' = (/\ overlapped \/ Pending("store_true")
                      /\ ~(Quiet /\ consecutive_persistent_failures # 0))
    /\ full_streak' = 0
    /\ UNCHANGED <<degraded, pc>>

\* record_write_success after a committed export: the swap.
Swap(h) ==
    /\ pc[h] = "idle"
    /\ consecutive_persistent_failures' = 0
    /\ pc' = [pc EXCEPT ![h] = IF consecutive_persistent_failures # 0 THEN "store_false" ELSE "idle"]
    /\ overlapped' = (/\ overlapped \/ Pending("store_true")
                      /\ ~(Quiet /\ consecutive_persistent_failures # 0))
    /\ full_streak' = 0
    /\ UNCHANGED degraded

\* record_write_success: the store, when the swapped value was not zero.
StoreFalse(h) ==
    /\ pc[h] = "store_false"
    /\ degraded' = FALSE
    /\ pc' = [pc EXCEPT ![h] = "idle"]
    /\ UNCHANGED <<consecutive_persistent_failures, overlapped, full_streak>>

FullStreakAfter(cause) ==
    IF cause # "disk_full" THEN full_streak
    ELSE IF full_streak < Threshold THEN full_streak + 1 ELSE Threshold

\* record_write_failure(true): the fetch_add.
FetchAdd(h, phase, cause) ==
    /\ pc[h] = "idle"
    /\ Persistent(phase, cause)
    /\ consecutive_persistent_failures < MaxFailures
    /\ consecutive_persistent_failures' = consecutive_persistent_failures + 1
    /\ pc' = [pc EXCEPT ![h] =
                IF consecutive_persistent_failures + 1 = Threshold THEN "store_true" ELSE "idle"]
    /\ overlapped' = (/\ overlapped \/ Pending("store_false")
                      /\ ~(Quiet /\ consecutive_persistent_failures + 1 = Threshold))
    /\ full_streak' = FullStreakAfter(cause)
    /\ UNCHANGED degraded

\* record_write_failure(true): the store, by the failure that reached the threshold.
StoreTrue(h) ==
    /\ pc[h] = "store_true"
    /\ degraded' = TRUE
    /\ pc' = [pc EXCEPT ![h] = "idle"]
    /\ UNCHANGED <<consecutive_persistent_failures, overlapped, full_streak>>

\* record_write_failure(false) returns at once.
IgnoreTransient(h, phase, cause) ==
    /\ pc[h] = "idle"
    /\ ~Persistent(phase, cause)
    /\ full_streak' = FullStreakAfter(cause)
    /\ UNCHANGED <<consecutive_persistent_failures, degraded, pc, overlapped>>

Next ==
    \E h \in Handlers :
        \/ Swap(h)
        \/ StoreFalse(h)
        \/ \E phase \in Phases, cause \in Causes : FetchAdd(h, phase, cause)
        \/ StoreTrue(h)
        \/ \E phase \in Phases, cause \in Causes : IgnoreTransient(h, phase, cause)

Spec == Init /\ [][Next]_vars

-----------------------------------------------------------------------------
\* Types.
TypeOK ==
    /\ consecutive_persistent_failures \in 0..MaxFailures
    /\ degraded \in BOOLEAN
    /\ pc \in [Handlers -> {"idle", "store_false", "store_true"}]
    /\ overlapped \in BOOLEAN
    /\ full_streak \in 0..Threshold

\* However many handlers record at once, the flag follows the streak: whenever no update
\* is under way /health is degraded exactly when the streak has reached the threshold. A
\* success recorded inside a failure's update, or the other way round, can part the two,
\* but no longer than until the next update that stores the flag overlaps no other.
AgreesUnlessOverlapped ==
    ~overlapped /\ Quiet =>
        (degraded <=> consecutive_persistent_failures >= Threshold)

\* "clears the failure streak and re-arms /health as healthy" (health.rs): with
\* no streak and no update under way, /health is not degraded.
RearmedWhenQuiet ==
    Quiet /\ consecutive_persistent_failures = 0 => ~degraded

\* "sustained persistent failure must flip /health unhealthy" (health.rs): with
\* the streak at or over the threshold and no update under way, it is degraded.
DegradedWhenSustained ==
    Quiet /\ consecutive_persistent_failures >= Threshold => degraded

\* "flips /health unhealthy on sustained failures of exactly those" (writer.rs,
\* of disk-full errors): a threshold of exports in a row on a full disk degrades.
FullDiskDegrades ==
    Quiet /\ full_streak >= Threshold => degraded
=============================================================================
