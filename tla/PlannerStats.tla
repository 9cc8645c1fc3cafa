---------------------------- MODULE PlannerStats ----------------------------
(***************************************************************************)
(* The statistics task: every minute it looks whether the planner's        *)
(* statistics are stale and whether now is a moment for ANALYZE, and logs  *)
(* once that a refresh is put off.  A tick is that minute; the clock goes  *)
(* round once a day, ages stop one above the bound they are compared with. *)
(***************************************************************************)
EXTENDS Integers

CONSTANTS
    DayLength,   \* ticks of a day
    Night,       \* the ticks from 02:00 to 04:30
    MaxAge,      \* STATS_MAX_AGE in ticks
    LargeAt,     \* SMALL_DB_MAX_SPAN_ID; rows are counted up to it
    MaxFailures, \* statements that fail
    MaxStops,    \* ends of the process
    Never        \* the age of a record that is not there

VARIABLES
    clock, step,
    spans, others,      \* MAX(id) of spans, and the rows of logs and metrics
    quiet,              \* nothing came in within the last minute
    sqlite_stat1,       \* it has rows
    recorded,           \* ticks since last_analyze_unix_ns
    maintenance_active, deferred_logged,
    elapsed,            \* history: ticks since the last ANALYZE
    unrecorded,         \* history: the record of that ANALYZE was lost
    put_off,            \* history: a round left them stale since they were last fresh
    told,               \* history: messages since then
    silenced,           \* history: a failed check or a restart since then
    failures, stops

database == <<spans, others, quiet>>
history  == <<elapsed, unrecorded, put_off, told, silenced>>
bounds   == <<failures, stops>>
statsVars == <<clock, step, database, sqlite_stat1, recorded, maintenance_active,
               deferred_logged, history, bounds>>

Older(age) == IF age = Never \/ age > MaxAge THEN age ELSE age + 1

-----------------------------------------------------------------------------
\* A database of any age and size that a process has just opened.
Init ==
    /\ clock \in 0..(DayLength - 1) /\ step = "sleeping"
    /\ spans \in {0, LargeAt} /\ others = 0 /\ quiet = TRUE
    /\ sqlite_stat1 \in BOOLEAN
    /\ recorded \in IF sqlite_stat1 THEN {0, MaxAge + 1, Never} ELSE {Never}
    /\ maintenance_active = FALSE /\ deferred_logged = FALSE
    /\ elapsed = (IF recorded = 0 THEN 0 ELSE MaxAge + 1)
    /\ unrecorded = FALSE /\ put_off = FALSE /\ told = 0 /\ silenced = FALSE
    /\ failures = 0 /\ stops = 0

\* stats_are_stale, without the record it adopts.
Stale == IF recorded = Never THEN ~sqlite_stat1 ELSE recorded > MaxAge

\* is_small_database.
Small == spans < LargeAt

\* should_refresh_now_at of stale statistics.
MayRefresh == IF Small THEN quiet ELSE clock \in Night

-----------------------------------------------------------------------------
\* An export commits.  One that passed the gate before the flag was set does so too,
\* until ANALYZE has the write lock.
Ingest ==
    /\ step # "analyzed"
    /\ \/ spans < LargeAt  /\ spans' = spans + 1   /\ UNCHANGED others
       \/ others < LargeAt /\ others' = others + 1 /\ UNCHANGED spans
       \/ UNCHANGED <<spans, others>>
    /\ quiet' = FALSE
    /\ UNCHANGED <<clock, step, sqlite_stat1, recorded, maintenance_active, deferred_logged,
                   history, bounds>>

\* purge_all takes the newest created_at away with the rows.
PurgeAll ==
    /\ step # "analyzed"
    /\ spans' = 0 /\ others' = 0 /\ quiet' = TRUE
    /\ UNCHANGED <<clock, step, sqlite_stat1, recorded, maintenance_active, deferred_logged,
                   history, bounds>>

\* A minute of sleep or of ANALYZE.
Minute ==
    /\ step \in {"sleeping", "refreshing"}
    /\ clock' = (clock + 1) % DayLength
    /\ quiet' = TRUE
    /\ recorded' = Older(recorded) /\ elapsed' = Older(elapsed)
    /\ step' = IF step = "sleeping" THEN "checking" ELSE step
    /\ UNCHANGED <<spans, others, sqlite_stat1, maintenance_active, deferred_logged,
                   unrecorded, put_off, told, silenced, bounds>>

\* The end of a round whose statistics stay stale: "refresh is deferred", unless logged.
StaysStale ==
    /\ step' = "sleeping"
    /\ deferred_logged' = TRUE
    /\ told' = IF deferred_logged THEN told ELSE IF told = 2 THEN 2 ELSE told + 1
    /\ UNCHANGED <<elapsed, silenced>>

\* The end of a round that found or made them fresh.
IsFresh ==
    /\ step' = "sleeping"
    /\ deferred_logged' = FALSE
    /\ put_off' = FALSE /\ told' = 0 /\ silenced' = FALSE

\* The check finds statistics that are recorded as fresh, or unrecorded ones to adopt.
FindFresh ==
    /\ step = "checking" /\ ~Stale
    /\ recorded' = IF recorded = Never THEN 0 ELSE recorded
    /\ IsFresh
    /\ UNCHANGED <<clock, database, sqlite_stat1, maintenance_active, elapsed, unrecorded, bounds>>

\* Not now: the second stats_are_stale says so to the loop.
Defer ==
    /\ step = "checking" /\ Stale /\ ~MayRefresh
    /\ put_off' = TRUE
    /\ StaysStale
    /\ UNCHANGED <<clock, database, sqlite_stat1, recorded, maintenance_active, unrecorded, bounds>>

\* One of the reads fails, which counts as statistics that are not stale.
CheckFails ==
    /\ step = "checking" /\ failures < MaxFailures
    /\ failures' = failures + 1
    /\ step' = "sleeping" /\ deferred_logged' = FALSE
    /\ silenced' = TRUE
    /\ UNCHANGED <<clock, database, sqlite_stat1, recorded, maintenance_active, elapsed, unrecorded,
                   put_off, told, stops>>

Decide ==
    /\ step = "checking" /\ Stale /\ MayRefresh
    /\ step' = "refreshing" /\ maintenance_active' = TRUE
    /\ UNCHANGED <<clock, database, sqlite_stat1, recorded, deferred_logged, history, bounds>>

\* ANALYZE of maybe_refresh_planner_stats.
Analyze ==
    /\ step = "refreshing"
    /\ step' = "analyzed"
    /\ sqlite_stat1' \in (IF spans + others = 0 THEN BOOLEAN ELSE {TRUE})
    /\ elapsed' = 0 /\ unrecorded' = FALSE
    /\ UNCHANGED <<clock, database, recorded, maintenance_active, deferred_logged, put_off, told,
                   silenced, bounds>>

\* Its record, a statement of its own.
Record ==
    /\ step = "analyzed"
    /\ recorded' = 0
    /\ maintenance_active' = FALSE
    /\ IsFresh
    /\ UNCHANGED <<clock, database, sqlite_stat1, elapsed, unrecorded, bounds>>

\* ANALYZE or its record fails: the flag is cleared and the statistics stay stale.
RefreshFails ==
    /\ step \in {"refreshing", "analyzed"} /\ failures < MaxFailures
    /\ failures' = failures + 1
    /\ maintenance_active' = FALSE
    /\ unrecorded' = (step = "analyzed" \/ unrecorded)
    /\ put_off' = TRUE
    /\ StaysStale
    /\ UNCHANGED <<clock, database, sqlite_stat1, recorded, stops>>

\* The process ends anywhere and is started again.
Restart ==
    /\ stops < MaxStops
    /\ stops' = stops + 1
    /\ step' = "sleeping"
    /\ maintenance_active' = FALSE /\ deferred_logged' = FALSE
    /\ unrecorded' = (step = "analyzed" \/ unrecorded) /\ silenced' = TRUE
    /\ UNCHANGED <<clock, database, sqlite_stat1, recorded, elapsed, put_off, told, failures>>

Round == FindFresh \/ Defer \/ CheckFails \/ Decide \/ Analyze \/ Record \/ RefreshFails

Next == Ingest \/ PurgeAll \/ Minute \/ Round \/ Restart

\* The clock goes on, and the blocking pool runs the task of a round to its end.
Fairness == WF_statsVars(Minute) /\ WF_statsVars(Round)

-----------------------------------------------------------------------------
TypeOK ==
    /\ clock \in 0..(DayLength - 1)
    /\ step \in {"sleeping", "checking", "refreshing", "analyzed"}
    /\ spans \in 0..LargeAt /\ others \in 0..LargeAt
    /\ quiet \in BOOLEAN /\ sqlite_stat1 \in BOOLEAN
    /\ recorded \in 0..(MaxAge + 1) \cup {Never} /\ elapsed \in 0..(MaxAge + 1)
    /\ maintenance_active \in BOOLEAN /\ deferred_logged \in BOOLEAN
    /\ unrecorded \in BOOLEAN /\ put_off \in BOOLEAN /\ silenced \in BOOLEAN
    /\ told \in 0..2 /\ failures \in 0..MaxFailures /\ stops \in 0..MaxStops

\* No end of a round, failed or cut off, leaves the flag set that refuses every write.
FlagEndsWithRefresh == maintenance_active <=> step \in {"refreshing", "analyzed"}

\* ANALYZE is not decided on again within its age, unless the record of the last was lost.
NotTwiceWithinAge == step = "refreshing" /\ ~unrecorded => elapsed > MaxAge

\* A refresh that is put off is logged, and once in a stale period unless a check failed or
\* the process restarted in it.
DeferralLoggedOnce ==
    put_off => told >= 1 /\ (~silenced => told <= 1)

\* The statistics of a large database are refreshed by the next night, however busy it is.
NightlyRefresh == Stale /\ ~Small ~> ~Stale \/ Small

\* "log once per stale period, not once per 60-s tick" (mod.rs): a failed check forgets it.
OncePerStalePeriod == told <= 1

\* "Below this threshold ANALYZE completes in well under a second" (stats.rs): the
\* threshold counts spans alone.
QuickOutsideNight == [][Decide /\ clock \notin Night => spans + others < LargeAt]_statsVars

\* "silently degrading planner choices" was to end (stats.rs): every database is refreshed.
BusyOnesToo == Stale ~> ~Stale
=============================================================================
