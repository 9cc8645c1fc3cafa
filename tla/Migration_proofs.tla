--------------------------- MODULE Migration_proofs ---------------------------
(***************************************************************************)
(* Proofs about initialize_schema: for any number of processes that start, *)
(* stop and write beside each other, any spans and any number of logs,     *)
(* search finds every stored log, an orphan is left only by a repair that  *)
(* was cut short, and every process that is through finds a database that  *)
(* is migrated and rollups that count each row once.                       *)
(***************************************************************************)
EXTENDS Migration, TLAPS

Labels == {"down", "ready"} \cup Starting

Types ==
    /\ logs \subseteq 1..MaxLogs /\ fts \subseteq 1..MaxLogs
    /\ next_log \in 1..(MaxLogs + 1)
    /\ trigger \in [{"insert", "delete", "update"} -> {Absent, "broken", "ok"}]
    /\ spans \subseteq SpanRow
    /\ user_version \in {0, 2, 3, 4}
    /\ pc \in [Processes -> Labels]
    /\ seen_version \in [Processes -> {0, 2, 3, 4}]
    /\ stops \in 0..MaxStops

Flags ==
    /\ unique_identity \in BOOLEAN /\ armed \in BOOLEAN /\ legacy \in BOOLEAN /\ cut \in BOOLEAN
    /\ broken \in [Processes -> BOOLEAN]

\* A version, stored or read, promises what its block did; so does having run the block.
\* Nothing takes the index or the triggers away again.
Schema ==
    /\ user_version >= 2 => unique_identity
    /\ user_version = 4 => armed
    /\ \A p \in Processes :
          /\ seen_version[p] >= 2 \/ pc[p] \in {"v3", "v4", "ready"} => unique_identity
          /\ seen_version[p] = 4 \/ pc[p] = "ready" => armed
    /\ armed => unique_identity

\* Under the index a span has one row.
OneRow == unique_identity => \A row, other \in spans : row[1] = other[1] => row = other

\* Unarmed rollups count nothing, armed ones each row once.
Counts == counted = [row \in SpanRow |-> IF armed /\ row \in spans THEN 1 ELSE 0]

\* Whoever writes, a process that is through or one of the previous build, writes under
\* the insert trigger, which no repair drops.
Indexed ==
    /\ SearchFindsEveryLog
    /\ trigger["insert"] # "broken"
    /\ legacy => trigger["insert"] = "ok"
    /\ \A p \in Processes :
          pc[p] \in {"create_delete", "create_update", "rebuild", "ready"} \cup Blocks =>
              trigger["insert"] = "ok"

\* p found a pre-fix trigger and has not rebuilt the index yet.
Pending(p) == broken[p] /\ pc[p] \in Repairing

\* A new database nobody has written to.
NewYet ==
    /\ trigger["delete"] = Absent /\ fts = {} /\ logs = {} /\ ~legacy
    /\ \A p \in Processes : pc[p] \in {"down", "look", "create_insert", "create_delete"}

\* Orphans are there before the repair, while one is pending that ends in a rebuild, or
\* after one that was cut short.  The delete trigger is missing while a pending repair is
\* between its DROP and its CREATE.
Repair ==
    /\ trigger["delete"] = "broken" =>
          \A p \in Processes : pc[p] \in {"down", "look", "drop_delete"}
    /\ \A p \in Processes : pc[p] \in {"drop_delete", "drop_update", "rebuild"} => broken[p]
    /\ trigger["delete"] = Absent /\ ~NewYet /\ ~cut =>
          \E p \in Processes : broken[p] /\ pc[p] \in {"drop_update", "create_insert", "create_delete"}
    /\ trigger["delete"] # "broken" /\ ~NewYet /\ ~cut /\ (\A p \in Processes : ~Pending(p)) =>
          fts \subseteq logs

MigrationInv == Types /\ Flags /\ Schema /\ OneRow /\ Counts /\ Indexed /\ Repair
-----------------------------------------------------------------------------
LEMMA MigrationInit == Init => MigrationInv
<1> SUFFICES ASSUME Init PROVE MigrationInv
  OBVIOUS
<1> USE MigrationAssumption
<1>1. /\ trigger["insert"] \in {Absent, "ok"} /\ trigger["delete"] \in {Absent, "broken", "ok"}
      /\ trigger \in [{"insert", "delete", "update"} -> {Absent, "broken", "ok"}]
  BY DEF Init, Fresh, Upgraded
<1>2. \A row \in spans : row \in SpanRow
  BY DEF Init, Fresh, Upgraded, FirstOf, SpanRow, Copies
<1>3. Types
  BY <1>1, <1>2 DEF Init, Fresh, Upgraded, Types, Labels
<1>4. Flags
  <2>1. CASE Fresh
    BY <2>1 DEF Init, Fresh, Flags
  <2>2. CASE Upgraded
    <3>1. legacy \in BOOLEAN /\ cut = FALSE /\ broken = [p \in Processes |-> FALSE]
      BY <2>2, Zenon DEF Upgraded, Init
    <3>2. unique_identity = (user_version >= 2) /\ armed = (user_version = 4)
      BY <2>2, Zenon DEF Upgraded
    <3>3. unique_identity \in BOOLEAN /\ armed \in BOOLEAN
      BY <3>2
    <3> QED BY <3>1, <3>3 DEF Flags
  <2> QED BY <2>1, <2>2 DEF Init
<1>5. Schema
  <2>1. CASE Fresh
    BY <2>1 DEF Init, Fresh, Schema
  <2>2. CASE Upgraded
    <3>1. /\ user_version \in {0, 2, 3, 4}
          /\ unique_identity <=> user_version >= 2
          /\ armed <=> user_version = 4
      BY <2>2, Zenon DEF Upgraded
    <3>2. \A p \in Processes : seen_version[p] = 0 /\ pc[p] = "down"
      BY DEF Init
    <3> QED BY <3>1, <3>2 DEF Schema
  <2> QED BY <2>1, <2>2 DEF Init
<1>6. OneRow
  <2>1. CASE Fresh
    BY <2>1 DEF Fresh, OneRow
  <2>2. CASE Upgraded
    <3>1. \/ spans = {}
          \/ \E s \in Spans : spans = {FirstOf(s)}
          \/ user_version < 2
      BY <2>2 DEF Upgraded
    <3>2. user_version \in {0, 2, 3, 4} /\ (unique_identity => user_version >= 2)
      BY <2>2, Zenon DEF Upgraded
    <3> QED BY <3>1, <3>2 DEF OneRow, FirstOf
  <2> QED BY <2>1, <2>2 DEF Init
<1>7. Counts
  BY DEF Init, Fresh, Upgraded, Counts
<1>8. Indexed
  BY <1>1 DEF Init, Fresh, Upgraded, Indexed, SearchFindsEveryLog, Blocks, Absent
<1>9. Repair
  BY <1>1 DEF Init, Fresh, Upgraded, Repair, NewYet, Absent
<1> QED BY <1>3, <1>4, <1>5, <1>6, <1>7, <1>8, <1>9 DEF MigrationInv

LEMMA TypesStep == Types /\ Flags /\ [Next]_vars => Types'
<1> SUFFICES ASSUME Types, Flags, [Next]_vars PROVE Types'
  OBVIOUS
<1> USE MigrationAssumption
        DEF Types, Goto, data, ddl, local, Labels, Starting, Repairing, Blocks
<1>1. ASSUME NEW p \in Processes, Start(p) \/ Look(p) PROVE Types'
  BY <1>1 DEF Start, Look
<1>2. ASSUME NEW p \in Processes, NEW t \in {"delete", "update"},
             NEW next \in {"drop_update", "create_insert"}, Drop(p, t, next)
      PROVE  Types'
  BY <1>2 DEF Drop
<1>3. ASSUME NEW p \in Processes, NEW t \in {"insert", "delete", "update"},
             NEW next \in {"create_delete", "create_update", "rebuild", "read_version"},
             Create(p, t, next)
      PROVE  Types'
  BY <1>3 DEF Create
<1>4. ASSUME NEW p \in Processes, Rebuild(p) \/ ReadVersion(p) PROVE Types'
  BY <1>4 DEF Rebuild, ReadVersion
<1>5. ASSUME NEW p \in Processes, V2(p) \/ V3(p) \/ V4(p) PROVE Types'
  BY <1>5 DEF V2, V3, V4
<1>6. ASSUME NEW p \in Processes, Stop(p) PROVE Types'
  BY <1>6 DEF Stop
<1>7. ASSUME LegacyExits \/ UNCHANGED vars PROVE Types'
  BY <1>7 DEF LegacyExits, vars
<1>8. ASSUME WriteLog \/ \E id \in 1..MaxLogs : PurgeLog(id) PROVE Types'
  <2>1. CASE WriteLog
    <3>1. next_log \in 1..MaxLogs /\ logs' = logs \cup {next_log} /\ next_log' = next_log + 1
      BY <2>1 DEF WriteLog
    <3>2. logs' \subseteq 1..MaxLogs /\ next_log' \in 1..(MaxLogs + 1)
      BY <3>1
    <3>3. fts' \subseteq 1..MaxLogs
      BY <2>1, <3>1 DEF WriteLog
    <3> QED BY <2>1, <3>2, <3>3 DEF WriteLog
  <2>2. CASE \E id \in 1..MaxLogs : PurgeLog(id)
    BY <2>2 DEF PurgeLog
  <2> QED BY <1>8, <2>1, <2>2
<1>9. ASSUME NEW row \in SpanRow, WriteSpan(row) \/ PurgeSpan(row) PROVE Types'
  BY <1>9 DEF WriteSpan, PurgeSpan
<1>10. \A p \in Processes : AfterCreate(p) \in {"rebuild", "read_version"}
  BY DEF AfterCreate
<1> QED
  BY <1>1, <1>2, <1>3, <1>4, <1>5, <1>6, <1>7, <1>8, <1>9, <1>10 DEF Next, Initialize

LEMMA FlagsStep == Flags /\ [Next]_vars => Flags'
<1> SUFFICES ASSUME Flags, [Next]_vars PROVE Flags'
  OBVIOUS
<1> USE DEF Flags, data, ddl, local
<1>1. ASSUME NEW p \in Processes, Start(p) PROVE Flags'
  BY Zenon, <1>1 DEF Start
<1>2. ASSUME NEW p \in Processes, Look(p) PROVE Flags'
  BY <1>2 DEF Look
<1>3. ASSUME NEW p \in Processes, NEW t, NEW next, Drop(p, t, next) \/ Create(p, t, next)
      PROVE  Flags'
  BY Zenon, <1>3 DEF Drop, Create
<1>4. ASSUME NEW p \in Processes, Rebuild(p) \/ ReadVersion(p) PROVE Flags'
  BY Zenon, <1>4 DEF Rebuild, ReadVersion
<1>5. ASSUME NEW p \in Processes, V2(p) \/ V3(p) \/ V4(p) PROVE Flags'
  BY Zenon, <1>5 DEF V2, V3, V4
<1>6. ASSUME NEW p \in Processes, Stop(p) PROVE Flags'
  BY Zenon, <1>6 DEF Stop
<1>7. ASSUME LegacyExits \/ UNCHANGED vars PROVE Flags'
  BY Zenon, <1>7 DEF LegacyExits, vars
<1>8. ASSUME WriteLog \/ \E id \in 1..MaxLogs : PurgeLog(id) PROVE Flags'
  BY Zenon, <1>8 DEF WriteLog, PurgeLog
<1>9. ASSUME NEW row \in SpanRow, WriteSpan(row) \/ PurgeSpan(row) PROVE Flags'
  BY Zenon, <1>9 DEF WriteSpan, PurgeSpan
<1> QED
  BY <1>1, <1>2, <1>3, <1>4, <1>5, <1>6, <1>7, <1>8, <1>9 DEF Next, Initialize

\* A step of a start that touches neither the blocks' results nor spans.
LEMMA BlocksUntouched ==
    ASSUME Schema, OneRow, Counts,
           UNCHANGED <<spans, counted, unique_identity, armed, user_version>>
    PROVE  /\ OneRow' /\ Counts'
           /\ (\A p \in Processes : /\ seen_version'[p] \in {seen_version[p], user_version}
                                    /\ pc'[p] = pc[p] \/ pc'[p] \notin {"v3", "v4", "ready"})
              => Schema'
BY DEF Schema, OneRow, Counts

\* The blocks' part of the invariant, step by step.  Only the blocks write the schema, and
\* only they and the writers of spans touch rows and counts.
LEMMA BlocksStep ==
    Types /\ Schema /\ OneRow /\ Counts /\ [Next]_vars => Schema' /\ OneRow' /\ Counts'
<1> SUFFICES ASSUME Types, Schema, OneRow, Counts, [Next]_vars
             PROVE  Schema' /\ OneRow' /\ Counts'
  OBVIOUS
<1> USE DEF data, ddl, local, Goto
<1>1. ASSUME NEW p \in Processes,
             \/ Start(p) \/ Look(p) \/ Rebuild(p) \/ ReadVersion(p) \/ Stop(p)
             \/ \E t \in {"delete", "update"}, next \in {"drop_update", "create_insert"} :
                   Drop(p, t, next)
             \/ \E t \in {"insert", "delete", "update"},
                   next \in {"create_delete", "create_update", AfterCreate(p)} :
                   Create(p, t, next)
      PROVE  Schema' /\ OneRow' /\ Counts'
  <2>1. UNCHANGED <<spans, counted, unique_identity, armed, user_version>>
    BY <1>1 DEF Start, Look, Rebuild, ReadVersion, Stop, Drop, Create
  <2>2. \A q \in Processes : /\ seen_version'[q] \in {seen_version[q], user_version}
                             /\ pc'[q] = pc[q] \/ pc'[q] \notin {"v3", "v4", "ready"}
    BY <1>1 DEF Types, Start, Look, Rebuild, ReadVersion, Stop, Drop, Create, AfterCreate
  <2> QED BY <2>1, <2>2, BlocksUntouched
<1>2. ASSUME LegacyExits \/ WriteLog \/ (\E id \in 1..MaxLogs : PurgeLog(id)) \/ UNCHANGED vars
      PROVE  Schema' /\ OneRow' /\ Counts'
  <2>1. UNCHANGED <<spans, counted, unique_identity, armed, user_version, pc, seen_version>>
    BY <1>2 DEF LegacyExits, WriteLog, PurgeLog, vars
  <2> QED BY <2>1, BlocksUntouched
<1>3. ASSUME NEW p \in Processes, V2(p) PROVE Schema' /\ OneRow' /\ Counts'
  <2>1. CASE seen_version[p] < 2
    <3>1. /\ pc[p] = "v2" /\ pc' = [pc EXCEPT ![p] = "v3"] /\ UNCHANGED <<armed, seen_version>>
          /\ spans' = spans \ Duplicates(spans) /\ counted' = CountedWithout(Duplicates(spans))
          /\ unique_identity' = TRUE /\ user_version' = 2
      BY <1>3, <2>1 DEF V2
    <3>2. Schema'
      BY <3>1 DEF Schema, Types
    <3>3. ASSUME NEW row \in spans', NEW other \in spans', row[1] = other[1] PROVE row = other
      <4>1. row \in spans /\ other \in spans /\ row[2] \in 1..2 /\ other[2] \in 1..2
            /\ row = <<row[1], row[2]>> /\ other = <<other[1], other[2]>>
        BY <3>1, <3>3 DEF Types, SpanRow, Copies
      <4> QED BY <3>1, <3>3, <4>1 DEF Duplicates, FirstOf
    <3>4. OneRow'
      BY <3>3 DEF OneRow
    <3>5. Counts'
      BY <3>1 DEF Counts, CountedWithout, Duplicates
    <3> QED BY <3>2, <3>4, <3>5
  <2>2. CASE ~(seen_version[p] < 2)
    <3>1. /\ pc' = [pc EXCEPT ![p] = "v3"] /\ seen_version[p] >= 2
          /\ UNCHANGED <<spans, counted, unique_identity, user_version, armed, seen_version>>
      BY <1>3, <2>2 DEF V2, Types
    <3> QED BY <3>1 DEF Schema, OneRow, Counts, Types
  <2> QED BY <2>1, <2>2
<1>4. ASSUME NEW p \in Processes, V3(p) PROVE Schema' /\ OneRow' /\ Counts'
  <2>1. /\ pc[p] = "v3" /\ pc' = [pc EXCEPT ![p] = "v4"]
        /\ user_version' \in {user_version, 3}
        /\ UNCHANGED <<spans, counted, unique_identity, armed, seen_version>>
    BY <1>4 DEF V3
  <2> QED BY <2>1 DEF Schema, OneRow, Counts, Types
<1>5. ASSUME NEW p \in Processes, V4(p) PROVE Schema' /\ OneRow' /\ Counts'
  <2>1. /\ pc[p] = "v4" /\ pc' = [pc EXCEPT ![p] = "ready"] /\ unique_identity
        /\ UNCHANGED <<spans, unique_identity, seen_version>>
    BY <1>5 DEF V4, Schema
  <2>2. CASE seen_version[p] < 4
    <3>1. counted' = Backfill /\ armed' = TRUE /\ user_version' = 4
      BY <1>5, <2>2 DEF V4
    <3>2. Counts'
      BY <2>1, <3>1 DEF Counts, Backfill
    <3> QED BY <2>1, <3>1, <3>2 DEF Schema, OneRow, Types
  <2>3. CASE ~(seen_version[p] < 4)
    <3>1. UNCHANGED <<counted, armed, user_version>> /\ seen_version[p] = 4
      BY <1>5, <2>3 DEF V4, Types
    <3> QED BY <2>1, <3>1 DEF Schema, OneRow, Counts, Types
  <2> QED BY <2>2, <2>3
<1>6. ASSUME NEW row \in SpanRow, WriteSpan(row) PROVE Schema' /\ OneRow' /\ Counts'
  <2>1. /\ row \notin spans /\ spans' = spans \cup {row}
        /\ unique_identity => \A other \in spans : other[1] # row[1]
        /\ counted' = [counted EXCEPT ![row] = IF armed THEN @ + 1 ELSE @]
        /\ UNCHANGED <<unique_identity, armed, user_version, pc, seen_version>>
    BY <1>6 DEF WriteSpan
  <2>2. Counts'
    BY <2>1 DEF Counts
  <2> QED BY <2>1, <2>2 DEF Schema, OneRow
<1>7. ASSUME NEW row \in SpanRow, PurgeSpan(row) PROVE Schema' /\ OneRow' /\ Counts'
  <2>1. /\ row \in spans /\ spans' = spans \ {row} /\ counted' = CountedWithout({row})
        /\ UNCHANGED <<unique_identity, armed, user_version, pc, seen_version>>
    BY <1>7 DEF PurgeSpan
  <2>2. Counts'
    BY <2>1 DEF Counts, CountedWithout
  <2> QED BY <2>1, <2>2 DEF Schema, OneRow
<1> QED
  BY <1>1, <1>2, <1>3, <1>4, <1>5, <1>6, <1>7 DEF Next, Initialize

\* The insert trigger: created before the first block, dropped by nobody.
LEMMA IndexedStep == Types /\ Indexed /\ [Next]_vars => Indexed'
<1> SUFFICES ASSUME Types, Indexed, [Next]_vars PROVE Indexed'
  OBVIOUS
<1> USE DEF Indexed, SearchFindsEveryLog, data, ddl, local, Goto, Blocks, Absent
<1>1. ASSUME NEW p \in Processes, Start(p) \/ Look(p) \/ Stop(p) PROVE Indexed'
  <2>1. \E label \in {"down", "look", "drop_delete", "create_insert"} :
           pc' = [pc EXCEPT ![p] = label]
    BY <1>1 DEF Start, Look, Stop
  <2>2. UNCHANGED <<logs, fts, legacy, trigger>>
    BY <1>1 DEF Start, Look, Stop
  <2> QED BY <2>1, <2>2 DEF Types
<1>2. ASSUME NEW p \in Processes, NEW t \in {"delete", "update"},
             NEW next \in {"drop_update", "create_insert"}, Drop(p, t, next)
      PROVE  Indexed'
  BY <1>2 DEF Drop, Types
<1>3. ASSUME NEW p \in Processes, Create(p, "insert", "create_delete") PROVE Indexed'
  <2>1. /\ trigger' = [trigger EXCEPT !["insert"] = IF @ = Absent THEN "ok" ELSE @]
        /\ pc' = [pc EXCEPT ![p] = "create_delete"] /\ UNCHANGED <<logs, fts, legacy>>
    BY <1>3 DEF Create
  <2>2. trigger'["insert"] = "ok"
    BY <2>1 DEF Types
  <2> QED BY <2>1, <2>2
<1>4. ASSUME NEW p \in Processes, NEW t \in {"delete", "update"},
             NEW next \in {"create_update", AfterCreate(p)}, Create(p, t, next)
      PROVE  Indexed'
  <2>1. /\ pc[p] \in {"create_delete", "create_update"}
        /\ next \in {"create_update", "rebuild", "read_version"}
        /\ pc' = [pc EXCEPT ![p] = next] /\ UNCHANGED <<logs, fts, legacy>>
    BY <1>4 DEF Create, CreateAt, AfterCreate
  <2>2. trigger'["insert"] = trigger["insert"]
    BY <1>4 DEF Create, Types
  <2> QED BY <2>1, <2>2 DEF Types
<1>5. ASSUME NEW p \in Processes, Rebuild(p) \/ ReadVersion(p) PROVE Indexed'
  BY <1>5 DEF Rebuild, ReadVersion, Types
<1>6. ASSUME NEW p \in Processes, V2(p) \/ V3(p) \/ V4(p) PROVE Indexed'
  <2>1. /\ pc[p] \in Blocks /\ \E label \in {"v3", "v4", "ready"} : pc' = [pc EXCEPT ![p] = label]
        /\ UNCHANGED <<trigger, logs, fts, legacy>>
    BY <1>6 DEF V2, V3, V4
  <2> QED BY <2>1 DEF Types
<1>7. CASE LegacyExits \/ UNCHANGED vars
  BY <1>7 DEF LegacyExits, vars
<1>8. CASE WriteLog
  <2>1. trigger["insert"] = "ok"
    BY <1>8 DEF WriteLog, Writing, Ready
  <2> QED BY <1>8, <2>1 DEF WriteLog
<1>9. ASSUME NEW id \in 1..MaxLogs, PurgeLog(id) PROVE Indexed'
  BY <1>9 DEF PurgeLog
<1>10. ASSUME NEW row \in SpanRow, WriteSpan(row) \/ PurgeSpan(row) PROVE Indexed'
  BY <1>10 DEF WriteSpan, PurgeSpan
<1> QED
  BY <1>1, <1>2, <1>3, <1>4, <1>5, <1>6, <1>7, <1>8, <1>9, <1>10 DEF Next, Initialize

\* A step that leaves the index and the delete trigger alone, in which at most one process
\* moves, by a step that neither begins nor ends its repair.
LEMMA RepairUntouched ==
    ASSUME Types, Repair, NEW p \in Processes, NEW label \in Labels,
           pc' = [pc EXCEPT ![p] = label], broken'[p] = broken[p],
           \A q \in Processes : q # p => broken'[q] = broken[q],
           trigger'["delete"] = trigger["delete"], UNCHANGED <<logs, fts, legacy, cut>>,
           trigger["delete"] = "broken" => label \in {"down", "look", "drop_delete"},
           label \in {"drop_delete", "drop_update", "rebuild"} => broken[p],
           pc[p] \in {"down", "look", "create_insert", "create_delete"} =>
               label \in {"down", "look", "create_insert", "create_delete"},
           broken[p] /\ pc[p] \in {"drop_update", "create_insert", "create_delete"} =>
               label \in {"drop_update", "create_insert", "create_delete"},
           Pending(p) => label \in Repairing
    PROVE  Repair'
<1>1. NewYet => NewYet'
  BY DEF NewYet, Types
<1>2. \A q \in Processes : Pending(q) => Pending(q)'
  BY DEF Pending, Types
<1> QED BY <1>1, <1>2 DEF Repair, Types

\* The delete trigger and the rebuild: what one repair drops and owes, another may find.
LEMMA RepairStep == Types /\ Flags /\ Repair /\ [Next]_vars => Repair'
<1> SUFFICES ASSUME Types, Flags, Repair, [Next]_vars PROVE Repair'
  OBVIOUS
<1> USE DEF data, ddl, local, Goto, Absent
<1>1. ASSUME NEW p \in Processes, Start(p) PROVE Repair'
  BY <1>1 DEF Start, Types, Flags, Repair, NewYet, Pending, Repairing
<1>2. ASSUME NEW p \in Processes, Look(p) PROVE Repair'
  <2>1. CASE trigger["delete"] = "broken"
    BY <1>2, <2>1 DEF Look, Types, Flags, Repair
  <2>2. CASE trigger["delete"] # "broken"
    <3>1. /\ pc[p] = "look" /\ pc' = [pc EXCEPT ![p] = "create_insert"]
          /\ broken' = [broken EXCEPT ![p] = FALSE]
          /\ UNCHANGED <<trigger, logs, fts, legacy, cut>>
      BY <1>2, <2>2 DEF Look
    <3>2. NewYet <=> NewYet'
      BY <3>1 DEF NewYet, Types
    <3>3. \A q \in Processes : Pending(q) => Pending(q)'
      BY <3>1 DEF Pending, Repairing, Types, Flags
    <3> QED BY <2>2, <3>1, <3>2, <3>3 DEF Repair, Types, Flags
  <2> QED BY <2>1, <2>2
<1>3. ASSUME NEW p \in Processes, Drop(p, "delete", "drop_update") PROVE Repair'
  <2>1. /\ pc[p] = "drop_delete" /\ pc' = [pc EXCEPT ![p] = "drop_update"] /\ broken[p]
        /\ trigger'["delete"] = Absent /\ UNCHANGED broken
    BY <1>3 DEF Drop, DropAt, Types, Repair
  <2>2. Pending(p)'
    BY <2>1 DEF Pending, Repairing, Types
  <2> QED BY <2>1, <2>2 DEF Repair, Types
<1>4. ASSUME NEW p \in Processes, Drop(p, "update", "create_insert") PROVE Repair'
  <2>1. /\ pc[p] = "drop_update" /\ pc' = [pc EXCEPT ![p] = "create_insert"]
        /\ trigger'["delete"] = trigger["delete"] /\ UNCHANGED <<broken, logs, fts, legacy, cut>>
    BY <1>4 DEF Drop, DropAt, Types
  <2> QED BY <2>1, RepairUntouched DEF Repair, Repairing, Labels, Starting
<1>5. ASSUME NEW p \in Processes, Create(p, "insert", "create_delete") PROVE Repair'
  <2>1. /\ pc[p] = "create_insert" /\ pc' = [pc EXCEPT ![p] = "create_delete"]
        /\ trigger'["delete"] = trigger["delete"] /\ UNCHANGED <<broken, logs, fts, legacy, cut>>
    BY <1>5 DEF Create, CreateAt, Types
  <2> QED BY <2>1, RepairUntouched DEF Repair, Repairing, Labels, Starting
<1>6. ASSUME NEW p \in Processes, Create(p, "delete", "create_update") PROVE Repair'
  <2>1. /\ pc[p] = "create_delete" /\ pc' = [pc EXCEPT ![p] = "create_update"]
        /\ trigger["delete"] # "broken" /\ trigger'["delete"] = "ok"
        /\ UNCHANGED <<broken, logs, fts, legacy, cut>>
    BY <1>6 DEF Create, CreateAt, Types, Repair
  <2>2. \A q \in Processes : Pending(q) => Pending(q)'
    BY <2>1 DEF Pending, Repairing, Types
  <2>3. NewYet => fts \subseteq logs
    BY DEF NewYet
  <2> QED BY <2>1, <2>2, <2>3 DEF Repair, Types
<1>7. ASSUME NEW p \in Processes, Create(p, "update", AfterCreate(p)) PROVE Repair'
  <2>1. /\ pc[p] = "create_update" /\ pc' = [pc EXCEPT ![p] = AfterCreate(p)]
        /\ trigger'["delete"] = trigger["delete"] /\ UNCHANGED <<broken, logs, fts, legacy, cut>>
    BY <1>7 DEF Create, CreateAt, Types
  <2>2. AfterCreate(p) = IF broken[p] THEN "rebuild" ELSE "read_version"
    BY DEF AfterCreate
  <2> QED BY <2>1, <2>2, RepairUntouched DEF Repair, Repairing, Labels, Starting, Pending, Blocks
<1>8. ASSUME NEW p \in Processes, Rebuild(p) PROVE Repair'
  <2>1. /\ pc[p] = "rebuild" /\ pc' = [pc EXCEPT ![p] = "read_version"] /\ fts' = logs
        /\ UNCHANGED <<trigger, broken, logs, legacy, cut>>
    BY <1>8 DEF Rebuild
  <2>2. ~NewYet
    BY <2>1 DEF NewYet
  <2> QED BY <2>1, <2>2 DEF Repair, Types
<1>9. ASSUME NEW p \in Processes, ReadVersion(p) \/ V2(p) \/ V3(p) \/ V4(p) PROVE Repair'
  <2>1. /\ pc[p] \in Blocks /\ UNCHANGED <<trigger, broken, logs, fts, legacy, cut>>
        /\ \E label \in {"v2", "v3", "v4", "ready"} : pc' = [pc EXCEPT ![p] = label]
    BY <1>9 DEF ReadVersion, V2, V3, V4, Blocks
  <2>2. PICK label \in {"v2", "v3", "v4", "ready"} : pc' = [pc EXCEPT ![p] = label]
    BY <2>1
  <2>3. ~NewYet /\ trigger["delete"] # "broken"
    BY <2>1 DEF Repair, NewYet, Blocks
  <2>4. \A q \in Processes : Pending(q) => Pending(q)'
    BY <2>1, <2>2 DEF Pending, Repairing, Blocks, Types
  <2>5. ~NewYet'
    BY <2>1, <2>2 DEF NewYet, Types
  <2> QED BY <2>1, <2>2, <2>3, <2>4, <2>5 DEF Repair, Types, Blocks
<1>10. ASSUME NEW p \in Processes, Stop(p) PROVE Repair'
  <2>1. /\ pc' = [pc EXCEPT ![p] = "down"] /\ UNCHANGED <<trigger, broken, logs, fts, legacy>>
        /\ cut' <=> (cut \/ pc[p] \in Repairing)
    BY <1>10, Zenon DEF Stop
  <2>2. CASE pc[p] \in Repairing
    BY <2>1, <2>2 DEF Repair, Types
  <2>3. CASE pc[p] \notin Repairing
    <3>1. NewYet => NewYet'
      BY <2>1 DEF NewYet, Types
    <3>2. \A q \in Processes : Pending(q) => Pending(q)'
      BY <2>1, <2>3 DEF Pending, Types
    <3> QED BY <2>1, <2>3, <3>1, <3>2 DEF Repair, Types, Repairing
  <2> QED BY <2>2, <2>3
<1>11. CASE LegacyExits
  BY <1>11 DEF LegacyExits, Repair, NewYet, Pending
<1>12. ASSUME WriteLog \/ \E id \in 1..MaxLogs : PurgeLog(id) PROVE Repair'
  <2>1. Writing /\ UNCHANGED <<trigger, broken, pc, legacy, cut>>
    BY <1>12 DEF WriteLog, PurgeLog
  <2>2. ~NewYet /\ ~NewYet'
    BY <2>1 DEF NewYet, Writing, Ready
  <2>3. trigger["delete"] = "ok" /\ fts \subseteq logs => fts' \subseteq logs'
    BY <1>12 DEF WriteLog, PurgeLog
  <2>4. trigger["delete"] = Absent /\ ~cut => \E q \in Processes : Pending(q)
    BY <2>2 DEF Repair, Pending, Repairing
  <2>5. trigger["delete"] \in {Absent, "broken", "ok"}
    BY DEF Types
  <2> QED BY <2>1, <2>2, <2>3, <2>4, <2>5 DEF Repair, Pending
<1>13. ASSUME NEW row \in SpanRow, WriteSpan(row) \/ PurgeSpan(row) PROVE Repair'
  BY <1>13 DEF WriteSpan, PurgeSpan, Repair, NewYet, Pending
<1>14. CASE UNCHANGED vars
  BY <1>14 DEF vars, Repair, NewYet, Pending
<1> QED
  BY <1>1, <1>2, <1>3, <1>4, <1>5, <1>6, <1>7, <1>8, <1>9, <1>10, <1>11, <1>12, <1>13, <1>14
  DEF Next, Initialize

LEMMA MigrationInvariant == Spec => []MigrationInv
<1>1. MigrationInv /\ [Next]_vars => MigrationInv'
  BY TypesStep, FlagsStep, BlocksStep, IndexedStep, RepairStep DEF MigrationInv
<1> QED BY <1>1, MigrationInit, PTL DEF Spec

\* Search finds every stored log, and an entry of a purged one only after a repair that was
\* cut short (SearchFollowsLogs).
THEOREM SearchSafe == Spec => []SearchFollowsLogs
<1>1. MigrationInv => SearchFollowsLogs
  <2> SUFFICES ASSUME MigrationInv PROVE SearchFollowsLogs
    OBVIOUS
  <2>1. ASSUME ~cut, NEW p \in Processes, Ready(p), \A q \in Processes : pc[q] \notin Repairing
        PROVE  fts \subseteq logs
    <3>1. ~NewYet /\ trigger["delete"] # "broken"
      BY <2>1 DEF MigrationInv, Repair, NewYet, Ready
    <3> QED BY <2>1, <3>1 DEF MigrationInv, Repair, Pending
  <2> QED BY <2>1 DEF MigrationInv, Indexed, SearchFollowsLogs, OrphansOnlyFromACutRepair
<1> QED BY <1>1, MigrationInvariant, PTL

\* Whatever processes start, stop and read a version that is out of date by the time they
\* use it, the rollups count each row once and a process that is through finds the index
\* and the triggers it relies on (MigratedOnce).
THEOREM MigrationSafe == Spec => []MigratedOnce
<1>1. MigrationInv => MigratedOnce
  <2> SUFFICES ASSUME MigrationInv PROVE MigratedOnce
    OBVIOUS
  <2> USE DEF MigrationInv
  <2>1. counted \in [SpanRow -> 0..1]
    BY DEF Counts
  <2>2. TypeOK
    BY <2>1 DEF Types, Flags, Labels, TypeOK
  <2>3. RollupsCountEachRowOnce
    BY DEF Counts, RollupsCountEachRowOnce
  <2>4. unique_identity => Duplicates(spans) = {}
    <3> SUFFICES ASSUME unique_identity, NEW row \in spans, row[2] > 1, FirstOf(row[1]) \in spans
                 PROVE  FALSE
      BY DEF Duplicates
    <3>1. row = FirstOf(row[1])
      BY DEF OneRow, FirstOf
    <3> QED BY <3>1 DEF FirstOf
  <2>5. ReadyMeansMigrated
    BY <2>4 DEF Schema, Ready, ReadyMeansMigrated
  <2> QED BY <2>2, <2>3, <2>5 DEF MigratedOnce
<1> QED BY <1>1, MigrationInvariant, PTL
=============================================================================
