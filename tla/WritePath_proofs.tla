-------------------------- MODULE WritePath_proofs --------------------------
(***************************************************************************)
(* Proofs about WritePath: the inductive invariant behind its safety       *)
(* properties, and that it implements BatchStore.                          *)
(***************************************************************************)
EXTENDS WritePath, TLAPS

\* The types, and nothing else, are inductive.
THEOREM TypeCorrect == Spec => []TypeOK
<1>1. Init => TypeOK
  BY WritePathAssumption DEF Init, TypeOK, Attempts, Requests
<1>2. TypeOK /\ [Next]_vars => TypeOK'
  <2> SUFFICES ASSUME TypeOK, [Next]_vars PROVE TypeOK'
    OBVIOUS
  <2> USE WritePathAssumption DEF TypeOK
  <2>1. ASSUME NEW e \in Exports, Send(e) PROVE TypeOK'
    BY <2>1 DEF Send, Attempts, Requests
  <2>2. ASSUME NEW r \in Requests, GateRefuses(r) \/ Spawn(r) PROVE TypeOK'
    BY <2>2 DEF GateRefuses, Spawn
  <2>3. ASSUME NEW r \in Requests, Begin(r) PROVE TypeOK'
    BY <2>3 DEF Begin
  <2>4. ASSUME NEW r \in Requests, InsertRow(r) PROVE TypeOK'
    BY <2>4 DEF InsertRow
  <2>5. ASSUME NEW r \in Requests, RowFails(r) \/ CommitFails(r) PROVE TypeOK'
    <3>1. UNCHANGED rows /\ EndTransaction(r, "failed")
      BY <2>5 DEF RowFails, CommitFails
    <3> QED BY <3>1 DEF EndTransaction
  <2>6. ASSUME NEW r \in Requests, Commit(r) PROVE TypeOK'
    <3>1. r[1] \in Exports /\ r[2] \in Attempts
      BY DEF Requests
    <3>2. \A i \in 1..Rows : StoredRow(r[1], r[2], rows[r[1]][i]) \in SUBSET Attempts
      BY <3>1 DEF StoredRow
    <3>3. rows' \in [Exports -> [1..Rows -> SUBSET Attempts]]
      BY <2>6, <3>1, <3>2 DEF Commit, Committed
    <3> QED
      BY <2>6, <3>3 DEF Commit, EndTransaction
  <2>7. ASSUME NEW r \in Requests, ReplySuccess(r) PROVE TypeOK'
    BY <2>7 DEF ReplySuccess
  <2>8. ASSUME NEW r \in Requests, ReplyError(r) PROVE TypeOK'
    BY <2>8 DEF ReplyError, Requests
  <2>9. ASSUME NEW r \in Requests, GiveUp(r) PROVE TypeOK'
    BY <2>9 DEF GiveUp
  <2>10. CASE SetFlag \/ StartAnalyze \/ EndAnalyze \/ ClearFlag
    BY <2>10 DEF SetFlag, StartAnalyze, EndAnalyze, ClearFlag
  <2>11. CASE Crash
    BY <2>11 DEF Crash, ProcessLost
  <2>12. CASE UNCHANGED vars
    BY <2>12 DEF vars
  <2> QED
    BY <2>1, <2>2, <2>3, <2>4, <2>5, <2>6, <2>7, <2>8, <2>9, <2>10, <2>11, <2>12 DEF Next
<1> QED
  BY <1>1, <1>2, PTL DEF Spec

-----------------------------------------------------------------------------
\* What the state of a request says about its rows and replies.  A stored copy
\* belongs to a committed task, a refused attempt to a failed one: the two never
\* meet, and neither state is ever left, not even by a crash.
TaskTold ==
    \A r \in Requests :
        /\ \A i \in 1..Rows : r[2] \in rows[r[1]][i] => task[r] = "committed"
        /\ task[r] = "committed" => \A i \in 1..Rows : rows[r[1]][i] # {}
        /\ r[2] \in refused[r[1]] => task[r] = "failed"
        /\ writer = r => task[r] = "writing"
        /\ r[2] > sent[r[1]] => task[r] = "none"

\* A row of a span batch has one copy at most, as its unique index keeps it.
SpansOnce ==
    \A e \in SpanExports, i \in 1..Rows :
        \A a, b \in rows[e][i] : a = b

\* The inductive invariant: TaskTold carries the safety properties.
Inv == TypeOK /\ TaskTold /\ WholeBatches /\ AckedStored /\ SpansOnce

\* A request is its export and its attempt.
LEMMA RequestParts ==
    /\ \A r \in Requests : r[1] \in Exports /\ r[2] \in Attempts
    /\ \A q, r \in Requests : q[1] = r[1] /\ q[2] = r[2] => q = r
    /\ \A e \in Exports, a \in Attempts :
          <<e, a>> \in Requests /\ <<e, a>>[1] = e /\ <<e, a>>[2] = a
BY DEF Requests

\* A commit adds the attempt to every row of its export, or, for spans that are
\* stored already, to none; either way no row of the export stays empty.
LEMMA CommittedRows ==
    ASSUME TypeOK, NEW x \in Exports, NEW b \in Attempts, NEW e \in Exports, NEW i \in 1..Rows
    PROVE  /\ Committed(x, b)[e][i] = IF e = x THEN StoredRow(x, b, rows[x][i]) ELSE rows[e][i]
           /\ rows[e][i] \subseteq Committed(x, b)[e][i]
           /\ Committed(x, b)[x][i] # {}
           /\ \A a \in Attempts : a \in Committed(x, b)[e][i] /\ a \notin rows[e][i] => e = x /\ a = b
<1>1. Committed(x, b)[e][i] = IF e = x THEN StoredRow(x, b, rows[x][i]) ELSE rows[e][i]
  BY DEF Committed, TypeOK
<1>2. Committed(x, b)[x][i] = StoredRow(x, b, rows[x][i])
  BY DEF Committed, TypeOK
<1> QED BY <1>1, <1>2 DEF StoredRow

\* The task of one request moves, the others stay.
LEMMA OneTaskMoves ==
    ASSUME TypeOK, NEW r \in Requests, NEW x, task' = [task EXCEPT ![r] = x]
    PROVE  \A q \in Requests : task'[q] = IF q = r THEN x ELSE task[q]
BY DEF TypeOK

\* The refusals of one export grow by one attempt.
LEMMA OneRefusal ==
    ASSUME TypeOK, NEW r \in Requests, refused' = [refused EXCEPT ![r[1]] = @ \cup {r[2]}]
    PROVE  \A q \in Requests : q[2] \in refused'[q[1]] => q = r \/ q[2] \in refused[q[1]]
<1>1. r[1] \in Exports
  BY RequestParts
<1> SUFFICES ASSUME NEW q \in Requests, q[2] \in refused'[q[1]]
             PROVE  q = r \/ q[2] \in refused[q[1]]
  OBVIOUS
<1>2. CASE q[1] = r[1]
  <2>1. q[2] \in refused[r[1]] \cup {r[2]}
    BY <1>1, <1>2 DEF TypeOK
  <2> QED BY <2>1, <1>2, RequestParts
<1>3. CASE q[1] # r[1]
  BY <1>1, <1>3, RequestParts DEF TypeOK
<1> QED BY <1>2, <1>3

\* No step but a commit touches a row.
LEMMA OnlyCommitWrites ==
    ASSUME Next, \A r \in Requests : ~Commit(r)
    PROVE  UNCHANGED rows
BY DEF Next, Send, GateRefuses, Spawn, Begin, InsertRow, RowFails, CommitFails, ReplySuccess,
       ReplyError, GiveUp, SetFlag, StartAnalyze, EndAnalyze, ClearFlag, Crash

LEMMA TaskToldStep == TypeOK /\ TaskTold /\ [Next]_vars => TaskTold'
<1> SUFFICES ASSUME TypeOK, TaskTold, [Next]_vars PROVE TaskTold'
  OBVIOUS
<1> USE WritePathAssumption, RequestParts
<1>1. ASSUME NEW e \in Exports, Send(e) PROVE TaskTold'
  <2> DEFINE s == <<e, sent[e] + 1>>
  <2>1. sent[e] \in 0..MaxAttempts /\ sent[e] + 1 \in Attempts
    BY <1>1 DEF Send, TypeOK, Attempts
  <2>2. s \in Requests /\ s[1] = e /\ s[2] = sent[e] + 1
    BY <2>1
  <2>3. task[s] = "none"
    BY <2>1, <2>2 DEF TaskTold
  <2> HIDE DEF s
  <2>4. /\ task' = [task EXCEPT ![s] = "received"]
        /\ sent' = [sent EXCEPT ![e] = @ + 1]
        /\ UNCHANGED <<rows, refused, writer>>
    BY <1>1 DEF Send, s
  <2>5. \A r \in Requests : sent'[r[1]] >= sent[r[1]] /\ sent[r[1]] \in Int /\ r[2] \in Int /\ sent'[r[1]] \in Int
    BY <2>1, <2>4 DEF TypeOK, Attempts
  <2>6. task[s] # "committed" /\ task[s] # "failed" /\ writer # s /\ s[2] = sent'[e]
    BY <2>1, <2>2, <2>3, <2>4 DEF TaskTold, TypeOK
  <2> SUFFICES ASSUME NEW r \in Requests
               PROVE  /\ \A i \in 1..Rows : r[2] \in rows'[r[1]][i] => task'[r] = "committed"
                      /\ task'[r] = "committed" => \A i \in 1..Rows : rows'[r[1]][i] # {}
                      /\ r[2] \in refused'[r[1]] => task'[r] = "failed"
                      /\ writer' = r => task'[r] = "writing"
                      /\ r[2] > sent'[r[1]] => task'[r] = "none"
    BY DEF TaskTold
  <2>7. CASE r = s
    BY <2>2, <2>4, <2>5, <2>6, <2>7 DEF TaskTold, TypeOK
  <2>8. CASE r # s
    <3>1. task'[r] = task[r]
      BY <2>2, <2>4, <2>8, OneTaskMoves
    <3>2. r[2] > sent'[r[1]] => r[2] > sent[r[1]]
      BY <2>5
    <3> QED BY <2>4, <3>1, <3>2 DEF TaskTold
  <2> QED BY <2>7, <2>8
<1>2. ASSUME NEW r \in Requests, GateRefuses(r) \/ Spawn(r) PROVE TaskTold'
  <2>1. /\ task[r] = "received"
        /\ task' = [task EXCEPT ![r] = "failed"] \/ task' = [task EXCEPT ![r] = "spawned"]
        /\ UNCHANGED <<rows, sent, refused, writer>>
    BY <1>2 DEF GateRefuses, Spawn
  <2>2. \A q \in Requests : task'[q] = task[q] \/ (q = r /\ task'[q] \in {"failed", "spawned"})
    BY <2>1, OneTaskMoves
  <2> QED BY <2>1, <2>2 DEF TaskTold
<1>3. ASSUME NEW r \in Requests, Begin(r) PROVE TaskTold'
  <2>1. /\ task' = [task EXCEPT ![r] = "writing"] /\ task[r] = "spawned"
        /\ UNCHANGED <<rows, sent, refused>> /\ writer' = r
    BY <1>3 DEF Begin
  <2>2. \A q \in Requests : task'[q] = IF q = r THEN "writing" ELSE task[q]
    BY <2>1 DEF TypeOK
  <2> QED BY <2>1, <2>2 DEF TaskTold
<1>4. ASSUME NEW r \in Requests, InsertRow(r) PROVE TaskTold'
  BY <1>4 DEF InsertRow, TaskTold
<1>5. ASSUME NEW r \in Requests, RowFails(r) \/ CommitFails(r) PROVE TaskTold'
  <2>1. writer = r /\ UNCHANGED rows /\ EndTransaction(r, "failed")
    BY <1>5 DEF RowFails, CommitFails
  <2>2. task' = [task EXCEPT ![r] = "failed"]
    BY <2>1 DEF EndTransaction
  <2>4. \A q \in Requests : task'[q] = IF q = r THEN "failed" ELSE task[q]
    BY <2>2 DEF TypeOK
  <2>3. writer' = None /\ UNCHANGED <<rows, sent, refused>> /\ task[r] = "writing"
    BY <2>1 DEF EndTransaction, TaskTold
  <2> QED BY <2>3, <2>4 DEF TaskTold
<1>6. ASSUME NEW r \in Requests, Commit(r) PROVE TaskTold'
  <2>1. writer = r /\ rows' = Committed(r[1], r[2]) /\ EndTransaction(r, "committed")
    BY <1>6 DEF Commit
  <2>2. /\ task[r] = "writing" /\ task' = [task EXCEPT ![r] = "committed"]
        /\ UNCHANGED <<sent, refused>> /\ writer' = None
    BY <2>1 DEF EndTransaction, TaskTold
  <2>8. \A q \in Requests : task'[q] = IF q = r THEN "committed" ELSE task[q]
    BY <2>2 DEF TypeOK
  <2>3. \A q \in Requests, i \in 1..Rows : q[2] \in rows'[q[1]][i] => task'[q] = "committed"
    <3> SUFFICES ASSUME NEW q \in Requests, NEW i \in 1..Rows, q[2] \in rows'[q[1]][i], q # r
                 PROVE  task'[q] = "committed"
      BY <2>8
    <3>1. q[2] \in rows[q[1]][i]
      BY <2>1, CommittedRows
    <3> QED BY <3>1, <2>8 DEF TaskTold
  <2>4. \A q \in Requests, i \in 1..Rows : task'[q] = "committed" => rows'[q[1]][i] # {}
    <3> SUFFICES ASSUME NEW q \in Requests, NEW i \in 1..Rows, task'[q] = "committed"
                 PROVE  rows'[q[1]][i] # {}
      OBVIOUS
    <3>1. CASE q[1] = r[1]
      BY <2>1, <3>1, CommittedRows
    <3>2. CASE q[1] # r[1]
      <4>1. task[q] = "committed"
        BY <2>8, <3>2
      <4>2. rows[q[1]][i] # {}
        BY <4>1 DEF TaskTold
      <4> QED BY <2>1, <4>2, CommittedRows
    <3> QED BY <3>1, <3>2
  <2>5. \A q \in Requests : q[2] \in refused'[q[1]] => task'[q] = "failed"
    BY <2>2, <2>8 DEF TaskTold
  <2>6. \A q \in Requests : writer' # q
    BY <2>2
  <2>7. \A q \in Requests : q[2] > sent'[q[1]] => task'[q] = "none"
    BY <2>2, <2>8 DEF TaskTold
  <2> QED BY <2>3, <2>4, <2>5, <2>6, <2>7 DEF TaskTold
<1>7. ASSUME NEW r \in Requests, ReplySuccess(r) PROVE TaskTold'
  BY <1>7 DEF ReplySuccess, TaskTold
<1>8. ASSUME NEW r \in Requests, ReplyError(r) PROVE TaskTold'
  <2>1. \A q \in Requests : q[2] \in refused'[q[1]] => q = r \/ q[2] \in refused[q[1]]
    BY <1>8, OneRefusal DEF ReplyError
  <2> QED BY <1>8, <2>1 DEF ReplyError, TaskTold
<1>9. ASSUME NEW r \in Requests, GiveUp(r) PROVE TaskTold'
  <2>1. \A q \in Requests : task'[q] = task[q] \/ (task[q] = "received" /\ task'[q] = "gone")
    BY <1>9, OneTaskMoves DEF GiveUp
  <2>2. UNCHANGED <<rows, sent, refused, writer>>
    BY <1>9 DEF GiveUp
  <2>3. \A q \in Requests : writer = q => task[q] = "writing"
    BY DEF TaskTold
  <2> QED BY <2>1, <2>2, <2>3 DEF TaskTold
<1>10. CASE SetFlag \/ StartAnalyze \/ EndAnalyze \/ ClearFlag
  BY <1>10 DEF SetFlag, StartAnalyze, EndAnalyze, ClearFlag, TaskTold
<1>11. CASE Crash
  <2>1. UNCHANGED <<rows, sent, refused>> /\ writer' = None
    BY <1>11 DEF Crash, ProcessLost
  <2>2. \A q \in Requests :
           task'[q] = IF task[q] \in {"received", "spawned", "writing"} THEN "gone" ELSE task[q]
    BY <1>11 DEF Crash, ProcessLost
  <2> QED BY <2>1, <2>2 DEF TaskTold
<1>12. CASE UNCHANGED vars
  BY <1>12 DEF vars, TaskTold
<1> QED
  BY <1>1, <1>2, <1>3, <1>4, <1>5, <1>6, <1>7, <1>8, <1>9, <1>10, <1>11, <1>12 DEF Next

LEMMA RowsStep == TypeOK /\ WholeBatches /\ SpansOnce /\ [Next]_vars => (WholeBatches /\ SpansOnce)'
<1> SUFFICES ASSUME TypeOK, WholeBatches, SpansOnce, [Next]_vars
             PROVE  WholeBatches' /\ SpansOnce'
  OBVIOUS
<1>1. ASSUME NEW r \in Requests, Commit(r) PROVE WholeBatches' /\ SpansOnce'
  <2>1. r[1] \in Exports /\ r[2] \in Attempts /\ rows' = Committed(r[1], r[2])
    BY <1>1, RequestParts DEF Commit
  <2>2. \A e \in Exports, i \in 1..Rows :
           rows'[e][i] = IF e = r[1] THEN StoredRow(r[1], r[2], rows[r[1]][i]) ELSE rows[e][i]
    BY <2>1, CommittedRows
  <2>3. WholeBatches'
    <3> SUFFICES ASSUME NEW e \in Exports, NEW i \in 1..Rows, NEW j \in 1..Rows
                 PROVE  rows'[e][i] = rows'[e][j]
      BY DEF WholeBatches
    <3>1. rows[e][i] = rows[e][j] /\ rows[r[1]][i] = rows[r[1]][j]
      BY <2>1 DEF WholeBatches
    <3> QED BY <2>2, <3>1
  <2>4. SpansOnce'
    <3> SUFFICES ASSUME NEW e \in SpanExports, NEW i \in 1..Rows
                 PROVE  \A a, b \in rows'[e][i] : a = b
      BY DEF SpansOnce
    <3>1. e \in Exports /\ \A a, b \in rows[e][i] : a = b
      BY WritePathAssumption DEF SpansOnce
    <3>2. CASE e = r[1]
      <4>1. rows'[e][i] = StoredRow(e, r[2], rows[e][i])
        BY <2>2, <3>1, <3>2
      <4>2. rows'[e][i] = IF rows[e][i] # {} THEN rows[e][i] ELSE rows[e][i] \cup {r[2]}
        BY <4>1 DEF StoredRow
      <4> QED BY <3>1, <4>2
    <3>3. CASE e # r[1]
      BY <2>2, <3>1, <3>3
    <3> QED BY <3>2, <3>3
  <2> QED BY <2>3, <2>4
<1>2. CASE Next /\ \A r \in Requests : ~Commit(r)
  BY <1>2, OnlyCommitWrites DEF WholeBatches, SpansOnce
<1>3. CASE UNCHANGED vars
  BY <1>3 DEF vars, WholeBatches, SpansOnce
<1> QED BY <1>1, <1>2, <1>3

\* A batch is acknowledged only after its commit, and no step takes rows away.
LEMMA AckedStep == TypeOK /\ TaskTold /\ AckedStored /\ [Next]_vars => AckedStored'
<1> SUFFICES ASSUME TypeOK, TaskTold, AckedStored, [Next]_vars,
                    NEW e \in Exports, client'[e] = "acked", NEW i \in 1..Rows
             PROVE  rows'[e][i] # {}
  BY DEF AckedStored
<1>1. rows[e][i] \subseteq rows'[e][i]
  <2>1. ASSUME NEW r \in Requests, Commit(r) PROVE rows[e][i] \subseteq rows'[e][i]
    BY <2>1, RequestParts, CommittedRows DEF Commit
  <2>2. CASE Next /\ \A r \in Requests : ~Commit(r)
    BY <2>2, OnlyCommitWrites
  <2> QED BY <2>1, <2>2 DEF vars
<1>2. CASE client[e] = "acked"
  BY <1>1, <1>2 DEF AckedStored
<1>3. CASE client[e] # "acked"
  <2>1. PICK r \in Requests : ReplySuccess(r) /\ r[1] = e
    <3>1. \A x \in Exports : Send(x) => client'[e] # "acked"
      BY <1>3 DEF Send, TypeOK
    <3>2. \A r \in Requests :
            ~(GateRefuses(r) \/ Spawn(r) \/ Begin(r) \/ InsertRow(r))
      BY <1>3 DEF GateRefuses, Spawn, Begin, InsertRow
    <3>3. \A r \in Requests : ~(RowFails(r) \/ Commit(r) \/ CommitFails(r))
      BY <1>3 DEF RowFails, Commit, CommitFails, EndTransaction
    <3>4. \A r \in Requests : ~(ReplyError(r) \/ GiveUp(r))
      BY <1>3 DEF ReplyError, GiveUp, TypeOK
    <3>5. ~(SetFlag \/ StartAnalyze \/ EndAnalyze \/ ClearFlag)
      BY <1>3 DEF SetFlag, StartAnalyze, EndAnalyze, ClearFlag
    <3>6. ~Crash
      <4> SUFFICES ASSUME Crash PROVE FALSE
        OBVIOUS
      <4>1. client'[e] = IF client[e] = "waiting" THEN "ready" ELSE client[e]
        BY DEF Crash, ProcessLost
      <4> QED BY <1>3, <4>1
    <3>7. ~UNCHANGED vars
      BY <1>3 DEF vars
    <3>8. PICK r \in Requests : ReplySuccess(r)
      BY <3>1, <3>2, <3>3, <3>4, <3>5, <3>6, <3>7 DEF Next
    <3>9. r[1] = e
      BY <3>8, <1>3 DEF ReplySuccess, TypeOK
    <3> QED BY <3>8, <3>9
  <2>2. rows[e][i] # {}
    BY <2>1 DEF ReplySuccess, TaskTold
  <2> QED BY <1>1, <2>2
<1> QED BY <1>2, <1>3

THEOREM InvariantHolds == Spec => []Inv
<1>1. Init => TaskTold /\ WholeBatches /\ AckedStored /\ SpansOnce
  BY WritePathAssumption, RequestParts
     DEF Init, TaskTold, WholeBatches, AckedStored, SpansOnce
<1>2. TypeOK /\ TaskTold /\ WholeBatches /\ AckedStored /\ SpansOnce /\ [Next]_vars
        => (TaskTold /\ WholeBatches /\ AckedStored /\ SpansOnce)'
  BY TaskToldStep, RowsStep, AckedStep
<1> QED BY <1>1, <1>2, TypeCorrect, PTL DEF Spec, Inv

\* Whatever was acknowledged is stored, also after crashes (AckedStored).
THEOREM AcknowledgedStored == Spec => []AckedStored
BY InvariantHolds, PTL DEF Inv

\* A batch is stored whole or not at all, through failing rows, failing commits and
\* crashes, and an attempt that was answered with an error has no rows
\* (FailuresLeaveNothing).
THEOREM FailuresClean == Spec => []FailuresLeaveNothing
<1>1. Inv => RefusedLeavesNothing
  <2> SUFFICES ASSUME Inv, NEW e \in Exports, NEW a \in Attempts, NEW i \in 1..Rows,
                      a \in refused[e], a \in rows[e][i]
               PROVE  FALSE
    BY DEF RefusedLeavesNothing
  <2> DEFINE r == <<e, a>>
  <2>1. r \in Requests /\ r[1] = e /\ r[2] = a
    BY RequestParts
  <2> HIDE DEF r
  <2>2. task[r] = "committed" /\ task[r] = "failed"
    BY <2>1 DEF Inv, TaskTold
  <2> QED BY <2>2
<1>2. Inv => FailuresLeaveNothing
  BY <1>1 DEF Inv, FailuresLeaveNothing
<1> QED BY <1>2, InvariantHolds, PTL

-----------------------------------------------------------------------------
\* Rows never disappear, refusals never are taken back: a step of the write path
\* is a step of the abstract store, or changes nothing of it.
LEMMA StoreStep == Inv /\ [Next]_vars => [Store!Next]_(Store!vars)
<1> SUFFICES ASSUME Inv, [Next]_vars PROVE [Store!Next]_(Store!vars)
  OBVIOUS
<1> DEFINE copies == [e \in Exports |-> rows[e][1]]
           acked == {e \in Exports : client[e] = "acked"}
<1> USE DEF Inv
<1>0. 1 \in 1..Rows
  BY WritePathAssumption
<1>1. ASSUME UNCHANGED <<rows, refused>>, acked' = acked
      PROVE  UNCHANGED Store!vars
  BY <1>1 DEF Store!vars
<1>2. ASSUME NEW r \in Requests, Commit(r) PROVE [Store!Next]_(Store!vars)
  <2>1. /\ r[1] \in Exports /\ r[2] \in Attempts /\ rows' = Committed(r[1], r[2])
        /\ UNCHANGED <<client, refused>> /\ task[r] = "writing"
    BY <1>2, RequestParts DEF Commit, EndTransaction, TaskTold
  <2>2. copies' = [copies EXCEPT ![r[1]] = StoredRow(r[1], r[2], @)]
    BY <1>0, <2>1, CommittedRows
  <2>3. CASE r[1] \in SpanExports /\ copies[r[1]] # {}
    <3>1. copies' = copies
      BY <2>1, <2>2, <2>3 DEF StoredRow
    <3> QED BY <2>1, <3>1 DEF Store!vars
  <2>4. CASE ~(r[1] \in SpanExports /\ copies[r[1]] # {})
    <3>1. copies' = [copies EXCEPT ![r[1]] = @ \cup {r[2]}]
      BY <2>1, <2>2, <2>4 DEF StoredRow
    <3>2. r[2] \notin copies[r[1]] \cup refused[r[1]]
      BY <1>0, <2>1 DEF TaskTold
    <3>3. Store!Store(r[1], r[2])
      BY <2>1, <2>4, <3>1, <3>2 DEF Store!Store
    <3> QED BY <2>1, <3>3 DEF Store!Next
  <2> QED BY <2>3, <2>4
<1>3. ASSUME NEW r \in Requests, ReplyError(r) PROVE [Store!Next]_(Store!vars)
  <2>1. /\ r[1] \in Exports /\ r[2] \in Attempts /\ UNCHANGED rows /\ task[r] = "failed"
        /\ refused' = [refused EXCEPT ![r[1]] = @ \cup {r[2]}]
        /\ client[r[1]] = "waiting" /\ client' = [client EXCEPT ![r[1]] = "ready"]
    BY <1>3, RequestParts DEF ReplyError, Awaited
  <2>2. acked' = acked
    BY <2>1 DEF TypeOK
  <2>3. CASE r[2] \in refused[r[1]]
    BY <1>1, <2>1, <2>2, <2>3 DEF TypeOK
  <2>4. CASE r[2] \notin refused[r[1]]
    <3>1. r[2] \notin copies[r[1]] \cup refused[r[1]]
      BY <1>0, <2>1, <2>4 DEF TaskTold
    <3>2. Store!Refuse(r[1], r[2])
      BY <2>1, <2>2, <3>1 DEF Store!Refuse
    <3> QED BY <2>1, <3>2 DEF Store!Next
  <2> QED BY <2>3, <2>4
<1>4. ASSUME NEW r \in Requests, ReplySuccess(r) PROVE [Store!Next]_(Store!vars)
  <2>1. /\ r[1] \in Exports /\ UNCHANGED <<rows, refused>> /\ task[r] = "committed"
        /\ client[r[1]] = "waiting" /\ client' = [client EXCEPT ![r[1]] = "acked"]
    BY <1>4, RequestParts DEF ReplySuccess, Awaited
  <2>2. acked' = acked \cup {r[1]} /\ r[1] \notin acked
    BY <2>1 DEF TypeOK
  <2>3. copies[r[1]] # {}
    BY <1>0, <2>1 DEF TaskTold
  <2>4. Store!Acknowledge(r[1])
    BY <2>1, <2>2, <2>3 DEF Store!Acknowledge
  <2> QED BY <2>1, <2>4 DEF Store!Next
<1>5. ASSUME NEW r \in Requests, GateRefuses(r) \/ Spawn(r) \/ Begin(r) \/ InsertRow(r)
      PROVE  UNCHANGED Store!vars
  BY <1>1, <1>5 DEF GateRefuses, Spawn, Begin, InsertRow
<1>6. ASSUME NEW r \in Requests, RowFails(r) \/ CommitFails(r) PROVE UNCHANGED Store!vars
  BY <1>1, <1>6 DEF RowFails, CommitFails, EndTransaction
<1>7. ASSUME NEW r \in Requests, GiveUp(r) PROVE UNCHANGED Store!vars
  <2>1. UNCHANGED <<rows, refused>> /\ client[r[1]] = "waiting" /\ client' = [client EXCEPT ![r[1]] = "ready"]
    BY <1>7 DEF GiveUp, Awaited
  <2> QED BY <1>1, <2>1 DEF TypeOK
<1>8. ASSUME NEW e \in Exports, Send(e) PROVE UNCHANGED Store!vars
  <2>1. UNCHANGED <<rows, refused>> /\ client[e] = "ready" /\ client' = [client EXCEPT ![e] = "waiting"]
    BY <1>8 DEF Send
  <2> QED BY <1>1, <2>1 DEF TypeOK
<1>9. CASE SetFlag \/ StartAnalyze \/ EndAnalyze \/ ClearFlag
  BY <1>1, <1>9 DEF SetFlag, StartAnalyze, EndAnalyze, ClearFlag
<1>10. CASE Crash
  <2>1. /\ UNCHANGED <<rows, refused>>
        /\ client' = [e \in Exports |-> IF client[e] = "waiting" THEN "ready" ELSE client[e]]
    BY <1>10 DEF Crash, ProcessLost
  <2> QED BY <1>1, <2>1 DEF TypeOK
<1>11. CASE UNCHANGED vars
  BY <1>1, <1>11 DEF vars
<1> QED
  BY <1>2, <1>3, <1>4, <1>5, <1>6, <1>7, <1>8, <1>9, <1>10, <1>11 DEF Next

\* The write path implements the promise made to an exporter (StoreSpec).
THEOREM ImplementsStore == Spec => StoreSpec
<1>1. Init => Store!Init
  <2> SUFFICES ASSUME Init PROVE Store!Init
    OBVIOUS
  <2>1. 1 \in 1..Rows
    BY WritePathAssumption
  <2> QED BY <2>1 DEF Init, Store!Init
<1> QED BY <1>1, StoreStep, InvariantHolds, PTL DEF Spec, StoreSpec, Store!Spec
=============================================================================
