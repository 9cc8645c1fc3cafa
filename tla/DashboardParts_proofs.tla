------------------------- MODULE DashboardParts_proofs -------------------------
(***************************************************************************)
(* Proofs about the parts of MCDashboardParts, each alone: the read pool,  *)
(* for any number of queries and any capacity; the service commands, for   *)
(* any number of commands and PIDs; and the terminal UI, for any logs,     *)
(* traces and filters.                                                     *)
(***************************************************************************)
EXTENDS MCDashboardParts, FiniteSetTheorems, TLAPS

-----------------------------------------------------------------------------
\* The read pool, for any number of queries and any capacity.

\* Types and ownership are inductive together: what a query returns is a
\* connection no one else has.  HeldOpen is the strengthening OneOwner needs: a
\* connection opened for one query is not the one another still holds.
HeldOpen == \A q \in Queries : held[q] # None => held[q] \in opened

Owned == TypeOK /\ OneOwner /\ HeldOpen

LEMMA OwnedStep == Owned /\ [Next]_vars => Owned'
<1> SUFFICES ASSUME Owned, [Next]_vars PROVE Owned'
  OBVIOUS
<1> USE ReadPoolAssumption DEF Owned, TypeOK, OneOwner, HeldOpen
<1>1. ASSUME NEW q \in Queries, ClonePool(q) PROVE Owned'
  BY <1>1 DEF ClonePool
<1>2. ASSUME NEW q \in Queries, CheckoutIdle(q) PROVE Owned'
  BY <1>2 DEF CheckoutIdle
<1>3. ASSUME NEW q \in Queries, CheckoutOpen(q) PROVE Owned'
  BY <1>3 DEF CheckoutOpen
<1>4. ASSUME NEW q \in Queries, CheckoutFails(q) PROVE Owned'
  BY <1>4 DEF CheckoutFails
<1>5. ASSUME NEW q \in Queries, NEW usable \in BOOLEAN, Checkin(q, usable) PROVE Owned'
  BY <1>5 DEF Checkin
<1>6. CASE CloseAll
  BY <1>6 DEF CloseAll
<1>7. CASE UNCHANGED vars
  BY <1>7 DEF vars
<1> QED BY <1>1, <1>2, <1>3, <1>4, <1>5, <1>6, <1>7 DEF Next

\* Every open connection has exactly one owner (OneOwner), and a query owns one
\* exactly while it runs (TypeOK).
THEOREM Ownership == Spec => [](TypeOK /\ OneOwner)
<1>1. Init => Owned
  BY ReadPoolAssumption DEF Init, Owned, TypeOK, OneOwner, HeldOpen
<1>2. Owned => TypeOK /\ OneOwner
  BY DEF Owned
<1> QED BY <1>1, <1>2, OwnedStep, PTL DEF Spec

\* No more than the capacity stays warm (IdleWithinCapacity).
THEOREM WarmBounded == Spec => []IdleWithinCapacity
<1>1. Init => IdleWithinCapacity
  BY FS_EmptySet, ReadPoolAssumption DEF Init, IdleWithinCapacity
<1>2. IdleWithinCapacity /\ [Next]_vars => IdleWithinCapacity'
  <2> SUFFICES ASSUME IdleWithinCapacity, [Next]_vars PROVE IdleWithinCapacity'
    OBVIOUS
  <2> USE ReadPoolAssumption DEF IdleWithinCapacity
  <2>0. Cardinality(inner) \in Nat
    BY FS_CardinalityType
  <2>1. ASSUME NEW q \in Queries, CheckoutIdle(q) PROVE IdleWithinCapacity'
    <3>1. PICK c \in inner : inner' = inner \ {c}
      BY <2>1 DEF CheckoutIdle
    <3>2. IsFiniteSet(inner \ {c}) /\ Cardinality(inner \ {c}) = Cardinality(inner) - 1
      BY FS_RemoveElement
    <3>3. Cardinality(inner \ {c}) \in Nat
      BY <3>2, FS_CardinalityType
    <3> QED BY <2>0, <3>1, <3>2, <3>3
  <2>2. ASSUME NEW q \in Queries, NEW usable \in BOOLEAN, Checkin(q, usable)
        PROVE  IdleWithinCapacity'
    <3>1. CASE Cardinality(inner) >= Capacity \/ ~usable
      BY <2>2, <3>1 DEF Checkin
    <3>2. CASE ~(Cardinality(inner) >= Capacity \/ ~usable)
      <4>1. inner' = inner \cup {held[q]}
        BY <2>2, <3>2 DEF Checkin
      <4>2. IsFiniteSet(inner \cup {held[q]}) /\ Cardinality(inner \cup {held[q]}) <= Cardinality(inner) + 1
        BY <2>0, FS_AddElement
      <4>3. Cardinality(inner \cup {held[q]}) \in Nat
        BY <4>2, FS_CardinalityType
      <4> QED BY <2>0, <3>2, <4>1, <4>2, <4>3
    <3> QED BY <3>1, <3>2
  <2>3. CASE CloseAll
    BY <2>3, FS_EmptySet DEF CloseAll
  <2>4. ASSUME UNCHANGED inner PROVE IdleWithinCapacity'
    BY <2>4
  <2> QED BY <2>1, <2>2, <2>3, <2>4 DEF Next, vars, ClonePool, CheckoutOpen, CheckoutFails
<1> QED BY <1>1, <1>2, PTL DEF Spec

\* Every open connection is idle or held by a running query, so no checkin, no
\* failed probe and no close loses one (NoConnectionLeaks).
THEOREM NothingLeaks == Spec => []NoConnectionLeaks
<1> DEFINE running == {p \in Queries : pc[p] = "running"}
<1>1. Init => NoConnectionLeaks
  BY DEF Init, NoConnectionLeaks
<1>2. Owned /\ NoConnectionLeaks /\ [Next]_vars => NoConnectionLeaks'
  <2> SUFFICES ASSUME Owned, NoConnectionLeaks, [Next]_vars PROVE NoConnectionLeaks'
    OBVIOUS
  <2> USE DEF Owned, TypeOK, OneOwner, NoConnectionLeaks
  <2>1. ASSUME NEW q \in Queries, ClonePool(q) \/ CheckoutFails(q) PROVE NoConnectionLeaks'
    <3>1. running' = running
      BY <2>1 DEF ClonePool, CheckoutFails
    <3> QED BY <2>1, <3>1 DEF ClonePool, CheckoutFails
  <2>2. ASSUME NEW q \in Queries, CheckoutIdle(q) \/ CheckoutOpen(q) PROVE NoConnectionLeaks'
    <3>1. q \notin running /\ running' = running \cup {q}
      BY <2>2 DEF CheckoutIdle, CheckoutOpen
    <3>2. {held'[p] : p \in running'} = {held[p] : p \in running} \cup {held'[q]}
      BY <2>2, <3>1 DEF CheckoutIdle, CheckoutOpen
    <3>3. CASE CheckoutIdle(q)
      <4>1. PICK c \in inner : inner' = inner \ {c} /\ held'[q] = c
        BY <3>3 DEF CheckoutIdle
      <4> QED BY <3>2, <3>3, <4>1 DEF CheckoutIdle
    <3>4. CASE CheckoutOpen(q)
      <4>1. PICK c \in Conns : opened' = opened \cup {c} /\ held'[q] = c
        BY <3>4 DEF CheckoutOpen
      <4> QED BY <3>2, <3>4, <4>1 DEF CheckoutOpen
    <3> QED BY <2>2, <3>3, <3>4
  <2>3. ASSUME NEW q \in Queries, NEW usable \in BOOLEAN, Checkin(q, usable)
        PROVE  NoConnectionLeaks'
    <3>1. q \in running /\ running' = running \ {q}
      BY <2>3 DEF Checkin
    <3>2. \A p \in Queries : p # q => held'[p] = held[p]
      BY <2>3 DEF Checkin
    <3>3. held[q] # None /\ held[q] \notin inner
      BY <3>1
    <3>4. \A p \in running : p # q => held[p] # held[q]
      BY <3>1, <3>3
    <3>5. {held'[p] : p \in running'} = {held[p] : p \in running} \ {held[q]}
      BY <3>1, <3>2, <3>4
    <3>6. held[q] \in {held[p] : p \in running}
      BY <3>1
    <3>7. CASE Cardinality(inner) >= Capacity \/ ~usable
      <4>1. opened' = opened \ {held[q]} /\ inner' = inner
        BY <2>3, <3>7 DEF Checkin
      <4> QED BY <3>3, <3>5, <4>1
    <3>8. CASE ~(Cardinality(inner) >= Capacity \/ ~usable)
      <4>1. opened' = opened /\ inner' = inner \cup {held[q]}
        BY <2>3, <3>8 DEF Checkin
      <4> QED BY <3>5, <3>6, <4>1
    <3> QED BY <3>7, <3>8
  <2>4. CASE CloseAll
    <3>1. opened' = opened \ inner /\ inner' = {} /\ UNCHANGED <<held, pc>>
      BY <2>4 DEF CloseAll
    <3>2. \A p \in running : held[p] \notin inner
      OBVIOUS
    <3> QED BY <3>1, <3>2
  <2>5. CASE UNCHANGED vars
    BY <2>5 DEF vars
  <2> QED BY <2>1, <2>2, <2>3, <2>4, <2>5 DEF Next
<1>3. Init => Owned
  BY ReadPoolAssumption DEF Init, Owned, TypeOK, OneOwner, HeldOpen
<1> QED BY <1>1, <1>2, <1>3, OwnedStep, PTL DEF Spec

-----------------------------------------------------------------------------
\* The service commands, for any number of commands and PIDs.

Waiting  == {"write", "poll"}                              \* a start that has to reap its child
Stopping == {"ensure", "term", "wait", "kill"}
Steps    == {"idle", "read", "drop", "discover", "spawn", "undo", "check", "find", "find_port",
             "stale", "forget"} \cup Waiting \cup Stopping

ServiceTypes ==
    /\ proc \in [Pids -> {"free", "starting", "serving", "draining", "zombie", "tool", "other"}]
    /\ port \in Pids \cup {NoPid} /\ killed \subseteq Pids
    /\ file \in Pids \cup {NoPid, Corrupt}
    /\ step \in [Commands -> Steps]
    /\ kind \in [Commands -> {"start", "stop", "restart", "status"}]
    /\ pid \in [Commands -> Pids \cup {NoPid}]
    /\ started \subseteq Pids

ServiceFlags ==
    /\ gone \in [Commands -> BOOLEAN] /\ changed \in [Commands -> BOOLEAN]
    /\ overlapped \in BOOLEAN /\ stranger \in BOOLEAN

\* The child of a start keeps its PID, as a zombie at least, until it is reaped, so no two
\* starts wait for one PID and no stranger gets it.
Machine ==
    /\ port \in Pids => proc[port] \in {"serving", "other"}
    /\ \A c \in Commands : step[c] \in Waiting =>
          pid[c] \in Pids /\ (S!Daemon(pid[c]) \/ proc[pid[c]] = "zombie")
    /\ \A c, d \in Commands : step[c] \in Waiting /\ step[d] \in Waiting /\ pid[c] = pid[d] => c = d
    /\ \A p \in started : S!Daemon(p)

\* What a stop has chosen was an otelite process, and is one still unless it has ended,
\* also while SIGKILL is on its way;
\* between the check and the signal only a change of hands can make it a stranger.
Chosen ==
    /\ \A c \in Commands :
          /\ step[c] \in Stopping \cup {"forget"} => pid[c] \in Pids
          /\ step[c] \in Stopping => gone[c] \/ S!Otelite(pid[c])
          /\ step[c] = "forget" => gone[c] \/ pid[c] \in killed
          /\ step[c] \in {"term", "kill"} /\ ~changed[c] => S!Otelite(pid[c])
    /\ ~stranger

\* Commands that do not overlap: one at a time, which removes the PID file or writes it
\* only while no daemon is left that a start has reported.
Alone == ~overlapped =>
    /\ \A c, d \in Commands : step[c] # "idle" /\ step[d] # "idle" => c = d
    /\ \A p \in started : file = p
    /\ \A c \in Commands :
          /\ step[c] \in {"drop", "discover", "spawn", "undo", "find_port", "stale"} \cup Waiting =>
                started = {}
          /\ step[c] = "poll" => file = pid[c]
          /\ step[c] \in Stopping /\ gone[c] => pid[c] \notin started
          /\ step[c] = "forget" => pid[c] \notin started

ServiceInv == ServiceTypes /\ ServiceFlags /\ Machine /\ Chosen /\ Alone

LEMMA ServiceInit == S!Init => ServiceInv
<1> SUFFICES ASSUME S!Init PROVE ServiceInv
  OBVIOUS
<1>1. ServiceFlags
  BY Zenon DEF S!Init, ServiceFlags
<1>2. ServiceTypes
  BY DEF S!Init, ServiceTypes, Steps
<1>3. Machine /\ Chosen /\ Alone
  BY ServiceAssumption DEF S!Init, Machine, Chosen, Alone, Waiting, Stopping
<1> QED BY <1>1, <1>2, <1>3 DEF ServiceInv

LEMMA ServiceFlagsStep == ServiceFlags /\ [S!Next]_(S!vars) => ServiceFlags'
<1> SUFFICES ASSUME ServiceFlags, [S!Next]_(S!vars) PROVE ServiceFlags'
  OBVIOUS
<1> USE DEF ServiceFlags, S!history, S!cmdVars, S!osVars, S!End
<1>1. ASSUME NEW p \in Pids,
             \/ S!Bind(p) \/ S!Ends(p) \/ S!OtherBinds(p)
             \/ \E what \in {"starting", "tool", "other"} : S!Appears(p, what)
      PROVE  ServiceFlags'
  BY Zenon, <1>1 DEF S!Bind, S!Ends, S!OtherBinds, S!Appears
<1>2. ASSUME NEW c \in Commands, NEW k, S!Begin(c, k) PROVE ServiceFlags'
  BY Zenon, <1>2 DEF S!Begin
<1>3. ASSUME NEW c \in Commands,
             \/ S!ReadFile(c) \/ S!DropStale(c) \/ S!Discover(c) \/ S!Spawn(c) \/ S!WritePid(c)
             \/ S!Poll(c) \/ S!Undo(c) \/ S!Check(c) \/ S!RemoveStale(c) \/ S!Forget(c)
      PROVE  ServiceFlags'
  BY Zenon, <1>3 DEF S!ReadFile, S!DropStale, S!Discover, S!Spawn, S!WritePid, S!Poll, S!Undo,
                     S!Check, S!RemoveStale, S!Forget
<1>4. ASSUME NEW c \in Commands, S!FindByFile(c) \/ S!FindByPort(c) PROVE ServiceFlags'
  BY Zenon, <1>4 DEF S!FindByFile, S!FindByPort, S!Choose
<1>5. ASSUME NEW c \in Commands, S!Ensure(c) \/ S!Wait(c) PROVE ServiceFlags'
  BY Zenon, <1>5 DEF S!Ensure, S!Wait
<1>6. ASSUME NEW c \in Commands, S!Term(c) PROVE ServiceFlags'
  BY Zenon, <1>6 DEF S!Term
<1>7. ASSUME NEW c \in Commands, S!Kill(c) PROVE ServiceFlags'
  BY Zenon, <1>7 DEF S!Kill
<1>8. CASE UNCHANGED S!vars
  BY Zenon, <1>8 DEF S!vars
<1> QED
  BY <1>1, <1>2, <1>3, <1>4, <1>5, <1>6, <1>7, <1>8 DEF S!Next, S!Step

LEMMA ServiceTypesStep == ServiceTypes /\ Machine /\ Chosen /\ [S!Next]_(S!vars) => ServiceTypes'
<1> SUFFICES ASSUME ServiceTypes, Machine, Chosen, [S!Next]_(S!vars) PROVE ServiceTypes'
  OBVIOUS
<1> USE DEF ServiceTypes, S!history, S!cmdVars, S!osVars, S!End, S!Go, Steps, Waiting, Stopping
<1>1. ASSUME NEW p \in Pids,
             \/ S!Bind(p) \/ S!Ends(p) \/ S!OtherBinds(p)
             \/ \E what \in {"starting", "tool", "other"} : S!Appears(p, what)
      PROVE  ServiceTypes'
  BY <1>1 DEF S!Bind, S!Ends, S!OtherBinds, S!Appears
<1>2. ASSUME NEW c \in Commands, NEW k \in {"start", "stop", "restart", "status"}, S!Begin(c, k)
      PROVE  ServiceTypes'
  BY <1>2 DEF S!Begin
<1>3. ASSUME NEW c \in Commands, S!ReadFile(c) \/ S!DropStale(c) \/ S!Discover(c) PROVE ServiceTypes'
  BY <1>3 DEF S!ReadFile, S!DropStale, S!Discover
<1>4. ASSUME NEW c \in Commands, S!Spawn(c) PROVE ServiceTypes'
  BY <1>4 DEF S!Spawn
<1>5. ASSUME NEW c \in Commands, S!WritePid(c) \/ S!Poll(c) \/ S!Undo(c) PROVE ServiceTypes'
  BY <1>5 DEF S!WritePid, S!Poll, S!Undo, Machine
<1>6. ASSUME NEW c \in Commands, S!Check(c) \/ S!RemoveStale(c) \/ S!Forget(c) PROVE ServiceTypes'
  BY <1>6 DEF S!Check, S!RemoveStale, S!Forget
<1>7. ASSUME NEW c \in Commands, S!FindByFile(c) \/ S!FindByPort(c) PROVE ServiceTypes'
  BY <1>7 DEF S!FindByFile, S!FindByPort, S!Choose, S!InFile, S!OnPort
<1>8. ASSUME NEW c \in Commands, S!Ensure(c) \/ S!Wait(c) PROVE ServiceTypes'
  BY <1>8 DEF S!Ensure, S!Wait
<1>9. ASSUME NEW c \in Commands, S!Term(c) PROVE ServiceTypes'
  BY <1>9 DEF S!Term, Chosen
<1>10. ASSUME NEW c \in Commands, S!Kill(c) PROVE ServiceTypes'
  BY <1>10 DEF S!Kill, Chosen
<1>11. CASE UNCHANGED S!vars
  BY <1>11 DEF S!vars
<1> QED
  BY <1>1, <1>2, <1>3, <1>4, <1>5, <1>6, <1>7, <1>8, <1>9, <1>10, <1>11 DEF S!Next, S!Step

LEMMA MachineStep == ServiceTypes /\ Machine /\ Chosen /\ [S!Next]_(S!vars) => Machine'
<1> SUFFICES ASSUME ServiceTypes, Machine, Chosen, [S!Next]_(S!vars) PROVE Machine'
  OBVIOUS
<1> USE ServiceAssumption
    DEF ServiceTypes, Machine, S!Daemon, S!history, S!cmdVars, S!osVars, S!Go, Steps, Waiting, Stopping
<1>1. ASSUME NEW p \in Pids, S!End(p), UNCHANGED <<step, pid>>, proc[p] # "zombie" PROVE Machine'
  BY <1>1 DEF S!End
<1>2. ASSUME NEW p \in Pids, S!Bind(p) PROVE Machine'
  <2>1. CASE S!End(p)
    BY <1>1, <1>2, <2>1 DEF S!Bind
  <2>2. CASE port = NoPid /\ port' = p
    BY <1>2, <2>2 DEF S!Bind
  <2> QED BY <1>2, <2>1, <2>2 DEF S!Bind
<1>3. ASSUME NEW p \in Pids, S!Ends(p) PROVE Machine'
  BY <1>1, <1>3 DEF S!Ends
<1>4. ASSUME NEW p \in Pids,
             S!OtherBinds(p) \/ \E what \in {"starting", "tool", "other"} : S!Appears(p, what)
      PROVE  Machine'
  BY <1>4 DEF S!OtherBinds, S!Appears
<1>5. ASSUME NEW c \in Commands, NEW k \in {"start", "stop", "restart", "status"}, S!Begin(c, k)
      PROVE  Machine'
  BY <1>5 DEF S!Begin
<1>6. ASSUME NEW c \in Commands,
             S!ReadFile(c) \/ S!DropStale(c) \/ S!Discover(c) \/ S!Undo(c)
      PROVE  Machine'
  BY <1>6 DEF S!ReadFile, S!DropStale, S!Discover, S!Undo
<1>7. ASSUME NEW c \in Commands, S!Check(c) \/ S!RemoveStale(c) \/ S!Forget(c) \/ S!Ensure(c) \/ S!Wait(c)
      PROVE  Machine'
  BY <1>7 DEF S!Check, S!RemoveStale, S!Forget, S!Ensure, S!Wait
<1>8. ASSUME NEW c \in Commands, S!FindByFile(c) \/ S!FindByPort(c) PROVE Machine'
  BY <1>8 DEF S!FindByFile, S!FindByPort, S!Choose
<1>9. ASSUME NEW c \in Commands, S!Spawn(c) PROVE Machine'
  BY <1>9 DEF S!Spawn
<1>10. ASSUME NEW c \in Commands, S!WritePid(c) PROVE Machine'
  BY <1>10 DEF S!WritePid
<1>11. ASSUME NEW c \in Commands, S!Poll(c) PROVE Machine'
  BY <1>11 DEF S!Poll
<1>13. ASSUME NEW c \in Commands, S!Term(c) PROVE Machine'
  <2>0. pid[c] \in Pids
    BY <1>13 DEF S!Term, Chosen
  <2>2. CASE proc' = [proc EXCEPT ![pid[c]] = "draining"] /\ proc[pid[c]] = "serving" /\ S!Go(c, "wait")
             /\ port' = (IF port = pid[c] THEN NoPid ELSE port) /\ UNCHANGED S!history
    <3>1. /\ step[c] = "term" /\ step' = [step EXCEPT ![c] = "wait"]
          /\ pid' = pid /\ started' = started
      BY <1>13, <2>2 DEF S!Term
    <3>2. proc' = [proc EXCEPT ![pid[c]] = "draining"] /\ proc[pid[c]] = "serving"
      BY <2>2
    <3>3. \A p \in Pids : S!Daemon(p) => proc'[p] \in {"starting", "serving", "draining"}
      BY <2>0, <3>2
    <3>4. \A p \in Pids : proc[p] = "zombie" => proc'[p] = "zombie"
      BY <2>0, <3>2
    <3>5. \A d \in Commands : step'[d] \in Waiting => step[d] \in Waiting
      BY <3>1
    <3>6. port' \in Pids => proc'[port'] \in {"serving", "other"}
      BY <2>0, <2>2
    <3>7. \A d \in Commands : step'[d] \in Waiting =>
             pid'[d] \in Pids /\ proc'[pid'[d]] \in {"starting", "serving", "draining", "zombie"}
      BY <3>1, <3>3, <3>4, <3>5
    <3> QED BY <3>1, <3>3, <3>5, <3>6, <3>7
  <2>3. CASE UNCHANGED <<proc, port, started>>
    BY <1>13, <2>3 DEF S!Term
  <2> QED BY <1>13, <2>2, <2>3 DEF S!Term
<1>14. ASSUME NEW c \in Commands, S!Kill(c) PROVE Machine'
  BY <1>14 DEF S!Kill
<1>15. CASE UNCHANGED S!vars
  BY <1>15 DEF S!vars
<1> QED
  BY <1>2, <1>3, <1>4, <1>5, <1>6, <1>7, <1>8, <1>9, <1>10, <1>11, <1>13, <1>14, <1>15
     DEF S!Next, S!Step

LEMMA ChosenStep ==
    ServiceTypes /\ ServiceFlags /\ Machine /\ Chosen /\ [S!Next]_(S!vars) => Chosen'
<1> SUFFICES ASSUME ServiceTypes, ServiceFlags, Machine, Chosen, [S!Next]_(S!vars) PROVE Chosen'
  OBVIOUS
<1> USE ServiceAssumption
    DEF ServiceTypes, Chosen, S!Daemon, S!Otelite, S!history, S!cmdVars, S!osVars, S!Go, Steps,
        Waiting, Stopping
\* The end of a process is noted by every stop that chose it.
<1>1. ASSUME NEW p \in Pids, S!End(p)
      PROVE  /\ \A d \in Commands : gone[d] => gone'[d]
             /\ \A d \in Commands : ~changed'[d] => ~changed[d] /\ pid[d] # p
             /\ \A d \in Commands : pid[d] = p => gone'[d]
             /\ killed' = killed \ {p}
             /\ \A q \in Pids : q # p => proc'[q] = proc[q]
  <2>1. \A q \in Pids : q # p => proc'[q] = proc[q]
    BY <1>1 DEF S!End
  <2>2. \A d \in Commands : (gone'[d] <=> gone[d] \/ pid[d] = p) /\ (changed'[d] <=> changed[d] \/ pid[d] = p)
    BY Zenon, <1>1 DEF S!End
  <2> QED BY <1>1, <2>1, <2>2 DEF S!End
<1>2. ASSUME NEW p \in Pids, S!End(p), UNCHANGED <<step, pid, stranger>> PROVE Chosen'
  BY <1>1, <1>2
<1>3. ASSUME NEW p \in Pids, S!Bind(p) \/ S!Ends(p) PROVE Chosen'
  <2>1. CASE S!End(p)
    BY <1>2, <1>3, <2>1 DEF S!Bind, S!Ends
  <2>2. CASE S!Bind(p) /\ ~S!End(p)
    BY <2>2 DEF S!Bind
  <2> QED BY <1>3, <2>1, <2>2 DEF S!Ends
<1>4. ASSUME NEW p \in Pids,
             S!OtherBinds(p) \/ \E what \in {"starting", "tool", "other"} : S!Appears(p, what)
      PROVE  Chosen'
  BY <1>4 DEF S!OtherBinds, S!Appears
<1>5. ASSUME NEW c \in Commands, NEW k \in {"start", "stop", "restart", "status"}, S!Begin(c, k)
      PROVE  Chosen'
  BY <1>5 DEF S!Begin
<1>6. ASSUME NEW c \in Commands,
             \/ S!ReadFile(c) \/ S!DropStale(c) \/ S!Discover(c) \/ S!Undo(c)
             \/ S!Check(c) \/ S!RemoveStale(c) \/ S!Forget(c)
      PROVE  Chosen'
  BY <1>6 DEF S!ReadFile, S!DropStale, S!Discover, S!Undo, S!Check, S!RemoveStale, S!Forget
<1>7. ASSUME NEW c \in Commands, S!Spawn(c) PROVE Chosen'
  BY <1>7 DEF S!Spawn
<1>8. ASSUME NEW c \in Commands, S!WritePid(c) \/ S!Poll(c) PROVE Chosen'
  BY <1>8 DEF S!WritePid, S!Poll, Machine
<1>9. ASSUME NEW c \in Commands, S!FindByFile(c) \/ S!FindByPort(c) PROVE Chosen'
  <2>1. \A p : S!Choose(c, p) => \A d \in Commands : d # c => (gone'[d] <=> gone[d]) /\ pid'[d] = pid[d]
    BY Zenon DEF S!Choose, ServiceFlags
  <2> QED BY <1>9, <2>1 DEF S!FindByFile, S!FindByPort, S!Choose, S!InFile, S!OnPort
<1>10. ASSUME NEW c \in Commands, S!Ensure(c) \/ S!Wait(c) PROVE Chosen'
  <2>1. \A d \in Commands : d # c => (changed'[d] <=> changed[d])
    BY Zenon, <1>10 DEF S!Ensure, S!Wait, ServiceFlags
  <2> QED BY <1>10, <2>1 DEF S!Ensure, S!Wait
<1>11. ASSUME NEW c \in Commands, S!Term(c) PROVE Chosen'
  <2>0. /\ pid[c] \in Pids /\ (gone[c] \/ S!Otelite(pid[c]))
        /\ (~changed[c] => S!Otelite(pid[c])) /\ ~(proc[pid[c]] = "other" /\ ~changed[c])
    BY <1>11 DEF S!Term
  <2>1. CASE S!Go(c, "wait") /\ killed' = killed \cup {pid[c]} /\ UNCHANGED <<proc, port, S!history, pid>>
    BY <2>0, <2>1
  <2>2. CASE S!Go(c, "idle") /\ UNCHANGED <<S!osVars, S!history, pid>>
    BY <2>2
  <2>3. CASE /\ proc[pid[c]] = "serving" /\ S!Go(c, "wait") /\ UNCHANGED <<killed, S!history, pid>>
             /\ proc' = [proc EXCEPT ![pid[c]] = "draining"]
    BY <2>0, <2>3
  <2>4. CASE /\ proc[pid[c]] \in {"draining", "zombie", "other"} /\ S!Go(c, "wait")
             /\ stranger' = (stranger \/ (proc[pid[c]] = "other" /\ ~changed[c]))
             /\ UNCHANGED <<S!osVars, gone, changed, pid>>
    <3>1. ~stranger'
      BY <2>0, <2>4
    <3> QED BY <2>0, <2>4, <3>1
  <2> QED BY <1>11, <2>1, <2>2, <2>3, <2>4 DEF S!Term
<1>12. ASSUME NEW c \in Commands, S!Kill(c) PROVE Chosen'
  <2>0. pid[c] \in Pids /\ (~changed[c] => S!Otelite(pid[c])) /\ (gone[c] \/ S!Otelite(pid[c]))
    BY <1>12 DEF S!Kill
  <2>1. ~stranger'
    BY <1>12, <2>0 DEF S!Kill
  <2>2. proc[pid[c]] = "zombie" => gone[c]
    BY <2>0
  <2> QED BY <1>12, <2>0, <2>1, <2>2 DEF S!Kill
<1>13. CASE UNCHANGED S!vars
  BY <1>13 DEF S!vars
<1> QED
  BY <1>3, <1>4, <1>5, <1>6, <1>7, <1>8, <1>9, <1>10, <1>11, <1>12, <1>13 DEF S!Next, S!Step

LEMMA AloneStep ==
    ServiceTypes /\ ServiceFlags /\ Machine /\ Chosen /\ Alone /\ [S!Next]_(S!vars) => Alone'
<1> SUFFICES ASSUME ServiceTypes, ServiceFlags, Machine, Chosen, Alone, [S!Next]_(S!vars), ~overlapped'
             PROVE  Alone'
  BY DEF Alone
<1> USE ServiceAssumption
    DEF ServiceTypes, Alone, S!Daemon, S!history, S!cmdVars, S!osVars, S!Go, Steps, Waiting, Stopping
\* A process that ends takes its report with it; a stop that chose it sees the end.
<1>1. ASSUME NEW p \in Pids, S!End(p)
      PROVE  /\ ~overlapped
             /\ started' = started \ {p}
             /\ \A d \in Commands : gone'[d] => gone[d] \/ pid[d] = p
  BY Zenon, <1>1 DEF S!End
<1>2. ASSUME NEW p \in Pids, S!End(p), UNCHANGED <<file, step, pid>> PROVE Alone'
  BY <1>1, <1>2
<1>3. ASSUME NEW p \in Pids, S!Bind(p) \/ S!Ends(p) PROVE Alone'
  <2>1. CASE S!End(p)
    BY <1>2, <1>3, <2>1 DEF S!Bind, S!Ends
  <2>2. CASE S!Bind(p) /\ ~S!End(p)
    BY <2>2 DEF S!Bind
  <2> QED BY <1>3, <2>1, <2>2 DEF S!Ends
<1>4. ASSUME NEW p \in Pids,
             S!OtherBinds(p) \/ \E what \in {"starting", "tool", "other"} : S!Appears(p, what)
      PROVE  Alone'
  BY <1>4 DEF S!OtherBinds, S!Appears
<1>5. ASSUME NEW c \in Commands, NEW k \in {"start", "stop", "restart", "status"}, S!Begin(c, k)
      PROVE  Alone'
  <2>1. ~overlapped /\ \A d \in Commands : step[d] = "idle"
    BY Zenon, <1>5 DEF S!Begin
  <2> QED BY <1>5, <2>1 DEF S!Begin
<1>6. ASSUME NEW c \in Commands, S!ReadFile(c) \/ S!DropStale(c) \/ S!Discover(c) \/ S!Undo(c)
      PROVE  Alone'
  BY <1>6 DEF S!ReadFile, S!DropStale, S!Discover, S!Undo, S!Running, S!OnPort, Machine
<1>7. ASSUME NEW c \in Commands, S!Check(c) \/ S!RemoveStale(c) PROVE Alone'
  BY <1>7 DEF S!Check, S!RemoveStale
<1>8. ASSUME NEW c \in Commands, S!Forget(c) PROVE Alone'
  BY <1>8 DEF S!Forget, Chosen
<1>9. ASSUME NEW c \in Commands, S!Spawn(c) PROVE Alone'
  BY <1>9 DEF S!Spawn
<1>10. ASSUME NEW c \in Commands, S!WritePid(c) PROVE Alone'
  BY <1>10 DEF S!WritePid
<1>11. ASSUME NEW c \in Commands, S!Poll(c) PROVE Alone'
  BY <1>11 DEF S!Poll, Machine
<1>12. ASSUME NEW c \in Commands, S!FindByFile(c) PROVE Alone'
  <2>1. CASE S!InFile /\ S!Choose(c, file)
    <3>1. ~gone'[c]
      BY Zenon, <1>12, <2>1 DEF S!Choose, ServiceFlags
    <3> QED BY <1>12, <2>1, <3>1 DEF S!FindByFile, S!Choose, S!InFile
  <2>2. CASE ~S!InFile
    BY <1>12, <2>2 DEF S!FindByFile, S!InFile, S!Otelite, Machine
  <2> QED BY <1>12, <2>1, <2>2 DEF S!FindByFile
<1>13. ASSUME NEW c \in Commands, S!FindByPort(c) PROVE Alone'
  <2>1. CASE S!OnPort /\ S!Choose(c, port)
    <3>1. ~gone'[c]
      BY Zenon, <1>13, <2>1 DEF S!Choose, ServiceFlags
    <3> QED BY <1>13, <2>1, <3>1 DEF S!FindByPort, S!Choose, S!OnPort
  <2>2. CASE ~S!OnPort
    BY <1>13, <2>2 DEF S!FindByPort
  <2> QED BY <1>13, <2>1, <2>2 DEF S!FindByPort
<1>14. ASSUME NEW c \in Commands, S!Ensure(c) \/ S!Wait(c) PROVE Alone'
  BY <1>14 DEF S!Ensure, S!Wait, Chosen
<1>15. ASSUME NEW c \in Commands, S!Term(c) PROVE Alone'
  <2>0. pid[c] \in Pids
    BY <1>15 DEF S!Term, Chosen
  <2>1. UNCHANGED <<file, pid, started, gone, overlapped>> /\ (S!Go(c, "wait") \/ S!Go(c, "idle"))
    BY <1>15 DEF S!Term
  <2> QED BY <1>15, <2>0, <2>1 DEF S!Term
<1>16. ASSUME NEW c \in Commands, S!Kill(c) PROVE Alone'
  <2>0. pid[c] \in Pids /\ (gone[c] \/ S!Otelite(pid[c]))
    BY <1>16 DEF S!Kill, Chosen
  <2> QED BY <1>16, <2>0 DEF S!Kill, S!Otelite
<1>17. CASE UNCHANGED S!vars
  BY <1>17 DEF S!vars
<1> QED
  BY <1>3, <1>4, <1>5, <1>6, <1>7, <1>8, <1>9, <1>10, <1>11, <1>12, <1>13, <1>14, <1>15, <1>16, <1>17
     DEF S!Next, S!Step

\* What the service commands keep true: one command at a time, the machine and the
\* process a stop has chosen.
THEOREM ServiceInvariant == S!Spec => []ServiceInv
<1>1. ServiceInv /\ [S!Next]_(S!vars) => ServiceInv'
  BY ServiceFlagsStep, ServiceTypesStep, MachineStep, ChosenStep, AloneStep DEF ServiceInv
<1> QED BY <1>1, ServiceInit, PTL DEF S!Spec

\* While commands do not overlap, the PID file names the daemon that a start has
\* reported; however they overlap, what a start reports is a daemon and not a process
\* that is already gone (FileNamesStarted), for any commands and PIDs.
THEOREM FileNamed == S!Spec => []FileNamesStarted
<1>1. ServiceInv => FileNamesStarted
  BY DEF ServiceInv, Alone, Machine, FileNamesStarted, S!FileNamesStarted, S!ReportedIsDaemon
<1> QED BY <1>1, ServiceInvariant, PTL

\* A stop that removes the PID file has seen its process end or has sent it SIGKILL, and
\* no stranger is signalled whose PID did not change hands after the check (StopsHitTheDaemon).
THEOREM StopsSafe == S!Spec => []StopsHitTheDaemon
<1>1. ServiceInv => S!TypeOK
  <2> SUFFICES ASSUME ServiceInv PROVE S!TypeOK
    OBVIOUS
  <2>1. /\ gone \in [Commands -> BOOLEAN] /\ changed \in [Commands -> BOOLEAN]
        /\ overlapped \in BOOLEAN /\ stranger \in BOOLEAN
    BY Zenon DEF ServiceInv, ServiceFlags
  <2>2. port = NoPid \/ proc[port] \in {"serving", "other"}
    BY DEF ServiceInv, ServiceTypes, Machine
  <2>3. \A c \in Commands : step[c] = "poll" => S!Running(pid[c])
    BY DEF ServiceInv, Machine, Waiting, S!Daemon, S!Running
  <2>4. step \in [Commands -> {"idle", "read", "drop", "discover", "spawn", "write", "poll", "undo",
                               "check", "find", "find_port", "stale", "ensure", "term", "wait",
                               "kill", "forget"}]
    BY DEF ServiceInv, ServiceTypes, Steps, Waiting, Stopping
  <2>5. /\ proc \in [Pids -> {"free", "starting", "serving", "draining", "zombie", "tool", "other"}]
        /\ file \in Pids \cup {NoPid, Corrupt} /\ pid \in [Commands -> Pids \cup {NoPid}]
        /\ kind \in [Commands -> {"start", "stop", "restart", "status"}] /\ started \subseteq Pids
        /\ killed \subseteq Pids
    BY DEF ServiceInv, ServiceTypes
  <2> QED BY Zenon, <2>1, <2>2, <2>3, <2>4, <2>5 DEF S!TypeOK
<1>2. ServiceInv => StopsHitTheDaemon
  BY <1>1 DEF ServiceInv, Chosen, StopsHitTheDaemon, S!StoppedOrKilled, S!StrangersSpared
<1> QED BY <1>2, ServiceInvariant, PTL

-----------------------------------------------------------------------------
\* The terminal UI, for any logs and traces.

TuiTypes ==
    /\ view \in T!Views
    /\ logs \in Seq(Logs) /\ traces \in Seq(Traces)
    /\ log_index \in Nat /\ trace_index \in Nat /\ span_index \in Nat
    /\ cached \in Logs \cup {None} /\ trace_search \in Traces \cup {None, "typed"}
    /\ pending \in Traces \cup {None} /\ details \subseteq Traces

TuiFlags ==
    /\ prompt \in BOOLEAN /\ log_detail \in BOOLEAN /\ auto_scroll \in BOOLEAN
    /\ log_filter \in BOOLEAN /\ log_search \in BOOLEAN /\ trace_detail \in BOOLEAN
    /\ span_detail \in BOOLEAN /\ trace_filter \in BOOLEAN
    /\ followed \in BOOLEAN /\ settled \in BOOLEAN

\* A selection stays inside its list, and the selected span inside the open trace even
\* while its details are expired.
LogSide ==
    /\ logs # <<>> => log_index < Len(logs)
    /\ T!PanelShowsSelection
TraceSide ==
    /\ traces # <<>> => trace_index < Len(traces)
    /\ trace_detail /\ settled /\ T!SelectedTrace \in Traces =>
          span_index < SpanCount[T!SelectedTrace]
    /\ T!SpanPanelInTracePanel

TuiInv == phase \in {"key", "refresh"} /\ TuiTypes /\ TuiFlags /\ LogSide /\ TraceSide

LEMMA CardinalitySame == \A A : T!Cardinality(A) = Cardinality(A)
BY DEF T!Cardinality, Cardinality

\* There are no more rows than items, and a row shows one of them.
LEMMA ShownSize ==
    ASSUME NEW A, NEW list \in Seq(A), NEW shown \in SUBSET DOMAIN list
    PROVE  T!Cardinality(shown) \in Nat /\ T!Cardinality(shown) <= Len(list)
<1>1. Len(list) \in Nat /\ shown \in SUBSET (1..Len(list))
  OBVIOUS
<1>2. IsFiniteSet(1..Len(list)) /\ Cardinality(1..Len(list)) = Len(list)
  <2>1. \A n \in Nat : IsFiniteSet(1..n) /\ Cardinality(1..n) = n
    BY FS_Interval
  <2> QED BY <1>1, <2>1
<1>3. IsFiniteSet(shown) /\ Cardinality(shown) <= Cardinality(1..Len(list))
  BY <1>1, <1>2, FS_Subset
<1>4. Cardinality(shown) \in Nat
  BY <1>3, FS_CardinalityType
<1> QED BY <1>2, <1>3, <1>4, CardinalitySame

LEMMA RowType ==
    ASSUME NEW A, NEW list \in Seq(A), NEW shown \in SUBSET DOMAIN list, NEW i
    PROVE  T!Row(list, shown, i) \in A \cup {None}
<1> DEFINE at == {p \in shown : T!Cardinality({q \in shown : q < p}) = i}
<1>1. T!Row(list, shown, i) = IF at = {} THEN None ELSE list[CHOOSE p \in at : TRUE]
  BY Zenon DEF T!Row
<1>2. \A p \in at : list[p] \in A
  OBVIOUS
<1>3. CASE at # {}
  <2> HIDE DEF at
  <2>1. (CHOOSE p \in at : TRUE) \in at
    BY <1>3
  <2> QED BY <1>1, <1>2, <1>3, <2>1
<1>4. CASE at = {}
  BY <1>1, <1>4
<1> QED BY <1>3, <1>4

LEMMA SelectedTypes ==
    ASSUME TuiTypes
    PROVE  /\ \A i : T!Row(logs, T!FilteredLogs, i) \in Logs \cup {None}
           /\ T!SelectedLog \in Logs \cup {None} /\ T!SelectedTrace \in Traces \cup {None}
           /\ T!Cardinality(T!FilteredLogs) \in Nat /\ T!Cardinality(T!FilteredLogs) <= Len(logs)
           /\ T!Cardinality(T!FilteredTraces) \in Nat
           /\ T!Cardinality(T!FilteredTraces) <= Len(traces)
           /\ Len(logs) \in Nat /\ Len(traces) \in Nat
           /\ T!FilteredLogs # {} => T!Cardinality(T!FilteredLogs) > 0
<1>1. /\ logs \in Seq(Logs) /\ T!FilteredLogs \in SUBSET DOMAIN logs
      /\ traces \in Seq(Traces) /\ T!FilteredTraces \in SUBSET DOMAIN traces
  BY DEF TuiTypes, T!FilteredLogs, T!FilteredTraces
<1>2. /\ \A i : T!Row(logs, T!FilteredLogs, i) \in Logs \cup {None}
      /\ T!SelectedTrace \in Traces \cup {None}
  BY <1>1, RowType DEF T!SelectedTrace
<1>3. /\ T!Cardinality(T!FilteredLogs) \in Nat /\ T!Cardinality(T!FilteredLogs) <= Len(logs)
      /\ T!Cardinality(T!FilteredTraces) \in Nat /\ T!Cardinality(T!FilteredTraces) <= Len(traces)
  BY <1>1, ShownSize
<1>4. T!FilteredLogs # {} => T!Cardinality(T!FilteredLogs) # 0
  <2>1. IsFiniteSet(DOMAIN logs)
    BY <1>1, FS_Interval
  <2>2. IsFiniteSet(T!FilteredLogs)
    BY <1>1, <2>1, FS_Subset
  <2> QED BY <2>2, FS_EmptySet, CardinalitySame
<1>5. Len(logs) \in Nat /\ Len(traces) \in Nat
  BY <1>1
<1> QED BY <1>2, <1>3, <1>4, <1>5 DEF T!SelectedLog

LEMMA TuiInit == T!Init => TuiInv
<1> SUFFICES ASSUME T!Init PROVE TuiInv
  OBVIOUS
<1>1. TuiFlags
  BY Zenon DEF T!Init, TuiFlags
<1>2. TuiTypes /\ phase \in {"key", "refresh"}
  BY DEF T!Init, TuiTypes, T!Views
<1>3. LogSide /\ TraceSide
  BY DEF T!Init, LogSide, TraceSide, T!PanelShowsSelection, T!SpanPanelInTracePanel
<1> QED BY <1>1, <1>2, <1>3 DEF TuiInv

LEMMA TuiFlagsStep == TuiFlags /\ [T!Next]_(T!vars) => TuiFlags'
<1> SUFFICES ASSUME TuiFlags, [T!Next]_(T!vars) PROVE TuiFlags'
  OBVIOUS
<1> USE DEF TuiFlags, T!logVars, T!traceVars
<1>1. CASE T!OpenPrompt \/ T!Type \/ T!ClosePrompt \/ T!SwitchView
  BY Zenon, <1>1 DEF T!OpenPrompt, T!Type, T!ClosePrompt, T!SwitchView
<1>2. CASE T!LogKey
  BY Zenon, <1>2 DEF T!LogKey, T!MoveLog, T!SelectLog, T!ToggleAutoScroll, T!OpenLog
<1>3. CASE T!TraceKey
  BY Zenon, <1>3 DEF T!TraceKey, T!MoveTrace, T!SelectTrace, T!MoveSpan, T!OpenTrace, T!OpenSpan
<1>4. CASE T!JumpToTrace \/ T!Back
  BY Zenon, <1>4 DEF T!JumpToTrace, T!Back, T!BackLog, T!BackTrace
<1>5. CASE T!Refresh
  BY Zenon, <1>5 DEF T!Refresh, T!UpdateLogs, T!UpdateTraces
<1>6. CASE (\E t \in Traces : T!Expire(t)) \/ UNCHANGED T!vars
  BY Zenon, <1>6 DEF T!Expire, T!vars
<1> QED
  BY <1>1, <1>2, <1>3, <1>4, <1>5, <1>6 DEF T!Next, T!Key

\* A list of another length has its items inside, however long the last one was.
LEMMA ListingType == ASSUME NEW A, NEW list \in T!Listings(A) PROVE list \in Seq(A)
<1>1. PICK n : list \in [1..n -> A] /\ n \in 0..T!Cardinality(A)
  BY Zenon DEF T!Listings
<1>2. n \in Nat
  BY <1>1
<1> QED BY <1>1, <1>2

LEMMA ClampType ==
    ASSUME NEW A, NEW list \in Seq(A), NEW i \in Nat
    PROVE  T!Clamp(i, list) \in Nat /\ (list # <<>> => T!Clamp(i, list) < Len(list))
BY DEF T!Clamp

\* The panel is filled for the row that is selected.
LEMMA CacheStamp == ASSUME NEW l PROVE T!StampOf(T!CacheFor(l)) = T!StampOf(l)
BY DEF T!CacheFor

LEMMA LogSideSame == LogSide /\ UNCHANGED T!logVars => LogSide'
BY DEF LogSide, T!logVars, T!PanelShowsSelection, T!SelectedLog, T!FilteredLogs, T!StampOf

LEMMA TraceSideSame ==
    /\ TraceSide
    /\ UNCHANGED <<traces, trace_index, trace_detail, span_detail, span_index, trace_filter,
                   trace_search, settled>>
    => TraceSide'
BY DEF TraceSide, T!SpanPanelInTracePanel, T!SelectedTrace, T!FilteredTraces

\* The moves of the selection in the logs view.
LEMMA SelectLogStep ==
    ASSUME TuiInv, NEW i \in Nat, logs # <<>> => i < Len(logs), T!SelectLog(i)
    PROVE  /\ LogSide' /\ log_index' = i /\ logs' = logs
           /\ cached' \in Logs \cup {None}
<1>1. /\ log_index' = i /\ UNCHANGED <<logs, log_detail, log_filter, log_search>>
      /\ cached' = IF log_detail THEN T!CacheFor(T!Row(logs, T!FilteredLogs, i)) ELSE cached
  BY DEF T!SelectLog
<1>2. T!SelectedLog' = T!Row(logs, T!FilteredLogs, i)
  BY <1>1 DEF T!SelectedLog, T!FilteredLogs
<1>3. log_detail => T!StampOf(cached') = T!StampOf(T!SelectedLog')
  BY <1>1, <1>2, CacheStamp
<1>4. T!PanelShowsSelection'
  BY <1>1, <1>3 DEF T!PanelShowsSelection, T!StampOf
<1>5. cached' \in Logs \cup {None}
  BY <1>1, SelectedTypes DEF TuiInv, TuiTypes, T!CacheFor
<1> QED BY <1>1, <1>4, <1>5 DEF LogSide

LEMMA LogKeyStep == TuiInv /\ T!LogKey => TuiTypes' /\ LogSide' /\ TraceSide'
<1> SUFFICES ASSUME TuiInv, T!LogKey PROVE TuiTypes' /\ LogSide' /\ TraceSide'
  OBVIOUS
<1>1. UNCHANGED <<view, prompt, T!traceVars, details>>
  BY DEF T!LogKey
<1>2. TraceSide'
  BY <1>1, TraceSideSame DEF TuiInv, T!traceVars
<1>3. SUFFICES LogSide' /\ log_index' \in Nat /\ logs' = logs /\ cached' \in Logs \cup {None}
  BY <1>1, <1>2 DEF TuiInv, TuiTypes, T!traceVars
<1>4. Len(logs) \in Nat /\ log_index \in Nat /\ cached \in Logs \cup {None} /\ logs \in Seq(Logs)
  BY SelectedTypes DEF TuiInv, TuiTypes
<1>5. CASE T!MoveLog
  <2>1. Page \in Nat \ {0}
    BY TuiAssumption
  <2>2. ASSUME NEW i \in Nat, logs # <<>> => i < Len(logs), T!SelectLog(i)
        PROVE  LogSide' /\ log_index' \in Nat /\ logs' = logs /\ cached' \in Logs \cup {None}
    BY <2>2, SelectLogStep
  <2>3. CASE log_index > 0 /\ T!SelectLog(log_index - 1)
    BY <1>4, <2>2, <2>3 DEF TuiInv, LogSide
  <2>4. CASE log_index + 1 < T!Cardinality(T!FilteredLogs) /\ T!SelectLog(log_index + 1)
    BY <1>4, <2>2, <2>4, SelectedTypes DEF TuiInv
  <2>5. CASE /\ T!FilteredLogs # {}
             /\ T!SelectLog(T!Down(log_index, Page, T!Cardinality(T!FilteredLogs)))
    <3>1. T!Down(log_index, Page, T!Cardinality(T!FilteredLogs)) \in 0..(Len(logs) - 1)
      BY <1>4, <2>1, <2>5, SelectedTypes DEF TuiInv, T!Down, T!Least
    <3> QED BY <1>4, <2>2, <2>5, <3>1
  <2>6. CASE T!SelectLog(T!Up(log_index, Page))
    <3>1. T!Up(log_index, Page) \in 0..log_index
      BY <1>4, <2>1 DEF T!Up
    <3> QED BY <1>4, <2>2, <2>6, <3>1 DEF TuiInv, LogSide
  <2> QED BY <1>5, <2>3, <2>4, <2>5, <2>6 DEF T!MoveLog
<1>6. CASE T!ToggleAutoScroll
  <2>1. /\ log_index' \in {log_index} \cup (IF logs # <<>> THEN {Len(logs) - 1} ELSE {})
        /\ ~followed' /\ UNCHANGED <<logs, cached>>
    BY <1>6 DEF T!ToggleAutoScroll
  <2>2. logs # <<>> => Len(logs) > 0
    BY <1>4
  <2> QED BY <1>4, <2>1, <2>2 DEF TuiInv, LogSide, T!PanelShowsSelection
<1>7. CASE T!OpenLog
  <2>1. /\ cached' = T!CacheFor(T!SelectedLog)
        /\ UNCHANGED <<logs, log_index, log_filter, log_search>>
    BY <1>7 DEF T!OpenLog
  <2>2. T!SelectedLog' = T!SelectedLog
    BY <2>1 DEF T!SelectedLog, T!FilteredLogs
  <2>3. T!StampOf(cached') = T!StampOf(T!SelectedLog')
    BY <2>1, <2>2, CacheStamp
  <2>4. T!PanelShowsSelection'
    BY <2>3 DEF T!PanelShowsSelection, T!StampOf
  <2>5. cached' \in Logs \cup {None}
    BY <1>4, <2>1, SelectedTypes DEF TuiInv, T!CacheFor
  <2> QED BY <1>4, <2>1, <2>4, <2>5 DEF TuiInv, LogSide
<1> QED BY <1>5, <1>6, <1>7 DEF T!LogKey

\* A move in an open trace stays among its spans.
LEMMA TraceKeyStep == TuiInv /\ T!TraceKey => TuiTypes' /\ LogSide' /\ TraceSide'
<1> SUFFICES ASSUME TuiInv, T!TraceKey PROVE TuiTypes' /\ LogSide' /\ TraceSide'
  OBVIOUS
<1>1. UNCHANGED <<view, prompt, T!logVars, details>>
  BY DEF T!TraceKey
<1>2. LogSide'
  BY <1>1, LogSideSame DEF TuiInv
<1>3. SUFFICES /\ TraceSide' /\ trace_index' \in Nat /\ span_index' \in Nat
               /\ pending' \in Traces \cup {None} /\ UNCHANGED <<traces, trace_search>>
  BY <1>1, <1>2 DEF TuiInv, TuiTypes, T!logVars
<1>4. /\ Len(traces) \in Nat /\ trace_index \in Nat /\ span_index \in Nat
      /\ pending \in Traces \cup {None} /\ traces \in Seq(Traces)
      /\ T!SelectedTrace \in Traces \cup {None}
  BY SelectedTypes DEF TuiInv, TuiTypes
<1>5. Page \in Nat \ {0} /\ \A t \in Traces : SpanCount[t] \in Nat \ {0}
  BY TuiAssumption
<1>6. CASE T!MoveTrace
  <2>1. ASSUME NEW i \in Nat, traces # <<>> => i < Len(traces), T!SelectTrace(i), ~trace_detail
        PROVE  /\ TraceSide' /\ trace_index' \in Nat /\ span_index' \in Nat
               /\ pending' \in Traces \cup {None} /\ UNCHANGED <<traces, trace_search>>
    BY <1>4, <2>1 DEF T!SelectTrace, TuiInv, TraceSide, T!SpanPanelInTracePanel
  <2>2. ASSUME NEW n \in Nat, T!SelectTrace(T!Up(trace_index, n)), ~trace_detail
        PROVE  /\ TraceSide' /\ trace_index' \in Nat /\ span_index' \in Nat
               /\ pending' \in Traces \cup {None} /\ UNCHANGED <<traces, trace_search>>
    <3>1. T!Up(trace_index, n) \in 0..trace_index
      BY <1>4 DEF T!Up
    <3> QED BY <1>4, <2>1, <2>2, <3>1 DEF TuiInv, TraceSide
  <2>3. CASE ~trace_detail /\ trace_index + 1 < T!Cardinality(T!FilteredTraces)
             /\ T!SelectTrace(trace_index + 1)
    BY <1>4, <2>1, <2>3, SelectedTypes DEF TuiInv
  <2>4. CASE ~trace_detail /\ T!SelectTrace(T!Down(trace_index, Page, T!Cardinality(T!FilteredTraces)))
    <3>1. \/ T!Down(trace_index, Page, T!Cardinality(T!FilteredTraces)) = trace_index
          \/ T!Down(trace_index, Page, T!Cardinality(T!FilteredTraces)) \in 0..(Len(traces) - 1)
      BY <1>4, <1>5, SelectedTypes DEF TuiInv, T!Down, T!Least
    <3> QED BY <1>4, <2>1, <2>4, <3>1 DEF TuiInv, TraceSide
  <2> QED BY <1>5, <1>6, <2>2, <2>3, <2>4 DEF T!MoveTrace
<1>7. CASE T!MoveSpan
  <2>1. /\ UNCHANGED <<traces, trace_index, trace_detail, span_detail, trace_filter, trace_search,
                       pending, settled>>
        /\ T!SelectedTrace' = T!SelectedTrace
    BY <1>7 DEF T!MoveSpan, T!SelectedTrace, T!FilteredTraces
  <2>2. T!Loaded => T!SelectedTrace \in Traces
    BY DEF T!Loaded, TuiInv, TuiTypes
  <2>3. \A n \in Nat : T!Up(span_index, n) \in 0..span_index
    BY <1>4 DEF T!Up
  <2>4. T!Loaded => T!Down(span_index, Page, SpanCount[T!SelectedTrace])
                       \in 0..(SpanCount[T!SelectedTrace] - 1)
    BY <1>4, <1>5, <2>2 DEF T!Down, T!Least
  <2>5. \/ span_index' \in 0..span_index
        \/ T!SelectedTrace \in Traces /\ span_index' \in 0..(SpanCount[T!SelectedTrace] - 1)
    <3>1. CASE span_index' \in {T!Up(span_index, 1), T!Up(span_index, Page)}
      BY <1>5, <2>3, <3>1
    <3>2. CASE T!Loaded /\ span_index + 1 < SpanCount[T!SelectedTrace] /\ span_index' = span_index + 1
      <4>1. SpanCount[T!SelectedTrace] \in Nat
        BY <1>5, <2>2, <3>2
      <4> QED BY <1>4, <2>2, <3>2, <4>1
    <3>3. CASE T!Loaded /\ span_index' = T!Down(span_index, Page, SpanCount[T!SelectedTrace])
      BY <2>2, <2>4, <3>3
    <3> QED BY <1>7, <3>1, <3>2, <3>3 DEF T!MoveSpan
  <2> QED BY <1>4, <1>5, <2>1, <2>5 DEF TuiInv, TraceSide, T!SpanPanelInTracePanel
<1>8. CASE T!OpenTrace
  <2>1. /\ span_index' = 0 /\ UNCHANGED <<traces, trace_index, trace_filter, trace_search>>
        /\ ~span_detail' /\ pending' \in {pending, T!SelectedTrace}
    BY <1>8 DEF T!OpenTrace
  <2>2. T!SelectedTrace' = T!SelectedTrace
    BY <2>1 DEF T!SelectedTrace, T!FilteredTraces
  <2> QED BY <1>4, <1>5, <2>1, <2>2 DEF TuiInv, TraceSide, T!SpanPanelInTracePanel
<1>9. CASE T!OpenSpan
  <2>1. /\ UNCHANGED <<traces, trace_index, trace_detail, span_index, trace_filter, trace_search,
                       pending, settled>>
        /\ trace_detail
        /\ T!SelectedTrace' = T!SelectedTrace
    BY <1>9 DEF T!OpenSpan, T!SelectedTrace, T!FilteredTraces
  <2> QED BY <1>4, <2>1 DEF TuiInv, TraceSide, T!SpanPanelInTracePanel
<1> QED BY <1>6, <1>7, <1>8, <1>9 DEF T!TraceKey

\* Enter, Esc, Tab and the jump from a log to its trace.
LEMMA OtherKeyStep ==
    ASSUME TuiInv,
           T!OpenPrompt \/ T!Type \/ T!ClosePrompt \/ T!SwitchView \/ T!JumpToTrace \/ T!Back
    PROVE  TuiTypes' /\ LogSide' /\ TraceSide'
<1>0. /\ TuiTypes /\ LogSide /\ TraceSide /\ Len(logs) \in Nat /\ Len(traces) \in Nat
      /\ (logs # <<>> => Len(logs) > 0) /\ (traces # <<>> => Len(traces) > 0)
  BY SelectedTypes DEF TuiInv, TuiTypes
<1>1. CASE /\ view' \in T!Views /\ UNCHANGED <<T!logVars, T!traceVars, details>>
  <2>1. TuiTypes'
    BY <1>0, <1>1 DEF TuiTypes, T!logVars, T!traceVars
  <2>2. TraceSide'
    BY <1>0, <1>1, TraceSideSame DEF T!traceVars
  <2> QED BY <1>0, <1>1, <2>1, <2>2, LogSideSame
\* The filters or the search of the logs change, and the first row is selected.
<1>2. CASE /\ view' = view /\ log_index' = 0 /\ ~followed'
           /\ UNCHANGED <<logs, cached, T!traceVars, details>>
  <2>1. TuiTypes'
    BY <1>0, <1>2 DEF TuiTypes, T!traceVars
  <2>2. TraceSide'
    BY <1>0, <1>2, TraceSideSame DEF T!traceVars
  <2>3. LogSide'
    BY <1>0, <1>2 DEF LogSide, T!PanelShowsSelection
  <2> QED BY <2>1, <2>2, <2>3
\* The same for the traces.
<1>3. CASE /\ view' \in T!Views /\ trace_index' = 0 /\ ~settled'
           /\ trace_search' \in Traces \cup {None, "typed"}
           /\ UNCHANGED <<traces, trace_detail, span_detail, span_index, pending, T!logVars, details>>
  <2>1. TuiTypes'
    BY <1>0, <1>3 DEF TuiTypes, T!logVars
  <2>2. LogSide'
    BY <1>0, <1>3, LogSideSame
  <2>3. TraceSide'
    BY <1>0, <1>3 DEF TraceSide, T!SpanPanelInTracePanel
  <2> QED BY <2>1, <2>2, <2>3
\* A panel closes.
<1>4. CASE /\ view' = view /\ ~span_detail' /\ UNCHANGED <<T!logVars, details>>
           /\ \/ ~trace_detail' /\ span_index' = 0
              \/ UNCHANGED <<trace_detail, span_index>>
           /\ UNCHANGED <<traces, trace_index, trace_filter, trace_search, pending, settled>>
  <2>1. TuiTypes'
    BY <1>0, <1>4 DEF TuiTypes, T!logVars
  <2>2. LogSide'
    BY <1>0, <1>4, LogSideSame
  <2>3. T!SelectedTrace' = T!SelectedTrace
    BY <1>4 DEF T!SelectedTrace, T!FilteredTraces
  <2>4. TraceSide'
    BY <1>0, <1>4, <2>3 DEF TraceSide, T!SpanPanelInTracePanel
  <2> QED BY <2>1, <2>2, <2>4
<1>5. CASE /\ view' = view /\ ~log_detail'
           /\ UNCHANGED <<logs, log_index, cached, T!traceVars, details>>
  <2>1. TuiTypes'
    BY <1>0, <1>5 DEF TuiTypes, T!traceVars
  <2>2. TraceSide'
    BY <1>0, <1>5, TraceSideSame DEF T!traceVars
  <2>3. LogSide'
    BY <1>0, <1>5 DEF LogSide, T!PanelShowsSelection
  <2> QED BY <2>1, <2>2, <2>3
<1>6. CASE T!OpenPrompt \/ T!Type \/ T!SwitchView
  BY <1>0, <1>1, <1>6 DEF T!OpenPrompt, T!Type, T!SwitchView, TuiTypes
<1>7. CASE T!ClosePrompt
  <2>1. trace_search \in Traces \cup {None, "typed"} /\ view \in T!Views
    BY <1>0 DEF TuiTypes
  <2> QED BY <1>1, <1>2, <1>3, <1>7, <2>1 DEF T!ClosePrompt
<1>8. CASE T!JumpToTrace
  <2>1. TraceOf[cached] \in Traces
    BY <1>0, <1>8, TuiAssumption DEF T!JumpToTrace, TuiTypes
  <2> QED BY <1>3, <1>8, <2>1 DEF T!JumpToTrace, T!Views
<1>9. CASE T!Back
  <2>1. trace_search \in Traces \cup {None, "typed"} /\ view \in T!Views /\ "logs" \in T!Views
    BY <1>0 DEF TuiTypes, T!Views
  <2>2. CASE view = "help" /\ view' = "logs" /\ UNCHANGED <<T!logVars, T!traceVars>>
    BY <1>1, <1>9, <2>1, <2>2 DEF T!Back
  <2>3. CASE T!BackLog /\ UNCHANGED <<view, T!traceVars>>
    BY <1>2, <1>5, <1>9, <2>3 DEF T!Back, T!BackLog
  <2>4. CASE T!BackTrace /\ UNCHANGED <<view, T!logVars>>
    BY <1>3, <1>4, <1>9, <2>1, <2>4 DEF T!Back, T!BackTrace
  <2> QED BY <1>9, <2>2, <2>3, <2>4 DEF T!Back
<1> QED BY <1>6, <1>7, <1>8, <1>9

LEMMA RefreshStep == TuiInv /\ T!Refresh => TuiTypes' /\ LogSide' /\ TraceSide'
<1> SUFFICES ASSUME TuiInv, T!Refresh PROVE TuiTypes' /\ LogSide' /\ TraceSide'
  OBVIOUS
<1>1. /\ pending' = None /\ view' = view /\ details' \subseteq Traces
  BY DEF T!Refresh, TuiInv, TuiTypes
<1>2. TuiTypes /\ LogSide /\ TraceSide /\ log_index \in Nat /\ trace_index \in Nat
  BY DEF TuiInv, TuiTypes
<1>3. CASE T!UpdateLogs
  <2>1. /\ UNCHANGED <<traces, trace_index, trace_detail, span_detail, span_index, trace_filter,
                       trace_search, settled, cached>>
        /\ ~followed'
        /\ log_index' = T!Clamp(IF auto_scroll /\ logs' # <<>> THEN Len(logs') - 1 ELSE log_index, logs')
        /\ logs' \in T!Listings(Logs)
    BY <1>3 DEF T!UpdateLogs
  <2>2. logs' \in Seq(Logs)
    BY <2>1, ListingType
  <2>3. (IF auto_scroll /\ logs' # <<>> THEN Len(logs') - 1 ELSE log_index) \in Nat
    BY <1>2, <2>2
  <2>4. log_index' \in Nat /\ (logs' # <<>> => log_index' < Len(logs'))
    BY <2>1, <2>2, <2>3, ClampType
  <2>5. LogSide'
    BY <2>1, <2>4 DEF LogSide, T!PanelShowsSelection
  <2>6. TraceSide'
    BY <1>2, <2>1, TraceSideSame
  <2> QED BY <1>1, <1>2, <2>1, <2>2, <2>4, <2>5, <2>6 DEF TuiTypes
<1>4. CASE T!UpdateTraces
  <2>1. /\ UNCHANGED <<T!logVars, trace_detail, span_detail, span_index, trace_search>>
        /\ ~settled' /\ trace_index' = T!Clamp(trace_index, traces')
        /\ traces' \in T!Listings(Traces)
    BY <1>4 DEF T!UpdateTraces
  <2>2. traces' \in Seq(Traces)
    BY <2>1, ListingType
  <2>3. trace_index' \in Nat /\ (traces' # <<>> => trace_index' < Len(traces'))
    BY <1>2, <2>1, <2>2, ClampType
  <2>4. TraceSide'
    BY <1>2, <2>1, <2>3 DEF TraceSide, T!SpanPanelInTracePanel
  <2>5. LogSide'
    BY <1>2, <2>1, LogSideSame
  <2> QED BY <1>1, <1>2, <2>1, <2>2, <2>3, <2>4, <2>5 DEF TuiTypes, T!logVars
<1>5. CASE UNCHANGED <<T!logVars, traces, trace_index, trace_detail, span_detail, span_index,
                       trace_filter, trace_search, settled>>
  <2>1. LogSide' /\ TraceSide'
    BY <1>2, <1>5, LogSideSame, TraceSideSame
  <2> QED BY <1>1, <1>2, <1>5, <2>1 DEF TuiTypes, T!logVars
<1> QED BY <1>3, <1>4, <1>5 DEF T!Refresh

\* What every key and every refresh of the terminal UI keep true.
THEOREM TuiInvariant == T!Spec => []TuiInv
<1>1. TuiInv /\ [T!Next]_(T!vars) => TuiInv'
  <2> SUFFICES ASSUME TuiInv, [T!Next]_(T!vars) PROVE TuiInv'
    OBVIOUS
  <2>1. TuiFlags'
    BY TuiFlagsStep DEF TuiInv
  <2>2. phase' \in {"key", "refresh"}
    BY DEF TuiInv, T!Next, T!Key, T!Refresh, T!Expire, T!vars
  <2>3. CASE T!Key
    BY <2>1, <2>2, <2>3, LogKeyStep, TraceKeyStep, OtherKeyStep DEF T!Key, TuiInv
  <2>4. CASE T!Refresh
    BY <2>1, <2>2, <2>4, RefreshStep DEF TuiInv
  <2>5. CASE (\E t \in Traces : T!Expire(t)) \/ UNCHANGED T!vars
    <3>1. /\ UNCHANGED <<view, T!logVars, T!traceVars>> /\ details' \subseteq details
      BY <2>5 DEF T!Expire, T!vars
    <3>2. LogSide' /\ TraceSide'
      BY <3>1, LogSideSame, TraceSideSame DEF TuiInv, T!traceVars
    <3> QED BY <2>1, <2>2, <3>1, <3>2 DEF TuiInv, TuiTypes, T!logVars, T!traceVars
  <2> QED BY <2>3, <2>4, <2>5 DEF T!Next
<1> QED BY <1>1, TuiInit, PTL DEF T!Spec

\* A selection stays inside its list and the selected span inside the open trace, and the
\* log panel shows the selected log or one of its timestamp (SelectionsHold), for any logs,
\* traces, filters and page length.
THEOREM SelectionsSafe == T!Spec => []SelectionsHold
<1>1. TuiInv => T!TypeOK
  <2> SUFFICES ASSUME TuiInv PROVE T!TypeOK
    OBVIOUS
  <2>1. {prompt, log_detail, auto_scroll, log_filter, log_search, trace_detail, span_detail,
         trace_filter, followed, settled} \subseteq BOOLEAN
    BY Zenon DEF TuiInv, TuiFlags
  <2>2. /\ logs # <<>> => log_index \in 0..(Len(logs) - 1)
        /\ traces # <<>> => trace_index \in 0..(Len(traces) - 1)
    BY DEF TuiInv, TuiTypes, LogSide, TraceSide
  <2>3. /\ phase \in {"key", "refresh"} /\ view \in T!Views
        /\ cached \in Logs \cup {None} /\ trace_search \in Traces \cup {None, "typed"}
        /\ pending \in Traces \cup {None} /\ details \subseteq Traces
    BY DEF TuiInv, TuiTypes
  <2> QED BY Zenon, <2>1, <2>2, <2>3 DEF T!TypeOK
<1>2. TuiInv => T!SpanInTrace
  BY DEF TuiInv, TuiTypes, TraceSide, T!SpanInTrace, T!Loaded
<1>3. TuiInv => SelectionsHold
  BY <1>1, <1>2 DEF TuiInv, LogSide, TraceSide, SelectionsHold
<1> QED BY <1>3, TuiInvariant, PTL

-----------------------------------------------------------------------------
\* The instance that the run explores behaves, part by part, as the three modules do: so the
\* theorems above hold of it.
THEOREM PartsRun == DashboardSpec => Spec /\ T!Spec /\ S!Spec
<1>1. DashboardInit => Init /\ T!Init /\ S!Init
  BY DEF DashboardInit
<1>2. ASSUME [DashboardNext]_DashboardVars PROVE [Next]_vars /\ [T!Next]_(T!vars) /\ [S!Next]_(S!vars)
  <2>1. UNCHANGED tuiVars => UNCHANGED T!vars
    BY DEF tuiVars, T!vars, T!logVars, T!traceVars
  <2>2. UNCHANGED serviceVars => UNCHANGED S!vars
    BY DEF serviceVars, S!vars, S!osVars, S!cmdVars, S!history
  <2> QED BY <1>2, <2>1, <2>2 DEF DashboardNext, DashboardVars
<1> QED BY <1>1, <1>2, PTL DEF DashboardSpec, Spec, T!Spec, S!Spec

\* What the run checks of the parts, for every value of the constants.
COROLLARY DashboardSafe ==
    DashboardSpec =>
        [](OneOwner /\ NoConnectionLeaks /\ SelectionsHold /\ FileNamesStarted /\ StopsHitTheDaemon)
BY PartsRun, Ownership, NothingLeaks, SelectionsSafe, FileNamed, StopsSafe, PTL
=============================================================================
