--------------------------- MODULE Receiver_proofs ---------------------------
(***************************************************************************)
(* Proofs about Health, and about the receivers that share it, for every   *)
(* set of handlers, every threshold and every limit: the degraded flag, the *)
(* permits and the ready flag.                                             *)
(***************************************************************************)
EXTENDS Receiver, FiniteSetTheorems, TLAPS

\* The inductive strengthening.  Unless a success and a failure overlapped, and no
\* update that stores the flag has begun alone since, at most one handler has a store to
\* make: a pending FALSE comes from the swap that ended the streak, a pending TRUE from
\* the failure that reached the threshold.
OneStoreAtATime ==
    ~overlapped =>
        /\ Pending("store_false") => consecutive_persistent_failures = 0
        /\ Pending("store_true") => consecutive_persistent_failures >= Threshold
        /\ \A g, h \in Handlers : pc[g] # "idle" /\ pc[h] # "idle" => g = h
        /\ Quiet => (degraded <=> consecutive_persistent_failures >= Threshold)

\* The streak and the flag keep their types (TypeOK).
THEOREM TypeCorrect == Spec => []TypeOK
<1>1. Init => TypeOK
  <2> SUFFICES ASSUME Init PROVE TypeOK
    OBVIOUS
  <2>1. consecutive_persistent_failures \in 0..MaxFailures /\ full_streak \in 0..Threshold
    BY HealthAssumption DEF Init
  <2>2. degraded \in BOOLEAN /\ overlapped \in BOOLEAN
    BY Zenon DEF Init
  <2>3. pc \in [Handlers -> {"idle", "store_false", "store_true"}]
    BY DEF Init
  <2> QED BY <2>1, <2>2, <2>3 DEF TypeOK
<1>2. TypeOK /\ [Next]_vars => TypeOK'
  <2> SUFFICES ASSUME TypeOK, [Next]_vars PROVE TypeOK'
    OBVIOUS
  <2> USE HealthAssumption DEF TypeOK
  <2>0. \A cause : FullStreakAfter(cause) \in 0..Threshold
    BY DEF FullStreakAfter
  <2>1. ASSUME NEW h \in Handlers, Swap(h) PROVE TypeOK'
    BY <2>1 DEF Swap
  <2>2. ASSUME NEW h \in Handlers, StoreFalse(h) PROVE TypeOK'
    BY <2>2 DEF StoreFalse
  <2>3. ASSUME NEW h \in Handlers, NEW phase \in Phases, NEW cause \in Causes,
               FetchAdd(h, phase, cause)
        PROVE  TypeOK'
    BY <2>0, <2>3 DEF FetchAdd
  <2>4. ASSUME NEW h \in Handlers, StoreTrue(h) PROVE TypeOK'
    BY <2>4 DEF StoreTrue
  <2>5. ASSUME NEW h \in Handlers, NEW phase \in Phases, NEW cause \in Causes,
               IgnoreTransient(h, phase, cause)
        PROVE  TypeOK'
    BY <2>0, <2>5 DEF IgnoreTransient
  <2>6. CASE UNCHANGED vars
    BY <2>6 DEF vars
  <2> QED BY <2>1, <2>2, <2>3, <2>4, <2>5, <2>6 DEF Next
<1> QED BY <1>1, <1>2, PTL DEF Spec

\* OneStoreAtATime is inductive under the types.
LEMMA OneStoreStep == TypeOK /\ OneStoreAtATime /\ [Next]_vars => OneStoreAtATime'
<1> SUFFICES ASSUME TypeOK, OneStoreAtATime, [Next]_vars, ~overlapped'
             PROVE  OneStoreAtATime'
  BY DEF OneStoreAtATime
<1> USE HealthAssumption DEF TypeOK, Pending, Quiet
<1>1. ASSUME NEW h \in Handlers, Swap(h)
      PROVE  OneStoreAtATime'
  <2>1. \/ Quiet /\ consecutive_persistent_failures # 0
        \/ ~overlapped /\ ~Pending("store_true")
    BY <1>1 DEF Swap
  <2>2. CASE consecutive_persistent_failures = 0
    BY <1>1, <2>1, <2>2 DEF Swap, OneStoreAtATime
  <2>3. CASE consecutive_persistent_failures # 0
    <3>1. Quiet
      BY <2>1, <2>3 DEF OneStoreAtATime
    <3>2. pc' = [pc EXCEPT ![h] = "store_false"] /\ consecutive_persistent_failures' = 0
      BY <1>1, <2>3 DEF Swap
    <3> QED BY <3>1, <3>2 DEF OneStoreAtATime
  <2> QED BY <2>2, <2>3
<1>2. ASSUME NEW h \in Handlers, StoreFalse(h)
      PROVE  OneStoreAtATime'
  BY <1>2 DEF StoreFalse, OneStoreAtATime
<1>3. ASSUME NEW h \in Handlers, NEW phase \in Phases, NEW cause \in Causes,
             FetchAdd(h, phase, cause)
      PROVE  OneStoreAtATime'
  <2>1. \/ Quiet /\ consecutive_persistent_failures + 1 = Threshold
        \/ ~overlapped /\ ~Pending("store_false")
    BY <1>3 DEF FetchAdd
  <2>2. CASE consecutive_persistent_failures + 1 = Threshold
    <3>1. Quiet
      BY <2>1, <2>2 DEF OneStoreAtATime
    <3>2. /\ pc' = [pc EXCEPT ![h] = "store_true"]
          /\ consecutive_persistent_failures' = Threshold
      BY <1>3, <2>2 DEF FetchAdd
    <3> QED BY <3>1, <3>2 DEF OneStoreAtATime
  <2>3. CASE consecutive_persistent_failures + 1 # Threshold
    <3>1. pc' = pc /\ degraded' = degraded
      BY <1>3, <2>3 DEF FetchAdd
    <3>2. consecutive_persistent_failures' >= Threshold
              <=> consecutive_persistent_failures >= Threshold
      BY <1>3, <2>3 DEF FetchAdd
    <3> QED BY <2>1, <2>3, <3>1, <3>2 DEF OneStoreAtATime
  <2> QED BY <2>2, <2>3
<1>4. ASSUME NEW h \in Handlers, StoreTrue(h)
      PROVE  OneStoreAtATime'
  BY <1>4 DEF StoreTrue, OneStoreAtATime
<1>5. ASSUME NEW h \in Handlers, NEW phase \in Phases, NEW cause \in Causes,
             IgnoreTransient(h, phase, cause)
      PROVE  OneStoreAtATime'
  BY <1>5 DEF IgnoreTransient, OneStoreAtATime
<1>6. CASE UNCHANGED vars
  BY <1>6 DEF vars, OneStoreAtATime
<1> QED BY <1>1, <1>2, <1>3, <1>4, <1>5, <1>6 DEF Next

LEMMA OneStoreInvariant == Spec => [](TypeOK /\ OneStoreAtATime)
<1>1. Init => OneStoreAtATime
  BY HealthAssumption DEF Init, OneStoreAtATime, Pending, Quiet
<1> QED BY <1>1, OneStoreStep, TypeCorrect, PTL DEF Spec

\* The flag agrees with the streak whenever no update is under way, but for the time
\* between a success that overlapped a failure and the next update that stores the flag
\* alone (AgreesUnlessOverlapped), for any number of handlers.
THEOREM FlagAgrees == Spec => []AgreesUnlessOverlapped
<1>1. OneStoreAtATime => AgreesUnlessOverlapped
  BY DEF OneStoreAtATime, AgreesUnlessOverlapped
<1> QED BY <1>1, OneStoreInvariant, PTL

-----------------------------------------------------------------------------
\* The shared health takes one of its own steps, or none, in every step of the receivers.
LEMMA UsesHealth == ReceiverSpec => Spec
<1>1. ReceiverInit => Init
  BY DEF ReceiverInit
<1>2. [ReceiverNext]_receiverVars => [Next]_vars
  <2> SUFFICES ASSUME [ReceiverNext]_receiverVars PROVE [Next]_vars
    OBVIOUS
  <2>1. ASSUME NEW h \in Handlers, Record(h) \/ SetFlag(h) PROVE Next
    BY <2>1 DEF Record, SetFlag, Next
  <2>2. ASSUME NEW h \in Handlers,
               Admit(h) \/ AnswerWithoutWrite(h) \/ StartWrite(h) \/ Answer(h) \/ Abandon(h)
        PROVE  UNCHANGED vars
    BY <2>2 DEF Admit, AnswerWithoutWrite, StartWrite, Answer, Abandon
  <2>3. CASE StartGrpc \/ StartHttp \/ BindHttp \/ DashboardFails \/ Signal
    BY <2>3 DEF StartGrpc, StartHttp, BindHttp, DashboardFails, Signal
  <2>4. CASE DrainOver \/ DropHandlers \/ Exit \/ OrphanEnds
    BY <2>4 DEF DrainOver, DropHandlers, Exit, OrphanEnds
  <2>5. ASSUME NEW s \in {"grpc", "http"}, Graceful(s) \/ ServeFails(s) PROVE UNCHANGED vars
    BY <2>5 DEF Graceful, ServeFails
  <2>6. CASE UNCHANGED receiverVars
    BY <2>6 DEF receiverVars
  <2> QED BY <2>1, <2>2, <2>3, <2>4, <2>5, <2>6 DEF ReceiverNext, HandlerStep
<1> QED BY <1>1, <1>2, PTL DEF ReceiverSpec, Spec

-----------------------------------------------------------------------------
\* Permits are counted until the runtime drops the handlers; from then on none works.
PermitsKept ==
    /\ main \notin {"waiting", "exited"} =>
          \A t \in Transports : permits[t] + Cardinality(InFlight(t)) = Limit
    /\ main = "waiting" => \A h \in Handlers : handler[h] = "none"

\* Abandoned writes stay within their bound until the runtime drops the rest.
OrphansBounded == main \notin {"waiting", "exited"} => orphans <= MaxOrphans

\* Past its bind the gRPC server serves, until it drains or fails.
GrpcBound == main \in {"start_http", "bind_http", "running"} => server["grpc"] \in {"serving", "failed"}

\* Exports in a row on a full disk are failures in a row.
FullIsFailure ==
    /\ consecutive_persistent_failures \in Nat
    /\ full_statements <= consecutive_persistent_failures

ReceiverInv ==
    /\ ReceiverTypeOK /\ PermitsKept /\ OrphansBounded
    /\ GrpcBound /\ ReadyMeansServing /\ FullIsFailure

\* A handler that starts or ends counts for its own transport, one that goes on for none.
LEMMA InFlightSteps ==
    ASSUME NEW h \in Handlers, NEW label \in {"none", "admitted", "writing", "answering"},
           handler \in [Handlers -> {"none", "admitted", "writing", "answering"}],
           Become(h, label)
    PROVE  /\ handler' \in [Handlers -> {"none", "admitted", "writing", "answering"}]
           /\ \A t \in Transports :
                 /\ Cardinality(InFlight(t)) \in Nat
                 /\ Cardinality(InFlight(t)') =
                       IF t # TransportOf[h] \/ (handler[h] = "none" <=> label = "none")
                       THEN Cardinality(InFlight(t))
                       ELSE IF label = "none" THEN Cardinality(InFlight(t)) - 1
                       ELSE Cardinality(InFlight(t)) + 1
<1>1. /\ handler'[h] = label /\ handler' \in [Handlers -> {"none", "admitted", "writing", "answering"}]
      /\ \A g \in Handlers : g # h => handler'[g] = handler[g]
  BY DEF Become
<1>2. SUFFICES ASSUME NEW t \in Transports
               PROVE  /\ Cardinality(InFlight(t)) \in Nat
                      /\ Cardinality(InFlight(t)') =
                            IF t # TransportOf[h] \/ (handler[h] = "none" <=> label = "none")
                            THEN Cardinality(InFlight(t))
                            ELSE IF label = "none" THEN Cardinality(InFlight(t)) - 1
                            ELSE Cardinality(InFlight(t)) + 1
  BY <1>1
<1>3. InFlight(t) \in SUBSET Handlers
  BY DEF InFlight
<1>4. IsFiniteSet(InFlight(t)) /\ Cardinality(InFlight(t)) \in Nat
  BY <1>3, FS_Subset, FS_CardinalityType, ReceiverAssumption
<1>5. CASE t # TransportOf[h] \/ (handler[h] = "none" <=> label = "none")
  <2>1. InFlight(t)' = InFlight(t)
    BY <1>1, <1>5 DEF InFlight
  <2> QED BY <1>4, <1>5, <2>1
<1>6. CASE t = TransportOf[h] /\ handler[h] # "none" /\ label = "none"
  <2>1. InFlight(t)' = InFlight(t) \ {h} /\ h \in InFlight(t)
    BY <1>1, <1>6 DEF InFlight
  <2> QED BY <1>4, <1>6, <2>1, FS_RemoveElement
<1>7. CASE t = TransportOf[h] /\ handler[h] = "none" /\ label # "none"
  <2>1. InFlight(t)' = InFlight(t) \cup {h} /\ h \notin InFlight(t)
    BY <1>1, <1>7 DEF InFlight
  <2> QED BY <1>4, <1>7, <2>1, FS_AddElement
<1> QED BY <1>4, <1>5, <1>6, <1>7

LEMMA ReceiverStep == ReceiverInv /\ [ReceiverNext]_receiverVars => ReceiverInv'
<1> SUFFICES ASSUME ReceiverInv, [ReceiverNext]_receiverVars PROVE ReceiverInv'
  OBVIOUS
<1> USE ReceiverAssumption, HealthAssumption DEF ReceiverInv
<1>0. Cardinality(Handlers) \in Nat
  BY FS_CardinalityType
<1>1. ASSUME UNCHANGED <<handler, permits, orphans, abandoned, full_statements,
                         consecutive_persistent_failures>>,
             UNCHANGED main \/ main' \in {"start_http", "bind_http", "running", "draining", "exiting", "exited"},
             main # "exited", main = "waiting" => main' \in {"waiting", "exited"}
      PROVE  PermitsKept' /\ OrphansBounded' /\ FullIsFailure'
  <2>1. \A t \in Transports : InFlight(t)' = InFlight(t)
    BY <1>1 DEF InFlight
  <2> QED BY <1>1, <2>1 DEF PermitsKept, OrphansBounded, FullIsFailure
<1>2. CASE StartGrpc \/ StartHttp \/ BindHttp \/ DashboardFails \/ Signal \/ DrainOver \/ Exit
  <2>1. PermitsKept' /\ OrphansBounded' /\ FullIsFailure'
    BY <1>1, <1>2 DEF StartGrpc, StartHttp, BindHttp, DashboardFails, Signal, DrainOver, Exit,
                      exportVars, vars
  <2>2. ReceiverTypeOK'
    BY <1>2 DEF ReceiverTypeOK, StartGrpc, StartHttp, BindHttp, DashboardFails, Signal, DrainOver,
                Exit, exportVars
  <2>3. GrpcBound' /\ ReadyMeansServing'
    BY <1>2 DEF ReceiverTypeOK, GrpcBound, ReadyMeansServing, StartGrpc, StartHttp, BindHttp,
                DashboardFails, Signal, DrainOver, Exit
  <2> QED BY <2>1, <2>2, <2>3
<1>3. ASSUME NEW s \in {"grpc", "http"}, Graceful(s) \/ ServeFails(s) PROVE ReceiverInv'
  <2>1. PermitsKept' /\ OrphansBounded' /\ FullIsFailure'
    BY <1>1, <1>3 DEF Graceful, ServeFails, exportVars, vars, Alive
  <2>2. ReceiverTypeOK'
    BY <1>3 DEF ReceiverTypeOK, Graceful, ServeFails, exportVars
  <2>3. GrpcBound' /\ ReadyMeansServing'
    BY <1>3 DEF ReceiverTypeOK, GrpcBound, ReadyMeansServing, Graceful, ServeFails
  <2> QED BY <2>1, <2>2, <2>3
<1>4. CASE DropHandlers
  <2> DEFINE writers == {h \in Handlers : handler[h] = "writing"}
  <2>1. Cardinality(writers) \in Nat /\ Cardinality(writers) <= Cardinality(Handlers)
    BY FS_Subset, FS_CardinalityType
  <2>2. orphans' = orphans + Cardinality(writers) /\ main = "exiting" /\ main' = "waiting"
    BY <1>4 DEF DropHandlers
  <2>3. orphans' \in 0..(MaxOrphans + Cardinality(Handlers))
    BY <1>0, <2>1, <2>2 DEF ReceiverTypeOK, OrphansBounded
  <2>4. ReceiverTypeOK'
    BY <1>4, <2>3 DEF DropHandlers, ReceiverTypeOK
  <2> QED BY <1>4, <2>4 DEF DropHandlers, PermitsKept, OrphansBounded, FullIsFailure, GrpcBound,
                            ReadyMeansServing, vars
<1>5. ASSUME UNCHANGED daemonVars, main # "exited"
      PROVE  /\ GrpcBound' /\ ReadyMeansServing'
             /\ main' = main /\ main' # "exited" /\ server' = server /\ ready' = ready
  BY <1>5 DEF daemonVars, GrpcBound, ReadyMeansServing
<1>6. ASSUME NEW h \in Handlers, Admit(h) PROVE ReceiverInv'
  <2>1. Become(h, "admitted") /\ handler[h] = "none" /\ TransportOf[h] \in Transports
    BY <1>6 DEF Admit
  <2>2. main \notin {"waiting", "exited"} /\ UNCHANGED daemonVars
    BY <1>6 DEF Admit, Alive
  <2>3. /\ permits[TransportOf[h]] > 0
        /\ \A t \in Transports :
              permits'[t] = IF t = TransportOf[h] THEN permits[t] - 1 ELSE permits[t]
        /\ permits' \in [Transports -> 0..Limit]
    BY <1>6, <2>1 DEF Admit, ReceiverTypeOK
  <2>4. PermitsKept'
    BY <1>5, <2>1, <2>2, <2>3, InFlightSteps DEF PermitsKept, ReceiverTypeOK
  <2>5. ReceiverTypeOK' /\ OrphansBounded' /\ FullIsFailure'
    BY <1>5, <1>6, <2>1, <2>2, <2>3, InFlightSteps
       DEF Admit, ReceiverTypeOK, OrphansBounded, FullIsFailure, vars
  <2> QED BY <1>5, <2>2, <2>4, <2>5
<1>7. ASSUME NEW h \in Handlers, NEW label \in {"writing", "answering"},
             handler[h] # "none", Become(h, label), main # "exited",
             UNCHANGED <<daemonVars, permits, orphans, abandoned>>,
             full_statements' \in 0..Threshold, FullIsFailure'
      PROVE  ReceiverInv'
  <2>1. TransportOf[h] \in Transports /\ main # "waiting"
    BY <1>7 DEF PermitsKept
  <2>2. PermitsKept'
    BY <1>5, <1>7, <2>1, InFlightSteps DEF PermitsKept, ReceiverTypeOK
  <2>3. ReceiverTypeOK' /\ OrphansBounded'
    BY <1>5, <1>7, InFlightSteps DEF ReceiverTypeOK, OrphansBounded
  <2> QED BY <1>5, <1>7, <2>2, <2>3
<1>8. ASSUME NEW h \in Handlers, main # "exited", StartWrite(h) PROVE ReceiverInv'
  BY <1>7, <1>8 DEF StartWrite, vars, ReceiverTypeOK, FullIsFailure
<1>9. ASSUME NEW h \in Handlers, main # "exited", Record(h) PROVE ReceiverInv'
  <2>1. full_statements' \in 0..Threshold /\ FullIsFailure'
    <3>1. CASE Swap(h) /\ full_statements' = 0
      BY <3>1 DEF Swap, FullIsFailure
    <3>2. ASSUME NEW phase \in Phases, NEW cause \in Causes,
                 FetchAdd(h, phase, cause) \/ IgnoreTransient(h, phase, cause),
                 full_statements' = FullStatementsAfter(phase, cause)
          PROVE  full_statements' \in 0..Threshold /\ FullIsFailure'
      <4>1. FullStatementsAfter(phase, cause) \in 0..Threshold
        BY DEF FullStatementsAfter, ReceiverTypeOK
      <4>2. CASE Persistent(phase, cause) /\ FetchAdd(h, phase, cause)
        <5>1. FullStatementsAfter(phase, cause) <= full_statements + 1
          BY DEF FullStatementsAfter, ReceiverTypeOK
        <5> QED BY <3>2, <4>1, <4>2, <5>1 DEF FetchAdd, FullIsFailure, ReceiverTypeOK
      <4>3. CASE ~Persistent(phase, cause) /\ IgnoreTransient(h, phase, cause)
        <5>1. FullStatementsAfter(phase, cause) = full_statements
          BY <4>3 DEF FullStatementsAfter, Persistent
        <5> QED BY <3>2, <4>1, <4>3, <5>1 DEF IgnoreTransient, FullIsFailure
      <4> QED BY <3>2, <4>2, <4>3 DEF FetchAdd, IgnoreTransient
    <3> QED BY <1>9, <3>1, <3>2 DEF Record
  <2> QED BY <1>7, <1>9, <2>1 DEF Record
<1>10. ASSUME NEW h \in Handlers, main # "exited", SetFlag(h) PROVE ReceiverInv'
  <2>1. UNCHANGED <<daemonVars, exportVars, consecutive_persistent_failures>>
    BY <1>10 DEF SetFlag, StoreFalse, StoreTrue
  <2>2. PermitsKept' /\ OrphansBounded' /\ FullIsFailure'
    BY <1>1, <1>10, <2>1 DEF daemonVars, exportVars
  <2>3. ReceiverTypeOK'
    BY <2>1 DEF daemonVars, exportVars, ReceiverTypeOK
  <2> QED BY <1>5, <1>10, <2>1, <2>2, <2>3
<1>11. ASSUME NEW h \in Handlers, main # "exited", handler[h] # "none",
              Become(h, "none"), Release(h), UNCHANGED <<vars, daemonVars, full_statements>>,
              abandoned' \in BOOLEAN, orphans' \in Nat,
              orphans' <= MaxOrphans \/ orphans' = orphans
       PROVE  ReceiverInv'
  <2>1. TransportOf[h] \in Transports /\ main # "waiting"
    BY <1>11 DEF PermitsKept
  <2>2. /\ permits[TransportOf[h]] + Cardinality(InFlight(TransportOf[h])) = Limit
        /\ Cardinality(InFlight(TransportOf[h])) - 1 \in Nat
        /\ Cardinality(InFlight(TransportOf[h])) \in Nat
    <3>1. Cardinality(InFlight(TransportOf[h])') = Cardinality(InFlight(TransportOf[h])) - 1
      BY <1>11, <2>1, InFlightSteps DEF ReceiverTypeOK
    <3>2. InFlight(TransportOf[h])' \in SUBSET Handlers
      BY DEF InFlight
    <3>3. Cardinality(InFlight(TransportOf[h])') \in Nat
      BY <3>2, FS_Subset, FS_CardinalityType
    <3>4. Cardinality(InFlight(TransportOf[h])) \in Nat
      BY <1>11, <2>1, InFlightSteps DEF ReceiverTypeOK
    <3> QED BY <1>11, <2>1, <3>1, <3>3, <3>4 DEF PermitsKept
  <2>3. /\ \A t \in Transports :
              permits'[t] = IF t = TransportOf[h] THEN permits[t] + 1 ELSE permits[t]
        /\ permits' \in [Transports -> 0..Limit]
    BY <1>11, <2>1, <2>2 DEF Release, ReceiverTypeOK
  <2>4. PermitsKept'
    BY <1>5, <1>11, <2>1, <2>3, InFlightSteps DEF PermitsKept, ReceiverTypeOK
  <2>5. ReceiverTypeOK' /\ OrphansBounded' /\ FullIsFailure'
    BY <1>0, <1>5, <1>11, <2>3, InFlightSteps
       DEF ReceiverTypeOK, OrphansBounded, FullIsFailure, vars
  <2> QED BY <1>5, <1>11, <2>4, <2>5
<1>12. ASSUME NEW h \in Handlers, main # "exited", AnswerWithoutWrite(h) \/ Answer(h) \/ Abandon(h)
       PROVE  ReceiverInv'
  <2>1. /\ handler[h] # "none" /\ Become(h, "none") /\ Release(h)
        /\ UNCHANGED <<vars, daemonVars, full_statements>>
    BY <1>12 DEF AnswerWithoutWrite, Answer, Abandon
  <2>2. abandoned' \in BOOLEAN
    BY <1>12 DEF AnswerWithoutWrite, Answer, Abandon, ReceiverTypeOK
  <2>3. orphans \in Nat
    BY <1>0 DEF ReceiverTypeOK
  <2>4. orphans' \in Nat /\ (orphans' <= MaxOrphans \/ orphans' = orphans)
    BY <1>12, <2>3 DEF AnswerWithoutWrite, Answer, Abandon
  <2> QED BY <1>11, <1>12, <2>1, <2>2, <2>4
<1>13. CASE OrphanEnds
  <2>1. \A t \in Transports : InFlight(t)' = InFlight(t)
    BY <1>13 DEF OrphanEnds, InFlight
  <2>2. PermitsKept' /\ OrphansBounded' /\ FullIsFailure'
    BY <1>0, <1>13, <2>1 DEF OrphanEnds, PermitsKept, OrphansBounded, FullIsFailure, vars, daemonVars,
                       ReceiverTypeOK
  <2>3. ReceiverTypeOK'
    BY <1>0, <1>13 DEF OrphanEnds, ReceiverTypeOK, daemonVars
  <2> QED BY <1>5, <1>13, <2>2, <2>3 DEF OrphanEnds
<1>14. CASE UNCHANGED receiverVars
  <2>1. \A t \in Transports : InFlight(t)' = InFlight(t)
    BY <1>14 DEF receiverVars, exportVars, InFlight
  <2> QED BY <1>14, <2>1 DEF receiverVars, daemonVars, exportVars, vars, ReceiverTypeOK, PermitsKept,
                             OrphansBounded, GrpcBound, ReadyMeansServing, FullIsFailure
<1> QED
  BY <1>2, <1>3, <1>4, <1>6, <1>8, <1>9, <1>10, <1>12, <1>13, <1>14
     DEF ReceiverNext, HandlerStep, Abandon, Alive

\* Permits, the ready flag and the degraded flag fit the servers and their handlers
\* (ServersHold): a permit comes back exactly once, /health is not ready before or after
\* the servers accept, and a threshold of exports in a row that met a full disk degrades.
THEOREM ServersSafe == ReceiverSpec => []ServersHold
<1>1. ReceiverInit => ReceiverInv
  <2> SUFFICES ASSUME ReceiverInit PROVE ReceiverInv
    OBVIOUS
  <2>1. \A t \in Transports : InFlight(t) = {}
    BY DEF ReceiverInit, InFlight
  <2>2. ReceiverTypeOK
    <3>1. Cardinality(Handlers) \in Nat
      BY FS_CardinalityType, ReceiverAssumption
    <3>2. orphans \in 0..(MaxOrphans + Cardinality(Handlers)) /\ full_statements \in 0..Threshold
      BY <3>1, ReceiverAssumption, HealthAssumption DEF ReceiverInit
    <3>3. ready \in BOOLEAN /\ abandoned \in BOOLEAN
      BY Zenon DEF ReceiverInit
    <3> QED BY <3>2, <3>3, ReceiverAssumption DEF ReceiverInit, ReceiverTypeOK
  <2>3. PermitsKept
    BY <2>1, FS_EmptySet, ReceiverAssumption DEF ReceiverInit, PermitsKept
  <2> QED BY <2>2, <2>3, ReceiverAssumption
             DEF ReceiverInit, Init, ReceiverInv, OrphansBounded, GrpcBound, ReadyMeansServing, FullIsFailure
<1>2. ReceiverInv /\ TypeOK /\ OneStoreAtATime => ServersHold
  BY HealthAssumption
     DEF ReceiverInv, ServersHold, PermitsKept, PermitsMatchInFlight, Alive, StatementFullDiskDegrades,
         FullIsFailure, OneStoreAtATime, TypeOK, ReceiverTypeOK
<1> QED BY <1>1, <1>2, OneStoreInvariant, ReceiverStep, UsesHealth, PTL DEF ReceiverSpec
=============================================================================
