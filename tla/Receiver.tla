------------------------------ MODULE Receiver ------------------------------
(***************************************************************************)
(* The OTLP receivers inside the daemon: three gRPC services and the HTTP  *)
(* router, each with its own semaphore, one shared HealthChecker (module   *)
(* Health), and run_dashboard, which starts and stops them.  A permit and  *)
(* an answer belong to the handler, a future that the 30 s gRPC timeout or *)
(* a disconnect drops; the write it waits for is a blocking task that goes *)
(* on.                                                                     *)
(***************************************************************************)
EXTENDS Health

CONSTANTS
    Transports,    \* "logs", "metrics", "traces" (gRPC) and "http"
    TransportOf,   \* handler -> transport
    Limit,         \* max_concurrent_requests
    MaxOrphans     \* bound on abandoned writes under way

ASSUME ReceiverAssumption ==
    /\ TransportOf \in [Handlers -> Transports]
    /\ Limit \in Nat \ {0} /\ MaxOrphans \in Nat
    /\ IsFiniteSet(Handlers)

VARIABLES
    main,             \* where run_dashboard is
    server,           \* "grpc", "http" -> "down", "serving", "draining" or "failed"
    ready,            \* the shared ready flag
    permits,          \* transport -> available permits
    handler,          \* handler -> "none", or what it does
    orphans,          \* writes under way that no handler waits for
    abandoned,        \* history: some handler was dropped while it wrote
    full_statements   \* history: answered exports in a row with a row statement on a full disk

daemonVars   == <<main, server, ready>>
exportVars   == <<permits, handler, orphans, abandoned, full_statements>>
receiverVars == <<vars, daemonVars, exportVars>>

ServerOf(h)  == IF TransportOf[h] = "http" THEN "http" ELSE "grpc"
InFlight(t)  == {h \in Handlers : TransportOf[h] = t /\ handler[h] # "none"}
Alive        == main \notin {"exiting", "waiting", "exited"}

Become(h, label) == handler' = [handler EXCEPT ![h] = label]
Release(h)       == permits' = [permits EXCEPT ![TransportOf[h]] = @ + 1]

-----------------------------------------------------------------------------
ReceiverInit ==
    /\ Init
    /\ main = "start_grpc"
    /\ server = [s \in {"grpc", "http"} |-> "down"]
    /\ ready = FALSE
    /\ permits = [t \in Transports |-> Limit]
    /\ handler = [h \in Handlers |-> "none"]
    /\ orphans = 0
    /\ abandoned = FALSE
    /\ full_statements = 0

\* run_dashboard.

\* The gRPC bind: a failure ends the daemon, after a success the flag is set.
StartGrpc ==
    /\ main = "start_grpc"
    /\ \/ /\ server' = [server EXCEPT !["grpc"] = "serving"]
          /\ ready' = TRUE
          /\ main' = "start_http"
       \/ /\ main' = "exited"
          /\ UNCHANGED <<server, ready>>
    /\ UNCHANGED <<vars, exportVars>>

\* HttpServer::start sets the flag, then binds.
StartHttp ==
    /\ main = "start_http"
    /\ ready' = TRUE
    /\ main' = "bind_http"
    /\ UNCHANGED <<server, vars, exportVars>>

BindHttp ==
    /\ main = "bind_http"
    /\ \/ /\ server' = [server EXCEPT !["http"] = "serving"]
          /\ main' = "running"
       \/ /\ main' = "exited"
          /\ UNCHANGED server
    /\ UNCHANGED <<ready, vars, exportVars>>

\* The dashboard fails to bind or to serve: the error ends the process at once.
DashboardFails ==
    /\ main = "running"
    /\ main' = "exited"
    /\ UNCHANGED <<server, ready, vars, exportVars>>

\* SIGTERM or SIGINT: every server is notified, then the two-second drain.
Signal ==
    /\ main = "running"
    /\ main' = "draining"
    /\ UNCHANGED <<server, ready, vars, exportVars>>

\* A server's graceful-shutdown future: stop accepting, and not ready any more.
Graceful(s) ==
    /\ main = "draining"
    /\ server[s] = "serving"
    /\ server' = [server EXCEPT ![s] = "draining"]
    /\ ready' = FALSE
    /\ UNCHANGED <<main, vars, exportVars>>

\* The accept loop ends with an error: it is logged, nothing else happens.
ServeFails(s) ==
    /\ Alive
    /\ server[s] = "serving"
    /\ server' = [server EXCEPT ![s] = "failed"]
    /\ UNCHANGED <<main, ready, vars, exportVars>>

\* The drain is over: main returns.
DrainOver ==
    /\ main = "draining"
    /\ main' = "exiting"
    /\ UNCHANGED <<server, ready, vars, exportVars>>

\* Mutant: the drain waits until every handler is done.
DropIdleOnly ==
    /\ main = "exiting"
    /\ \A h \in Handlers : handler[h] = "none"
    /\ main' = "waiting"
    /\ UNCHANGED <<server, ready, exportVars, vars>>

\* The runtime drops every handler that waits, once none is being polled.
DropHandlers ==
    /\ main = "exiting"
    /\ \A h \in Handlers : handler[h] # "answering"
    /\ main' = "waiting"
    /\ orphans' = orphans + Cardinality({h \in Handlers : handler[h] = "writing"})
    /\ handler' = [h \in Handlers |-> "none"]
    /\ UNCHANGED <<server, ready, permits, abandoned, full_statements, vars>>

\* The runtime waits for the blocking tasks it has started.
Exit ==
    /\ main = "waiting"
    /\ orphans = 0
    /\ main' = "exited"
    /\ UNCHANGED <<server, ready, vars, exportVars>>

-----------------------------------------------------------------------------
\* One export.  A request that finds no permit is answered UNAVAILABLE or 503.

Admit(h) ==
    /\ Alive
    /\ server[ServerOf(h)] = "serving"
    /\ handler[h] = "none"
    /\ permits[TransportOf[h]] > 0
    /\ permits' = [permits EXCEPT ![TransportOf[h]] = @ - 1]
    /\ Become(h, "admitted")
    /\ UNCHANGED <<vars, daemonVars, orphans, abandoned, full_statements>>

\* A body that does not decode, or one with nothing to store: no write.
AnswerWithoutWrite(h) ==
    /\ handler[h] = "admitted"
    /\ Become(h, "none")
    /\ Release(h)
    /\ UNCHANGED <<vars, daemonVars, orphans, abandoned, full_statements>>

StartWrite(h) ==
    /\ handler[h] = "admitted"
    /\ Become(h, "writing")
    /\ UNCHANGED <<vars, daemonVars, permits, orphans, abandoned, full_statements>>

FullStatementsAfter(phase, cause) ==
    IF phase # "statement" \/ cause # "disk_full" THEN full_statements
    ELSE IF full_statements < Threshold THEN full_statements + 1 ELSE Threshold

\* The write's result reaches the handler, which records it.
Record(h) ==
    /\ handler[h] = "writing"
    /\ \/ Swap(h) /\ full_statements' = 0
       \/ \E phase \in Phases, cause \in Causes :
             /\ FetchAdd(h, phase, cause) \/ IgnoreTransient(h, phase, cause)
             /\ full_statements' = FullStatementsAfter(phase, cause)
    /\ Become(h, "answering")
    /\ UNCHANGED <<daemonVars, permits, orphans, abandoned>>

SetFlag(h) ==
    /\ handler[h] = "answering"
    /\ StoreFalse(h) \/ StoreTrue(h)
    /\ UNCHANGED <<daemonVars, exportVars>>

Answer(h) ==
    /\ handler[h] = "answering"
    /\ pc[h] = "idle"
    /\ Become(h, "none")
    /\ Release(h)
    /\ UNCHANGED <<vars, daemonVars, orphans, abandoned, full_statements>>

\* Mutant: the permit of a dropped handler is forgotten.
AbandonKeepsPermit(h) ==
    /\ Alive
    /\ handler[h] \in {"admitted", "writing"}
    /\ handler[h] = "writing" => orphans < MaxOrphans
    /\ Become(h, "none")
    /\ orphans' = IF handler[h] = "writing" THEN orphans + 1 ELSE orphans
    /\ abandoned' = (abandoned \/ handler[h] = "writing")
    /\ UNCHANGED <<vars, daemonVars, permits, full_statements>>

\* The gRPC timeout or a disconnect drops the handler at an await: its permit is
\* free, its write goes on, and nobody records the outcome.
Abandon(h) ==
    /\ Alive
    /\ handler[h] \in {"admitted", "writing"}
    /\ handler[h] = "writing" => orphans < MaxOrphans
    /\ Become(h, "none")
    /\ Release(h)
    /\ orphans' = IF handler[h] = "writing" THEN orphans + 1 ELSE orphans
    /\ abandoned' = (abandoned \/ handler[h] = "writing")
    /\ UNCHANGED <<vars, daemonVars, full_statements>>

OrphanEnds ==
    /\ main # "exited"
    /\ orphans > 0
    /\ orphans' = orphans - 1
    /\ UNCHANGED <<vars, daemonVars, permits, handler, abandoned, full_statements>>

\* What the handler does without waiting for the client.
HandlerStep(h) ==
    main # "exited" /\ (AnswerWithoutWrite(h) \/ StartWrite(h) \/ Record(h) \/ SetFlag(h) \/ Answer(h))

ReceiverNext ==
    \/ StartGrpc \/ StartHttp \/ BindHttp \/ DashboardFails \/ Signal
    \/ \E s \in {"grpc", "http"} : Graceful(s) \/ ServeFails(s)
    \/ DrainOver \/ DropHandlers \/ Exit
    \/ \E h \in Handlers : Admit(h) \/ HandlerStep(h) \/ Abandon(h)
    \/ OrphanEnds

ReceiverSpec == ReceiverInit /\ [][ReceiverNext]_receiverVars

\* A task runs and its write ends (the busy timeout bounds it); a gRPC handler is
\* decoded before it starts, while an HTTP client may never send the rest of its
\* body; the drain ends.
ReceiverFairSpec ==
    /\ ReceiverSpec
    /\ \A h \in Handlers : WF_receiverVars(handler[h] # "admitted" /\ HandlerStep(h))
    /\ \A h \in {x \in Handlers : ServerOf(x) = "grpc"} : WF_receiverVars(HandlerStep(h))
    /\ WF_receiverVars(OrphanEnds)
    /\ WF_receiverVars(DrainOver)
    /\ WF_receiverVars(DropHandlers)
    /\ WF_receiverVars(Exit)

-----------------------------------------------------------------------------
\* Types.
ReceiverTypeOK ==
    /\ main \in {"start_grpc", "start_http", "bind_http", "running", "draining", "exiting",
                "waiting", "exited"}
    /\ server \in [{"grpc", "http"} -> {"down", "serving", "draining", "failed"}]
    /\ ready \in BOOLEAN
    /\ permits \in [Transports -> 0..Limit]
    /\ handler \in [Handlers -> {"none", "admitted", "writing", "answering"}]
    /\ orphans \in 0..(MaxOrphans + Cardinality(Handlers))
    /\ abandoned \in BOOLEAN
    /\ full_statements \in 0..Threshold

\* Exports that end in any way (answered, refused by the parser, timed out,
\* disconnected) give their permit back exactly once.
PermitsMatchInFlight ==
    Alive => \A t \in Transports : permits[t] + Cardinality(InFlight(t)) = Limit

\* /health turns ready only once exports are accepted, and says so no longer than
\* until a server drains, unless an accept loop failed.
ReadyMeansServing ==
    ready => \A s \in {"grpc", "http"} :
                \/ server[s] \in {"serving", "failed"}
                \/ s = "http" /\ main \in {"start_http", "bind_http", "exited"}

\* "flips /health unhealthy on sustained failures of exactly those" (writer.rs, of
\* disk-full errors), as far as the code goes: a threshold of answered exports in a
\* row whose row statement met a full disk degrades, unless updates overlapped.
StatementFullDiskDegrades ==
    ~overlapped /\ Quiet /\ full_statements >= Threshold => degraded

\* Permits, the ready flag and the degraded flag fit the servers and their handlers.
ServersHold ==
    ReceiverTypeOK /\ PermitsMatchInFlight /\ ReadyMeansServing /\ StatementFullDiskDegrades

\* A gRPC export is over at some time, and its permit is free again.
GrpcExportEnds ==
    \A h \in {x \in Handlers : ServerOf(x) = "grpc"} :
        handler[h] # "none" ~> (handler[h] = "none" \/ main = "exited")

\* A signalled daemon exits, however many writes are under way.
SignalledDaemonExits == main = "draining" ~> main = "exited"

\* What has begun ends: a gRPC export, and a daemon that was told to stop.
ReceiverEnds == GrpcExportEnds /\ SignalledDaemonExits

\* "The concurrency limit bounds in-flight exports across all connections [and]
\* blocking-pool occupancy" (grpc/server.rs): at most Limit writes run.
OccupancyWithinLimit ==
    orphans + Cardinality({h \in Handlers : handler[h] = "writing"}) <= Limit
=============================================================================
