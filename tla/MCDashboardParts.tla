-------------------------- MODULE MCDashboardParts --------------------------
(***************************************************************************)
(* Parts of the programs that share no state, each alone: the read pool    *)
(* with more queries than slots, the terminal UI over two logs and two     *)
(* traces of one and two spans, and two service commands over two PIDs.    *)
(***************************************************************************)
EXTENDS ReadPool, Sequences, TLC

CONSTANTS
    l1, l2, t1, t2, Logs, Stamp, TraceOf, Traces, SpanCount, Passing, Found, Page,
    Commands, Pids, NoPid, Corrupt

ASSUME TuiAssumption ==
    /\ Page \in Nat \ {0} /\ SpanCount \in [Traces -> Nat \ {0}]
    /\ TraceOf \in [Logs -> Traces \cup {None}]
ASSUME ServiceAssumption == NoPid \notin Pids /\ Corrupt \notin Pids

VARIABLES
    part,
    phase, view, prompt, logs, log_index, log_detail, cached, auto_scroll, log_filter, log_search,
    traces, trace_index, trace_detail, span_detail, span_index, trace_filter, trace_search,
    details, pending, followed, settled,
    proc, port, killed, file, step, kind, pid, started, gone, changed, overlapped, stranger

T == INSTANCE Tui
S == INSTANCE Service WITH pc <- step

tuiVars     == <<phase, view, prompt, logs, log_index, log_detail, cached, auto_scroll, log_filter,
                 log_search, traces, trace_index, trace_detail, span_detail, span_index,
                 trace_filter, trace_search, details, pending, followed, settled>>
serviceVars == <<proc, port, killed, file, step, kind, pid, started, gone, changed, overlapped, stranger>>
DashboardVars == <<part, vars, tuiVars, serviceVars>>

MCStamp     == l1 :> 1 @@ l2 :> 2
MCTraceOf   == l1 :> t1 @@ l2 :> None
MCSpanCount == t1 :> 1 @@ t2 :> 2
Symmetric   == Permutations(Commands) \cup Permutations(Pids)

\* Bound: one view of the terminal UI is filtered at a time.
OneFiltered == ~((log_filter \/ log_search) /\ (trace_filter \/ trace_search = "typed"))

\* The parts that do not run keep one initial state.
DashboardInit ==
    /\ part \in {"pool", "tui", "service"}
    /\ Init
    /\ T!Init /\ (part # "tui" => view = "logs")
    /\ S!Init /\ (part # "service" => file = NoPid)
DashboardNext ==
    \/ part = "pool"    /\ Next   /\ UNCHANGED <<part, tuiVars, serviceVars>>
    \/ part = "tui"     /\ T!Next /\ OneFiltered' /\ UNCHANGED <<part, vars, serviceVars>>
    \/ part = "service" /\ S!Next /\ UNCHANGED <<part, vars, tuiVars>>
DashboardSpec == DashboardInit /\ [][DashboardNext]_DashboardVars

\* The terminal UI shows what is selected: a selection stays inside its list, the
\* selected span inside the open trace, the span panel inside the trace panel, and an
\* open log panel shows the selected log, or one of the same timestamp.
SelectionsHold ==
    T!TypeOK /\ T!SpanInTrace /\ T!SpanPanelInTracePanel /\ T!PanelShowsSelection

\* While commands do not overlap, the PID file names the daemon that a start has
\* reported; however they overlap, what a start reports is a daemon, not a process that
\* is already gone.
FileNamesStarted == S!FileNamesStarted /\ S!ReportedIsDaemon

\* A stop that gets to removing the PID file has seen the end of the process it chose or
\* has sent it SIGKILL, and no stranger is signalled, up to the moment between check and
\* signal.
StopsHitTheDaemon == S!TypeOK /\ S!StoppedOrKilled /\ S!StrangersSpared
=============================================================================
