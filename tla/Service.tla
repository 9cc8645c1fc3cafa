------------------------------- MODULE Service -------------------------------
(***************************************************************************)
(* otelite start, stop, restart and status on Linux: commands that find    *)
(* the daemon by its PID file or by the OTLP port, beside daemons that     *)
(* start, drain and die, and other processes that take over freed PIDs.    *)
(* A command is a process of its own, and nothing keeps two of them apart. *)
(***************************************************************************)
EXTENDS Naturals, FiniteSets

CONSTANTS
    Commands,   \* processes that run service commands, each any number of times
    Pids,       \* the PIDs of all other processes
    NoPid,      \* none
    Corrupt     \* what a torn or foreign PID file holds

VARIABLES
    proc,       \* PID -> "free", a daemon's state, "zombie", "tool" (another otelite), "other"
    port,       \* the PID that listens on the OTLP port
    killed,     \* processes a fatal signal was sent to, which are still there
    file,       \* what the PID file holds
    pc,         \* command -> the step it is at
    kind,       \* command -> "start", "stop", "restart" or "status"
    pid,        \* command -> the PID it works on
    started,    \* history: daemons that a start reported, until they end or get SIGKILL
    gone,       \* history: command -> the process it chose has ended
    changed,    \* history: command -> that PID changed hands since its last check
    overlapped, \* history: two commands ran at the same time
    stranger    \* history: a foreign process was signalled though its PID did not change hands

osVars   == <<proc, port, killed>>
cmdVars  == <<pc, kind, pid>>
history  == <<started, gone, changed, overlapped, stranger>>
vars     == <<osVars, file, cmdVars, history>>

Daemon(p)  == proc[p] \in {"starting", "serving", "draining"}
Otelite(p) == Daemon(p) \/ proc[p] = "tool"          \* is_otelite_process
Running(p) == proc[p] # "free"                       \* is_process_running
OnPort     == port # NoPid /\ Otelite(port)          \* local_otelite_pid
InFile     == file \in Pids /\ Otelite(file)         \* pid_file_otelite_pid

Go(c, step) == pc' = [pc EXCEPT ![c] = step]

\* A process ends; a start that still waits for it has to reap it.
End(p) ==
    /\ proc' = [proc EXCEPT ![p] =
                   IF \E c \in Commands : pid[c] = p /\ pc[c] \in {"write", "poll"}
                   THEN "zombie" ELSE "free"]
    /\ port' = IF port = p THEN NoPid ELSE port
    /\ killed' = killed \ {p}
    /\ started' = started \ {p}
    /\ gone' = [c \in Commands |-> gone[c] \/ pid[c] = p]
    /\ changed' = [c \in Commands |-> changed[c] \/ pid[c] = p]
    /\ UNCHANGED overlapped

-----------------------------------------------------------------------------
Init ==
    /\ proc = [p \in Pids |-> "free"]
    /\ port = NoPid
    /\ killed = {}
    /\ file \in Pids \cup {NoPid, Corrupt}
    /\ pc = [c \in Commands |-> "idle"]
    /\ kind = [c \in Commands |-> "status"]
    /\ pid = [c \in Commands |-> NoPid]
    /\ started = {}
    /\ gone = [c \in Commands |-> FALSE]
    /\ changed = [c \in Commands |-> FALSE]
    /\ overlapped = FALSE
    /\ stranger = FALSE

\* The machine: other processes, and daemons that are not run by these commands.

Appears(p, what) ==
    /\ proc[p] = "free"
    /\ proc' = [proc EXCEPT ![p] = what]
    /\ UNCHANGED <<port, killed, file, cmdVars, history>>

OtherBinds(p) ==
    /\ proc[p] = "other" /\ port = NoPid
    /\ port' = p
    /\ UNCHANGED <<proc, killed, file, cmdVars, history>>

\* serve binds the OTLP port, or finds it taken and exits.
Bind(p) ==
    /\ proc[p] = "starting"
    /\ \/ /\ port = NoPid
          /\ port' = p
          /\ proc' = [proc EXCEPT ![p] = "serving"]
          /\ UNCHANGED <<killed, history>>
       \/ port # NoPid /\ End(p) /\ UNCHANGED stranger
    /\ UNCHANGED <<file, cmdVars>>

\* A crash, the end of the drain, a stranger's own end, or a fatal signal that arrives.
Ends(p) ==
    /\ proc[p] \notin {"free", "zombie"}
    /\ End(p)
    /\ UNCHANGED <<file, cmdVars, stranger>>

-----------------------------------------------------------------------------
Begin(c, k) ==
    /\ pc[c] = "idle"
    /\ kind' = [kind EXCEPT ![c] = k]
    /\ Go(c, CASE k = "start" -> "read" [] k = "restart" -> "check" [] OTHER -> "find")
    /\ pid' = [pid EXCEPT ![c] = NoPid]
    /\ overlapped' = (overlapped \/ \E d \in Commands : pc[d] # "idle")
    /\ gone' = [gone EXCEPT ![c] = FALSE] /\ changed' = [changed EXCEPT ![c] = FALSE]
    /\ UNCHANGED <<osVars, file, started, stranger>>

\* handle_start.

\* read_pid removes a corrupt file; a PID that runs, whatever it is, refuses the start.
ReadFile(c) ==
    /\ pc[c] = "read"
    /\ file' = IF file = Corrupt THEN NoPid ELSE file
    /\ Go(c, IF file \notin Pids THEN "discover" ELSE IF Running(file) THEN "idle" ELSE "drop")
    /\ UNCHANGED <<osVars, kind, pid, history>>

DropStale(c) ==
    /\ pc[c] = "drop"
    /\ file' = NoPid
    /\ Go(c, "discover")
    /\ UNCHANGED <<osVars, kind, pid, history>>

Discover(c) ==
    /\ pc[c] = "discover"
    /\ Go(c, IF OnPort THEN "idle" ELSE "spawn")
    /\ UNCHANGED <<osVars, file, kind, pid, history>>

Spawn(c) ==
    /\ pc[c] = "spawn"
    /\ \/ \E p \in {q \in Pids : proc[q] = "free"} :
             /\ proc' = [proc EXCEPT ![p] = "starting"]
             /\ pid' = [pid EXCEPT ![c] = p]
             /\ Go(c, "write")
       \/ Go(c, "idle") /\ UNCHANGED <<proc, pid>>
    /\ UNCHANGED <<port, killed, file, kind, history>>

\* A PID file that cannot be written fails the command and leaves the daemon.
WritePid(c) ==
    /\ pc[c] = "write"
    /\ \/ file' = pid[c] /\ Go(c, "poll") /\ UNCHANGED proc
       \/ /\ Go(c, "idle")
          /\ proc' = [proc EXCEPT ![pid[c]] = IF @ = "zombie" THEN "free" ELSE @]
          /\ UNCHANGED file
    /\ UNCHANGED <<port, killed, kind, pid, history>>

\* Mutant: success is reported without a last look at the child.
PollOnce(c) ==
    /\ pc[c] = "poll"
    /\ Go(c, "idle")
    /\ started' = started \cup {pid[c]}
    /\ proc' = [proc EXCEPT ![pid[c]] = IF @ = "zombie" THEN "free" ELSE @]
    /\ UNCHANGED <<port, killed, file, kind, pid, gone, changed, overlapped, stranger>>

\* try_wait until the child has exited or 750 ms are over.
Poll(c) ==
    /\ pc[c] = "poll"
    /\ \/ /\ proc[pid[c]] = "zombie"
          /\ proc' = [proc EXCEPT ![pid[c]] = "free"]
          /\ Go(c, "undo")
          /\ UNCHANGED started
       \/ /\ proc[pid[c]] # "zombie"
          /\ Go(c, "idle")
          /\ started' = started \cup {pid[c]}
          /\ UNCHANGED proc
    /\ UNCHANGED <<port, killed, file, kind, pid, gone, changed, overlapped, stranger>>

Undo(c) ==
    /\ pc[c] = "undo"
    /\ file' = NoPid
    /\ Go(c, "idle")
    /\ UNCHANGED <<osVars, kind, pid, history>>

-----------------------------------------------------------------------------
\* handle_restart asks first whether anything runs.
Check(c) ==
    /\ pc[c] = "check"
    /\ file' = IF file = Corrupt THEN NoPid ELSE file
    /\ Go(c, IF (file \in Pids /\ Running(file)) \/ OnPort THEN "find" ELSE "idle")
    /\ UNCHANGED <<osVars, kind, pid, history>>

\* handle_stop and handle_status: the PID file, then the port, then the stale file.

Choose(c, p) ==
    /\ pid' = [pid EXCEPT ![c] = p]
    /\ gone' = [gone EXCEPT ![c] = FALSE]
    /\ Go(c, IF kind[c] = "status" THEN "idle" ELSE "ensure")

FindByFile(c) ==
    /\ pc[c] = "find"
    /\ file' = IF file = Corrupt THEN NoPid ELSE file
    /\ \/ InFile /\ Choose(c, file)
       \/ ~InFile /\ Go(c, "find_port") /\ UNCHANGED <<pid, gone>>
    /\ UNCHANGED <<osVars, kind, started, changed, overlapped, stranger>>

FindByPort(c) ==
    /\ pc[c] = "find_port"
    /\ \/ OnPort /\ Choose(c, port)
       \/ ~OnPort /\ Go(c, "stale") /\ UNCHANGED <<pid, gone>>
    /\ UNCHANGED <<osVars, file, kind, started, changed, overlapped, stranger>>

\* Nothing was found: whatever the file holds now is removed.
RemoveStale(c) ==
    /\ pc[c] = "stale"
    /\ file' = NoPid
    /\ Go(c, "idle")
    /\ UNCHANGED <<osVars, kind, pid, history>>

\* ensure_otelite_process.
Ensure(c) ==
    /\ pc[c] = "ensure"
    /\ changed' = [changed EXCEPT ![c] = FALSE]
    /\ Go(c, IF Otelite(pid[c]) THEN "term" ELSE "idle")
    /\ UNCHANGED <<osVars, file, kind, pid, started, gone, overlapped, stranger>>

\* SIGTERM: a daemon drains once its handler is installed and dies before that, some
\* time after the call has returned.
Term(c) ==
    /\ pc[c] = "term"
    /\ UNCHANGED <<file, kind, pid>>
    /\ \/ ~Running(pid[c]) /\ Go(c, "idle") /\ UNCHANGED <<osVars, history>>
       \/ /\ proc[pid[c]] \in {"starting", "serving", "tool"} /\ Go(c, "wait")
          /\ killed' = killed \cup {pid[c]}
          /\ UNCHANGED <<proc, port, history>>
       \/ /\ proc[pid[c]] = "serving" /\ Go(c, "wait")
          /\ proc' = [proc EXCEPT ![pid[c]] = "draining"]
          /\ port' = IF port = pid[c] THEN NoPid ELSE port
          /\ UNCHANGED <<killed, history>>
       \/ /\ proc[pid[c]] \in {"draining", "zombie", "other"} /\ Go(c, "wait")
          /\ stranger' = (stranger \/ (proc[pid[c]] = "other" /\ ~changed[c]))
          /\ UNCHANGED <<osVars, started, gone, changed, overlapped>>

\* Mutant: a timeout is taken for an exit.
WaitBriefly(c) ==
    /\ pc[c] = "wait"
    /\ Go(c, "forget")
    /\ UNCHANGED <<osVars, file, kind, pid, history>>

\* The process is gone, or 10 s are over and it is still there.
Wait(c) ==
    /\ pc[c] = "wait"
    /\ changed' = [changed EXCEPT ![c] = FALSE]
    /\ Go(c, IF Otelite(pid[c]) THEN "kill" ELSE "forget")
    /\ UNCHANGED <<osVars, file, kind, pid, started, gone, overlapped, stranger>>

\* SIGKILL, without waiting for the end; a zombie takes it, too, and a missing process
\* is an error.
Kill(c) ==
    /\ pc[c] = "kill"
    /\ UNCHANGED <<proc, port, file, kind, pid, gone, changed, overlapped>>
    /\ \/ proc[pid[c]] = "free" /\ Go(c, "idle") /\ UNCHANGED <<killed, started, stranger>>
       \/ proc[pid[c]] = "zombie" /\ Go(c, "forget") /\ UNCHANGED <<killed, started, stranger>>
       \/ proc[pid[c]] \notin {"free", "zombie"} /\ Go(c, "forget")
          /\ killed' = killed \cup {pid[c]}
          /\ started' = started \ {pid[c]}
          /\ stranger' = (stranger \/ (proc[pid[c]] = "other" /\ ~changed[c]))

\* The file is removed if it names the stopped daemon; a restart goes on.
Forget(c) ==
    /\ pc[c] = "forget"
    /\ file' = IF file \in {pid[c], Corrupt} THEN NoPid ELSE file
    /\ Go(c, IF kind[c] = "restart" THEN "read" ELSE "idle")
    /\ UNCHANGED <<osVars, kind, pid, history>>

Step(c) ==
    \/ ReadFile(c) \/ DropStale(c) \/ Discover(c) \/ Spawn(c) \/ WritePid(c) \/ Poll(c) \/ Undo(c)
    \/ Check(c) \/ FindByFile(c) \/ FindByPort(c) \/ RemoveStale(c)
    \/ Ensure(c) \/ Term(c) \/ Wait(c) \/ Kill(c) \/ Forget(c)

Next ==
    \/ \E p \in Pids : Bind(p) \/ Ends(p) \/ OtherBinds(p)
                       \/ \E what \in {"starting", "tool", "other"} : Appears(p, what)
    \/ \E c \in Commands : Step(c) \/ \E k \in {"start", "stop", "restart", "status"} : Begin(c, k)

Spec == Init /\ [][Next]_vars

-----------------------------------------------------------------------------
\* Types; a start polls a child that it has not reaped, a live process holds the port.
TypeOK ==
    /\ proc \in [Pids -> {"free", "starting", "serving", "draining", "zombie", "tool", "other"}]
    /\ port = NoPid \/ proc[port] \in {"serving", "other"}
    /\ killed \subseteq Pids
    /\ file \in Pids \cup {NoPid, Corrupt}
    /\ pc \in [Commands -> {"idle", "read", "drop", "discover", "spawn", "write", "poll", "undo",
                            "check", "find", "find_port", "stale", "ensure", "term", "wait",
                            "kill", "forget"}]
    /\ kind \in [Commands -> {"start", "stop", "restart", "status"}]
    /\ pid \in [Commands -> Pids \cup {NoPid}]
    /\ \A c \in Commands : pc[c] = "poll" => Running(pid[c])
    /\ started \subseteq Pids
    /\ gone \in [Commands -> BOOLEAN] /\ changed \in [Commands -> BOOLEAN]
    /\ overlapped \in BOOLEAN /\ stranger \in BOOLEAN

\* While commands do not overlap, the PID file names the daemon that a start has
\* reported, until it ends or gets SIGKILL; so there is one such daemon at most.
FileNamesStarted == ~overlapped => \A p \in started : file = p

\* However the commands overlap, what a start reports is a daemon, not "a process that
\* is already gone", and its PID goes to no other process while it is reported.
ReportedIsDaemon == \A p \in started : Daemon(p)

\* A stop that gets to removing the PID file has seen the end of the process it
\* chose, whoever has its PID by now, or has run out its 10 s and sent SIGKILL.
StoppedOrKilled == \A c \in Commands : pc[c] = "forget" => gone[c] \/ pid[c] \in killed

\* "never signal a recycled PID", up to the moment between check and signal.
StrangersSpared == ~stranger

\* "A corrupt or stale PID file is recovered from automatically" (cli-reference.md):
\* a start refused because of the PID file has found an otelite process.
RefusedOnlyByDaemon ==
    [][\A c \in Commands : pc[c] = "read" /\ pc'[c] = "idle" => Otelite(file)]_vars

\* "fails loudly -- removing the PID file -- if the spawned process exits" (the same
\* document): the file removed is not that of a live daemon another start reported.
FileSurvivesOverlap ==
    (\A c \in Commands : pc[c] = "idle") => \A p \in started : file = p

\* "Stop the running daemon and start a fresh one" (service.rs): a restart that has
\* stopped the daemon is not refused because of that same daemon.
RestartFindsNoneDying ==
    [][\A c \in Commands : kind[c] = "restart" /\ pc[c] = "discover" /\ pc'[c] = "idle"
                           => port \notin killed]_vars
=============================================================================
