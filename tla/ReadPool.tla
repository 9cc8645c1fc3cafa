------------------------------ MODULE ReadPool ------------------------------
(***************************************************************************)
(* The pool of read connections of otelite-storage.  A query clones the    *)
(* pool handle, checks a connection out on a blocking thread and returns   *)
(* it when its guard is dropped.  Checkout, checkin and close_all run      *)
(* under the pool's mutex, so each is one step.                            *)
(*                                                                         *)
(* The condvar wait of checkout is not a step here: it is reached only     *)
(* with no idle connection and idle.len() >= capacity, which capacity >= 1 *)
(* excludes.                                                               *)
(***************************************************************************)
EXTENDS Integers, FiniteSets

CONSTANTS
    Queries,    \* read queries that may run at the same time
    Conns,      \* connection handles
    Capacity,   \* capacity.max(1)
    None        \* no connection

ASSUME ReadPoolAssumption ==
    /\ Capacity \in Nat \ {0}
    /\ None \notin Conns

VARIABLES
    inner,    \* the idle connections; which of them is popped makes no difference
    opened,   \* connections that are open
    held,     \* query -> the connection its guard owns, or None
    pc,       \* query -> "idle", "cloned" (handle cloned) or "running"
    closed    \* the backend took the pool out and closed it

vars == <<inner, opened, held, pc, closed>>

-----------------------------------------------------------------------------
Init ==
    /\ inner = {} /\ opened = {}
    /\ held = [q \in Queries |-> None]
    /\ pc = [q \in Queries |-> "idle"]
    /\ closed = FALSE

\* read_query: clone the pool handle while the backend still has it.
ClonePool(q) ==
    /\ pc[q] = "idle" /\ ~closed
    /\ pc' = [pc EXCEPT ![q] = "cloned"]
    /\ UNCHANGED <<inner, opened, held, closed>>

\* Mutant: the connection is lent, not popped.
CheckoutShared(q) ==
    /\ pc[q] = "cloned"
    /\ \E c \in inner :
          /\ inner' = inner
          /\ held' = [held EXCEPT ![q] = c]
    /\ pc' = [pc EXCEPT ![q] = "running"]
    /\ UNCHANGED <<opened, closed>>

\* checkout: an idle connection is popped.
CheckoutIdle(q) ==
    /\ pc[q] = "cloned"
    /\ \E c \in inner :
          /\ inner' = inner \ {c}
          /\ held' = [held EXCEPT ![q] = c]
    /\ pc' = [pc EXCEPT ![q] = "running"]
    /\ UNCHANGED <<opened, closed>>

\* checkout: none is idle, so a new one is opened; the capacity is compared with
\* the number of idle connections, which is zero here.
CheckoutOpen(q) ==
    /\ pc[q] = "cloned"
    /\ inner = {}
    /\ Cardinality(inner) < Capacity
    /\ \E c \in Conns \ opened :
          /\ opened' = opened \cup {c}
          /\ held' = [held EXCEPT ![q] = c]
    /\ pc' = [pc EXCEPT ![q] = "running"]
    /\ UNCHANGED <<inner, closed>>

\* checkout: opening fails, the query returns the error.
CheckoutFails(q) ==
    /\ pc[q] = "cloned"
    /\ inner = {}
    /\ pc' = [pc EXCEPT ![q] = "idle"]
    /\ UNCHANGED <<inner, opened, held, closed>>

\* Mutant: a connection that cannot be kept is forgotten, not closed.
CheckinForgets(q, usable) ==
    /\ pc[q] = "running"
    /\ opened' = opened
    /\ inner' = IF Cardinality(inner) >= Capacity \/ ~usable THEN inner ELSE inner \cup {held[q]}
    /\ held' = [held EXCEPT ![q] = None]
    /\ pc' = [pc EXCEPT ![q] = "idle"]
    /\ UNCHANGED closed

\* The guard is dropped, checkin: a connection over capacity, or one that fails
\* its probe, is closed; any other goes back.
Checkin(q, usable) ==
    /\ pc[q] = "running"
    /\ IF Cardinality(inner) >= Capacity \/ ~usable
       THEN /\ opened' = opened \ {held[q]}
            /\ inner' = inner
       ELSE /\ inner' = inner \cup {held[q]}
            /\ opened' = opened
    /\ held' = [held EXCEPT ![q] = None]
    /\ pc' = [pc EXCEPT ![q] = "idle"]
    /\ UNCHANGED closed

\* close takes the pool out of the backend and closes what is idle; queries that
\* cloned the handle before go on.
CloseAll ==
    /\ ~closed
    /\ closed' = TRUE
    /\ opened' = opened \ inner
    /\ inner' = {}
    /\ UNCHANGED <<held, pc>>

Next ==
    \/ \E q \in Queries :
          \/ ClonePool(q)
          \/ CheckoutIdle(q)
          \/ CheckoutOpen(q)
          \/ CheckoutFails(q)
          \/ \E usable \in BOOLEAN : Checkin(q, usable)
    \/ CloseAll

Spec == Init /\ [][Next]_vars

-----------------------------------------------------------------------------
\* Types; a query owns a connection exactly while it runs.
TypeOK ==
    /\ inner \subseteq Conns /\ opened \subseteq Conns
    /\ held \in [Queries -> Conns \cup {None}]
    /\ pc \in [Queries -> {"idle", "cloned", "running"}]
    /\ closed \in BOOLEAN
    /\ \A q \in Queries : pc[q] = "running" <=> held[q] # None

\* A connection has one owner, through any checkins of broken connections and a
\* close in the middle: it is idle or held by one query, never both, never by
\* two; and only open connections are idle or held.
OneOwner ==
    /\ \A q \in Queries : held[q] \notin inner
    /\ \A q, r \in Queries : held[q] = held[r] /\ held[q] # None => q = r
    /\ inner \subseteq opened

\* Every open connection is accounted for: idle in the pool or held by a running
\* query, so no path of checkin, of a failed probe or of close leaks one.
NoConnectionLeaks == opened = inner \cup {held[q] : q \in {p \in Queries : pc[p] = "running"}}

\* A burst of queries leaves no more than the capacity warm.
IdleWithinCapacity == IsFiniteSet(inner) /\ Cardinality(inner) <= Capacity

\* "opening a new one if the pool is below capacity. Blocks (on the condvar) when
\* the pool is exhausted" (pool.rs): no more connections are open than the pool
\* has slots.
OpenWithinCapacity == Cardinality(opened) <= Capacity
=============================================================================
