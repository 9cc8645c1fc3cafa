----------------------------- MODULE BatchStore -----------------------------
(***************************************************************************)
(* What the write path of otelite promises an exporter: a batch is stored  *)
(* as a whole or not at all, an acknowledged batch is stored and stays, an *)
(* attempt that was refused has left nothing behind, and a span batch is   *)
(* stored at most once.  A log or metric batch can be stored again by a    *)
(* retry of an attempt whose answer was lost.                              *)
(***************************************************************************)
CONSTANTS Exports, SpanExports, Attempts

VARIABLES
    copies,    \* export -> the attempts whose copy of the batch is stored
    refused,   \* export -> the attempts answered with an error
    acked      \* the exports answered with success

vars == <<copies, refused, acked>>

Init ==
    /\ copies = [e \in Exports |-> {}]
    /\ refused = [e \in Exports |-> {}]
    /\ acked = {}

Store(e, a) ==
    /\ a \notin copies[e] \cup refused[e]
    /\ e \in SpanExports => copies[e] = {}
    /\ copies' = [copies EXCEPT ![e] = @ \cup {a}]
    /\ UNCHANGED <<refused, acked>>

Refuse(e, a) ==
    /\ a \notin copies[e] \cup refused[e]
    /\ refused' = [refused EXCEPT ![e] = @ \cup {a}]
    /\ UNCHANGED <<copies, acked>>

Acknowledge(e) ==
    /\ e \notin acked
    /\ copies[e] # {}
    /\ acked' = acked \cup {e}
    /\ UNCHANGED <<copies, refused>>

Next ==
    \E e \in Exports :
        \/ \E a \in Attempts : Store(e, a) \/ Refuse(e, a)
        \/ Acknowledge(e)

Spec == Init /\ [][Next]_vars
=============================================================================
