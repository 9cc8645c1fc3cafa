---- MODULE MCReceiver ----
(* Two logs exports over gRPC and one over HTTP, one permit per service. *)
EXTENDS Receiver, TLC
CONSTANTS g1, g2, w1
LogsAndHttp == [h \in Handlers |-> IF h = w1 THEN "http" ELSE "logs"]
====
