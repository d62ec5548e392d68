------------------------------- MODULE MCOutbox -------------------------------
(***************************************************************************)
(* A small instance of Outbox: one request that emits two messages, the    *)
(* worker that handled it, and a second one that only recovers.            *)
(***************************************************************************)
EXTENDS Outbox

OneRequest == {1}
TwoMessages == <<2>>
====
