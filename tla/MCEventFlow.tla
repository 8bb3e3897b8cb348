------------------------------ MODULE MCEventFlow -----------------------------
(***************************************************************************)
(* Small instances of EventFlow: the two gateways of a process.            *)
(***************************************************************************)
EXTENDS EventFlow

Pairs == Gateways \X Sockets
=============================================================================
