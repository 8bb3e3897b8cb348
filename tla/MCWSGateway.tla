----------------------------- MODULE MCWSGateway -----------------------------
(***************************************************************************)
(* Small instances of WSGateway: the two gateways of a server process.     *)
(***************************************************************************)
EXTENDS WSGateway, TLC

Symmetric == Permutations(Gateways) \cup Permutations(Sockets)
=============================================================================
