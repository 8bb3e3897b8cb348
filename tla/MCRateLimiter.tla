---------------------------- MODULE MCRateLimiter ----------------------------
(***************************************************************************)
(* Small instances of RateLimiter: two clients that share the gateway.     *)
(***************************************************************************)
EXTENDS RateLimiter, TLC

Symmetric == Permutations(Clients)
=============================================================================
