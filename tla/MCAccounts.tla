------------------------------ MODULE MCAccounts ------------------------------
(***************************************************************************)
(* Small instances of Accounts.                                            *)
(***************************************************************************)
EXTENDS Accounts, TLC

Symmetric == Permutations(Calls \ Watched) \cup Permutations(Passwords)
=============================================================================
